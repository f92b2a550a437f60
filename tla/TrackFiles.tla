----------------------------- MODULE TrackFiles -----------------------------
(* From the sectors of an area to the files of its tracks: for each track in  *)
(* turn its range of sectors is read in blocks, the blocks become frames      *)
(* (FrameAssembly), and the frames, decoded when DST is exported as DSD, are  *)
(* written by the format's handler (DsfFile, DsdiffFile).  One thread does all *)
(* of this for a file; the decoder delivers in the order it is given           *)
(* (DstDecoder), so it is taken here as a function on frames.                  *)
EXTENDS FrameAssembly, DsfFile, DsdiffFile

CONSTANTS Discs,        \* areas: [sectors, starts, dst, channels, extra_settings]
          Formats,      \* [handler, dsd (dsd_encoded_export), nopad (dsf_nopad)]
          Selections,   \* the tracks that are ripped, in order
          Texts,        \* what names and tags a file gets
          MaxBlock      \* sectors in a block at most

VARIABLES disc, format, selection, text,
          phase,        \* "next", "open" or "done"
          item,         \* how many of the selected tracks have been started
          pos,          \* the next sector to read
          h,            \* the handle: scarletbook_handle_t
          file,         \* the file that is open
          previous,     \* the static buffers of dsf.c
          files,        \* the files that have been closed
          frames        \* for each file what the callback was given

vars == <<disc, format, selection, text, phase, item, pos, h, file, previous, files, frames>>

track_count == Len(disc.starts)

\* Tracks are numbered from 0 in the code.
Track == selection[item] - 1

\* One item for each selected track, or one for all of them.
Items == IF format.handler = "edit" THEN 1 ELSE Len(selection)

\* A file with all tracks goes from the first sector to the last; the file of a
\* track ends with the sector in which the next track starts, which is read
\* again for that one.
FirstSector(t) == disc.starts[t + 1]
\* A mutant: a track ends with the last sector before the next one's.
StopsBeforeNext(t) ==
  IF format.handler # "edit" /\ t < track_count - 1 THEN disc.starts[t + 2] - 1
  ELSE Len(disc.sectors)

LastSector(t) ==
  IF format.handler # "edit" /\ t < track_count - 1 THEN disc.starts[t + 2] ELSE Len(disc.sectors)

\* What the DSDIFF writer takes from the disc.
Ft(t) == [channels |-> disc.channels, times |-> text.times, track |-> t + 1,
       performer |-> text.performer, title |-> text.title,
       album_artist |-> text.album_artist, album_title |-> text.album_title,
       album_comment |-> 27 + text.comment, version_comment |-> 22, tag |-> text.tag]

\* What a frame is when it comes to the writer.
Decodes == disc.dst /\ format.dsd
WrittenSize(frame) == IF Decodes THEN FRAME_SIZE_64 * disc.channels ELSE frame.size
BytesOf(frame) == [k \in 1..WrittenSize(frame) |-> <<Head(frame.data), k>>]

startwrite(t) ==
  CASE format.handler = "dsf" ->
         dsf_create(disc.channels, t, format.nopad, previous,
                    disc.extra_settings, text.tag)
    [] format.handler = "dsdiff" -> dsdiff_create(format.dsd, FALSE, Ft(t))
    [] format.handler = "edit" -> dsdiff_create(format.dsd, TRUE, Ft(t))

write(w, frame) ==
  IF format.handler = "dsf" THEN dsf_write_frame(w, BytesOf(frame))
  ELSE dsdiff_write_frame(w, WrittenSize(frame))

stopwrite(w) ==
  IF format.handler = "dsf"
  THEN dsf_close(w, format.nopad, Track, track_count, disc.extra_settings, text.tag)
  ELSE dsdiff_close(w, Ft(Track))

-----------------------------------------------------------------------------
Init ==
  /\ disc \in Discs /\ format \in Formats /\ selection \in Selections /\ text \in Texts
  /\ disc.dst \/ format.dsd
  \* main asks for it only when no tracks are selected
  /\ format.nopad => selection = [i \in 1..track_count |-> i]
  \* a track without a frame would leave dsf.c with pointers it never set
  /\ format.nopad =>
       \A t \in 0..(track_count - 1) :
         FramesOf(SubSeq(disc.sectors, FirstSector(t), LastSector(t)), TRUE) # <<>>
  /\ phase = "next" /\ item = 0 /\ pos = 0
  /\ h = NewHandle
  /\ file = <<>>
  /\ previous = [c \in 1..disc.channels |-> <<>>]
  /\ files = <<>> /\ frames = <<>>

CreateFile ==
  /\ phase = "next" /\ item < Items
  /\ item' = item + 1
  /\ LET t == selection[item + 1] - 1 IN pos' = FirstSector(t) /\ file' = startwrite(t)
  /\ h' = scarletbook_frame_init([h EXCEPT !.given = <<>>])
  /\ phase' = "open"
  /\ UNCHANGED <<disc, format, selection, text, previous, files, frames>>

\* A block of n sectors; the last one of the file also ends the last frame.
ReadBlock ==
  \E n \in 1..MaxBlock :
    LET last == LastSector(Track)
        h1 == scarletbook_process_frames([h EXCEPT !.given = <<>>],
                SubSeq(disc.sectors, pos, pos + n - 1), pos + n - 1 = last)
    IN /\ phase = "open"
       /\ pos + n - 1 <= last
       /\ pos' = pos + n
       /\ file' = FoldLeft(write, file, h1.given)
       /\ h' = [h1 EXCEPT !.given = h.given \o h1.given]
       /\ UNCHANGED <<disc, format, selection, text, phase, item, previous, files, frames>>

CloseFile ==
  LET keeps == format.handler = "dsf" /\ Keeps(format.nopad, Track, track_count) IN
  /\ phase = "open" /\ pos > LastSector(Track)
  /\ previous' = IF keeps THEN file.buffer ELSE previous
  /\ files' = Append(files, stopwrite(file))
  /\ frames' = Append(frames, h.given)
  /\ phase' = "next"
  /\ UNCHANGED <<disc, format, selection, text, item, pos, h, file>>

Finish ==
  /\ phase = "next" /\ item = Items
  /\ phase' = "done"
  /\ UNCHANGED <<disc, format, selection, text, item, pos, h, file, previous, files, frames>>

Done == phase = "done" /\ UNCHANGED vars

Next == CreateFile \/ ReadBlock \/ CloseFile \/ Finish \/ Done

Spec == Init /\ [][Next]_vars

-----------------------------------------------------------------------------
TypeOK ==
  /\ phase \in {"next", "open", "done"}
  /\ item \in 0..Items
  /\ pos \in 0..(Len(disc.sectors) + 1)
  /\ h.frame.size \in 0..(MAX_DST_SIZE - 1) /\ h.frame.sector_count \in Int
  /\ Len(files) = Len(frames) /\ Len(files) <= item
  /\ DOMAIN previous = 1..disc.channels

SectorsRead == SubSeq(disc.sectors, FirstSector(Track), pos - 1)

\* The callback is given exactly the frames that are whole on the disc, each
\* with all its packets and in their order, whatever blocks the sectors are read
\* in, however the packets of a frame are spread over sectors and whatever
\* incomplete frames are between them (exec_read_callback, process_frames).
FramesExact ==
  (phase = "open" /\ pos > FirstSector(Track)) =>
    [k \in 1..Len(h.given) |-> h.given[k].data]
      = FramesOf(SectorsRead, pos > LastSector(Track))

\* A frame that goes on into another sector is in one file and in no other,
\* although neighbouring tracks both read the sector in which the later starts.
SpreadFramesOnce ==
  LET all == FramesOf(disc.sectors, TRUE)
      given == FlattenSeq([f \in 1..Len(frames) |->
                 [k \in 1..Len(frames[f]) |-> frames[f][k].data]])
      Spread(frame) == Len(frame) > 1
  IN (phase = "done" /\ selection = [i \in 1..track_count |-> i]) =>
       SelectSeq(given, Spread) = SelectSeq(all, Spread)

DsfFiles == format.handler = "dsf"

\* The samples of channel c in the frames of the first n files.
SamplesOf(c, n) ==
  LET all == FlattenSeq([f \in 1..n |-> frames[f]])
      Mine(frame) == [k \in 1..(WrittenSize(frame) \div disc.channels) |->
                        <<Head(frame.data), (k - 1) * disc.channels + c>>]
  IN FlattenSeq([k \in 1..Len(all) |-> Mine(all[k])])

\* What is played of the DSF files, one after the other, is each channel's
\* samples in order, none lost, none twice and no padding between them; without
\* padding the end of a track is still in the static buffers.  The header says
\* how long the file and its data are (dsf_write_frame, dsf_close, dsf_create).
DsfFilesRight ==
  DsfFiles =>
    /\ \A f \in 1..Len(files) : DsfLayoutHolds(files[f])
    /\ \A c \in 1..disc.channels :
         LET played == FlattenSeq([f \in 1..Len(files) |-> PlayedOf(files[f], c)])
             kept == IF phase = "next" /\ Keeps(format.nopad, Track, track_count)
                     THEN previous[c] ELSE <<>>
         IN (phase # "open" /\ item > 0) => played \o kept = SamplesOf(c, Len(files))

\* A DSDIFF file that has been closed can be walked chunk by chunk to its end,
\* its index points at its frames and its markers are where the tracks are
\* (calculate_header_and_footer, called before and after the audio is written).
DsdiffFilesRight ==
  ~DsfFiles => \A f \in 1..Len(files) :
                  /\ DsdiffLayoutHolds(files[f])
                  /\ MarkersRight(files[f], Ft(selection[f] - 1))
                  /\ files[f].frame_count = Len(frames[f])

\* "The pad byte is not included in chunk_data_size." (dsdiff.h:157): the tag's
\* chunk, whose data is the tag alone, is as long as the tag.
SizesLeaveOutPad ==
  ~DsfFiles => \A f \in 1..Len(files) : \A c \in Range(files[f].footer) :
                  c.id = "ID3" => c.size = text.tag
=============================================================================
