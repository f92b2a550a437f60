----------------------------- MODULE DsdiffFile -----------------------------
(* The writer of DSDIFF files (dsdiff.c): the header is written when the file *)
(* is created and again, over it, when it is closed; between them come the    *)
(* frames, and after them a footer.  Every chunk says how long it is, the     *)
(* form says how long the file is, and the index says where each DST frame    *)
(* starts, all computed from counters that the writer keeps.                  *)
(*                                                                            *)
(* A chunk is [id, size, room, subs, info]: the size it declares, the bytes it *)
(* takes up in the file with its header and padding, the chunks inside it and  *)
(* what else it tells.                                                        *)
EXTENDS DsdiffLayout, Integers

HEADER == SizeOf(chunk_header_t)

Chunk(id, size, room, subs, info) ==
  [id |-> id, size |-> size, room |-> room, subs |-> subs, info |-> info]

\* A chunk without chunks in it: structure bytes with the header, text bytes.
Leaf(id, structure, text, info) ==
  Chunk(id, CALC_CHUNK_SIZE(structure - HEADER + text), CEIL_ODD_NUMBER(structure + text),
        <<>>, info)

RoomOf(chunks) == FoldLeft(LAMBDA n, c : n + c.room, 0, chunks)

\* A chunk that holds others after its own fields.
Container(id, structure, subs) ==
  Chunk(id, CALC_CHUNK_SIZE(structure + RoomOf(subs) - HEADER), structure + RoomOf(subs),
        subs, structure)

\* The state of a file: the counters of the writer, and the file as written.
NewDsdiff(dsd, edit) ==
  [dsd |-> dsd, edit |-> edit, frame_count |-> 0, audio_data_size |-> 0,
   frame_indexes |-> <<>>, audio |-> <<>>, header |-> <<>>, footer |-> <<>>,
   start |-> 0, closed |-> FALSE]

\* The names in DIAR and DITI: those of the track unless the file has all the
\* tracks, else the first that the album has; 0 stands for a name that is absent.
FirstOf(names) == SelectSeq(names, LAMBDA n : n > 0)
Name(edit, of_track, of_album) ==
  FirstOf((IF edit THEN <<>> ELSE <<of_track>>) \o of_album)

ChannelsChunk(channels) == Leaf("CHNL", SizeOf(channels_chunk_t) + 4 * channels, 0, channels)

CompressionChunk(dsd) ==
  Leaf("CMPR", SizeOf(compression_type_chunk_t), IF dsd THEN 14 ELSE 11, dsd)

PropertyChunk(channels, dsd) ==
  Container("PROP", SizeOf(property_chunk_t),
    <<Leaf("FS", SizeOf(sample_rate_chunk_t), 0, 2822400), ChannelsChunk(channels),
      CompressionChunk(dsd), Leaf("LSCO", SizeOf(loudspeaker_config_chunk_t), 0,
                                  LS_CONFIG(channels))>>)

\* The chunk the frames are in; only its own header, and for DST the chunk that
\* counts the frames, are part of the file's header.
SoundChunk(w) ==
  IF w.dsd
  THEN Chunk("DSD", CALC_CHUNK_SIZE(w.audio_data_size), SizeOf(dsd_sound_data_chunk_t), <<>>, 0)
  ELSE LET frte == Leaf("FRTE", SizeOf(dst_frame_information_chunk_t), 0, w.frame_count) IN
       Chunk("DST", CALC_CHUNK_SIZE(w.audio_data_size + SizeOf(dst_frame_information_chunk_t)),
             SizeOf(dst_sound_data_chunk_t) + frte.room, <<frte>>, 0)

\* The index of the DST frames.
IndexChunks(w) ==
  IF w.dsd \/ w.frame_count = 0 THEN <<>>
  ELSE <<Leaf("DSTI", SizeOf(dst_sound_index_chunk_t)
                        + w.frame_count * SizeOf(dst_frame_index_t), 0, w.frame_indexes)>>

\* A place in the file as hours, minutes, seconds and samples.
Marker(frames, type) ==
  LET seconds == frames \div SACD_FRAME_RATE IN
  Leaf("MARK", SizeOf(marker_chunk_t), 0,
       [hours |-> seconds \div 3600, minutes |-> (seconds % 3600) \div 60,
        seconds |-> (seconds % 3600) % 60,
        samples |-> (frames % SACD_FRAME_RATE) * SAMPLES_PER_FRAME * 64, type |-> type])

\* The markers of a file with all the tracks: where the program starts, where
\* each track starts, and where it stops when the next one is not there yet.
EditMarkers(times) ==
  LET stop(t) == TIME_FRAMECOUNT(times[t].start) + TIME_FRAMECOUNT(times[t].duration)
      Stops(t) == t = Len(times) \/ TIME_FRAMECOUNT(times[t + 1].start) > stop(t)
      Of(t) == (IF t = 1 THEN <<Marker(0, MARK_MARKER_TYPE.PROGRAMSTART)>> ELSE <<>>)
               \o <<Marker(TIME_FRAMECOUNT(times[t].start), MARK_MARKER_TYPE.TRACKSTART)>>
               \o (IF Stops(t) THEN <<Marker(stop(t), MARK_MARKER_TYPE.TRACKSTOP)>> ELSE <<>>)
  IN FlattenSeq([t \in 1..Len(times) |-> Of(t)])

\* The one marker of a file with one track: how long the track is.
TrackMarker(duration) ==
  Leaf("MARK", SizeOf(marker_chunk_t), 0,
       [hours |-> duration.minutes \div 60, minutes |-> duration.minutes % 60,
        seconds |-> duration.seconds,
        samples |-> duration.frames * SAMPLES_PER_FRAME * 64,
        type |-> MARK_MARKER_TYPE.INDEX_ENTRY])

NameChunks(id, structure, names) ==
  IF names = <<>> THEN <<>> ELSE <<Leaf(id, structure, Head(names), 0)>>

EditMasterChunk(w, ft) ==
  Container("DIIN", SizeOf(edited_master_information_chunk_t),
    (IF w.edit THEN <<Leaf("EMID", SizeOf(edited_master_id_chunk_t), 0, 0)>>
                    \o EditMarkers(ft.times)
     ELSE <<TrackMarker(ft.times[ft.track].duration)>>)
    \o NameChunks("DIAR", SizeOf(artist_chunk_t), Name(w.edit, ft.performer, ft.album_artist))
    \o NameChunks("DITI", SizeOf(title_chunk_t), Name(w.edit, ft.title, ft.album_title)))

\* Two comments, each rounded up to an even number of bytes.
CommentsChunk(ft) ==
  LET Comment(text) == CEIL_ODD_NUMBER(SizeOf(comment_t) + text)
      text == Comment(ft.album_comment) + Comment(ft.version_comment)
  IN Leaf("COMT", SizeOf(comments_chunk_t), text, 2)

TagChunks(w, ft) ==
  [t \in 1..(IF w.edit THEN Len(ft.times) ELSE 1) |-> Leaf("ID3", HEADER, ft.tag, 0)]

\* The header and the footer from the counters as they are now.
calculate_header_and_footer(w, ft) ==
  LET header == <<Leaf("FVER", SizeOf(format_version_chunk_t), 0, 0),
                  PropertyChunk(ft.channels, w.dsd), SoundChunk(w)>>
      footer == IndexChunks(w) \o <<EditMasterChunk(w, ft), CommentsChunk(ft)>> \o TagChunks(w, ft)
      header_size == CEIL_ODD_NUMBER(SizeOf(form_dsd_chunk_t) + RoomOf(header))
  IN [chunks |-> header, header_size |-> header_size, footer |-> footer,
      form |-> CALC_CHUNK_SIZE(header_size + RoomOf(footer) + w.audio_data_size - HEADER)]

dsdiff_create(dsd, edit, ft) ==
  LET w == NewDsdiff(dsd, edit)
      layout == calculate_header_and_footer(w, ft)
  IN [w EXCEPT !.header = layout, !.start = layout.header_size]

\* Where the file's end is: ftell after the header and what has been written.
Tell(w) == w.start + FoldLeft(LAMBDA n, f : n + f.room, 0, w.audio)

\* A mutant: the pad byte of a DST frame is written and not counted.
PadNotCounted(w, len) ==
  LET counted == [w EXCEPT !.frame_count = @ + 1]
      data == SizeOf(dst_frame_data_chunk_t) + len
  IN IF w.dsd
     THEN [counted EXCEPT !.audio_data_size = @ + len,
                          !.audio = Append(@, [len |-> len, room |-> len])]
     ELSE [counted EXCEPT
             !.frame_indexes =
               Append(@, [length |-> len, offset |-> Tell(w) + SizeOf(dst_frame_data_chunk_t)]),
             !.audio_data_size = @ + data,
             !.audio = Append(@, [len |-> len, room |-> data + (len % 2)])]

dsdiff_write_frame(w, len) ==
  LET counted == [w EXCEPT !.frame_count = @ + 1]
      room == SizeOf(dst_frame_data_chunk_t) + len + (len % 2)
  IN IF w.dsd
     THEN [counted EXCEPT !.audio_data_size = @ + len,
                          !.audio = Append(@, [len |-> len, room |-> len])]
     ELSE [counted EXCEPT
             !.frame_indexes =
               Append(@, [length |-> len, offset |-> Tell(w) + SizeOf(dst_frame_data_chunk_t)]),
             !.audio_data_size = @ + room,
             !.audio = Append(@, [len |-> len, room |-> room])]

\* The pad byte, the footer, and the header over the one written first.
dsdiff_close(w, ft) ==
  LET odd == w.audio_data_size % 2
      padded == [w EXCEPT !.audio_data_size = @ + odd,
                          !.audio = IF odd = 1 THEN Append(@, [len |-> 0, room |-> 1]) ELSE @]
      layout == calculate_header_and_footer(padded, ft)
  IN [padded EXCEPT !.header = layout, !.footer = layout.footer, !.closed = TRUE]

-----------------------------------------------------------------------------
(* What a reader of the file finds, chunk after chunk.                        *)

\* A reader steps from a chunk to the next by the size the chunk declares.
Step(chunk) == HEADER + CEIL_ODD_NUMBER(chunk.size)

RECURSIVE Readable(_)
Readable(chunk) ==
  /\ Step(chunk) = chunk.room
  /\ \A i \in 1..Len(chunk.subs) : Readable(chunk.subs[i])

\* The sound chunk goes on over the frames that follow the header.
SoundReadable(w) ==
  LET sound == w.header.chunks[3]
      frames == FoldLeft(LAMBDA n, f : n + f.room, 0, w.audio)
  IN Step(sound) = sound.room + frames

\* The index points at the sound of each frame and is as long as the frames.
IndexRight(w) ==
  LET At(k) == w.header.header_size
                 + FoldLeft(LAMBDA n, f : n + f.room, 0, SubSeq(w.audio, 1, k - 1))
                 + SizeOf(dst_frame_data_chunk_t)
      indexed == SelectSeq(w.footer, LAMBDA c : c.id = "DSTI")
  IN ~w.dsd => /\ Len(indexed) = IF w.audio = <<>> THEN 0 ELSE 1
               /\ w.header.chunks[3].subs[1].info = Len(w.audio)
               /\ \A k \in 1..Len(w.audio) :
                    indexed[1].info[k] = [length |-> w.audio[k].len, offset |-> At(k)]

\* Walking from the first chunk by the declared sizes ends where the form says
\* the file ends, and that is where it does end.
DsdiffLayoutHolds(w) ==
  LET file == Tell(w) + RoomOf(w.footer) IN
  /\ w.start = w.header.header_size
  /\ \A i \in 1..2 : Readable(w.header.chunks[i])
  /\ SoundReadable(w)
  /\ \A i \in 1..Len(w.footer) : Readable(w.footer[i])
  /\ HEADER + w.header.form = file
  /\ IndexRight(w)

\* The places that the markers give, in frames.
Place(m) ==
  ((m.hours * 60 + m.minutes) * 60 + m.seconds) * SACD_FRAME_RATE
    + m.samples \div (SAMPLES_PER_FRAME * 64)

\* In a file with all tracks the markers are in order of time, every track
\* starts at its own place and none is still going on when the next one starts.
MarkersRight(w, ft) ==
  LET diin == SelectSeq(w.footer, LAMBDA c : c.id = "DIIN")[1]
      marks == SelectSeq(diin.subs, LAMBDA c : c.id = "MARK")
      starts == SelectSeq(marks, LAMBDA c : c.info.type = MARK_MARKER_TYPE.TRACKSTART)
  IN w.edit =>
       /\ \A i \in 1..(Len(marks) - 1) : Place(marks[i].info) <= Place(marks[i + 1].info)
       /\ [t \in 1..Len(starts) |-> Place(starts[t].info)]
            = [t \in 1..Len(ft.times) |-> TIME_FRAMECOUNT(ft.times[t].start)]
       /\ marks[Len(marks)].info.type = MARK_MARKER_TYPE.TRACKSTOP
=============================================================================
