# sacd-ripper in TLA+

Models, model-checking runs and machine-checked proofs for `sacd_extract`, the
program of this repository that reads a Super Audio CD (an image file, or a
drive reached over the network) and writes ISO, DSF or DSDIFF files.

## The system

```
 main ── enqueue, start, destroy ──► scarletbook_output (processing thread)
   │                                     │ reads blocks      │ starts, joins
 SIGINT ── stop_processing ─────────────►│                   ▼
                                 sacd_reader          frame thread
                                 sacd_input           scarletbook_process_frames
                              (file | device | net)        │ frames
                                                           ▼
                               dst_decoder: caller ► decode list ► decode threads
                                                           ► write list ► write thread
                                                           │ decoded frames
                                                           ▼
                                                   writer: dsf | dsdiff | iso
```

| Component | State it keeps | Operations | Hard behaviour | Correct when |
|---|---|---|---|---|
| `yarn.c` | locks (mutex, condition variable, value); global list of threads launched and not joined | possess, release, twist, wait_for; launch, join, join_all | lost and spurious wakeups; one list for all users | no waiter is forgotten; join_all joins what it should |
| `buffer_pool.c` | list of free spaces, limit, made; a use count per space | get_space (may wait), use_space, drop_space, create, free | two levels of locks taken in opposite orders | a space has one owner, use counts are right, no deadlock |
| `dst_decoder.c` | decode list, sorted write list, two pools, threads | create, decode, destroy; decode threads, write thread | results out of order, pool running empty, shutdown | frames delivered once, in order, with their own data; destroy waits |
| `scarletbook_output.c` | queue of files and sub queue, stop flag, read buffer, current file(s) | enqueue, start, interrupt, destroy; processing thread, frame thread | overlap of reading and frame processing, ^C, failed reads and creations | files hold the right sectors, kept files are whole, nothing is left behind |
| `main.c` | options, the names in hand, the output, the handler's print lock | option parsing, naming, enqueueing, cue sheets, SIGINT handler, progress | a signal at any time; options that answer each other; names that are taken | what is asked for is enqueued, nothing is overwritten, an interrupt is obeyed |
| `scarletbook_read.c` | disc tables; packet index, frame being assembled | open, close, process_frames | a disc that is not whole; frames span packets, sectors and blocks | what was opened is released; each frame once, whole, in order |
| `sacd_input.c`, `sacd_reader.c`, `sacd_pb_stream.c` | file position; connection, input buffer | open, read, total, close | short reads, messages in pieces, a server that goes away | the sectors asked for, or fewer, or an error |
| writers `dsf.c`, `dsdiff.c`, `iso_writer.c` | channel buffers, static buffers, chunk sizes, index | create, write, close | carry-over of a track's tail, sizes patched at the end | headers agree with what was written, no sample lost |
| DST codec `dst_fram.c`, `unpack_dst.c`, `dst_init.c` | bit position, tables, filters, arithmetic decoder | decode a frame | damaged frames, tables left over from the frame before | a frame is its own bits' frame, or silence |
| `fileutils.c`, `utils.c`, `scarletbook_helpers.c`, `scarletbook_id3.c`, `libid3`, `cuesheet.c` | none that lasts | sanitise, find a free name; build a tag, a cue sheet | names that are taken, texts in two encodings | a name that is free; tags and sheets that say what the disc says |
| `usocket.c`, `timeout.c` | deadline | send, receive, connect | partial transfers, interruptions | all is sent or an error comes back |
| printing, logging | none that lasts | formatting | | |
| PlayStation 3 code | SPU and drive sessions | key exchange, decryption | | |

The hazards this code is exposed to are listed at their lines in
`PROJECT.json`, each with the property that watches it or the reason why none
does yet.  The repository has no tests; assertions are live in its builds.

## Modules

| Module | Models |
|---|---|
| `DstDecoder` | `dst_decoder.c`, with the threads list of `yarn.c` |
| `FrameStream` | what a decoder promises its caller (abstract) |
| `DstDecoderProofs` | theorems about `DstDecoder` |
| `YarnLock` | the locks of `yarn.c` |
| `BufferPool` | `buffer_pool.c`, one step for each lock operation |
| `Pool` | what a pool promises, one step for each call (abstract) |
| `BufferPoolProofs` | theorems about `BufferPool` |
| `RipOutput` | `scarletbook_output.c` as `main.c` drives it |
| `RipOutputProofs`, `RipSectorsProofs` | theorems about `RipOutput` |
| `ScarletbookLayout`, `DsdiffLayout` | sizes of the structures on a disc, in a DSF and in a DSDIFF file |
| `FrameAssembly` | `scarletbook_process_frames`, and the frames a list of sectors has (reference) |
| `DsfFile`, `DsdiffFile` | the writers, and what a reader makes of their files (reference) |
| `TrackFiles` | the three composed: from the sectors of an area to the files of its tracks |
| `DstTables` | `unpack_dst.c`: what a DST frame says before its audio |
| `DstFrame` | `dst_fram.c`: decoding of the frame with those tables |
| `DstTablesProofs`, `DstFrameProofs` | theorems about `DstFrame`: up to the audio, and the audio |
| `PbMessage` | `sacd_pb_stream.c` and the part of nanopb it needs: messages on a connection |
| `NetInput` | `sacd_input.c` over the network with `usocket.c`, and the server as it is seen from here (external) |
| `SacdInput`, `SacdReader` | `sacd_input.c` for a file, `sacd_reader.c` |
| `ScarletbookOpen` | `scarletbook_open` and `scarletbook_close`; all input modules composed |
| `SacdInputProofs` | the theorem about what a read delivers |
| `ScarletbookOpenProofs` | the theorems about the handle of a disc and what is held of it |
| `FileNames` | `fileutils.c`, `utils.c` and the names of `scarletbook_helpers.c` |
| `Id3Tag`, `CueSheet` | the tag of a track, as `scarletbook_id3.c` and `libid3` make it; `cuesheet.c` |
| `Session` | `main.c` from the command line to the files that are made |
| `MCDstDecoder`, `MCBufferPool`, `MCRipOutput`, `MCTrackFiles`, `MCDstFrame`, `MCDisc`, `MCSession` | the instances that TLC checks |

### DstDecoder

The caller (`mpc`), each decode thread (`dpc[w]`) and the write thread (`wpc`)
have a program counter.  A step is one critical section with the thread-local
code behind it, or one call of a buffer pool:

| Code | Actions |
|---|---|
| `dst_decoder_create`, `setup_decoding_jobs` | `dst_decoder_create` |
| `dst_decoder_decode` | `DecodeGetSpace`, `LaunchIfNeeded`, `AppendJob` |
| `finish_write_job` | `FinishWriteJob`, `LaunchIfNeeded`, `AppendJob`, `JoinWriter` |
| `finish_decoding_jobs` | `StopWorkers`, `JoinAllRound`, `JoinAllReturns`, `FreeDecoder` |
| `decode_thread` | `TakeJob`, `LeaveOnStop`, `GetOutSpace`, `DecodeFrame`, `DropInSpace`, `InsertJob` |
| `write_thread` | `TakeWriteJob`, `Emit`, `DropOutSpace`, `WriterExit` |

`wait_for` is the guard of the step it opens.  A space is its number and has
contents (`in_mem`, `out_mem`): the caller writes the number of the frame, a
decode thread reads it and writes what it decodes to, so that a shared buffer
shows as a wrong sample.  `DST_InitDecoder` and `DST_CloseDecoder` return 0 on
every path, so the threads' early exits on their failure are not steps.
The stop job is the `job` on `finish_decoding_jobs`'s stack: it replaces the
list and stays in it.

`FrameStream` has no threads: frames are fed, delivered in order, and destroy
returns when all are out.  `ImplementsFrameStream` is the refinement, with
`status` read off the caller's place and `fed` off the sequence number;
it includes liveness: everything fed is delivered and destroy returns.

### BufferPool, YarnLock and Pool

`get_space` possesses `have` and then a space's `use`; `drop_space` possesses
`use` and then `have`.  Every possess, wait, twist and release is a step.  A
thread that waits is in `asleep` until a twist, or a spurious wakeup, after
which it has to get the mutex again and test again.  As the decoder uses a
pool, one thread gets a space and another drops it: `refs` counts the
references that are on the way between them.  `use_space` has no caller in the
repository; the model has it because the pool's interface does.

`Pool` makes every call one step.  `ImplementsPool` shows the calls atomic, the
linearisation points being the unlinking in `get_space`, the counting of a
new space, and in `drop_space` the linking or the last twist.

### RipOutput

The steps of the processing thread end where another thread may see or change
what it works with: the stop flag, `read_buffer`, a frame thread.  One pass of
the loop is `ReadBlock` (or `ReadError`), `CopyBlock`, `ProcessBlock`; the end
of a range is `LoopAtEnd`, `FinishSub` and then `GapBeforeSub`, `StartSub`,
`StartSubFails` or `NoMoreSubs`; `Cancel` and `FinishItem` are what follows the
loop.  The frame thread takes the sectors of a block out of `read_buffer` one
by one.  Its decoder is what `FrameStream` shows of it, open or destroyed.

A sector is its number and whether `sacd_decrypt` has been called for it (on a
PC that call does nothing, since images are decrypted already; which sectors
it is called for is the same).  A file is the sequence of sectors handed to
its writer.  A read returns any number of sectors from none up to those asked
for and there, or fails; a failed read ends in `crashed`, where memcpy is
given -1 sectors, as does closing a DSF file that could not be created.  When
the first encrypted read returns nothing, the test for a disc without
encryption reads what the buffer held before, and may come out either way.

Not in it: the branch at lines 449-465, which needs a track that starts at
sector 0; the `SECTOR_LIMIT` build; statistics; failing mallocs and thread
creation; the flag that tells the frame thread of the last block.

### TrackFiles, FrameAssembly, DsfFile and DsdiffFile

One thread's work for one file after another, in the order in which the
processing and the frame thread do it; what they may do to each other is
`RipOutput`'s subject, and the decoder is a function on frames here, as
`FrameStream` allows.  `CreateFile` is the handler's `startwrite`, `ReadBlock`
one block through `scarletbook_process_frames` and the callback, `CloseFile`
the last block and `stopwrite`.

A packet is its identity and length, a byte of audio the frame it belongs to and
its place there.  `FrameAssembly` has the handle of `scarletbook_read.c` as a
record that goes through a sector packet by packet (`ProcessPacket`), and keeps
what the C keeps between sectors: the frame begun, the frame information read
last, without DST the stale fourth byte of it.  `FramesOf` is the reference: all
audio packets in one list, cut where a frame starts, the pieces that are whole.
`FramesExact` compares the two for the sectors read; `SpreadFramesOnce` says that
a whole frame over several sectors is in the file of one track, or of the two
that share its sectors, and never in none.  A small frame that lies in a shared
sector only may well be in both.

`DsfFile` fills a buffer for each channel and writes it as a block when it is
full; with `dsf_nopad`, which main passes on only when no tracks are selected
(main.c:517, :595), what is left goes on in static buffers (`previous`).
`DsfFilesRight` plays the files by their headers: the samples of an album's
tracks in sequence are the samples given, and a padded file is those of its
track.  `DsdiffFile` has a chunk as its declared size, the room it takes and the
chunks in it; `DsdiffFilesRight` follows sizes from chunk to chunk, the index to
every frame, and the markers to the tracks' times.

The assumption `FRAME_SIZE_64` larger than a packet is one of the instance: a
sector is shorter than one channel of a frame, so that a DSD frame cut short
never looks whole.  Without padding every track is taken to deliver a frame.
The size that a DSDIFF chunk declares contains its pad byte (`CALC_CHUNK_SIZE`),
which the comment at dsdiff.h:157 excludes (finding 4); a reader that skips by the
size finds every chunk all the same, and that is what `DsdiffFilesRight` asks.

### DstFrame and DstTables

One frame through the codec.  `DstTables` reads what stands before the audio, a
step for each field (`ReadEndOfChannel`, `ReadSegmentLen`, `ReadTable4Segment`,
`ReadRiceEntry` ...): a field is any value its bits may have, and none when the
frame ends before it, so a frame is cut up as the code demands it and never
enumerated.  `Stale` is what the memory of the frame before holds in every
table; `TablesDefined` says that what a bit of audio uses has been read from this
frame.  `DstFrame` decodes a bit of one channel in a step (`DecodeBit`): the
segment's filter and table, the prediction from the history bits, the residual
from the arithmetic decoder.  `PredictionExact` holds the table-driven filter,
with its 16 bit sums, against the products it stands for; only the largest sum
there is does not fit and comes out negative.  `StaysInInterval` is about the two
registers.  `FrameAnswered` says that each bit put out of each channel, of a coded
frame or a plain one, is the one that this frame has given, so nothing is left of
the frame before, and that a frame with an error is silence in each byte; `given`
is a history variable that notes the bits where they are decoded or copied.

The tables of segments have a row for each of `MAX_CHANNELS` channels, and a frame
may have as many.  A segment more than a row has places for (finding 5) is then
copied behind the last row too, where the number of segments of channel 0 is
(`CloseAllChannels`): channel 0 gets as many segments as its first one is long.
If these are more than were read, the loop that copies goes on over the tables
themselves, and the frame ends there (`overrun`): what it does to the memory
behind is not modelled.

Widths are scaled (a byte has 2 bits, a filter up to 4 coefficients): every
field keeps its part in the arithmetic, and `WORD` is where the C's unsigned
values wrap.  Method 3 of the Rice coded tables reads an order that is no entry of
`CPredOrder` (unpack_dst.c:675, :771); it is taken as no prediction or a very long
one.  A plain frame cut short is decoded with zeros for what is missing, and
arithmetic code is not compared with the length it needs (unpack_dst.c:934);
`LT_ACDecodeBit_Flush` notices only that more than seven bits were left.

### ScarletbookOpen, SacdReader, SacdInput, NetInput and PbMessage

A program that opens a disc, reads it and closes it: `pc` is where
`scarletbook_open` and the program around it are, `call` the operation of the
input that is under way and where in it, so that a step is what happens between
two waits.  `heap` and `fds` have every allocation and descriptor by name.

| Code | Actions |
|---|---|
| `sacd_open`, `sacd_close` | `sacd_open`, `ResolveDirectory`, `LookUpMount`, `sacd_open_image_file`, `sacd_close`, `FreeReader` |
| `sacd_dev_input_*` | `sacd_dev_input_open`, `_read`, `ReadPiece`, `ReadReturns`, `_close`, `_total_sectors` |
| `sacd_net_input_*` | `sacd_net_input_open`, `Connect`, `StartRequest`, `SendRequest`, `ReadUnit`, `ReadEof`, `HaveAnswer`, `socket_destroy` |
| `scarletbook_open` | `scarletbook_open`, `scarletbook_read_master_toc`, `StartArea`, `ReadArea`, `ReadBlock` |
| `scarletbook_close` | `CloseBook`, `scarletbook_close` |
| the server (external) | `ServerAnswers`, `ServerSends`, `ConnectionBreaks` |

A message is a sequence of units: a tag, a number, the bytes of a field.  The
decoder takes one unit at a time out of the stream and may find the connection
gone before any of them.  Requests have no number, so an answer that is not read
to its end is the beginning of the next (`inStep` is false from then on).  Two
things do that: skipping a field's bytes, because the callback counts what it skips
below zero (sacd_pb_stream.c:51), and data without any bytes, as a read behind the
end of the disc may get: the `recv` of none returns 0, which is taken for a
connection that is closed (usocket.c:281).  What is left of an answer to a
read may have data, which the next operation has no place for: its pointer was
never set (sacd_input.c:327, :414, :464; pb_decode.c:374).  `ReadBytesAstray` has what that
may come to, except that other memory is not in the model; where the data stays
in the stream it is read as if it were fields (`ReadAmiss`), and the bound is that it
never passes for one the client knows.  `SectorsDelivered` compares what a read has put
in the buffer, half a sector at a time, with where it was to come from, while
`inStep`; `ReleasedAtEnd` says what is still allocated or open at the end.  Not
everything is: the exceptions in the property are the areas no index points to
and the texts whose pointer has been used again, and they are in the code.  A disc
is `Sound` when it has none of these: then nothing at all is left, if its tables
have been read as they lie there.

Seen on the way and recorded as hazards: a short read of a file is continued at
the start of the buffer (sacd_input.c:245); the timeout of connecting is started
uninitialised (:355); without memory for the input buffer, descriptor 0 is
closed (:343); a second language's `description_phonetic` replaces the first
(scarletbook_read.c:401); without memory while a directory is resolved, what was
held is lost (sacd_reader.c:234).

### Session, FileNames, Id3Tag and CueSheet

`Session` is `main` in order: one option in a step (`parse_options`),
`CheckOptions`, `OpenDisc`, a cue sheet for each area (`ExportCue`), the image, the
edit masters or the tracks into the queue (`QueueImage`, `QueueEditMaster`,
`QueueTracks`), then each file as it is created (`create_output_file`).  A name
is a sequence of characters, some wider than a byte, some not allowed in a file;
`FileNames` makes an album's directory and a track's file of them, blanks what
is unsafe, trims, cuts at a byte count but never inside a character, and tries
numbers until a name is free.  `Id3Tag` builds the frames of a tag as bytes and
reads them back as the library would.

`OptionsHonoured` has, said from the command line alone, what is to be queued
(`QueueAsAsked`: which files, of which tracks, as DST or DSD, hanging on the
image or not); that two areas do not write into one directory; that a sheet's
gaps are the disc's; and that a tag reads back as what the disc says, to its
last byte, just when none of its frames is longer than `ID3_FD_BUFSIZE` (a longer one is
written, and the reader then refuses the tag, id3.c:91).  `NothingOverwritten`: a name is found free when a file is queued, and
the file is made later, after others; still none is made over one that is there.

What the code does not check is a premise: a disc has no more tracks than fit
two digits and `selected_tracks`; a `-t` without a number after one with numbers
takes the selection back (main.c:216, `SensibleSelection`); every area has its
ISRC and genre table (scarletbook_id3.c:117 tests an address that is never
null); a tag is below 16 KB, where `SET_SIZE28` is right; nobody else writes the
directories during the rip.  `trim_whitespace` of a text of blanks looks at the
byte before it (utils.c:152, fileutils.c:461), taken as not blank.  Names have no
capacity, so that main.c:569, where a longer name is copied into the place of a
shorter one, is a hazard without a property.  A file's creation fails here only
because its directory is missing.  A cue sheet's FILE line names the sheet itself
(main.c:438), which `SheetsRight` says as it is.  `-I` with `-s` or `-p` but without `-w`
writes the image and no tracks; `QueueAsAsked` has this as its one exception to what the
command line asks for (`LeftOut`).

## Runs

| Run | Shows |
|---|---|
| `dst_decoder` | ordered delivery, private buffers, the code's assertions, orderly shutdown, refinement of `FrameStream` with liveness |
| `buffer_pool` | use counts and free list always agree, assertions, refinement of `Pool`, every `get_space` is served |
| `rip_output` | right sectors, whole files, clean end, one decoder at a time, frame threads undisturbed; the rip ends |
| `rip_cancelled` | finding: a rip may be cancelled by `scarletbook_output_destroy` itself |
| `rip_interrupt` | finding: an interrupt between two files is lost |
| `rip_concurrent` | finding: concurrent mode starts later tracks one sector late |
| `track_files` | every whole frame of a track reaches its file; no sample of a DSF album is lost or repeated; sizes, indexes and markers in the files can be followed |
| `dsdiff_pad` | finding: the declared size of a DSDIFF chunk counts its pad byte |
| `dst_frame` | what a frame defines is what its bits use; the filter has seen the bits put out; the arithmetic decoder stays in its interval; every bit put out is one the frame has given, or the frame is silence |
| `dst_segments` | finding: one segment more than the limit |
| `disc` | the sectors a read returns are those asked for; what was opened is released; the program ends |
| `session` | the queue, the sheets and the tags are what options and disc say; nothing that is there is overwritten |

Every property has a mutant in `PROJECT.json`: a definition changed as a
plausible bug would change it (the operators commented *Variant with a fault*
in the modules), under which TLC finds the property violated.

### Findings

1. `scarletbook_output_destroy` sets `stop_processing` right after
   `scarletbook_output_start` and then joins.  The rip goes on only because
   the processing thread usually resets the flag later, at line 467.  If the
   thread is faster, it takes the flag for ^C, removes the file and drops the
   queue.  The same flag cannot mean "finish" and "stop".
2. That reset also erases a real ^C which comes while a file is being closed
   or created.  The next file is then ripped to its end.
3. In concurrent mode a track's range includes the sector it shares with the
   next (`length_lsn` has + 1), and the next starts where the first ended, so
   one sector late; a track ripped by itself starts with that sector.
4. The size that a DSDIFF chunk declares is rounded up to an even number, and so
   counts the pad byte of odd data; dsdiff.h:157 and the comments of single chunks
   say that it is not included.  A reader that takes the size at its word gets one
   byte more than the data, of the tag for instance.
5. When all channels share a segmentation, the limit on segments is tested only
   after the bit that announces one more, so a channel may have one segment
   more than `MAXNROF_SEGS`, past the rows of the tables.  With one segmentation
   per channel the same excess is refused.  With six channels the copy for the
   last of them overwrites the number of segments of channel 0.

### Bounds, and why they are enough

- `dst_decoder`: 2 decode threads, an input pool of 2 spaces (the code makes
  2 * procs + 2), 4 frames, of which frame 1 does not decode; decoders are
  created and destroyed again and again.  Two threads are enough for results
  out of order; 4 frames empty a pool of 2 twice, so that the caller waits and
  spaces are used again; the decoder is also destroyed before all its threads
  are launched.
- `buffer_pool`: 2 getters, 2 droppers, 2 spaces, limits 1, 2 and none.  Lock
  order needs one thread from each side, lost wakeups two waiters.  `MaxSpaces`
  bounds a pool without limit, and `shared` calls `use_space` once for a space
  handed out.
- `rip_output`: discs of up to 12 sectors, with two areas, with three tracks in
  one area, and cut off before their end; blocks of up to 3 sectors, so that
  area edges, track edges and block edges all fall in different places; a last
  track of one sector; every mode, format and selection of `MCRequests`.  At most
  one ^C, since the flag does not count.
- `track_files`: areas of four frames in three tracks, each frame of one of four
  kinds (two and three packets, one that lacks a packet, one too large), DST and
  DSD; all tracks, or the first and the last (padded); blocks of one or two sectors, so that a frame may begin, go on and end in
  different blocks; DSF blocks of 3 bytes for 4 bytes of a channel in a frame, so
  that tracks end inside a block; tags and texts of even and odd length, for
  the pad byte.  Three tracks are needed for a first, a middle
  and a last one.
- `dst_frame`: one channel or two, of two that there are rows for, 12 bits of audio
  for each, segments of at least 2 and 4 bits, up to three segments a channel in
  rows of two, filters of one or four coefficients from {-2, 1}, tables of one or
  two entries.  Frames are of 1 byte (plain, or cut short), 10 (cut short in the
  tables), 13, 16 and 20: `LongFrames`, a CONSTRAINT, keeps of the three longest those
  that the shorter ones cannot be (several segments with tables of their own; code
  that outlasts the audio; a segment more than a row has, of all channels).
- `disc`: 12 sectors, two areas, nine discs that are whole or differ from a whole
  one in one place; four file sizes; one read of the disc (`MaxRips`), inside the
  file, over its end and behind it (`RipSectors`); one short read in a run
  (`pieces`); one unit on its way at a time.  A server may add a field of each
  wire type.  Each allocation of opening may fail.
- `session`: 3015 command lines, being up to two options after one of six
  beginnings (all of the options that answer each other); three discs, with
  names that are missing, unsafe, of two bytes or too long; four states of the
  directories.  `TRIES` is 2 of 64, `NUMBERED` 3 of 99, `MAX_NAME` 4 of 60 bytes and
  `SELECTABLE` 4 of 256: each is reached.  `ID3_FD_BUFSIZE` is 6 of 8192, reached too:
  the tags with a longer text do not read back.

### Fairness, and why the code justifies it

Threads are preemptively scheduled, so a thread that can go on does: weak
fairness for each thread.  The caller of the decoder need not call, but
inside a call it goes on (`CallerRuns`).  In `BufferPool` a mutex may be taken
by others again and again; strong fairness there says that a thread which
finds it free again and again gets it in the end, and that a reference in a
job is dropped at some time, as `dst_decoder` drops all of its.  Nobody has to
press ^C.  Reads are not assumed to return data: `RipEnds` says that only
reads which return nothing, over and over, keep a rip from ending, and
`StopEnds` that a stop ends it even then.

In `ScarletbookOpen` the program is one thread and goes on.  Over the network it
waits without limit: the socket blocks and `socket_recv` is given no timeout (the
null pointer of `sacd_pb_stream.c`).  `RunEnds` therefore assumes that a server with a
request answers it or closes the connection; a server that does neither keeps
the program for ever, and no fairness is assumed of anything else.
`TrackFiles`, `DstFrame` and `Session` state no liveness: they are sequential
and every loop in them is over something that is used up; deadlock is checked
where the program has an end that stutters.

## Proofs

The theorems hold for every value of the constants.  The runs checked each
invariant on a small instance before it was proved.

| Theorem | Says | For every |
|---|---|---|
| `DstDecoderProofs!TypeCorrect`, `NoOutliving` | `TypeOK`, `NoThreadOutlivesDecoder` | number of decode threads, pool limit, frames, failing frames |
| `DstDecoderProofs!NoSharing`, `Delivery` | `SpacesNotShared`, `DeliveredInOrder` | the same |
| `DstDecoderProofs!DecoderNeverFails` | `AssertionsHold` | the same |
| `DstDecoderProofs!StreamRefinement` | the steps of `FrameStream` | the same |
| `BufferPoolProofs!PoolTypeCorrect`, `Accounting`, `NoAssertionFails` | `TypeOK`, `SpaceAccounting`, `AssertionsHold` | finite set of threads, spaces, limit |
| `BufferPoolProofs!Refinement` | `ImplementsPool` | the same |
| `RipOutputProofs!RipTypeCorrect`, `NothingIsLeft`, `DecoderAlone` | `TypeOK`, `NothingLeftBehind`, `OneDecoder` | disc, request, size of the blocks |
| `RipOutputProofs!Undisturbed` | `FrameThreadUndisturbed` | the same |
| `RipSectorsProofs!InOrderOnDisk`, `KeptWhole` | `SectorsInOrder`, `KeptFilesWhole` | the same |
| `SacdInputProofs!Delivered` | `SectorsDelivered` | disc, file, path, fields of a newer server, reads |
| `ScarletbookOpenProofs!HandleSound`, `AllReleased` | `TypeOK`, `ReleasedAtEnd` | the same, and whatever fails |
| `DstTablesProofs!TablesAlwaysDefined` | `TablesDefined` | widths, limits, channels, bits of a frame, memory before it |
| `DstFrameProofs!FrameTypeCorrect`, `IntervalKept` | `TypeOK`, `StaysInInterval` | the same |
| `DstFrameProofs!FramesAnswered`, `PredictionsExact` | `FrameAnswered`, `PredictionExact` | the same |

The assumptions are those of the modules: `DecoderAssumption`, `PoolAssumption`,
and `RipAssumption`, which says what a disc and a request are: one or two areas
in the order of their sectors, tracks in ascending order that begin with the
area and end before its end, a drive that has sectors, at least one area asked
for.  It allows a disc cut off anywhere, and a selection of tracks that are not
there.  For the input: `NetAssumption` (the wire types there are),
`FileAssumption` (a file is a copy of the disc or of its beginning) and
`BookAssumption` (what a master table has is two places and two sizes, and an area's
table up to four texts; nothing is said of where they point).  For the codec,
`TableConstants` and `FrameConstants`: a frame has room for the least segment, a
frame has any number of channels up to `MAX_CHANNELS`, which is more than one; a
row of segments takes those that are allowed, and for filters one more; the
coefficients and entries that are tried are among those a field can hold, a table
of probabilities has at most an entry for each value of a coefficient's bits
(`AC_HISBITS`), and a filter is whole bytes of coefficients.  The code's constants
have all of that (conststr.h: 6 channels, rows of 8, limits of 4 and 8); nothing is
assumed of what memory holds, nor of the order of fields.

### The decoder

Three invariants in one module, each put on the one before.

`TypeOK` is not inductive: `TakeJob` takes the head of a list because a lock
value is not 0, and `DecodeFrame` reads the buffer its job names.  `IInv` adds what
these steps rely on:

- `ThreadsListed`: a thread that runs is in yarn's list, and the list is empty
  once `join_all` has returned and until the next create;
- `LocksMatchLists`: `decode_have` is the length of the decode list until the
  stop job replaces it, and `write_first` is the first sequence number of the
  write list;
- `InSpacesExist`, `OutSpacesExist`: a space that a job, a thread or a free
  list names has been made, at the places where it is still needed.

`NextInv` has a step for each action, in three lemmas (`CallerInv`,
`DecodeThreadInv`, `WriteThreadInv`).  `PlaceLemma` and `InsertAtLemma` say of
the sorted insertion that it finds a place and what the list is afterwards.
`NoOutliving` follows from `ThreadsListed`.

`SpacesNotShared` speaks of the jobs that are alive; a step moves a job from one
place to another, so the invariant `SInv` speaks of places
(the caller's hand, a position of a list, a thread's hand):

- `InApart`, `OutApart`: two places never name the same space, nor does a place
  and the free list;
- `JobShape`: at which places a job has no output space (a space that is dropped
  must not be named afterwards where it still counts), and that a job without
  data has none;
- `ThreadState`: a thread not launched yet does nothing and one marked done has
  left its loop, so launching and joining strand no space.

A space that has just been made is named nowhere because `IInv` says that every
space named exists (`InNamed`, `OutNamed`).

`DInv` adds that a buffer holds what its job says from the
moment it is filled (`InData`, `OutData`), which the other threads' writes
preserve only because of `SInv`, and that the write thread's `seq` counts what it
has delivered (`Count`).  The order needs no fact about the order of the list:
the write thread waits for `write_first` to be its own `seq`, and
`LocksMatchLists` makes that the number of the job it then takes.

`RInv` is about what is *not* lost.  `AllPending`: a job on
its way has a number which the caller has given out and the write thread has not
come to, and is the last job just when it has the last number of a stream that is
closing.  `OnePlace`: no number is in two places.  So when the write thread takes
the last job there is no number left for any other, and all lists are empty:
that is the assertion of dst_decoder.c:210.  `InKept`, `OutKept`: a space is free
or named by a job, so without jobs all spaces are back (buffer_pool.c:138).
`ThreadsCounted`: `threads_lock` counts the threads that are done and yarn's list
those that are not joined, so `join_all` joins what was launched (:310).  The
step simulation of `FrameStream` then needs only that a frame counted as fed is
delivered or on its way, and that destroy returns with all delivered.  That the
stream makes progress, `ImplementsFrameStream`'s fairness, is left to TLC.

### The pool

`BufferPoolProofs` takes the steps of `BufferPool` one lock operation at a time.
`PInv` says who holds which lock at each place of a call (`LocksHeld`), that the
value of `have` is the length of the list and that of a `use` lock the number of
references (`FreeList`, `Counted`), that a space is in the list or used
(`ListedUnused`, `UnlistedUsed`), and `Alone`: between the two levels of locks,
when a thread holds neither `have` nor has yet set the count, nobody else has its
space.  That one is why the calls are atomic although they take the locks in
opposite orders.  `Capacity` says that a caller that was woken finds a space or
may make one; it also carries the bound `MaxSpaces` of a pool without limit.

`Refinement` maps the users of a space to its `use` lock's value, except where a
call has passed its linearisation point and not yet changed the lock: a space is
in use from its unlinking, or its counting, and given back from its linking, or
the last twist.  Every other step stutters.

### The rip

`RipInv` in `RipOutputProofs` has four parts besides the types.  `ItemsInv`: what
is in the queue and in hand are items that `main` makes of the disc and the
request, with names of their own, tracks in ascending order; `FramesInv`: a frame
thread works for the file in hand, which is open, and its block is the one in
`read_buffer`; `FilesInv`, `DecodersInv`: which files are open and which have a
decoder, by the place of the processing thread.  `OneDecoder` and
`NothingLeftBehind` follow; `FrameThreadUndisturbed` takes the step relation too:
the processing thread touches buffer, file or decoder only after a join.

`SectorsInv` in `RipSectorsProofs` adds what the files hold.

- `RunsInv`: a file is a run of sectors that follow each other, decrypted where
  they must be; until an encrypted block has been checked there is no sector in
  any file that the verdict would be about (`Outside`), so the verdict may change
  what `clear` has to be without making an earlier sector wrong.
- `HeldInv`: the file in hand holds everything up to `current_lsn` except what is
  read and not written yet (`Pending`): the block of a running frame thread, and
  for an ISO the block just read.
- `PlaceInv`, `StartsInv`: how far the thread has read and will; a track made with
  an ISO starts no more than one sector late, because the one before it ends no
  more than one sector after its start.
- `BlockInv`, `BufferInv`: a block lies on one side of the edge of an encrypted
  range, which is where `Extent` matters.
- `UnusedInv`, `DoneInv`: files of what waits are untouched, and a file that is
  open when the loop is left without a stop is complete.

Queues are sets put in order (`Ascending`), filtered and concatenated.  What is
needed of them is by induction on numbers (`Smallest`, `Induction`, `InOrder` in
`RipOutputProofs`), where the set of numbers takes the place of the predicate,
which the provers cannot be given as a parameter.

### What a read delivers

`SectorsDelivered` is about the end of a read, `InputInv` in `SacdInputProofs`
about the way there.

- For a file, `FileInv`: how far the pieces have come lies inside the file, and
  while no piece was short what they have brought is at the start of the buffer;
  one piece has brought all there is, and the next read ends the call.
- Over the network, `StreamInv`, which holds until an answer is left half read
  (`inStep`).  Between calls nothing is on its way in either direction.  During
  one, either the whole request is with the server (`Asking`), or what is still to come, on its way
  or owed, is what one of the answers to this request has left at the place
  where the decoder is (`Answering`).
- `Stage` is that correspondence, a case for each place in an answer: before the
  first known field (an added field may come there), in each of the three, and behind
  them.  `NextUnit` takes the decoder from one to the next, `AtEof` says what it
  makes of a connection that is gone.  `HasData` and `Filled`: from the unit with the data on
  they are in the buffer, as far as it reaches.
- While a field of bytes is skipped nothing is claimed of the rest: the decoder
  fails there (sacd_pb_stream.c:51), as it does at the length of data that is empty,
  and this is what `inStep` is about.

`RequestRead` and `AnswerSent` say what `pb_encode` makes of the messages.  That
the decoder understands them is not assumed: it is what the stages prove.  The
program around (`BookInv`) only has to wait for one call before it makes the next
(`Waits`), and to ask for places and counts that are numbers.

### What is held of a disc

`TypeOK` of `ScarletbookOpen` says that the handle's indices point to areas that
are there and to memory that has not been released, `ReleasedAtEnd` that the
program gives back what it took, but for what was read of areas that no index
points to.  Neither is inductive: whether an area may be freed depends on how far
`read_area_toc` has come, and what is closed on who has opened it.  `BInv` in `ScarletbookOpenProofs`, on top of `InputInv`:

- `ShapeInv`, `IndexInv`, `TextsInv`: the handle is as new while nothing has been
  read into it; an index is of an area below `area_count`, or of the one whose
  tables are being gone through, and its memory is allocated, as are all texts.
- `CallsInv`, `RoomInv`: what the input has been asked for when the program goes on
  with a table, and that `buffer` has room for it.
- `HeldInv`: no descriptor and no memory of the input is held outside its use
  (`NoInput`), on every way out of connecting and opening; a file and a connection
  do not mix.
- `KindsInv`: what is allocated belongs to the input, the reader or the handle, at
  the places where that is there, or to an area.
- `AreasHeld`: on a disc that is `Sound`, and while every table has been read
  whole, an area's memory is held by an area that has an index, or by the one in
  hand.  An area without an index is one that nobody frees; that this takes a
  damaged disc or a failed read is what the second half of `ReleasedAtEnd` says.

`HeldInv`, `KindsInv` and `AreasHeld` hold as long as no allocation has failed
(`HeapInv`): the code's ways out of memory do not release what they have, as the
property says.  The step to a table's contents is `WholeRead`, where the
theorem about the input is used: a read that returned all its sectors has brought
those of the disc (`SectorsDelivered`), so the table is the disc's and `Sound`
speaks of it.  `TypeOK` needs none of this and is proved for any contents.

The proofs corrected the model in five places.  The cases of `Extent` were not
exclusive for sector 0 of a disc with one area, where a CASE may choose and the
code's `else if` does not.  `KeptFilesWhole` was not true of a last track of a
single sector in concurrent mode: the track before it takes that sector
(finding 3) and the file is closed with nothing in it; the discs of the run
now have such a track, and the property says so.  And a drive that reports no
sectors was not excluded.  For the input, `TypeOK` bounded what a read returns
also behind an answer left half read, where nothing is known of it; and whether a
disc is sound was said of each disc of the instance instead of being read off it.

### The codec

A frame is written over the tables of the frame before, so nothing is known of a
place until this frame has given it, and `TablesDefined`, which speaks only of the
moment when decoding starts, is far from inductive.  `TablesInv` in
`DstTablesProofs` says what the header has at each field (`Unpacked`), by what is
read next and the loop variables:

- `Cutting`: the channels before this one are cut, the bits that the loop has
  counted (`DefinedBits`) are those of the segments it has read at the resolution
  that was read, and the room left for the next length is the rest of the channel.
  That is why a length that passes its test leaves room for the last segment, and
  why the resolution has to be read once, before any length: a channel of one
  segment is cut at any resolution.
- `Mapping`: each segment before this one names one of the tables counted so far.
  A segment may name the next table and no later one, so at the end the numbers
  that are used are below the number of tables.
- `Reading`: the tables before this one have a length and entries of their range,
  this one as far as its loop has come.

When all channels are cut alike, a channel may have one segment more than a row has
places for (finding 5); its length is then the first of the next channel's row.
The invariant allows it (`MAXNROF_SEGS + 1`), and so do the theorems: the sums
that decide where segments end stop before it, and the copies to the other
channels are followed place by place (`CopyRow`), each row written after the one
before it may have been.  With `MAX_CHANNELS` channels the last copy changes the number
of segments of channel 0 to the length of its first.  What saves the theorem is
that this is at least one, and that the sums of fewer segments are smaller, so
there is still room for the last: `Cutting` says of each number of segments up to
the current one where they end (`SoFar`) just for this.  Channel 0 then names
fewer tables than the others, and `Mapping` goes by each channel's own number.

`FrameInv` adds the types of the audio (`AudioTypes`).  They need the tables: the
part of the interval that a bit takes is not empty and not the whole only because
the entry is a probability that was read (`PartIs`); then shifting brings the width
back to the upper half (`ShiftsIs`), which `IntervalKept` states.  That a byte stays
a byte while its bits are added is `WithBitIs`.

`HistoryInv` is what `FrameAnswered` and `PredictionExact` rest on.  `Written`: the
bits of a channel that have been decoded are in the output as the frame has given
them; when all channels have all their bits that is `Whole`, which a plain frame has
at once.  `Kept`: entry j
of a channel's history is the bit put out j bits before, or of the alternating
pattern before the first; as channels take turns, those before the current one are
a bit ahead (`BitsOf`).  `Unwritten`: a bit that has not been decoded is 0 in the
output, without which adding a bit to its byte would not be setting it.  Bits of
different channels have different places (`PlacesApart`).  For the prediction,
`BitsBack` reads the history back from the bytes the tables are looked up at,
`OneTableMore` adds up the tables by induction, and `ShortOf` is the only thing the
16 bits change.

Powers of two, sums and `CopyRow` are recursive functions.  That they are what
their definitions say has itself to be proved, as the library's theorem about
recursive functions needs an operator as a parameter: `Recursion` does it with a
function of steps in its place, and `Induction` with a set.

### Only model-checked

- Liveness: `GetServed`, `RipEnds`, `StopEnds`, `RunEnds`, and the fairness part
  of `ImplementsFrameStream`.  Fairness and ENABLED are out of the prover's reach.
- `TrackFiles` and `Session`, with the modules they are composed of: `DsfFile`,
  `DsdiffFile`, `FileNames` and `Id3Tag` are recursive over data, and the provers
  have no SMT backend for a module that reaches a RECURSIVE operator.

## Plan

Done: the decoder with its pool and locks, the rip, the files of tracks, the
codec, input and opening, the session; theorems for every safety property of the
decoder, the pool, the rip and the codec, for what a read delivers and what is held
of a disc, and two refinements.
Left, in this order:

1. The SIGINT handler's print lock, with its messages and the progress display:
   the handler takes a mutex that the thread it interrupts may hold.
2. Failing `pthread_create` and `malloc` in `RipOutput`, `BufferPool` and
   `DstDecoder`, if a promise can be found that holds then.
3. `RipOutput` composed with `TrackFiles`, block by block, instead of side by side.

## Not modelled

- Printing, logging and the progress display: output without state that lasts.
- The `SECTOR_LIMIT` build, and the Windows variants of sockets and files.
- PlayStation 3: the SPU decoder and the drive's authentication and decryption.
  They are not part of a build of `sacd_extract` on a PC, and exchange data with
  firmware that is not in the repository.
- The server's side of the network protocol (another program, for the console; its
  answers are external in `NetInput`), with the bind, listen and accept of
  `usocket.c`.  A receive that a signal cuts short is not there either.
- `libid3`'s reading of tags from files, version 2.2, compressed frames and kinds
  of frames that `sacd_extract` does not write.
- Functions without a caller: `recursive_mkdir`, `recursive_parent_mkdir`,
  `get_unique_filename`, `trim_chars`, `use_space` apart from the model of its
  interface.
- Vendored: nanopb but for what the two messages need, getopt, lists and
  atomics, which are modelled by what they do where they are used.
