------------------------------ MODULE DsfFile ------------------------------
(* The writer of DSF files (dsf.c).  Frames come with the bytes of the        *)
(* channels interleaved; a DSF file has blocks of one channel each, in turn,  *)
(* so the writer keeps one block per channel and writes them when they are    *)
(* full.  What is left at the end of a track is written with zeros behind it, *)
(* or, with dsf_nopad, kept in static buffers for the file of the next track. *)
EXTENDS DsdiffLayout, Integers

CONSTANTS SACD_BLOCK_SIZE_PER_CHANNEL,  \* a block of one channel
          Zero                          \* a byte of padding

ASSUME DsfConstants == SACD_BLOCK_SIZE_PER_CHANNEL \in Nat \ {0}

\* The private data of a file and the file itself.  "buffer" has the bytes up to
\* buffer_ptr for each channel; "blocks" is what has been written after the
\* header, each block with its channel; the header on disk is "header".
NewDsf(channels) ==
  [buffer |-> [c \in 1..channels |-> <<>>], sample_count |-> 0, audio_data_size |-> 0,
   blocks |-> <<>>, footer |-> 0, header |-> <<>>, closed |-> FALSE]

HEADER_SIZE == SizeOf(dsd_chunk_header_t) + SizeOf(fmt_chunk_t) + SizeOf(data_chunk_t)

CHANNEL_TYPE(channels, extra_settings) ==
  CASE channels = 5 /\ extra_settings = 3 -> 6
    [] channels = 6 /\ extra_settings = 4 -> 7
    [] OTHER -> 2

\* The header is rendered twice, when the file is created and when it is closed.
dsf_create_header(w, extra_settings, tag) ==
  LET channels == Len(w.buffer) IN
  [w EXCEPT !.header =
    [channel_type |-> CHANNEL_TYPE(channels, extra_settings),
     channel_count |-> channels,
     sample_count |-> (w.sample_count \div channels) * 8,
     data_size |-> SizeOf(data_chunk_t) + w.audio_data_size,
     total_file_size |-> HEADER_SIZE + w.audio_data_size + tag,
     metadata_offset |-> IF tag > 0 THEN HEADER_SIZE + w.audio_data_size ELSE 0]]

\* The file of a track; "previous" is what the static buffers hold.
dsf_create(channels, track, nopad, previous, extra_settings, tag) ==
  LET empty == NewDsf(channels)
      w == IF track > 0 /\ nopad THEN [empty EXCEPT !.buffer = previous] ELSE empty
  IN dsf_create_header(w, extra_settings, tag)

ZeroFilled(bytes) ==
  [i \in 1..SACD_BLOCK_SIZE_PER_CHANNEL |-> IF i <= Len(bytes) THEN bytes[i] ELSE Zero]

FlushChannel(w, c) ==
  [w EXCEPT !.sample_count = @ + Len(w.buffer[c]),
            !.blocks = Append(@, [channel |-> c, bytes |-> ZeroFilled(w.buffer[c])]),
            !.buffer[c] = <<>>,
            !.audio_data_size = @ + SACD_BLOCK_SIZE_PER_CHANNEL]

\* One turn for a channel: it takes the next byte, or makes room and takes none.
TakeByte(state, c, len) ==
  LET w == state.w
      channels == Len(w.buffer)
      room == /\ Len(w.buffer[c]) < SACD_BLOCK_SIZE_PER_CHANNEL
              /\ Len(w.buffer[c]) < len \div channels
  IN IF room THEN [w |-> [w EXCEPT !.buffer[c] = Append(@, Head(state.rest))],
                   rest |-> Tail(state.rest)]
             ELSE [w |-> FlushChannel(w, c), rest |-> state.rest]

RECURSIVE Deal(_, _)
Deal(state, len) ==
  IF state.rest = <<>> THEN state.w
  ELSE Deal(FoldLeft(LAMBDA s, c : TakeByte(s, c, len), state,
                     [c \in 1..Len(state.w.buffer) |-> c]), len)

dsf_write_frame(w, bytes) == Deal([w |-> w, rest |-> bytes], Len(bytes))

\* A mutant: the rest of the last track is kept too.
KeepsAlways(nopad, track, track_count) == nopad

\* Is the rest kept for the next file?  track_count is the area's.
Keeps(nopad, track, track_count) == nopad /\ track < track_count - 1

dsf_close(w, nopad, track, track_count, extra_settings, tag) ==
  LET FlushRest(x, c) == IF x.buffer[c] # <<>> THEN FlushChannel(x, c) ELSE x
      flushed == IF Keeps(nopad, track, track_count) THEN w
                 ELSE FoldLeft(FlushRest, w, [c \in 1..Len(w.buffer) |-> c])
  IN dsf_create_header([flushed EXCEPT !.footer = tag, !.closed = TRUE], extra_settings, tag)

-----------------------------------------------------------------------------
(* What a reader of the file sees.                                            *)

\* The bytes of a channel, the blocks of the channels taking turns.
ChannelOf(w, c) ==
  FlattenSeq([b \in 1..Len(SelectSeq(w.blocks, LAMBDA x : x.channel = c)) |->
                SelectSeq(w.blocks, LAMBDA x : x.channel = c)[b].bytes])

\* The samples a reader plays of a channel: as many as the header says.
PlayedOf(w, c) == SubSeq(ChannelOf(w, c), 1, w.header.sample_count \div 8)

DsfLayoutHolds(w) ==
  LET size == SACD_BLOCK_SIZE_PER_CHANNEL * Len(w.blocks) IN
  /\ \A b \in 1..Len(w.blocks) : w.blocks[b].channel = ((b - 1) % Len(w.buffer)) + 1
  /\ w.header.data_size = SizeOf(data_chunk_t) + size
  /\ w.header.total_file_size = HEADER_SIZE + size + w.footer
  /\ w.footer > 0 => w.header.metadata_offset = HEADER_SIZE + size
=============================================================================
