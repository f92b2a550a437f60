---------------------------- MODULE FrameAssembly ----------------------------
(* How sectors become frames (scarletbook_read.c, scarletbook_process_frames).*)
(* A sector lists its packets; a frame starts with a packet that says so and  *)
(* goes on over any number of packets and sectors.  A frame is handed to the  *)
(* callback when the next one starts or after the last block, and only when   *)
(* it is whole: a DST frame has had as many packets as its information says,  *)
(* a DSD frame is a multiple of one channel's frame.                          *)
(*                                                                            *)
(* The content of a packet is its identity and its length.  The handle is a   *)
(* record that the operators take and return, because the code handles all    *)
(* the packets of a call of scarletbook_process_frames in one go.             *)
EXTENDS ScarletbookLayout, Integers, FiniteSets

CONSTANTS FRAME_SIZE_64,     \* the bytes of one channel in a DSD frame
          MAX_DST_SIZE       \* the size of the frame buffer

ASSUME FrameConstants == FRAME_SIZE_64 \in Nat \ {0} /\ MAX_DST_SIZE \in Nat \ {0}

DataTypes == [AUDIO |-> 2, SUPPLEMENTARY |-> 3, PADDING |-> 7]

\* A packet: does a frame start here, what it holds, its length and identity.
Packet(start, type, len, id) == [start |-> start, type |-> type, len |-> len, id |-> id]

\* What a sector says of a frame that starts in it; the channel bits and the
\* number of packets are there for DST frames only.
FrameInfo(count, bit2, bit3) == [sector_count |-> count, bit2 |-> bit2, bit3 |-> bit3]

get_channel_count(info) ==
  CASE info.bit2 = 1 /\ info.bit3 = 0 -> 6
    [] info.bit2 = 0 /\ info.bit3 = 1 -> 5
    [] OTHER -> 2

NoFrame == [data |-> <<>>, size |-> 0, started |-> FALSE,
            sector_count |-> 0, channel_count |-> 0, dst |-> FALSE]

\* The frame being assembled, the frame information of the sector read last and
\* what the callback has been given since the handle was initialised.
scarletbook_frame_init(h) ==
  [h EXCEPT !.frame.size = 0, !.frame.data = <<>>, !.frame.started = FALSE,
            !.infos = [i \in 0..6 |-> FrameInfo(0, 0, 0)]]

NewHandle == scarletbook_frame_init([frame |-> NoFrame, infos |-> <<>>, next |-> 0,
                                     dst |-> FALSE, given |-> <<>>])

Whole(frame) ==
  /\ frame.started
  /\ frame.size > 0
  /\ IF frame.dst THEN frame.sector_count = 0 ELSE frame.size % FRAME_SIZE_64 = 0

exec_read_callback(h) ==
  IF Whole(h.frame)
  THEN [h EXCEPT !.frame.started = FALSE, !.given = Append(@, h.frame)]
  ELSE h

\* Mutants: the information of the sector before is gone on with; a frame may
\* fill the buffer.
KeepsCounting(h, sector) ==
  [h EXCEPT !.dst = sector.dst,
            !.infos = [i \in 0..6 |-> IF sector.dst /\ i < Len(sector.infos)
                                      THEN sector.infos[i + 1] ELSE @[i]]]
AddToFullFrame(h, packet) ==
  IF h.frame.size + packet.len <= MAX_DST_SIZE
  THEN [h EXCEPT !.frame.data = Append(@, packet.id), !.frame.size = @ + packet.len,
                 !.frame.sector_count = IF h.frame.dst THEN @ - 1 ELSE @]
  ELSE [h EXCEPT !.frame.started = FALSE]

\* The sector's own lists replace those of the sector before.  Without DST only
\* three bytes of a frame's information are copied: the fourth, where the
\* number of packets and the channel bits are, stays as it was.
ReadSectorHeader(h, sector) ==
  [h EXCEPT !.dst = sector.dst, !.next = 0,
            !.infos = [i \in 0..6 |-> IF sector.dst /\ i < Len(sector.infos)
                                      THEN sector.infos[i + 1] ELSE @[i]]]

StartFrame(h) ==
  LET info == h.infos[h.next] IN
  [h EXCEPT !.frame = [data |-> <<>>, size |-> 0, started |-> TRUE,
                       sector_count |-> info.sector_count,
                       channel_count |-> get_channel_count(info), dst |-> h.dst],
            !.next = @ + 1]

AddToFrame(h, packet) ==
  IF h.frame.size + packet.len < MAX_DST_SIZE
  THEN [h EXCEPT !.frame.data = Append(@, packet.id), !.frame.size = @ + packet.len,
                 !.frame.sector_count = IF h.frame.dst THEN @ - 1 ELSE @]
  ELSE [h EXCEPT !.frame.started = FALSE]

ProcessPacket(h, packet) ==
  LET started == IF packet.start THEN StartFrame(exec_read_callback(h)) ELSE h IN
  IF packet.type # DataTypes.AUDIO THEN h
  ELSE IF started.frame.started THEN AddToFrame(started, packet) ELSE started

ProcessSector(h, sector) ==
  FoldLeft(ProcessPacket, ReadSectorHeader(h, sector), sector.packets)

scarletbook_process_frames(h, sectors, last_block) ==
  LET read == FoldLeft(ProcessSector, h, sectors) IN
  IF last_block THEN exec_read_callback(read) ELSE read

-----------------------------------------------------------------------------
(* What the callback must have been given, said of the packets alone and not  *)
(* of a buffer that is filled: the packets of all the sectors in one list,    *)
(* cut where a frame starts, and of the pieces those that are whole.          *)

\* The audio packets in order, each with what its sector says of it.
AudioPackets(sectors) ==
  FlattenSeq([s \in 1..Len(sectors) |->
    LET packets == sectors[s].packets
        StartsBefore(p) == Cardinality({q \in 1..(p - 1) : /\ packets[q].start
                                                           /\ packets[q].type = DataTypes.AUDIO})
        audio == SelectSeq([p \in 1..Len(packets) |-> <<packets[p], StartsBefore(p) + 1>>],
                           LAMBDA x : x[1].type = DataTypes.AUDIO)
    IN [a \in 1..Len(audio) |->
          [packet |-> audio[a][1], dst |-> sectors[s].dst,
           count |-> IF audio[a][1].start /\ sectors[s].dst
                     THEN sectors[s].infos[audio[a][2]].sector_count ELSE 0]]])

SumOfLengths(list) == FoldLeft(LAMBDA n, a : n + a.packet.len, 0, list)

\* The pieces, from a start up to the next one or to the end of the list.
Pieces(list) ==
  LET starts == SelectSeq([i \in 1..Len(list) |-> i], LAMBDA i : list[i].packet.start)
      End(k) == IF k = Len(starts) THEN Len(list) ELSE starts[k + 1] - 1
  IN [k \in 1..Len(starts) |-> SubSeq(list, starts[k], End(k))]

IsWholePiece(piece) ==
  /\ SumOfLengths(piece) \in 1..(MAX_DST_SIZE - 1)
  /\ IF piece[1].dst THEN Len(piece) = piece[1].count
                     ELSE SumOfLengths(piece) % FRAME_SIZE_64 = 0

\* The frames of a list of sectors; the last piece counts only once it is known
\* that nothing more belongs to it.
FramesOf(sectors, ended) ==
  LET pieces == Pieces(AudioPackets(sectors))
      complete == IF ended \/ pieces = <<>> THEN pieces ELSE Front(pieces)
      whole == SelectSeq(complete, IsWholePiece)
  IN [k \in 1..Len(whole) |-> [i \in 1..Len(whole[k]) |-> whole[k][i].packet.id]]
=============================================================================
