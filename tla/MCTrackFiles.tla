---------------------------- MODULE MCTrackFiles ----------------------------
(* Small areas of three tracks: frames of one, two or three packets, laid out  *)
(* as on a disc: the packet that starts a frame is in the sector in which the *)
(* frame before it ends.                                                      *)
EXTENDS TrackFiles

\* Kinds of frames: the lengths of the packets and the number of packets the
\* sector says it has.  A short one lacks its last packet, a huge one does not
\* fit the buffer, a small one is all in one sector.  A packet is shorter than one
\* channel of a frame, as a sector is, so no part of a frame looks like a frame.
Kinds(dst) ==
  IF dst THEN {[lens |-> <<1, 2>>, count |-> 2], [lens |-> <<2, 1, 1>>, count |-> 3],
               [lens |-> <<2>>, count |-> 1], [lens |-> <<1, 1>>, count |-> 3]}
         ELSE {[lens |-> <<3, 3, 2>>, count |-> 0], [lens |-> <<3, 2, 3>>, count |-> 0],
               [lens |-> <<3, 3>>, count |-> 0], [lens |-> <<3, 3, 3, 3>>, count |-> 0]}

\* Lays frame number f behind the sectors there are.
LayFrame(sectors, kind, f, dst) ==
  LET P(i) == Packet(i = 1, DataTypes.AUDIO, kind.lens[i], <<f, i>>)
      last == sectors[Len(sectors)]
      extra == Packet(FALSE, DataTypes.SUPPLEMENTARY, 1, <<f, 0>>)
      first == [last EXCEPT !.packets = @ \o <<extra, P(1)>>,
                            !.infos = Append(@, FrameInfo(kind.count, 0, 0))]
  IN Front(sectors) \o <<first>>
       \o [i \in 1..(Len(kind.lens) - 1) |-> [dst |-> dst, packets |-> <<P(i + 1)>>, infos |-> <<>>]]

Sectors(kinds, n, dst) ==
  FoldLeft(LAMBDA s, f : LayFrame(s, kinds[f], f, dst),
           <<[dst |-> dst, packets |-> <<>>, infos |-> <<>>]>>, [f \in 1..n |-> f])

\* Tracks of one, two and one frame.
Area(kinds, dst) ==
  [sectors |-> Sectors(kinds, 4, dst), dst |-> dst, channels |-> 2, extra_settings |-> 0,
   starts |-> <<1, Len(Sectors(kinds, 1, dst)), Len(Sectors(kinds, 3, dst))>>]

MCDiscs == UNION {{Area(<<k[1], k[2], k[3], k[1]>>, dst) : k \in [1..3 -> Kinds(dst)]} : dst \in BOOLEAN}

DsfFormats == {[handler |-> "dsf", dsd |-> TRUE, nopad |-> n] : n \in BOOLEAN}
MCFormats == DsfFormats \cup
  {[handler |-> e, dsd |-> d, nopad |-> FALSE] : e \in {"dsdiff", "edit"}, d \in BOOLEAN}
MCSelections == {<<1, 2, 3>>, <<1, 3>>}

Time(m, s, f) == [minutes |-> m, seconds |-> s, frames |-> f]
MCTexts ==
  {[times |-> <<[start |-> Time(0, 2, 0), duration |-> Time(59, 58, 74)],
                [start |-> Time(60, 1, gap), duration |-> Time(4, 0, 1)],
                [start |-> Time(64, 1, gap + 1), duration |-> Time(0, 3, 3)]>>,
    performer |-> n, title |-> 0, album_artist |-> <<0, 3>>, album_title |-> <<4>>,
    comment |-> n, tag |-> 7 - n] : gap \in {0}, n \in {0, 5}}
=============================================================================
