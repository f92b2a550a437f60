--------------------------- MODULE RipOutputProofs ---------------------------
(***************************************************************************)
(* What is proved about RipOutput for every disc, every request and every  *)
(* size of the blocks.                                                     *)
(***************************************************************************)
EXTENDS RipOutput, FiniteSetTheorems, SequenceTheorems, WellFoundedInduction,
        TLAPS

(* The induction theorems of the library take a predicate as a parameter;  *)
(* these say the same of sets.                                             *)
LEMMA Smallest ==
    ASSUME NEW T \in SUBSET Nat, T # {}
    PROVE  \E n \in T : \A m \in T : n <= m
<1>1. \E m \in T : \A n \in T : <<n, m>> \notin OpToRel(<, Nat)
  BY NatLessThanWellFounded, WFMin
<1>2. \E m \in T : \A n \in T : ~(n < m)
  BY <1>1, Zenon DEF OpToRel
<1> QED
  BY <1>2

LEMMA Induction ==
    ASSUME NEW S, 0 \in S, \A n \in Nat : n \in S => n + 1 \in S
    PROVE  Nat \subseteq S
<1> DEFINE T == {n \in Nat : n \notin S}
<1> SUFFICES ASSUME T # {} PROVE FALSE
  OBVIOUS
<1>1. PICK n \in T : \A m \in T : n <= m
  <2> HIDE DEF T
  <2>1. T \in SUBSET Nat
    BY DEF T
  <2> QED BY <2>1, Smallest
<1>2. n # 0 /\ n \in Nat
  OBVIOUS
<1>3. n - 1 \in Nat /\ n - 1 \notin T
  BY <1>1, <1>2
<1>4. (n - 1) + 1 \in S
  BY <1>3
<1> QED
  BY <1>4, <1>2

(* The elements of a set of numbers in ascending order.                    *)
LEMMA InOrder ==
    ASSUME NEW n \in Nat
    PROVE  \A S \in SUBSET (1 .. n) :
             /\ IsFiniteSet(S)
             /\ \E s \in [1 .. Cardinality(S) -> S] :
                  \A i, j \in DOMAIN s : i < j => s[i] < s[j]
<1> DEFINE Can(S) == /\ IsFiniteSet(S)
                     /\ \E s \in [1 .. Cardinality(S) -> S] :
                          \A i, j \in DOMAIN s : i < j => s[i] < s[j]
           G == {k \in Nat : \A S \in SUBSET (1 .. k) : Can(S)}
<1>1. 0 \in G
  <2>1. IsFiniteSet({}) /\ Cardinality({}) = 0
    BY FS_EmptySet
  <2>2. [i \in 1 .. 0 |-> i] \in [1 .. Cardinality({}) -> {}]
    BY <2>1
  <2>3. Can({})
    BY <2>1, <2>2
  <2>4. \A S \in SUBSET (1 .. 0) : S = {}
    OBVIOUS
  <2> HIDE DEF Can
  <2> QED BY <2>3, <2>4
<1>2. ASSUME NEW k \in Nat, k \in G
      PROVE  k + 1 \in G
  <2> SUFFICES ASSUME NEW S \in SUBSET (1 .. k + 1)
               PROVE  Can(S)
    OBVIOUS
  <2> DEFINE R == S \ {k + 1}
  <2>1. R \in SUBSET (1 .. k)
    OBVIOUS
  <2>2. Can(R)
    BY <1>2, <2>1
  <2>3. CASE k + 1 \notin S
    <3>1. R = S
      BY <2>3
    <3> QED BY <2>2, <3>1
  <2>4. CASE k + 1 \in S
    <3>1. S = R \cup {k + 1} /\ k + 1 \notin R
      BY <2>4
    <3> HIDE DEF R
    <3>2. IsFiniteSet(R)
      BY <2>2
    <3>3. IsFiniteSet(S) /\ Cardinality(S) = Cardinality(R) + 1
      BY <3>1, <3>2, FS_AddElement
    <3>4. Cardinality(R) \in Nat
      BY <3>2, FS_CardinalityType
    <3> DEFINE c == Cardinality(R)
    <3>5. PICK s \in [1 .. c -> R] :
               \A i, j \in DOMAIN s : i < j => s[i] < s[j]
      BY <2>2
    <3> DEFINE u == [i \in 1 .. c + 1 |-> IF i = c + 1 THEN k + 1 ELSE s[i]]
    <3>6. u \in [1 .. c + 1 -> S]
      BY <3>1, <3>4
    <3>7. ASSUME NEW i \in DOMAIN u, NEW j \in DOMAIN u, i < j
          PROVE  u[i] < u[j]
      <4>1. i \in 1 .. c
        BY <3>4, <3>7
      <4>4. s[i] \in R
        BY <4>1
      <4>6. s[i] \in 1 .. k
        BY <4>4, <2>1
      <4>7. i # c + 1
        BY <4>1, <3>4
      <4>5. s[i] < k + 1 /\ u[i] = s[i]
        BY <4>1, <4>6, <4>7
      <4>2. CASE j = c + 1
        BY <4>5, <4>2
      <4>3. CASE j # c + 1
        BY <4>1, <4>5, <4>3, <3>4, <3>5, <3>7
      <4> QED BY <4>2, <4>3
    <3> QED BY <3>3, <3>6, <3>7
  <2> QED BY <2>3, <2>4
<1> HIDE DEF G
<1>3. n \in G
  BY <1>1, <1>2, Induction
<1> QED
  BY <1>3 DEF G

LEMMA AscendingOrder ==
    ASSUME NEW n \in Nat, NEW S \in SUBSET (1 .. n)
    PROVE  /\ Ascending(S) \in Seq(S)
           /\ \A i, j \in DOMAIN Ascending(S) :
                i < j => Ascending(S)[i] < Ascending(S)[j]
<1>1. /\ IsFiniteSet(S)
      /\ \E s \in [1 .. Cardinality(S) -> S] :
           \A i, j \in DOMAIN s : i < j => s[i] < s[j]
  BY InOrder
<1>2. Cardinality(S) \in Nat
  BY <1>1, FS_CardinalityType
<1>3. /\ Ascending(S) \in [1 .. Cardinality(S) -> S]
      /\ \A i, j \in DOMAIN Ascending(S) :
                i < j => Ascending(S)[i] < Ascending(S)[j]
  BY <1>1 DEF Ascending
<1> QED
  BY <1>2, <1>3
-----------------------------------------------------------------------------
(* The items that main enqueues.                                           *)
Chosen == disc \in Discs /\ request \in Requests

LEMMA AreaFacts ==
    ASSUME Chosen, NEW a \in DOMAIN disc.areas
    PROVE  /\ disc.areas[a] \in Area
           /\ disc.areas[a].tracks # <<>>
           /\ disc.areas[a].tracks[1] = disc.areas[a].start
           /\ \A t \in 1 .. Len(disc.areas[a].tracks) - 1 :
                disc.areas[a].tracks[t] < disc.areas[a].tracks[t + 1]
           /\ Last(disc.areas[a].tracks) < disc.areas[a].end
           /\ a = 2 => disc.areas[1].end < disc.areas[a].start
           /\ a \in 1 .. 2
           /\ 1 \in DOMAIN disc.areas
<1>1. DiscAssumption(disc)
  BY RipAssumption DEF Chosen
<1>2. disc.areas \in Seq(Area) /\ Len(disc.areas) \in 1 .. 2
  BY <1>1 DEF DiscAssumption, Disc
<1>3. DOMAIN disc.areas = 1 .. Len(disc.areas)
  BY <1>2
<1> QED
  BY <1>1, <1>2, <1>3 DEF DiscAssumption

LEMMA TracksAscend ==
    ASSUME Chosen, NEW a \in DOMAIN disc.areas
    PROVE  LET tracks == disc.areas[a].tracks
           IN /\ tracks \in Seq(Nat)
              /\ \A t, u \in DOMAIN tracks : t < u => tracks[t] < tracks[u]
              /\ \A t \in DOMAIN tracks : /\ tracks[t] >= disc.areas[a].start
                                          /\ tracks[t] < disc.areas[a].end
<1> DEFINE tracks == disc.areas[a].tracks
<1>1. /\ tracks \in Seq(Nat) /\ tracks # <<>>
      /\ disc.areas[a].start \in Nat /\ disc.areas[a].end \in Nat
      /\ tracks[1] = disc.areas[a].start
      /\ tracks[Len(tracks)] < disc.areas[a].end
      /\ \A t \in 1 .. Len(tracks) - 1 : tracks[t] < tracks[t + 1]
  BY AreaFacts DEF Area, Last
<1> HIDE DEF tracks
<1>2. Len(tracks) \in Nat \ {0} /\ DOMAIN tracks = 1 .. Len(tracks)
  BY <1>1
<1> DEFINE G == {k \in Nat : \A t, u \in 1 .. Len(tracks) :
                                u = t + k => tracks[t] <= tracks[u] - k}
<1>3. 0 \in G
  BY <1>1, <1>2
<1>4. ASSUME NEW k \in Nat, k \in G
      PROVE  k + 1 \in G
  <2> SUFFICES ASSUME NEW t \in 1 .. Len(tracks), NEW u \in 1 .. Len(tracks),
                      u = t + (k + 1)
               PROVE  tracks[t] <= tracks[u] - (k + 1)
    OBVIOUS
  <2>1. u - 1 \in 1 .. Len(tracks) - 1 /\ u - 1 = t + k /\ u - 1 + 1 = u
    BY <1>2
  <2>2. tracks[t] <= tracks[u - 1] - k
    BY <2>1, <1>4
  <2>3. tracks[u - 1] < tracks[u]
    BY <2>1, <1>1
  <2>4. tracks[t] \in Nat /\ tracks[u - 1] \in Nat /\ tracks[u] \in Nat
    BY <1>1, <1>2, <2>1
  <2> QED BY <2>2, <2>3, <2>4
<1>5. ASSUME NEW t \in DOMAIN tracks, NEW u \in DOMAIN tracks, t <= u
      PROVE  tracks[t] <= tracks[u] - (u - t)
  <2>1. u - t \in G
    <3> HIDE DEF G
    <3> QED BY <1>2, <1>3, <1>4, <1>5, Induction
  <2> QED BY <2>1, <1>2
<1>6. ASSUME NEW t \in DOMAIN tracks
      PROVE  tracks[t] >= disc.areas[a].start /\ tracks[t] < disc.areas[a].end
  <2>1. 1 \in DOMAIN tracks /\ Len(tracks) \in DOMAIN tracks
    BY <1>2
  <2>2. 1 <= t /\ t <= Len(tracks)
    BY <1>2
  <2>3. tracks[1] <= tracks[t] - (t - 1)
    BY <1>5, <2>1, <2>2
  <2>4. tracks[t] <= tracks[Len(tracks)] - (Len(tracks) - t)
    BY <1>5, <2>1, <2>2
  <2>5. tracks[t] \in Nat /\ tracks[1] \in Nat /\ tracks[Len(tracks)] \in Nat
    BY <1>1, <1>2
  <2> QED BY <2>2, <2>3, <2>4, <2>5, <1>1, <1>2
<1>7. ASSUME NEW t \in DOMAIN tracks, NEW u \in DOMAIN tracks, t < u
      PROVE  tracks[t] < tracks[u]
  <2>1. tracks[t] <= tracks[u] - (u - t)
    BY <1>5, <1>7, <1>2
  <2> QED BY <2>1, <1>1, <1>2, <1>7
<1> QED
  BY <1>1, <1>6, <1>7 DEF tracks

IsTrack(x) ==
    \E a \in DOMAIN disc.areas : \E t \in DOMAIN disc.areas[a].tracks :
        x = TrackItem(a, t)
IsEdit(x) == \E a \in DOMAIN disc.areas : x = EditItem(a)

LEMMA NamesKnown ==
    /\ IsoName \in Names
    /\ \A a \in DOMAIN disc.areas :
         /\ EditName(a) \in Names
         /\ \A t \in DOMAIN disc.areas[a].tracks : TrackName(a, t) \in Names
  BY DEF Names

LEMMA EditShape ==
    ASSUME Chosen, NEW a \in DOMAIN disc.areas
    PROVE  LET x == EditItem(a)
           IN /\ x \in [name : {EditName(a)}, start : Nat, length : Nat,
                        raw : {FALSE}, dsf : {FALSE}, decode : BOOLEAN,
                        subs : {<<>>}]
              /\ x.start = disc.areas[a].start
              /\ x.start + x.length = disc.areas[a].end + 1
              /\ x.length > 1
<1> DEFINE area == disc.areas[a]
<1>1. area \in Area /\ area.tracks # <<>> /\ area.tracks[1] = area.start
  BY AreaFacts
<1>2. 1 \in DOMAIN area.tracks
  BY <1>1 DEF Area
<1>3. area.start < area.end
  BY <1>1, <1>2, TracksAscend
<1>4. request.convert \in BOOLEAN
  BY RipAssumption DEF Chosen, RequestAssumption
<1>5. (area.dst /\ request.convert) \in BOOLEAN
  OBVIOUS
<1>7. area.start \in Nat /\ area.end \in Nat
  BY <1>1 DEF Area
<1>8. area.end - area.start + 1 \in Nat
  BY <1>3, <1>7
<1> DEFINE dec == area.dst /\ request.convert
           len == area.end - area.start + 1
<1>6. EditItem(a) = [NoItem EXCEPT !.name = EditName(a), !.start = area.start,
                                   !.length = len, !.decode = dec]
  BY DEF EditItem
<1>10. area.start + len = area.end + 1 /\ len > 1
  BY <1>3, <1>7
<1> HIDE DEF area, dec, len
<1>9. /\ EditItem(a) \in [name : {EditName(a)}, start : Nat, length : Nat,
                           raw : {FALSE}, dsf : {FALSE}, decode : BOOLEAN,
                           subs : {<<>>}]
      /\ EditItem(a).start = area.start /\ EditItem(a).length = len
  BY <1>5, <1>6, <1>7, <1>8 DEF NoItem, dec, len
<1> QED
  BY <1>9, <1>10 DEF area

LEMMA TrackShape ==
    ASSUME Chosen, NEW a \in DOMAIN disc.areas,
           NEW t \in DOMAIN disc.areas[a].tracks
    PROVE  LET x == TrackItem(a, t)
               area == disc.areas[a]
           IN /\ x \in [name : {TrackName(a, t)}, start : Nat, length : Nat,
                        raw : {FALSE}, dsf : BOOLEAN, decode : BOOLEAN,
                        subs : {<<>>}]
              /\ x.start = area.tracks[t]
              /\ x.start + x.length = IF t < Len(area.tracks)
                                      THEN area.tracks[t + 1] + 1
                                      ELSE area.end
              /\ x.length > 0
<1> DEFINE area == disc.areas[a]
<1>1. /\ area \in Area /\ area.tracks[1] = area.start
      /\ area.tracks \in Seq(Nat)
  BY AreaFacts, TracksAscend
<1>2. t \in 1 .. Len(area.tracks) /\ Len(area.tracks) \in Nat
  BY <1>1
<1>3. (IF t > 1 THEN area.tracks[t] ELSE area.start) = area.tracks[t]
  BY <1>1, <1>2
<1>4. /\ area.tracks[t] \in Nat /\ area.end \in Nat
      /\ area.tracks[t] < area.end
  BY <1>1, <1>2, TracksAscend DEF Area
<1>5. t < Len(area.tracks) => /\ area.tracks[t + 1] \in Nat
                              /\ area.tracks[t] < area.tracks[t + 1]
  <2> SUFFICES ASSUME t < Len(area.tracks)
               PROVE  /\ area.tracks[t + 1] \in Nat
                      /\ area.tracks[t] < area.tracks[t + 1]
    OBVIOUS
  <2>1. t + 1 \in DOMAIN area.tracks /\ t < t + 1
    BY <1>1, <1>2
  <2> QED BY <2>1, <1>1, TracksAscend
<1> DEFINE len == IF t < Len(area.tracks)
                  THEN area.tracks[t + 1] - area.tracks[t] + 1
                  ELSE area.end - area.tracks[t]
           dec == area.dst /\ (request.dsf \/ request.convert)
<1>6. request.dsf \in BOOLEAN
  BY RipAssumption DEF Chosen, RequestAssumption
<1>7. dec \in BOOLEAN
  OBVIOUS
<1>8. TrackItem(a, t) =
        [NoItem EXCEPT !.name = TrackName(a, t), !.start = area.tracks[t],
                       !.length = len, !.dsf = request.dsf, !.decode = dec]
  BY <1>3 DEF TrackItem
<1>9. /\ len \in Nat /\ len > 0
      /\ area.tracks[t] + len = IF t < Len(area.tracks)
                                THEN area.tracks[t + 1] + 1
                                ELSE area.end
  <2> DEFINE first == area.tracks[t]
             next == area.tracks[t + 1]
             end == area.end
  <2>1. CASE t < Len(area.tracks)
    <3>1. first \in Nat /\ next \in Nat /\ first < next
      BY <1>4, <1>5, <2>1
    <3>2. len = next - first + 1
      BY <2>1
    <3> HIDE DEF first, next, len
    <3>3. len \in Nat /\ len > 0 /\ first + len = next + 1
      BY <3>1, <3>2
    <3> QED
      BY <2>1, <3>3 DEF first, next
  <2>2. CASE ~ (t < Len(area.tracks))
    <3>1. first \in Nat /\ end \in Nat /\ first < end
      BY <1>4
    <3>2. len = end - first
      BY <2>2
    <3> HIDE DEF first, end, len
    <3>3. len \in Nat /\ len > 0 /\ first + len = end
      BY <3>1, <3>2
    <3> QED
      BY <2>2, <3>3 DEF first, end
  <2> QED
    BY <2>1, <2>2
<1> HIDE DEF area, len, dec
<1>11. /\ TrackItem(a, t) \in [name : {TrackName(a, t)}, start : Nat,
                               length : Nat, raw : {FALSE}, dsf : BOOLEAN,
                               decode : BOOLEAN, subs : {<<>>}]
       /\ TrackItem(a, t).start = area.tracks[t]
       /\ TrackItem(a, t).length = len
  BY <1>4, <1>6, <1>7, <1>8, <1>9 DEF NoItem
<1> QED
  BY <1>9, <1>11 DEF area

(* The end of one item and the start of one that comes after it on the     *)
(* disc: they share one sector at most.                                    *)
Before(x, y) == x.start < y.start /\ x.start + x.length <= y.start + 1
InTurn(q) == \A i, j \in DOMAIN q : i < j => Before(q[i], q[j])

LEMMA TracksApart ==
    ASSUME Chosen, NEW a \in DOMAIN disc.areas, NEW b \in DOMAIN disc.areas,
           NEW t \in DOMAIN disc.areas[a].tracks,
           NEW u \in DOMAIN disc.areas[b].tracks,
           a < b \/ (a = b /\ t < u)
    PROVE  Before(TrackItem(a, t), TrackItem(b, u))
<1> DEFINE ta == disc.areas[a].tracks
           tb == disc.areas[b].tracks
           x == TrackItem(a, t)
           y == TrackItem(b, u)
<1>1. /\ x.start = ta[t] /\ y.start = tb[u]
      /\ x.start + x.length = IF t < Len(ta) THEN ta[t + 1] + 1
                                             ELSE disc.areas[a].end
  BY TrackShape
<1>2. /\ ta \in Seq(Nat) /\ tb \in Seq(Nat)
      /\ \A i, j \in DOMAIN ta : i < j => ta[i] < ta[j]
      /\ \A i \in DOMAIN ta : ta[i] < disc.areas[a].end
      /\ \A i \in DOMAIN tb : tb[i] >= disc.areas[b].start
      /\ t \in DOMAIN ta /\ u \in DOMAIN tb
  BY TracksAscend
<1> HIDE DEF ta, tb, x, y
<1>3. /\ t \in 1 .. Len(ta) /\ u \in 1 .. Len(tb)
      /\ Len(ta) \in Nat /\ Len(tb) \in Nat
      /\ ta[t] \in Nat /\ tb[u] \in Nat
  BY <1>2
<1>4. CASE a = b /\ t < u
  <2>1. ta = tb
    BY <1>4 DEF ta, tb
  <2>2. /\ u \in DOMAIN ta /\ t + 1 \in DOMAIN ta /\ t < Len(ta)
        /\ t + 1 <= u /\ u \in Nat
    BY <1>2, <1>3, <1>4, <2>1
  <2>3. t + 1 < u => ta[t + 1] < ta[u]
    BY <1>2, <2>2
  <2>4. ta[t] < ta[u]
    BY <1>2, <1>4, <2>2
  <2>5. ta[t + 1] \in Nat /\ ta[u] \in Nat
    BY <1>2, <2>2
  <2>6. ta[t + 1] <= ta[u]
    BY <2>2, <2>3, <2>5
  <2> QED BY <1>1, <2>1, <2>2, <2>4, <2>5, <2>6 DEF Before, x, y
<1>5. CASE a < b
  <2>1. a = 1 /\ b = 2
    BY <1>5, AreaFacts
  <2>2. disc.areas[a].end < disc.areas[b].start
    BY <2>1, AreaFacts
  <2>3. disc.areas[a].end \in Nat /\ disc.areas[b].start \in Nat
    <3>1. disc.areas[a] \in Area /\ disc.areas[b] \in Area
      BY AreaFacts
    <3> QED BY <3>1 DEF Area
  <2>4. tb[u] >= disc.areas[b].start /\ ta[t] < disc.areas[a].end
    BY <1>2
  <2>5. t < Len(ta) => ta[t + 1] < disc.areas[a].end /\ ta[t + 1] \in Nat
    <3>1. t < Len(ta) => t + 1 \in DOMAIN ta
      BY <1>2, <1>3
    <3> QED BY <3>1, <1>2
  <2>6. x.start < y.start
    BY <1>1, <1>3, <2>2, <2>3, <2>4
  <2>7. x.start + x.length <= y.start + 1
    BY <1>1, <1>3, <2>2, <2>3, <2>4, <2>5
  <2> QED BY <2>6, <2>7 DEF Before, x, y
<1> QED
  BY <1>4, <1>5

TracksOf(a) == {TrackItem(a, t) : t \in DOMAIN disc.areas[a].tracks}

LEMMA AreaTracksOrder ==
    ASSUME Chosen, NEW a \in DOMAIN disc.areas
    PROVE  AreaTracks(a) \in Seq(TracksOf(a)) /\ InTurn(AreaTracks(a))
<1> DEFINE tracks == disc.areas[a].tracks
           S == request.pick \cap DOMAIN tracks
           picked == Ascending(S)
<1>1. tracks \in Seq(Nat)
  BY TracksAscend
<1>2. Len(tracks) \in Nat /\ S \in SUBSET (1 .. Len(tracks))
  BY <1>1
<1>3. /\ picked \in Seq(S)
      /\ \A i, j \in DOMAIN picked : i < j => picked[i] < picked[j]
  <2> HIDE DEF S, tracks
  <2> QED BY <1>2, AscendingOrder
<1>4. AreaTracks(a) = [i \in DOMAIN picked |-> TrackItem(a, picked[i])]
  BY DEF AreaTracks
<1> HIDE DEF picked
<1>5. DOMAIN picked = 1 .. Len(picked) /\ Len(picked) \in Nat
  BY <1>3
<1>6. \A i \in DOMAIN picked : picked[i] \in DOMAIN tracks
  <2>1. \A i \in DOMAIN picked : picked[i] \in S
    <3> HIDE DEF S
    <3> QED BY <1>3, ElementOfSeq, <1>5
  <2> QED BY <2>1
<1>7. \A i \in DOMAIN picked : TrackItem(a, picked[i]) \in TracksOf(a)
  BY <1>6 DEF TracksOf
<1>8. AreaTracks(a) \in [1 .. Len(picked) -> TracksOf(a)]
  BY <1>4, <1>5, <1>7
<1>9. InTurn(AreaTracks(a))
  <2> SUFFICES ASSUME NEW i \in DOMAIN picked, NEW j \in DOMAIN picked, i < j
               PROVE  Before(TrackItem(a, picked[i]), TrackItem(a, picked[j]))
    BY <1>4 DEF InTurn
  <2>1. picked[i] < picked[j]
    BY <1>3
  <2> QED BY <2>1, <1>6, TracksApart
<1> QED
  BY <1>5, <1>8, <1>9

(* The concatenation of no more sequences than a disc has areas.           *)
LEMMA FlattenTwo ==
    ASSUME NEW S, NEW seqs \in Seq(Seq(S)), Len(seqs) <= 2
    PROVE  FlattenSeq(seqs) = IF Len(seqs) = 0 THEN <<>>
                              ELSE IF Len(seqs) = 1 THEN seqs[1]
                              ELSE seqs[1] \o seqs[2]
<1> DEFINE n == Len(seqs)
<1>0. n \in Nat /\ n <= 2
  BY LenProperties
<1>1. CASE n = 0
  BY <1>1 DEF FlattenSeq
<1>2. CASE n # 0
  <2> DEFINE Flat(f) == f = [i \in 1 .. n |-> IF i = 1 THEN seqs[i]
                                              ELSE f[i - 1] \o seqs[i]]
             g == [i \in 1 .. n |-> IF i = 1 THEN seqs[1]
                                    ELSE seqs[1] \o seqs[2]]
  <2>1. n = 1 \/ n = 2
    <3> HIDE DEF n
    <3> QED BY <1>0, <1>2
  <2>2. Flat(g)
    <3>1. \A i \in 1 .. n : i = 1 \/ (i = 2 /\ i - 1 = 1 /\ 1 \in 1 .. n)
      BY <2>1
    <3> HIDE DEF n
    <3>2. \A i \in 1 .. n : g[i] = IF i = 1 THEN seqs[i]
                                            ELSE g[i - 1] \o seqs[i]
      BY <3>1
    <3> QED BY <3>2
  <2>3. Flat(CHOOSE f : Flat(f))
    <3> HIDE DEF Flat
    <3> QED BY <2>2
  <2>4. FlattenSeq(seqs) = (CHOOSE f : Flat(f))[n]
    BY <1>2 DEF FlattenSeq
  <2> DEFINE h == CHOOSE f : Flat(f)
  <2>5. \A i \in 1 .. n : h[i] = IF i = 1 THEN seqs[i] ELSE h[i - 1] \o seqs[i]
    BY <2>3
  <2> HIDE DEF h
  <2>6. h[1] = seqs[1] /\ (n = 2 => h[2] = seqs[1] \o seqs[2])
    <3> HIDE DEF n
    <3>1. 1 \in 1 .. n /\ (n = 2 => 2 \in 1 .. n /\ 2 - 1 = 1)
      BY <2>1
    <3>2. h[1] = seqs[1]
      BY <3>1, <2>5
    <3>3. ASSUME n = 2
          PROVE  h[2] = h[1] \o seqs[2]
      <4>1. h[2] = IF 2 = 1 THEN seqs[2] ELSE h[2 - 1] \o seqs[2]
        BY <3>1, <3>3, <2>5, Zenon
      <4> QED BY <4>1
    <3> QED BY <3>2, <3>3
  <2> QED BY <1>2, <2>1, <2>4, <2>6 DEF h
<1> QED
  BY <1>1, <1>2

TrackSet == UNION {TracksOf(a) : a \in DOMAIN disc.areas}
EditSet  == {EditItem(a) : a \in DOMAIN disc.areas}

LEMMA AllTracksOrder ==
    ASSUME Chosen
    PROVE  AllTracks \in Seq(TrackSet) /\ InTurn(AllTracks)
<1> DEFINE S == request.areas \cap DOMAIN disc.areas
           A == Areas
           parts == [i \in DOMAIN A |-> AreaTracks(A[i])]
<1>1. S \in SUBSET (1 .. 2) /\ S \subseteq DOMAIN disc.areas
  BY RipAssumption DEF Chosen, RequestAssumption
<1>2. A \in Seq(S) /\ \A i, j \in DOMAIN A : i < j => A[i] < A[j]
  <2> HIDE DEF S
  <2>1. 2 \in Nat
    OBVIOUS
  <2>2. /\ Ascending(S) \in Seq(S)
        /\ \A i, j \in DOMAIN Ascending(S) :
                i < j => Ascending(S)[i] < Ascending(S)[j]
    BY <1>1, <2>1, AscendingOrder
  <2>3. A = Ascending(S)
    BY DEF Areas, S
  <2> HIDE DEF A
  <2> QED BY <2>2, <2>3
<1> HIDE DEF A, S
<1>3. DOMAIN A = 1 .. Len(A) /\ Len(A) \in Nat
  BY <1>2
<1>4. \A i \in DOMAIN A : A[i] \in S /\ A[i] \in DOMAIN disc.areas
  <2>1. \A i \in DOMAIN A : A[i] \in S
    BY <1>2, <1>3, ElementOfSeq
  <2> QED BY <2>1, <1>1
<1>5. Len(A) <= 2
  <2> SUFFICES ASSUME Len(A) >= 3 PROVE FALSE
    BY <1>3
  <2>1. 1 \in DOMAIN A /\ 2 \in DOMAIN A /\ 3 \in DOMAIN A
    BY <1>3
  <2>2. A[1] < A[2] /\ A[2] < A[3]
    BY <2>1, <1>2
  <2>3. A[1] \in 1 .. 2 /\ A[2] \in 1 .. 2 /\ A[3] \in 1 .. 2
    BY <2>1, <1>1, <1>4
  <2> QED BY <2>2, <2>3
<1>6. \A i \in DOMAIN A : AreaTracks(A[i]) \in Seq(TrackSet)
  <2> SUFFICES ASSUME NEW i \in DOMAIN A
               PROVE  AreaTracks(A[i]) \in Seq(TrackSet)
    OBVIOUS
  <2>1. AreaTracks(A[i]) \in Seq(TracksOf(A[i]))
    BY <1>4, AreaTracksOrder
  <2>2. TracksOf(A[i]) \subseteq TrackSet
    BY <1>4, Zenon DEF TrackSet
  <2> QED BY <2>1, <2>2, SeqMonotonic
<1>7. /\ parts \in Seq(Seq(TrackSet)) /\ Len(parts) = Len(A)
      /\ \A i \in DOMAIN A : parts[i] = AreaTracks(A[i])
  BY <1>3, <1>6
<1>8. AllTracks = FlattenSeq(parts)
  BY DEF AllTracks, A
<1> HIDE DEF parts
<1>9. AllTracks = IF Len(A) = 0 THEN <<>>
                  ELSE IF Len(A) = 1 THEN parts[1] ELSE parts[1] \o parts[2]
  BY <1>5, <1>7, <1>8, FlattenTwo
<1>10. CASE Len(A) = 0
  <2>1. AllTracks = <<>>
    BY <1>9, <1>10
  <2> QED BY <2>1 DEF InTurn
<1>11. CASE Len(A) = 1
  <2>1. 1 \in DOMAIN A /\ AllTracks = AreaTracks(A[1])
    BY <1>3, <1>7, <1>9, <1>11
  <2> QED BY <2>1, <1>4, <1>6, AreaTracksOrder
<1>12. CASE Len(A) = 2
  <2> DEFINE p == AreaTracks(A[1])
             q == AreaTracks(A[2])
  <2>1. /\ 1 \in DOMAIN A /\ 2 \in DOMAIN A /\ A[1] < A[2]
    BY <1>2, <1>3, <1>12
  <2>2. AllTracks = p \o q
    <3>1. parts[1] = p /\ parts[2] = q
      BY <1>7, <2>1
    <3>2. Len(A) # 0 /\ Len(A) # 1
      BY <1>12
    <3> QED BY <3>1, <3>2, <1>9, Zenon
  <2>3. /\ p \in Seq(TracksOf(A[1])) /\ q \in Seq(TracksOf(A[2]))
        /\ InTurn(p) /\ InTurn(q)
    BY <1>4, <2>1, AreaTracksOrder
  <2>4. \A x \in TracksOf(A[1]), y \in TracksOf(A[2]) : Before(x, y)
    BY <1>4, <2>1, TracksApart DEF TracksOf
  <2>5. p \in Seq(TrackSet) /\ q \in Seq(TrackSet)
    BY <1>6, <2>1
  <2> HIDE DEF p, q
  <2>6. AllTracks \in Seq(TrackSet)
    BY <2>2, <2>5
  <2>7. ASSUME NEW i \in DOMAIN AllTracks, NEW j \in DOMAIN AllTracks, i < j
        PROVE  Before(AllTracks[i], AllTracks[j])
    <3>1. /\ Len(p) \in Nat /\ Len(q) \in Nat
          /\ DOMAIN p = 1 .. Len(p) /\ DOMAIN q = 1 .. Len(q)
          /\ i \in 1 .. Len(p) + Len(q) /\ j \in 1 .. Len(p) + Len(q)
          /\ AllTracks[i] = IF i <= Len(p) THEN p[i] ELSE q[i - Len(p)]
          /\ AllTracks[j] = IF j <= Len(p) THEN p[j] ELSE q[j - Len(p)]
      BY <2>2, <2>3
    <3>2. CASE j <= Len(p)
      <4>1. i \in DOMAIN p /\ j \in DOMAIN p
        BY <3>1, <3>2, <2>7
      <4>2. AllTracks[i] = p[i] /\ AllTracks[j] = p[j]
        BY <3>1, <3>2, <2>7
      <4> QED BY <4>1, <4>2, <2>3, <2>7 DEF InTurn
    <3>3. CASE i > Len(p)
      <4>1. /\ i - Len(p) \in DOMAIN q /\ j - Len(p) \in DOMAIN q
            /\ i - Len(p) < j - Len(p)
        BY <3>1, <3>3, <2>7
      <4>2. AllTracks[i] = q[i - Len(p)] /\ AllTracks[j] = q[j - Len(p)]
        BY <3>1, <3>3, <2>7
      <4> QED BY <4>1, <4>2, <2>3 DEF InTurn
    <3>4. CASE i <= Len(p) /\ j > Len(p)
      <4>1. i \in DOMAIN p /\ j - Len(p) \in DOMAIN q
        BY <3>1, <3>4
      <4>2. p[i] \in TracksOf(A[1]) /\ q[j - Len(p)] \in TracksOf(A[2])
        BY <4>1, <2>3, <3>1, ElementOfSeq
      <4>3. AllTracks[i] = p[i] /\ AllTracks[j] = q[j - Len(p)]
        BY <3>1, <3>4
      <4> QED BY <4>2, <4>3, <2>4
    <3> QED BY <3>1, <3>2, <3>3, <3>4
  <2> QED BY <2>6, <2>7 DEF InTurn
<1> QED
  BY <1>3, <1>5, <1>10, <1>11, <1>12

(* An ISO, with the track files that are made from the same blocks.        *)
IsIso(x, subs) ==
    /\ x \in [name : {IsoName}, start : {0}, length : {disc.total},
              raw : {TRUE}, dsf : {FALSE}, decode : {FALSE}, subs : {subs}]
    /\ InTurn(subs)
    /\ subs # <<>> => request.mode = "concurrent"

LEMMA RawShape ==
    ASSUME Chosen, NEW subs, InTurn(subs),
           subs # <<>> => request.mode = "concurrent"
    PROVE  IsIso(RawItem(subs), subs)
<1>1. RawItem(subs) = [NoItem EXCEPT !.name = IsoName, !.length = disc.total,
                                     !.raw = TRUE, !.subs = subs]
  BY DEF RawItem
<1>2. RawItem(subs) \in
        [name : {IsoName}, start : {0}, length : {disc.total}, raw : {TRUE},
         dsf : {FALSE}, decode : {FALSE}, subs : {subs}]
  BY <1>1 DEF NoItem
<1> QED
  BY <1>2 DEF IsIso

LEMMA NoSubs == \A x \in TrackSet \cup EditSet : Chosen => x.subs = <<>>
<1> SUFFICES ASSUME Chosen, NEW x \in TrackSet \cup EditSet
             PROVE  x.subs = <<>>
  OBVIOUS
<1>1. CASE x \in TrackSet
  <2>1. PICK a \in DOMAIN disc.areas : x \in TracksOf(a)
    BY <1>1 DEF TrackSet
  <2>2. PICK t \in DOMAIN disc.areas[a].tracks : x = TrackItem(a, t)
    BY <2>1 DEF TracksOf
  <2> QED BY <2>2, TrackShape
<1>2. CASE x \in EditSet
  BY <1>2, EditShape DEF EditSet
<1> QED
  BY <1>1, <1>2

(* What main puts into the queue (main.c:449-607).                         *)
LEMMA EnqueuedOrder ==
    ASSUME Chosen
    PROVE  /\ Enqueued \in Seq(Items)
           /\ InTurn(Enqueued)
           /\ \A i \in DOMAIN Enqueued : Enqueued[i].raw => Len(Enqueued) = 1
           /\ \A x \in Items :
                \/ x \in TrackSet \cup EditSet
                \/ \E subs \in Seq(Items \cap TrackSet) : IsIso(x, subs)
<1>1. request.mode \in {"iso", "concurrent", "edit", "tracks"}
  BY RipAssumption DEF Chosen, RequestAssumption
<1>2. ToSet(Enqueued) \subseteq Items
  BY DEF Items
<1>3. ASSUME NEW s, NEW S, s \in Seq(S)
      PROVE  /\ s \in Seq(ToSet(s)) /\ ToSet(s) \subseteq S
             /\ \A i \in DOMAIN s : s[i] \in ToSet(s)
             /\ DOMAIN s = 1 .. Len(s) /\ Len(s) \in Nat
  <2>1. s \in [1 .. Len(s) -> S] /\ Len(s) \in Nat /\ DOMAIN s = 1 .. Len(s)
    BY <1>3
  <2>2. \A i \in DOMAIN s : s[i] \in ToSet(s)
    BY DEF ToSet
  <2>3. s \in [1 .. Len(s) -> ToSet(s)]
    BY <2>1, <2>2
  <2>4. ToSet(s) \subseteq S
    BY <2>1 DEF ToSet
  <2> QED BY <2>1, <2>2, <2>3, <2>4
<1>4. ASSUME NEW subs \in Seq(TrackSet), InTurn(subs),
             subs # <<>> => request.mode = "concurrent",
             Enqueued = <<RawItem(subs)>>
      PROVE  /\ Enqueued \in Seq(Items)
             /\ InTurn(Enqueued)
             /\ \A i \in DOMAIN Enqueued :
                  Enqueued[i].raw => Len(Enqueued) = 1
             /\ \A x \in Items :
                  \/ x \in TrackSet \cup EditSet
                  \/ \E s \in Seq(Items \cap TrackSet) : IsIso(x, s)
  <2> DEFINE iso == RawItem(subs)
  <2>1. IsIso(iso, subs)
    BY <1>4, RawShape
  <2>2. iso.subs = subs
    BY <2>1 DEF IsIso
  <2> HIDE DEF iso
  <2>3. ToSet(Enqueued) = {iso}
    BY <1>4 DEF ToSet, iso
  <2>4. Items = {iso} \cup ToSet(subs)
    BY <2>2, <2>3 DEF Items
  <2>5. subs \in Seq(ToSet(subs)) /\ ToSet(subs) \subseteq TrackSet
    BY <1>3
  <2>6. subs \in Seq(Items \cap TrackSet)
    <3>1. ToSet(subs) \subseteq Items \cap TrackSet
      BY <2>4, <2>5
    <3> QED BY <3>1, <2>5, SeqMonotonic
  <2>7. Len(Enqueued) = 1 /\ DOMAIN Enqueued = {1} /\ Enqueued \in Seq(Items)
    BY <1>4, <2>4 DEF iso
  <2>8. InTurn(Enqueued)
    BY <2>7 DEF InTurn
  <2>9. \A x \in Items : \/ x \in TrackSet \cup EditSet
                         \/ \E s \in Seq(Items \cap TrackSet) : IsIso(x, s)
    BY <2>1, <2>4, <2>5, <2>6
  <2> QED BY <2>7, <2>8, <2>9
<1>5. ASSUME Enqueued \in Seq(TrackSet \cup EditSet), InTurn(Enqueued)
      PROVE  /\ Enqueued \in Seq(Items)
             /\ \A i \in DOMAIN Enqueued : ~Enqueued[i].raw
             /\ \A x \in Items : x \in TrackSet \cup EditSet
  <2>1. /\ Enqueued \in Seq(ToSet(Enqueued))
        /\ ToSet(Enqueued) \subseteq TrackSet \cup EditSet
        /\ \A i \in DOMAIN Enqueued : Enqueued[i] \in ToSet(Enqueued)
    BY <1>3, <1>5
  <2>2. Items = ToSet(Enqueued)
    <3>1. \A x \in ToSet(Enqueued) : ToSet(x.subs) = {}
      <4> SUFFICES ASSUME NEW x \in ToSet(Enqueued)
                   PROVE  ToSet(x.subs) = {}
        OBVIOUS
      <4>1. x.subs = <<>>
        BY <2>1, NoSubs
      <4> QED BY <4>1 DEF ToSet
    <3> QED BY <3>1 DEF Items
  <2>3. \A x \in TrackSet \cup EditSet : ~x.raw
    <3> SUFFICES ASSUME NEW x \in TrackSet \cup EditSet PROVE ~x.raw
      OBVIOUS
    <3>1. CASE x \in TrackSet
      <4>1. PICK a \in DOMAIN disc.areas : x \in TracksOf(a)
        BY <3>1 DEF TrackSet
      <4>2. PICK t \in DOMAIN disc.areas[a].tracks : x = TrackItem(a, t)
        BY <4>1 DEF TracksOf
      <4> QED BY <4>2, TrackShape
    <3>2. CASE x \in EditSet
      BY <3>2, EditShape DEF EditSet
    <3> QED BY <3>1, <3>2
  <2> QED BY <2>1, <2>2, <2>3
<1>6. CASE request.mode = "iso"
  <2>1. Enqueued = <<RawItem(<<>>)>>
    BY <1>6 DEF Enqueued
  <2>2. InTurn(<<>>) /\ <<>> \in Seq(TrackSet)
    BY DEF InTurn
  <2> QED BY <2>1, <2>2, <1>4
<1>7. CASE request.mode = "concurrent"
  <2>1. Enqueued = <<RawItem(AllTracks)>>
    BY <1>7 DEF Enqueued
  <2> QED BY <2>1, <1>4, <1>7, AllTracksOrder
<1>8. CASE request.mode = "tracks"
  <2>1. Enqueued = AllTracks
    BY <1>8 DEF Enqueued
  <2>2. Enqueued \in Seq(TrackSet \cup EditSet) /\ InTurn(Enqueued)
    BY <2>1, AllTracksOrder, SeqMonotonic
  <2> QED BY <2>2, <1>5
<1>9. CASE request.mode = "edit"
  <2>1. Enqueued = [i \in DOMAIN Areas |-> EditItem(Areas[i])]
    BY <1>9 DEF Enqueued
  <2> DEFINE S == request.areas \cap DOMAIN disc.areas
  <2>2. S \in SUBSET (1 .. 2) /\ S \subseteq DOMAIN disc.areas /\ 2 \in Nat
    BY RipAssumption DEF Chosen, RequestAssumption
  <2>3. Areas = Ascending(S)
    BY DEF Areas
  <2> HIDE DEF S
  <2>4. /\ Areas \in Seq(S)
        /\ \A i, j \in DOMAIN Areas : i < j => Areas[i] < Areas[j]
    BY <2>2, <2>3, AscendingOrder
  <2>5. \A i \in DOMAIN Areas : Areas[i] \in DOMAIN disc.areas
    <3>1. \A i \in DOMAIN Areas : Areas[i] \in S
      BY <2>4
    <3> QED BY <3>1, <2>2
  <2>6. Enqueued \in Seq(TrackSet \cup EditSet)
    <3>1. \A i \in DOMAIN Areas : EditItem(Areas[i]) \in TrackSet \cup EditSet
      BY <2>5 DEF EditSet
    <3>2. DOMAIN Areas = 1 .. Len(Areas) /\ Len(Areas) \in Nat
      BY <2>4
    <3> QED BY <3>1, <3>2, <2>1
  <2>7. ASSUME NEW i \in DOMAIN Areas, NEW j \in DOMAIN Areas, i < j
        PROVE  Before(EditItem(Areas[i]), EditItem(Areas[j]))
    <3> DEFINE a == Areas[i]
               b == Areas[j]
    <3>1. a \in DOMAIN disc.areas /\ b \in DOMAIN disc.areas /\ a < b
      BY <2>4, <2>5, <2>7
    <3> HIDE DEF a, b
    <3>2. a = 1 /\ b = 2
      BY <3>1, AreaFacts
    <3>3. disc.areas[a].end < disc.areas[b].start
      BY <3>1, <3>2, AreaFacts
    <3>4. /\ disc.areas[a].end \in Nat /\ disc.areas[b].start \in Nat
          /\ EditItem(a).start \in Nat /\ EditItem(a).length \in Nat
      <4>1. disc.areas[a] \in Area /\ disc.areas[b] \in Area
        BY <3>1, AreaFacts
      <4> QED BY <3>1, <4>1, EditShape DEF Area
    <3>5. /\ EditItem(a).start + EditItem(a).length = disc.areas[a].end + 1
          /\ EditItem(a).length > 1
          /\ EditItem(b).start = disc.areas[b].start
      BY <3>1, EditShape
    <3>6. Before(EditItem(a), EditItem(b))
      BY <3>3, <3>4, <3>5 DEF Before
    <3> QED BY <3>6 DEF a, b
  <2>8. InTurn(Enqueued)
    BY <2>1, <2>7 DEF InTurn
  <2> QED BY <2>6, <2>8, <1>5
<1> QED
  BY <1>1, <1>6, <1>7, <1>8, <1>9

(* The disc and the request never change, nor what is made of them.        *)
LEMMA Fixed ==
    ASSUME UNCHANGED <<disc, request>>
    PROVE  /\ Names' = Names /\ Enqueued' = Enqueued /\ Items' = Items
           /\ TrackSet' = TrackSet /\ EditSet' = EditSet
           /\ Item' = Item /\ Chosen' = Chosen
<1>1. Names' = Names
  BY DEF Names
<1>2. \A a, t : TrackItem(a, t)' = TrackItem(a, t)
  BY DEF TrackItem
<1>3. \A a : EditItem(a)' = EditItem(a)
  BY DEF EditItem
<1>4. AllTracks' = AllTracks
  BY DEF AllTracks, Areas, AreaTracks, TrackItem
<1>5. Enqueued' = Enqueued
  BY <1>4 DEF Enqueued, RawItem, EditItem, Areas
<1>6. Items' = Items
  BY <1>5 DEF Items
<1>7. TrackSet' = TrackSet /\ EditSet' = EditSet
  BY DEF TrackSet, TracksOf, TrackItem, EditSet, EditItem
<1>8. Item' = Item
  BY <1>1, <1>6 DEF Item
<1>9. Chosen' = Chosen
  BY DEF Chosen
<1> QED
  BY <1>1, <1>5, <1>6, <1>7, <1>8, <1>9
-----------------------------------------------------------------------------
(* The inductive invariant.                                                *)

(* What the processing thread has in hand and what waits in the queue.  An *)
(* ISO with track files is alone in the queue, so that a track file is     *)
(* never made with anything else.                                          *)
Tracks == Items \cap TrackSet
Wholes == Items \cap (TrackSet \cup EditSet)
SubQueues ==
    {s \in Seq(Tracks) :
        InTurn(s) /\ (s # <<>> => request.mode = "concurrent")}
Isos ==
    [name : {IsoName}, start : {0}, length : {disc.total}, raw : {TRUE},
     dsf : {FALSE}, decode : {FALSE}, subs : SubQueues]

ItemsInv ==
    /\ Chosen
    /\ InTurn(queue)
    /\ \A i \in DOMAIN queue : queue[i].raw => Len(queue) = 1
    /\ ft # NoItem => ft \in Wholes \/ (ft \in Isos /\ queue = <<>>)
    /\ ft_sub # NoItem => /\ ft # NoItem /\ ft \in Isos
                          /\ ft_sub \in Tracks
                          /\ request.mode = "concurrent"
    /\ mpc \in {"enqueue", "start"} => ppc = "none"
    /\ ppc \in {"none", "begin"} => ft = NoItem
    /\ ppc \notin {"none", "begin", "next", "exited"} => ft # NoItem
    /\ ppc \in {"create", "reset", "nextSub"} => ft_sub = NoItem

(* The frame thread: when it can run, and for which file.                  *)
FrameFile == IF ft.raw THEN ft_sub.name ELSE ft.name

FramesInv ==
    /\ running <=> fpc # "none"
    /\ fpc # "none" =>
         /\ ppc \in {"loop", "joinRead", "joinEnd", "check", "crashed"}
         /\ ppc = "check" => stop_processing = 1
         /\ ft.raw => ft_sub # NoItem
         /\ fargs.name = FrameFile
         /\ file[fargs.name].state = "open"
    /\ fpc = "running" => fargs.left <= Len(read_buffer)
    /\ fpc = "done" => fargs.left = 0

(* Which files are open, and which decoders.                               *)
Making == {"reset", "loop", "joinRead", "process", "joinEnd", "nextSub"}

FilesInv ==
    /\ ppc \in Making =>
         /\ file[ft.name].state = "open"
         /\ ft_sub # NoItem => file[ft_sub.name].state = "open"
    /\ \A n \in Names :
         file[n].state = "open" =>
            /\ ppc \in Making \cup {"check", "crashed"}
            /\ n = ft.name \/ (ft_sub # NoItem /\ n = ft_sub.name)
    /\ ppc = "check" /\ ft_sub # NoItem =>
         stop_processing = 1 \/ file[ft_sub.name].state # "open"

DecodersInv ==
    /\ \A n \in Names :
         decoder[n] = "open" =>
            /\ ppc \in Making \cup {"create", "check", "crashed"}
            /\ \/ n = ft.name /\ ft.decode
               \/ ft_sub # NoItem /\ n = ft_sub.name /\ ft_sub.decode
    /\ ppc = "check" /\ ft_sub # NoItem =>
         stop_processing = 1 \/ decoder[ft_sub.name] # "open"

RipInv == TypeOK /\ ItemsInv /\ FramesInv /\ FilesInv /\ DecodersInv

LEMMA FixedSets ==
    ASSUME UNCHANGED <<disc, request>>
    PROVE  /\ Tracks' = Tracks /\ Wholes' = Wholes
           /\ SubQueues' = SubQueues /\ Isos' = Isos
<1>1. Tracks' = Tracks /\ Wholes' = Wholes
  BY Fixed DEF Tracks, Wholes
<1>2. SubQueues' = SubQueues
  BY <1>1 DEF SubQueues
<1> QED
  BY <1>1, <1>2 DEF Isos

LEMMA FewerItems ==
    ASSUME NEW N, NEW N1 \in SUBSET N, NEW S, NEW S1 \in SUBSET S,
           NEW R, NEW R1 \in SUBSET R, NEW F, NEW F1 \in SUBSET F,
           NEW D, NEW D1 \in SUBSET D, NEW Q, NEW Q1 \in SUBSET Q,
           NEW L, NEW L1 \in SUBSET L
    PROVE  [name : N1, start : S1, length : L1, raw : R1, dsf : F1,
            decode : D1, subs : Q1]
             \subseteq [name : N, start : S, length : L, raw : R, dsf : F,
                        decode : D, subs : Q]
  OBVIOUS

LEMMA ItemShape ==
    ASSUME Chosen
    PROVE  /\ Items \subseteq Wholes \cup Isos
           /\ Tracks \subseteq Wholes
           /\ \A x \in Wholes :
                /\ x \in Item /\ x # NoItem
                /\ x.name \in Names /\ x.name # IsoName
                /\ x.raw = FALSE /\ x.subs = <<>>
                /\ x.dsf \in BOOLEAN /\ x.decode \in BOOLEAN
           /\ \A x \in Isos :
                /\ x \in Item /\ x # NoItem
                /\ x.name \in Names /\ x.name = IsoName
                /\ x.raw = TRUE /\ x.subs \in SubQueues
                /\ x.dsf = FALSE /\ x.decode = FALSE
           /\ NoItem.raw = FALSE /\ NoItem.decode = FALSE
           /\ NoItem.dsf = FALSE /\ NoItem.subs = <<>> /\ NoItem \in Item
<1>1. ASSUME NEW x \in Items PROVE x \in Wholes \cup Isos
  <2>1. \/ x \in TrackSet \cup EditSet
        \/ \E subs \in Seq(Items \cap TrackSet) : IsIso(x, subs)
    BY EnqueuedOrder
  <2>2. ASSUME NEW subs \in Seq(Items \cap TrackSet), IsIso(x, subs)
        PROVE  x \in Isos
    <3>1. subs \in SubQueues
      BY <2>2 DEF IsIso, SubQueues, Tracks
    <3> QED BY <2>2, <3>1 DEF IsIso, Isos
  <2> QED BY <2>1, <2>2 DEF Wholes
<1>2. NoItem.name = <<"none", 0, 0>> /\ <<"none", 0, 0>> # IsoName
  BY DEF NoItem, IsoName
<1>3. ASSUME NEW x \in TrackSet \cup EditSet
      PROVE  /\ x \in [name : Names, start : Nat, length : Nat, raw : {FALSE},
                       dsf : BOOLEAN, decode : BOOLEAN, subs : {<<>>}]
             /\ x.name # NoItem.name /\ x.name # IsoName
  <2>1. CASE x \in TrackSet
    <3>1. PICK a \in DOMAIN disc.areas : x \in TracksOf(a)
      BY <2>1 DEF TrackSet
    <3>2. PICK t \in DOMAIN disc.areas[a].tracks : x = TrackItem(a, t)
      BY <3>1 DEF TracksOf
    <3>3. x \in [name : {TrackName(a, t)}, start : Nat, length : Nat,
                 raw : {FALSE}, dsf : BOOLEAN, decode : BOOLEAN,
                 subs : {<<>>}]
      BY <3>2, TrackShape
    <3>4. TrackName(a, t) \in Names
      BY NamesKnown
    <3>5. TrackName(a, t) # NoItem.name /\ TrackName(a, t) # IsoName
      BY <1>2 DEF TrackName, IsoName
    <3>6. x.name = TrackName(a, t)
      BY <3>3
    <3> QED BY <3>3, <3>4, <3>5, <3>6
  <2>2. CASE x \in EditSet
    <3>1. PICK a \in DOMAIN disc.areas : x = EditItem(a)
      BY <2>2 DEF EditSet
    <3>2. x \in [name : {EditName(a)}, start : Nat, length : Nat,
                 raw : {FALSE}, dsf : {FALSE}, decode : BOOLEAN,
                 subs : {<<>>}]
      BY <3>1, EditShape
    <3>3. EditName(a) \in Names
      BY NamesKnown
    <3>4. EditName(a) # NoItem.name /\ EditName(a) # IsoName
      BY <1>2 DEF EditName, IsoName
    <3>5. x.name = EditName(a)
      BY <3>2
    <3> QED BY <3>2, <3>3, <3>4, <3>5
  <2> QED BY <2>1, <2>2
<1>4. ASSUME NEW x \in Wholes
      PROVE  /\ x \in Item /\ x # NoItem
             /\ x.name \in Names /\ x.name # IsoName
             /\ x.raw = FALSE /\ x.subs = <<>>
             /\ x.dsf \in BOOLEAN /\ x.decode \in BOOLEAN
  <2>1. /\ x \in [name : Names, start : Nat, length : Nat, raw : {FALSE},
                  dsf : BOOLEAN, decode : BOOLEAN, subs : {<<>>}]
        /\ x.name # NoItem.name /\ x.name # IsoName
    BY <1>3 DEF Wholes
  <2>2. x \in Item
    <3>1. /\ Names \subseteq Names \cup {NoItem.name} /\ Nat \subseteq Nat
          /\ {FALSE} \subseteq BOOLEAN /\ BOOLEAN \subseteq BOOLEAN
          /\ {<<>>} \subseteq Seq(Items)
      OBVIOUS
    <3>2. [name : Names, start : Nat, length : Nat, raw : {FALSE},
           dsf : BOOLEAN, decode : BOOLEAN, subs : {<<>>}] \subseteq Item
      BY <3>1, FewerItems DEF Item
    <3> QED BY <2>1, <3>2
  <2> QED BY <2>1, <2>2
<1>5. ASSUME NEW x \in Isos
      PROVE  /\ x \in Item /\ x # NoItem
             /\ x.name \in Names /\ x.name = IsoName
             /\ x.raw = TRUE /\ x.subs \in SubQueues
             /\ x.dsf = FALSE /\ x.decode = FALSE
  <2>1. /\ x.name = IsoName /\ x.raw = TRUE /\ x.subs \in SubQueues
        /\ x.dsf = FALSE /\ x.decode = FALSE
    BY DEF Isos
  <2>2. SubQueues \subseteq Seq(Items)
    <3>1. Seq(Tracks) \subseteq Seq(Items)
      BY SeqMonotonic DEF Tracks
    <3> QED BY <3>1 DEF SubQueues
  <2>3. disc.total \in Nat
    BY RipAssumption DEF Chosen, DiscAssumption, Disc
  <2>4. x \in Item
    <3>1. /\ {IsoName} \subseteq Names \cup {NoItem.name}
          /\ {0} \subseteq Nat /\ {disc.total} \subseteq Nat
          /\ {FALSE} \subseteq BOOLEAN /\ {TRUE} \subseteq BOOLEAN
      BY <2>3, NamesKnown
    <3> DEFINE N1 == {IsoName}
               S1 == {0}
               L1 == {disc.total}
               R1 == {TRUE}
               F1 == {FALSE}
    <3>2. Isos = [name : N1, start : S1, length : L1, raw : R1, dsf : F1,
                  decode : F1, subs : SubQueues]
      BY DEF Isos
    <3> HIDE DEF N1, S1, L1, R1, F1
    <3>3. Isos \subseteq [name : Names \cup {NoItem.name}, start : Nat,
                         length : Nat, raw : BOOLEAN, dsf : BOOLEAN,
                         decode : BOOLEAN, subs : Seq(Items)]
      BY <2>2, <3>1, <3>2, FewerItems DEF N1, S1, L1, R1, F1
    <3> QED BY <3>3 DEF Item
  <2> QED BY <1>2, <2>1, <2>4, NamesKnown
<1>6. /\ NoItem.raw = FALSE /\ NoItem.decode = FALSE
      /\ NoItem.dsf = FALSE /\ NoItem.subs = <<>> /\ NoItem \in Item
  BY DEF NoItem, Item
<1>7. Tracks \subseteq Wholes
  BY DEF Tracks, Wholes
<1> QED
  BY <1>1, <1>4, <1>5, <1>6, <1>7

(* What ItemsInv says of the files in hand.                                *)
LEMMA InHand ==
    ASSUME ItemsInv
    PROVE  /\ ft_sub # NoItem => /\ ft \in Isos /\ ft_sub \in Wholes
                                 /\ ft_sub.name \in Names
                                 /\ ft_sub.name # ft.name
                                 /\ ft.raw = TRUE /\ ft.decode = FALSE
                                 /\ ft_sub.raw = FALSE
                                 /\ ft_sub.decode \in BOOLEAN
                                 /\ ft_sub.dsf \in BOOLEAN
           /\ ft # NoItem => /\ ft \in Wholes \cup Isos
                             /\ ft.name \in Names
                             /\ ft.raw \in BOOLEAN /\ ft.decode \in BOOLEAN
                             /\ ft.dsf \in BOOLEAN
                             /\ ft.raw = FALSE => ft_sub = NoItem
                             /\ ft.raw = TRUE => ft \in Isos
<1>1. /\ Chosen
      /\ ft # NoItem => ft \in Wholes \cup Isos
      /\ ft_sub # NoItem => ft # NoItem /\ ft \in Isos /\ ft_sub \in Tracks
  BY DEF ItemsInv
<1>2. ft_sub # NoItem => /\ ft \in Isos /\ ft_sub \in Wholes
                         /\ ft_sub.name \in Names
                         /\ ft_sub.name # ft.name
                         /\ ft.raw = TRUE /\ ft.decode = FALSE
                         /\ ft_sub.raw = FALSE
                         /\ ft_sub.decode \in BOOLEAN
                         /\ ft_sub.dsf \in BOOLEAN
  BY <1>1, ItemShape
<1>3. ASSUME ft # NoItem
      PROVE  /\ ft \in Wholes \cup Isos
             /\ ft.name \in Names
             /\ ft.raw \in BOOLEAN /\ ft.decode \in BOOLEAN
             /\ ft.dsf \in BOOLEAN
             /\ ft.raw = FALSE => ft_sub = NoItem
             /\ ft.raw = TRUE => ft \in Isos
  <2>1. CASE ft \in Wholes
    BY <1>1, <1>2, <2>1, ItemShape
  <2>2. CASE ft \in Isos
    BY <1>1, <1>2, <2>2, ItemShape
  <2> QED BY <1>1, <1>3, <2>1, <2>2
<1> QED
  BY <1>2, <1>3

(* Steps that leave the items, the files, the decoders and the frame       *)
(* thread alone.                                                           *)
Still == UNCHANGED <<disc, request, ft, ft_sub, queue, file, decoder,
                     running, fpc, fargs>>

LEMMA Moves ==
    ASSUME RipInv, Still, TypeOK',
           mpc' \in {"enqueue", "start"} => ppc' = "none",
           ppc' \in {"none", "begin"} => ft = NoItem,
           ppc' \notin {"none", "begin", "next", "exited"} => ft # NoItem,
           ppc' \in {"create", "reset", "nextSub"} => ft_sub = NoItem,
           fpc # "none" =>
             /\ ppc' \in {"loop", "joinRead", "joinEnd", "check", "crashed"}
             /\ ppc' = "check" => stop_processing' = 1
             /\ read_buffer' = read_buffer,
           ppc' \in Making => ppc \in Making,
           ppc \in Making \cup {"check", "crashed"}
             => ppc' \in Making \cup {"check", "crashed"},
           ppc = "create" => ppc' = "create",
           ppc' = "check" => stop_processing' = 1 \/ ft_sub = NoItem
    PROVE  RipInv'
<1>1. ItemsInv'
  <2>1. /\ Chosen' = Chosen /\ Wholes' = Wholes /\ Isos' = Isos
        /\ Tracks' = Tracks
    BY Fixed, FixedSets DEF Still
  <2> QED BY <2>1 DEF RipInv, ItemsInv, Still, InTurn
<1>2. FramesInv'
  <2>1. FrameFile' = FrameFile
    BY DEF FrameFile, Still
  <2>2. FramesInv
    BY DEF RipInv
  <2> QED BY <2>1, <2>2 DEF FramesInv, Still
<1>3. Names' = Names
  BY Fixed DEF Still
<1>4. FilesInv'
  <2>1. FilesInv
    BY DEF RipInv
  <2> QED BY <1>3, <2>1 DEF FilesInv, Still
<1>5. DecodersInv'
  <2>1. DecodersInv
    BY DEF RipInv
  <2> QED BY <1>3, <2>1 DEF DecodersInv, Still
<1> QED
  BY <1>1, <1>2, <1>4, <1>5 DEF RipInv
LEMMA InitInv == Init => RipInv
<1> SUFFICES ASSUME Init PROVE RipInv
  OBVIOUS
<1>1. Chosen
  BY DEF Init, Chosen
<1>2. TypeOK
  <2>1. NoItem \in Item
    BY <1>1, ItemShape
  <2>2. MaxBlock \in Nat
    BY RipAssumption
  <2>3. /\ queue \in Seq(Items)
        /\ buf \in Seq(Sector) /\ Len(buf) <= MaxBlock
        /\ read_buffer \in Seq(Sector) /\ Len(read_buffer) <= MaxBlock
    BY <2>2 DEF Init
  <2>4. fargs \in [name : Names \cup {NoItem.name}, left : 0 .. MaxBlock]
    BY <2>2 DEF Init
  <2>5. /\ file \in [Names -> [state : {"none", "open", "closed", "removed",
                                      "failed"},
                             sectors : Seq(Sector)]]
        /\ decoder \in [Names -> {"none", "open", "destroyed"}]
    BY DEF Init
  <2>6. /\ {encrypted, running, checked, non_encrypted_disc, interrupted}
              \subseteq BOOLEAN
        /\ ft \in Item /\ ft_sub \in Item
    BY <2>1 DEF Init
  <2> QED BY <2>3, <2>4, <2>5, <2>6 DEF Init, TypeOK
<1> QED
  BY <1>1, <1>2 DEF Init, RipInv, ItemsInv, InTurn, FramesInv, FilesInv,
                    DecodersInv, Making

LEMMA ItemStart ==
    ASSUME Chosen, NEW x \in Items
    PROVE  x.start \in Nat /\ x.length \in Nat
<1>1. x \in Item
  BY ItemShape
<1> QED
  BY <1>1 DEF Item

LEMMA TypesFixed ==
    ASSUME UNCHANGED <<disc, request>>
    PROVE  Names' = Names /\ Items' = Items /\ Item' = Item
  BY Fixed

LEMMA scarletbook_output_startInv == RipInv /\ scarletbook_output_start => RipInv'
<1> SUFFICES ASSUME RipInv, scarletbook_output_start PROVE RipInv'
  OBVIOUS
<1> USE DEF scarletbook_output_start, control, flags, place, block, frames, outputs
<1>1. Still
  BY DEF Still
<1>2. TypeOK'
  BY TypesFixed DEF RipInv, TypeOK
<1> QED
  BY <1>1, <1>2, Moves DEF RipInv, ItemsInv, FramesInv, Making, TypeOK

LEMMA DestroyInterruptsInv == RipInv /\ DestroyInterrupts => RipInv'
<1> SUFFICES ASSUME RipInv, DestroyInterrupts PROVE RipInv'
  OBVIOUS
<1> USE DEF DestroyInterrupts, control, flags, place, block, frames, outputs
<1>1. Still
  BY DEF Still
<1>2. TypeOK'
  BY TypesFixed DEF RipInv, TypeOK
<1> QED
  BY <1>1, <1>2, Moves DEF RipInv, ItemsInv, FramesInv, Making, TypeOK

LEMMA DestroyJoinsInv == RipInv /\ DestroyJoins => RipInv'
<1> SUFFICES ASSUME RipInv, DestroyJoins PROVE RipInv'
  OBVIOUS
<1> USE DEF DestroyJoins, control, flags, place, block, frames, outputs
<1>1. Still
  BY DEF Still
<1>2. TypeOK'
  <2>1. read_buffer' \in Seq(Sector) /\ Len(read_buffer') <= MaxBlock
    BY RipAssumption
  <2> QED BY <2>1, TypesFixed DEF RipInv, TypeOK
<1> QED
  BY <1>1, <1>2, Moves DEF RipInv, ItemsInv, FramesInv, Making, TypeOK

LEMMA handle_sigintInv == RipInv /\ handle_sigint => RipInv'
<1> SUFFICES ASSUME RipInv, handle_sigint PROVE RipInv'
  OBVIOUS
<1> USE DEF handle_sigint, control, flags, place, block, frames, outputs
<1>1. Still
  BY DEF Still
<1>2. TypeOK'
  BY TypesFixed DEF RipInv, TypeOK
<1> QED
  BY <1>1, <1>2, Moves DEF RipInv, ItemsInv, FramesInv, Making, TypeOK

LEMMA BeginInv == RipInv /\ Begin => RipInv'
<1> SUFFICES ASSUME RipInv, Begin PROVE RipInv'
  OBVIOUS
<1> USE DEF Begin, control, flags, place, block, frames, outputs
<1>1. Still
  BY DEF Still
<1>2. TypeOK'
  BY TypesFixed DEF RipInv, TypeOK
<1> QED
  BY <1>1, <1>2, Moves DEF RipInv, ItemsInv, FramesInv, Making, TypeOK

LEMMA QueueEmptyInv == RipInv /\ QueueEmpty => RipInv'
<1> SUFFICES ASSUME RipInv, QueueEmpty PROVE RipInv'
  OBVIOUS
<1> USE DEF QueueEmpty, control, flags, place, block, frames, outputs
<1>1. Still
  BY DEF Still
<1>2. TypeOK'
  BY TypesFixed DEF RipInv, TypeOK
<1> QED
  BY <1>1, <1>2, Moves DEF RipInv, ItemsInv, FramesInv, Making, TypeOK

LEMMA ResetStopInv == RipInv /\ ResetStop => RipInv'
<1> SUFFICES ASSUME RipInv, ResetStop PROVE RipInv'
  OBVIOUS
<1> USE DEF ResetStop, control, flags, place, block, frames, outputs
<1>1. Still
  BY DEF Still
<1>2. TypeOK'
  BY TypesFixed DEF RipInv, TypeOK
<1> QED
  BY <1>1, <1>2, Moves DEF RipInv, ItemsInv, FramesInv, Making, TypeOK

LEMMA LoopStopsInv == RipInv /\ LoopStops => RipInv'
<1> SUFFICES ASSUME RipInv, LoopStops PROVE RipInv'
  OBVIOUS
<1> USE DEF LoopStops, control, flags, place, block, frames, outputs
<1>1. Still
  BY DEF Still
<1>2. TypeOK'
  BY TypesFixed DEF RipInv, TypeOK
<1> QED
  BY <1>1, <1>2, Moves DEF RipInv, ItemsInv, FramesInv, Making, TypeOK

LEMMA LoopAtEndInv == RipInv /\ LoopAtEnd => RipInv'
<1> SUFFICES ASSUME RipInv, LoopAtEnd PROVE RipInv'
  OBVIOUS
<1> USE DEF LoopAtEnd, control, flags, place, block, frames, outputs
<1>1. Still
  BY DEF Still
<1>2. TypeOK'
  BY TypesFixed DEF RipInv, TypeOK
<1> QED
  BY <1>1, <1>2, Moves DEF RipInv, ItemsInv, FramesInv, Making, TypeOK

LEMMA ReadErrorInv == RipInv /\ ReadError => RipInv'
<1> SUFFICES ASSUME RipInv, ReadError PROVE RipInv'
  OBVIOUS
<1> USE DEF ReadError, control, flags, place, block, frames, outputs
<1>1. Still
  BY DEF Still
<1>2. TypeOK'
  BY TypesFixed DEF RipInv, TypeOK
<1> QED
  BY <1>1, <1>2, Moves DEF RipInv, ItemsInv, FramesInv, Making, TypeOK

LEMMA GapBeforeSubInv == RipInv /\ GapBeforeSub => RipInv'
<1> SUFFICES ASSUME RipInv, GapBeforeSub PROVE RipInv'
  OBVIOUS
<1> USE DEF GapBeforeSub, control, flags, place, block, frames, outputs
<1>1. Still
  BY DEF Still
<1>2. TypeOK'
  <2>1. end_lsn' \in Nat
    <3>1. ft.subs \in Seq(Items) /\ ft.subs # <<>>
      BY DEF RipInv, TypeOK, Item
    <3>2. ft.subs[1] \in Items
      BY <3>1
    <3>3. ft.subs[1].start \in Nat
      BY <3>2, ItemStart DEF RipInv, ItemsInv
    <3> QED BY <3>3
  <2> QED BY <2>1, TypesFixed DEF RipInv, TypeOK
<1> QED
  BY <1>1, <1>2, Moves DEF RipInv, ItemsInv, FramesInv, Making, TypeOK

LEMMA NoMoreSubsInv == RipInv /\ NoMoreSubs => RipInv'
<1> SUFFICES ASSUME RipInv, NoMoreSubs PROVE RipInv'
  OBVIOUS
<1> USE DEF NoMoreSubs, control, flags, place, block, frames, outputs
<1>1. Still
  BY DEF Still
<1>2. TypeOK'
  <2>1. end_lsn' \in Nat
    BY DEF RipInv, TypeOK, Item
  <2> QED BY <2>1, TypesFixed DEF RipInv, TypeOK
<1> QED
  BY <1>1, <1>2, Moves DEF RipInv, ItemsInv, FramesInv, Making, TypeOK

(* The sectors up to the end of an extent are all in an area or all not.   *)
LEMMA ExtentAlike ==
    ASSUME Chosen, NEW lsn \in Nat
    PROVE  /\ Extent(lsn).size \in Nat \ {0}
           /\ Extent(lsn).enc \in BOOLEAN
           /\ \A k \in Nat : k < Extent(lsn).size =>
                (InArea(lsn + k) <=> Extent(lsn).enc)
<1> DEFINE two == Len(disc.areas) = 2
           s1 == disc.areas[1].start
           e1 == disc.areas[1].end
           s2 == IF two THEN disc.areas[2].start ELSE 0
           e2 == IF two THEN disc.areas[2].end ELSE 0
<1>1. /\ DOMAIN disc.areas = IF two THEN {1, 2} ELSE {1}
  <2>1. DiscAssumption(disc)
    BY RipAssumption DEF Chosen
  <2>2. disc.areas \in Seq(Area) /\ Len(disc.areas) \in 1 .. 2
    BY <2>1 DEF DiscAssumption, Disc
  <2>3. DOMAIN disc.areas = 1 .. Len(disc.areas)
    BY <2>2
  <2>4. two => DOMAIN disc.areas = 1 .. 2
    BY <2>3
  <2>5. ~two => DOMAIN disc.areas = 1 .. 1
    <3>1. ~two => Len(disc.areas) = 1
      BY <2>2
    <3> HIDE DEF two
    <3> QED BY <3>1, <2>3
  <2> QED BY <2>4, <2>5
<1>2. \A a \in DOMAIN disc.areas :
         /\ disc.areas[a].start \in Nat \ {0} /\ disc.areas[a].end \in Nat
         /\ disc.areas[a].start < disc.areas[a].end
  <2> SUFFICES ASSUME NEW a \in DOMAIN disc.areas
               PROVE  /\ disc.areas[a].start \in Nat \ {0}
                      /\ disc.areas[a].end \in Nat
                      /\ disc.areas[a].start < disc.areas[a].end
    OBVIOUS
  <2>1. disc.areas[a] \in Area /\ disc.areas[a].tracks # <<>>
    BY AreaFacts
  <2>2. 1 \in DOMAIN disc.areas[a].tracks
    BY <2>1 DEF Area
  <2>3. disc.areas[a].start < disc.areas[a].end
    BY <2>2, AreaFacts, TracksAscend
  <2> QED BY <2>1, <2>3 DEF Area
<1>3. /\ s1 \in Nat \ {0} /\ e1 \in Nat /\ s1 < e1
  BY <1>1, <1>2
<1>4. two => s2 \in Nat /\ e2 \in Nat /\ e1 < s2 /\ s2 < e2
  <2> SUFFICES ASSUME two PROVE s2 \in Nat /\ e2 \in Nat /\ e1 < s2 /\ s2 < e2
    OBVIOUS
  <2>1. 2 \in DOMAIN disc.areas
    BY <1>1
  <2> QED BY <2>1, <1>2, AreaFacts
<1>5. \A n : InArea(n) <=> \/ n >= s1 /\ n <= e1
                           \/ two /\ n >= s2 /\ n <= e2
  <2>1. CASE two
    BY <1>1, <2>1 DEF InArea
  <2>2. CASE ~two
    BY <1>1, <2>2 DEF InArea
  <2> QED BY <2>1, <2>2
<1>6. Extent(lsn) =
        CASE lsn < s1                 -> [size |-> s1 - lsn, enc |-> FALSE]
          [] lsn >= s1 /\ lsn <= e1   -> [size |-> e1 + 1 - lsn, enc |-> TRUE]
          [] lsn > e1 /\ lsn < s2     -> [size |-> s2 - lsn, enc |-> FALSE]
          [] lsn > e1 /\ lsn >= s2 /\ lsn <= e2
                                      -> [size |-> e2 + 1 - lsn, enc |-> TRUE]
          [] OTHER                    -> [size |-> MaxBlock, enc |-> FALSE]
  BY DEF Extent
<1>7. ~two => s2 = 0 /\ e2 = 0
  OBVIOUS
<1>8. MaxBlock \in Nat \ {0}
  BY RipAssumption
<1> HIDE DEF two, s1, e1, s2, e2
<1>9. s2 \in Nat /\ e2 \in Nat
  BY <1>4, <1>7
<1>10. CASE lsn < s1
  <2>1. /\ ~(lsn >= s1 /\ lsn <= e1) /\ ~(lsn > e1 /\ lsn < s2)
    BY <1>3, <1>9, <1>10
  <2>2. ~(lsn > e1 /\ lsn >= s2 /\ lsn <= e2)
    BY <1>3, <1>10
  <2>3. Extent(lsn) = [size |-> s1 - lsn, enc |-> FALSE]
    BY <1>6, <1>10, <2>1, <2>2
  <2> QED BY <2>3, <1>3, <1>4, <1>5, <1>10
<1>11. CASE lsn >= s1 /\ lsn <= e1
  <2>1. Extent(lsn) = [size |-> e1 + 1 - lsn, enc |-> TRUE]
    BY <1>3, <1>4, <1>6, <1>7, <1>9, <1>11
  <2> QED BY <2>1, <1>3, <1>4, <1>5, <1>11
<1>12. CASE lsn > e1 /\ lsn < s2
  <2>1. Extent(lsn) = [size |-> s2 - lsn, enc |-> FALSE]
    BY <1>3, <1>4, <1>6, <1>7, <1>9, <1>12
  <2> QED BY <2>1, <1>3, <1>4, <1>5, <1>9, <1>12
<1>13. CASE two /\ lsn >= s2 /\ lsn <= e2
  <2>1. Extent(lsn) = [size |-> e2 + 1 - lsn, enc |-> TRUE]
    BY <1>3, <1>4, <1>6, <1>9, <1>13
  <2> QED BY <2>1, <1>3, <1>4, <1>5, <1>9, <1>13
<1>14. CASE /\ lsn > e1 /\ ~(lsn < s2)
            /\ ~(two /\ lsn >= s2 /\ lsn <= e2)
  <2>1. Extent(lsn) = [size |-> MaxBlock, enc |-> FALSE]
    BY <1>3, <1>4, <1>6, <1>7, <1>9, <1>14
  <2> QED BY <2>1, <1>3, <1>4, <1>5, <1>7, <1>8, <1>9, <1>14
<1> QED
  BY <1>3, <1>9, <1>10, <1>11, <1>12, <1>13, <1>14

(* A block is not larger than the buffer, and ends with its extent.        *)
LEMMA BlockFits ==
    ASSUME RipInv, current_lsn < end_lsn,
           NEW n \in Readable(current_lsn, BlockSize(Extent(current_lsn)))
    PROVE  /\ n \in Nat /\ n <= MaxBlock /\ n <= end_lsn - current_lsn
           /\ n <= Extent(current_lsn).size
           /\ current_lsn <= disc.total => current_lsn + n <= disc.total
           /\ Sectors(current_lsn, n) \in Seq(Sector)
           /\ Len(Sectors(current_lsn, n)) = n
<1> DEFINE size == Extent(current_lsn).size
<1>1. /\ current_lsn \in Nat /\ end_lsn \in Nat /\ size \in Nat
      /\ MaxBlock \in Nat /\ disc.total \in Nat
  BY ExtentAlike, RipAssumption
     DEF RipInv, TypeOK, ItemsInv, Chosen, DiscAssumption, Disc
<1>2. n \in 0 .. Smaller(Smaller(end_lsn - current_lsn,
                                 Smaller(size, MaxBlock)),
                         IF current_lsn < disc.total
                         THEN disc.total - current_lsn ELSE 0)
  BY DEF Readable, BlockSize
<1> HIDE DEF size
<1>3. /\ n \in Nat /\ n <= MaxBlock /\ n <= end_lsn - current_lsn
      /\ n <= size
      /\ current_lsn <= disc.total => current_lsn + n <= disc.total
  BY <1>1, <1>2 DEF Smaller
<1>4. \A i \in 1 .. n :
         [lsn |-> current_lsn + i - 1, clear |-> FALSE] \in Sector
  BY <1>1, <1>3 DEF Sector
<1>5. /\ Sectors(current_lsn, n) \in [1 .. n -> Sector]
  BY <1>4 DEF Sectors
<1>6. /\ Sectors(current_lsn, n) \in Seq(Sector)
      /\ Len(Sectors(current_lsn, n)) = n
  <2> DEFINE s == Sectors(current_lsn, n)
  <2>1. s \in [1 .. n -> Sector]
    BY <1>5
  <2> HIDE DEF s
  <2>2. s \in Seq(Sector) /\ Len(s) = n
    BY <2>1, <1>3
  <2> QED BY <2>2 DEF s
<1> QED
  BY <1>3, <1>6 DEF size

LEMMA ReadBlockInv == RipInv /\ ReadBlock => RipInv'
<1> SUFFICES ASSUME RipInv, ReadBlock PROVE RipInv'
  OBVIOUS
<1> USE DEF control, flags, place, block, frames, outputs
<1>1. Still
  BY DEF ReadBlock, Still
<1>2. buf' \in Seq(Sector) /\ Len(buf') <= MaxBlock
  <2>1. PICK n \in Readable(current_lsn, BlockSize(Extent(current_lsn))) :
               buf' = Sectors(current_lsn, n)
    BY DEF ReadBlock
  <2>2. current_lsn < end_lsn
    BY DEF ReadBlock
  <2> QED BY <2>1, <2>2, BlockFits
<1>3. encrypted' \in BOOLEAN
  <2>1. encrypted' = Extent(current_lsn).enc
    BY DEF ReadBlock
  <2> QED BY <2>1, ExtentAlike DEF RipInv, TypeOK, ItemsInv
<1>4. TypeOK'
  BY <1>2, <1>3, TypesFixed DEF ReadBlock, RipInv, TypeOK
<1> QED
  BY <1>1, <1>4, Moves
     DEF ReadBlock, RipInv, ItemsInv, FramesInv, Making, TypeOK

LEMMA TailInTurn ==
    ASSUME NEW S, NEW q \in Seq(S), q # <<>>, InTurn(q)
    PROVE  /\ Head(q) \in S /\ Head(q) = q[1]
           /\ Tail(q) \in Seq(S) /\ InTurn(Tail(q))
           /\ \A i \in DOMAIN Tail(q) : /\ Tail(q)[i] \in S
                                        /\ Before(Head(q), Tail(q)[i])
           /\ Len(q) = 1 => Tail(q) = <<>>
           /\ Len(Tail(q)) = Len(q) - 1
<1>1. /\ Len(q) \in Nat \ {0} /\ DOMAIN q = 1 .. Len(q)
      /\ Tail(q) \in Seq(S) /\ Head(q) \in S /\ Head(q) = q[1]
      /\ Len(Tail(q)) = Len(q) - 1
      /\ DOMAIN Tail(q) = 1 .. Len(q) - 1
      /\ \A i \in 1 .. Len(q) - 1 : Tail(q)[i] = q[i + 1]
      /\ \A i \in 1 .. Len(q) : q[i] \in S
  OBVIOUS
<1>2. InTurn(Tail(q))
  <2> SUFFICES ASSUME NEW i \in 1 .. Len(q) - 1, NEW j \in 1 .. Len(q) - 1,
                      i < j
               PROVE  Before(Tail(q)[i], Tail(q)[j])
    BY <1>1 DEF InTurn
  <2>1. i + 1 \in DOMAIN q /\ j + 1 \in DOMAIN q /\ i + 1 < j + 1
    BY <1>1
  <2>2. Before(q[i + 1], q[j + 1])
    BY <2>1 DEF InTurn
  <2> QED BY <1>1, <2>2
<1>3. ASSUME NEW i \in DOMAIN Tail(q)
      PROVE  Tail(q)[i] \in S /\ Before(Head(q), Tail(q)[i])
  <2>1. /\ i + 1 \in DOMAIN q /\ 1 \in DOMAIN q /\ 1 < i + 1
        /\ Tail(q)[i] = q[i + 1]
    BY <1>1
  <2>2. Before(q[1], q[i + 1])
    BY <2>1 DEF InTurn
  <2> QED BY <1>1, <2>1, <2>2
<1>4. Len(q) = 1 => Tail(q) = <<>>
  BY <1>1
<1> QED
  BY <1>1, <1>2, <1>3, <1>4

LEMMA EnqueueInv == RipInv /\ Enqueue => RipInv'
<1> SUFFICES ASSUME RipInv, Enqueue PROVE RipInv'
  OBVIOUS
<1> USE DEF Enqueue, flags, block, frames, outputs
<1>1. ppc = "none" /\ ft = NoItem /\ ft_sub = NoItem /\ Chosen
  BY DEF RipInv, ItemsInv
<1>2. /\ Names' = Names /\ Items' = Items /\ Item' = Item /\ Chosen' = Chosen
  BY Fixed
<1>3. /\ queue' \in Seq(Items) /\ InTurn(queue')
      /\ \A i \in DOMAIN queue' : queue'[i].raw => Len(queue') = 1
  BY <1>1, EnqueuedOrder
<1>4. TypeOK'
  BY <1>2, <1>3 DEF RipInv, TypeOK
<1>5. ItemsInv'
  BY <1>1, <1>2, <1>3 DEF ItemsInv, InTurn
<1>6. FramesInv' /\ FilesInv' /\ DecodersInv'
  BY <1>1, <1>2 DEF RipInv, FramesInv, FilesInv, DecodersInv, FrameFile, Making
<1> QED
  BY <1>4, <1>5, <1>6 DEF RipInv

LEMMA NextItemInv == RipInv /\ NextItem => RipInv'
<1> SUFFICES ASSUME RipInv, NextItem PROVE RipInv'
  OBVIOUS
<1> USE DEF NextItem, control, flags, block, frames
<1>1. /\ Names' = Names /\ Items' = Items /\ Item' = Item /\ Chosen' = Chosen
      /\ Wholes' = Wholes /\ Isos' = Isos /\ Tracks' = Tracks
  BY Fixed, FixedSets
<1>2. /\ Chosen /\ queue \in Seq(Items) /\ queue # <<>> /\ InTurn(queue)
      /\ \A i \in DOMAIN queue : queue[i].raw => Len(queue) = 1
      /\ ft # NoItem => ft \in Wholes
      /\ ppc = "next" /\ fpc = "none" /\ running = FALSE
  BY DEF RipInv, ItemsInv, FramesInv, TypeOK
<1>3. ft_sub = NoItem
  BY <1>2, ItemShape DEF RipInv, ItemsInv
<1>4. /\ ft' \in Items /\ ft' = queue[1] /\ 1 \in DOMAIN queue
      /\ queue' \in Seq(Items) /\ InTurn(queue')
      /\ Len(queue) = 1 => queue' = <<>>
      /\ Len(queue') = Len(queue) - 1
      /\ Len(queue) \in Nat
  <2>1. 1 \in DOMAIN queue /\ Len(queue) \in Nat
    BY <1>2
  <2> QED BY <1>2, <2>1, TailInTurn
<1>5. /\ ft' \in Wholes \/ (ft' \in Isos /\ queue' = <<>>)
      /\ ft' # NoItem /\ ft' \in Item /\ ft'.name \in Names
      /\ ft'.decode \in BOOLEAN
  <2>1. ft' \in Isos => queue' = <<>>
    BY <1>2, <1>4, ItemShape
  <2> QED BY <1>2, <1>4, <2>1, ItemShape
<1>6. \A i \in DOMAIN queue' : queue'[i].raw => Len(queue') = 1
  <2> SUFFICES ASSUME NEW i \in DOMAIN queue', queue'[i].raw
               PROVE  Len(queue') = 1
    OBVIOUS
  <2>1. /\ i + 1 \in DOMAIN queue /\ queue'[i] = queue[i + 1]
        /\ DOMAIN queue' # {}
    BY <1>2
  <2>2. Len(queue) = 1
    BY <1>2, <2>1
  <2> QED BY <1>4, <2>1, <2>2
<1>7. ft_sub' = NoItem /\ ppc' = "create" /\ UNCHANGED <<mpc, fpc, running>>
  BY <1>3
<1>8. decoder' \in [Names -> {"none", "open", "destroyed"}]
  BY <1>5 DEF RipInv, TypeOK
<1>9. TypeOK'
  BY <1>1, <1>4, <1>5, <1>8 DEF RipInv, TypeOK
<1>10. ItemsInv'
  <2>1. mpc \notin {"enqueue", "start"}
    BY <1>2 DEF RipInv, ItemsInv
  <2> QED BY <1>1, <1>2, <1>4, <1>5, <1>6, <1>7, <2>1 DEF ItemsInv, InTurn
<1>11. FramesInv'
  BY <1>2, <1>7 DEF FramesInv
<1>12. FilesInv'
  BY <1>1, <1>2, <1>3, <1>7 DEF RipInv, FilesInv, Making
<1>13. DecodersInv'
  <2>1. \A n \in Names : decoder[n] # "open"
    BY <1>2 DEF RipInv, DecodersInv, Making
  <2>2. \A n \in Names : decoder'[n] = "open" => n = ft'.name /\ ft'.decode
    BY <2>1, <1>5 DEF RipInv, TypeOK
  <2> QED BY <1>1, <1>7, <2>2 DEF DecodersInv
<1> QED
  BY <1>9, <1>10, <1>11, <1>12, <1>13 DEF RipInv

LEMMA CreateFileInv == RipInv /\ CreateFile => RipInv'
<1> SUFFICES ASSUME RipInv, CreateFile PROVE RipInv'
  OBVIOUS
<1> USE DEF CreateFile, control, flags, block, frames
<1>1. /\ Names' = Names /\ Items' = Items /\ Item' = Item /\ Chosen' = Chosen
      /\ Wholes' = Wholes /\ Isos' = Isos /\ Tracks' = Tracks
  BY Fixed, FixedSets
<1>2. /\ ft # NoItem /\ ft_sub = NoItem /\ ft.name \in Names /\ fpc = "none"
      /\ running = FALSE /\ Chosen /\ ft \in Item
  BY InHand DEF RipInv, ItemsInv, FramesInv, TypeOK
<1>3. current_lsn' \in Nat /\ end_lsn' \in Nat
  <2>1. ft.start \in Nat /\ ft.length \in Nat /\ ft.subs \in Seq(Items)
    BY <1>2 DEF Item
  <2>2. ft.subs # <<>> => ft.subs[1].start \in Nat
    <3>1. ft.subs # <<>> => ft.subs[1] \in Items
      BY <2>1
    <3> QED BY <3>1, <1>2, ItemStart
  <2> QED BY <2>1, <2>2
<1>4. /\ file' \in [Names -> [state : {"none", "open", "closed", "removed",
                                       "failed"},
                              sectors : Seq(Sector)]]
      /\ file'[ft.name].state = "open"
      /\ \A n \in Names : n # ft.name => file'[n] = file[n]
  BY <1>2 DEF RipInv, TypeOK
<1>5. TypeOK'
  BY <1>1, <1>3, <1>4 DEF RipInv, TypeOK
<1>6. ItemsInv'
  BY <1>1, <1>2 DEF RipInv, ItemsInv, InTurn
<1>7. FramesInv'
  BY <1>2 DEF FramesInv
<1>8. FilesInv'
  <2>1. \A n \in Names : file[n].state # "open"
    BY DEF RipInv, FilesInv, Making
  <2> QED BY <1>1, <1>2, <1>4, <2>1 DEF FilesInv, Making
<1>9. DecodersInv'
  BY <1>1, <1>2 DEF RipInv, DecodersInv, Making
<1> QED
  BY <1>5, <1>6, <1>7, <1>8, <1>9 DEF RipInv

LEMMA CreateFailsInv == RipInv /\ CreateFails => RipInv'
<1> SUFFICES ASSUME RipInv, CreateFails PROVE RipInv'
  OBVIOUS
<1> USE DEF CreateFails, control, flags, place, block, frames
<1>1. /\ Names' = Names /\ Items' = Items /\ Item' = Item /\ Chosen' = Chosen
      /\ Wholes' = Wholes /\ Isos' = Isos /\ Tracks' = Tracks
  BY Fixed, FixedSets
<1>2. /\ ft # NoItem /\ ft_sub = NoItem /\ ft.name \in Names /\ fpc = "none"
      /\ running = FALSE /\ Chosen
  BY InHand DEF RipInv, ItemsInv, FramesInv, TypeOK
<1>3. /\ file' \in [Names -> [state : {"none", "open", "closed", "removed",
                                       "failed"},
                              sectors : Seq(Sector)]]
      /\ file'[ft.name].state = "failed"
      /\ \A n \in Names : n # ft.name => file'[n] = file[n]
  BY <1>2 DEF RipInv, TypeOK
<1>4. TypeOK'
  BY <1>1, <1>3 DEF RipInv, TypeOK
<1>5. ItemsInv'
  BY <1>1, <1>2 DEF RipInv, ItemsInv, InTurn
<1>6. FramesInv'
  BY <1>2 DEF FramesInv
<1>7. FilesInv'
  <2>1. \A n \in Names : file[n].state # "open"
    BY DEF RipInv, FilesInv, Making
  <2> QED BY <1>1, <1>2, <1>3, <2>1 DEF FilesInv, Making
<1>8. DecodersInv'
  BY <1>1, <1>2 DEF RipInv, DecodersInv, Making
<1> QED
  BY <1>4, <1>5, <1>6, <1>7, <1>8 DEF RipInv

LEMMA Cleared ==
    ASSUME NEW x \in Sector, NEW c \in BOOLEAN
    PROVE  /\ [x EXCEPT !.clear = c] \in Sector
           /\ [x EXCEPT !.clear = c].lsn = x.lsn
           /\ [x EXCEPT !.clear = c].clear = c
  BY DEF Sector

LEMMA Written ==
    ASSUME NEW N, NEW S, NEW Q, NEW f \in [N -> [state : S, sectors : Q]],
           NEW n \in N, NEW t \in Q
    PROVE  LET g == [f EXCEPT ![n].sectors = t]
           IN /\ g \in [N -> [state : S, sectors : Q]]
              /\ g[n].sectors = t
              /\ \A m \in N : g[m].state = f[m].state
              /\ \A m \in N : m # n => g[m] = f[m]
<1> DEFINE g == [f EXCEPT ![n].sectors = t]
           r == [f[n] EXCEPT !.sectors = t]
<1>1. /\ r \in [state : S, sectors : Q]
      /\ r.sectors = t /\ r.state = f[n].state
  OBVIOUS
<1>2. g = [f EXCEPT ![n] = r]
  OBVIOUS
<1> HIDE DEF r, g
<1>3. g \in [N -> [state : S, sectors : Q]]
  BY <1>1, <1>2
<1>4. \A m \in N : g[m] = IF m = n THEN r ELSE f[m]
  BY <1>2
<1> QED
  BY <1>1, <1>3, <1>4 DEF g

LEMMA CopyBlockInv == RipInv /\ CopyBlock => RipInv'
<1> SUFFICES ASSUME RipInv, CopyBlock PROVE RipInv'
  OBVIOUS
<1> USE DEF CopyBlock, control, flags, outputs
<1>1. /\ Names' = Names /\ Items' = Items /\ Item' = Item /\ Chosen' = Chosen
      /\ Wholes' = Wholes /\ Isos' = Isos /\ Tracks' = Tracks
  BY Fixed, FixedSets
<1>2. ft # NoItem /\ Chosen /\ ppc = "joinRead"
  BY DEF RipInv, ItemsInv
<1>3. Verdicts \subseteq BOOLEAN
  <2>1. disc.plain \in BOOLEAN /\ non_encrypted_disc \in BOOLEAN
    BY RipAssumption DEF RipInv, TypeOK, ItemsInv, Chosen, DiscAssumption, Disc
  <2> DEFINE d == disc.areas[IF ft.raw THEN 1 ELSE ft.name[2]].dst
  <2>2. CASE d
    <3>1. Verdicts = {non_encrypted_disc}
      BY <2>2, Zenon DEF Verdicts
    <3> QED BY <2>1, <3>1
  <2>3. CASE ~d /\ buf # <<>>
    <3>1. Verdicts = {disc.plain}
      BY <2>3, Zenon DEF Verdicts
    <3> QED BY <2>1, <3>1
  <2>4. CASE ~d /\ buf = <<>>
    <3>1. Verdicts = BOOLEAN
      BY <2>4, Zenon DEF Verdicts
    <3> QED BY <3>1
  <2> QED BY <2>2, <2>3, <2>4
<1>4. non_encrypted_disc' \in BOOLEAN /\ checked' \in BOOLEAN
  <2>1. non_encrypted_disc \in BOOLEAN
    BY DEF RipInv, TypeOK
  <2> QED BY <1>3, <2>1
<1>5. read_buffer' \in Seq(Sector) /\ Len(read_buffer') = Len(buf)
  <2> DEFINE clear == encrypted /\ ~non_encrypted_disc'
  <2>1. buf \in Seq(Sector) /\ clear \in BOOLEAN
    BY DEF RipInv, TypeOK
  <2>2. DOMAIN buf = 1 .. Len(buf) /\ Len(buf) \in Nat
    BY <2>1
  <2>3. read_buffer' = [i \in DOMAIN buf |-> [buf[i] EXCEPT !.clear = clear]]
    OBVIOUS
  <2> HIDE DEF clear
  <2>4. \A i \in DOMAIN buf : [buf[i] EXCEPT !.clear = clear] \in Sector
    <3>1. \A i \in DOMAIN buf : buf[i] \in Sector
      BY <2>1, <2>2
    <3> QED BY <3>1, <2>1, Cleared
  <2>5. read_buffer' \in [1 .. Len(buf) -> Sector]
    BY <2>2, <2>3, <2>4
  <2> QED BY <2>2, <2>5
<1>6. TypeOK'
  <2>1. current_lsn' \in Nat /\ buf' \in Seq(Sector) /\ Len(buf') <= MaxBlock
    BY RipAssumption DEF RipInv, TypeOK
  <2>2. Len(read_buffer') <= MaxBlock
    BY <1>5 DEF RipInv, TypeOK
  <2> QED BY <1>1, <1>4, <1>5, <2>1, <2>2 DEF RipInv, TypeOK
<1>7. ItemsInv'
  BY <1>1, <1>2 DEF RipInv, ItemsInv, InTurn
<1>8. FramesInv'
  BY DEF FramesInv
<1>9. FilesInv'
  BY <1>1, <1>2 DEF RipInv, FilesInv, Making
<1>10. DecodersInv'
  BY <1>1, <1>2 DEF RipInv, DecodersInv, Making
<1> QED
  BY <1>6, <1>7, <1>8, <1>9, <1>10 DEF RipInv

LEMMA ProcessBlockInv == RipInv /\ ProcessBlock => RipInv'
<1> SUFFICES ASSUME RipInv, ProcessBlock PROVE RipInv'
  OBVIOUS
<1> USE DEF ProcessBlock, control, flags, place, block
<1>1. /\ Names' = Names /\ Items' = Items /\ Item' = Item /\ Chosen' = Chosen
      /\ Wholes' = Wholes /\ Isos' = Isos /\ Tracks' = Tracks
  BY Fixed, FixedSets
<1>2. /\ ft # NoItem /\ Chosen /\ ppc = "process" /\ ppc' = "loop"
      /\ ft.name \in Names /\ ft.raw \in BOOLEAN
      /\ ft_sub # NoItem => ft.raw = TRUE /\ ft_sub.name \in Names
      /\ fpc = "none" /\ running = FALSE
  BY InHand DEF RipInv, ItemsInv, FramesInv, TypeOK
<1>3. /\ file' \in [Names -> [state : {"none", "open", "closed", "removed",
                                       "failed"},
                              sectors : Seq(Sector)]]
      /\ \A n \in Names : file'[n].state = file[n].state
  <2>1. CASE ft.raw
    <3> DEFINE t == file[ft.name].sectors \o read_buffer
    <3>1. t \in Seq(Sector)
      BY <1>2 DEF RipInv, TypeOK
    <3>2. file' = [file EXCEPT ![ft.name].sectors = t]
      BY <2>1
    <3>3. file \in [Names -> [state : {"none", "open", "closed", "removed",
                                      "failed"},
                             sectors : Seq(Sector)]]
      BY DEF RipInv, TypeOK
    <3> HIDE DEF t
    <3> QED BY <1>2, <3>1, <3>2, <3>3, Written
  <2>2. CASE ~ft.raw
    BY <2>2 DEF RipInv, TypeOK
  <2> QED BY <2>1, <2>2
<1>4. \/ UNCHANGED frames
      \/ /\ running' = TRUE /\ fpc' = "running"
         /\ fargs' = [name |-> FrameFile, left |-> Len(read_buffer)]
         /\ ft.raw => ft_sub # NoItem
  BY DEF StartFrameThread, FrameFile
<1>5. FrameFile' = FrameFile
  BY DEF FrameFile
<1>6. (ft.raw => ft_sub # NoItem) =>
         FrameFile \in Names /\ file[FrameFile].state = "open"
  BY <1>2 DEF FrameFile, RipInv, FilesInv, Making
<1>7. /\ fargs' \in [name : Names \cup {NoItem.name}, left : 0 .. MaxBlock]
      /\ fpc' \in {"none", "running", "done"} /\ running' \in BOOLEAN
  <2>1. Len(read_buffer) \in 0 .. MaxBlock
    BY RipAssumption DEF RipInv, TypeOK
  <2>2. CASE UNCHANGED frames
    BY <2>2 DEF frames, RipInv, TypeOK
  <2>3. CASE /\ running' = TRUE /\ fpc' = "running"
             /\ fargs' = [name |-> FrameFile, left |-> Len(read_buffer)]
             /\ ft.raw => ft_sub # NoItem
    BY <1>6, <2>1, <2>3
  <2> QED BY <1>4, <2>2, <2>3
<1>8. TypeOK'
  BY <1>1, <1>3, <1>7 DEF RipInv, TypeOK
<1>9. ItemsInv'
  BY <1>1, <1>2 DEF RipInv, ItemsInv, InTurn
<1>10. FramesInv'
  <2>1. CASE UNCHANGED frames
    BY <1>2, <2>1 DEF FramesInv, frames
  <2>2. CASE /\ running' = TRUE /\ fpc' = "running"
             /\ fargs' = [name |-> FrameFile, left |-> Len(read_buffer)]
             /\ ft.raw => ft_sub # NoItem
    <3>1. fargs'.name = FrameFile /\ fargs'.left = Len(read_buffer)
      BY <2>2
    <3>2. file'[FrameFile].state = "open"
      BY <1>3, <1>6, <2>2
    <3>3. Len(read_buffer) <= Len(read_buffer)
      BY DEF RipInv, TypeOK
    <3> QED BY <1>2, <1>5, <2>2, <3>1, <3>2, <3>3 DEF FramesInv
  <2> QED BY <1>4, <2>1, <2>2
<1>11. FilesInv'
  BY <1>1, <1>2, <1>3 DEF RipInv, FilesInv, Making
<1>12. DecodersInv'
  BY <1>1, <1>2 DEF RipInv, DecodersInv, Making
<1> QED
  BY <1>8, <1>9, <1>10, <1>11, <1>12 DEF RipInv

LEMMA ProcessSectorInv == RipInv /\ ppc # "crashed" /\ ProcessSector => RipInv'
<1> SUFFICES ASSUME RipInv, ppc # "crashed", ProcessSector PROVE RipInv'
  OBVIOUS
<1> USE DEF ProcessSector, control, flags, place, block
<1>1. /\ Names' = Names /\ Items' = Items /\ Item' = Item /\ Chosen' = Chosen
      /\ Wholes' = Wholes /\ Isos' = Isos /\ Tracks' = Tracks
  BY Fixed, FixedSets
<1>2. /\ fpc = "running" /\ fargs.left > 0 /\ fargs.left <= Len(read_buffer)
      /\ fargs.left \in Nat /\ fargs.left <= MaxBlock
      /\ fargs \in [name : Names \cup {NoItem.name}, left : 0 .. MaxBlock]
      /\ fargs.name = FrameFile
      /\ ft # NoItem /\ (ft.raw => ft_sub # NoItem)
  BY DEF RipInv, TypeOK, FramesInv, ItemsInv
<1>3. fargs.name \in Names
  BY <1>2, InHand DEF RipInv, FrameFile
<1> DEFINE k == Len(read_buffer) - fargs.left + 1
<1>4. k \in DOMAIN read_buffer /\ read_buffer[k] \in Sector
  BY <1>2 DEF RipInv, TypeOK
<1>5. file' = [file EXCEPT ![fargs.name].sectors = Append(@, read_buffer[k])]
  OBVIOUS
<1> HIDE DEF k
<1>6. /\ file' \in [Names -> [state : {"none", "open", "closed", "removed",
                                       "failed"},
                              sectors : Seq(Sector)]]
      /\ \A n \in Names : file'[n].state = file[n].state
  <2> DEFINE n == fargs.name
             t == Append(file[n].sectors, read_buffer[k])
  <2>1. t \in Seq(Sector) /\ n \in Names
    BY <1>3, <1>4 DEF RipInv, TypeOK
  <2>2. file' = [file EXCEPT ![n].sectors = t]
    BY <1>5
  <2>3. file \in [Names -> [state : {"none", "open", "closed", "removed",
                                    "failed"},
                           sectors : Seq(Sector)]]
    BY DEF RipInv, TypeOK
  <2> HIDE DEF t, n, ProcessSector
  <2>4. /\ [file EXCEPT ![n].sectors = t]
             \in [Names -> [state : {"none", "open", "closed", "removed",
                                    "failed"},
                           sectors : Seq(Sector)]]
        /\ \A m \in Names :
             [file EXCEPT ![n].sectors = t][m].state = file[m].state
    BY <2>1, <2>3, Written
  <2> QED BY <2>2, <2>4
<1>7. /\ fargs' \in [name : Names \cup {NoItem.name}, left : 0 .. MaxBlock]
      /\ fargs'.name = fargs.name /\ fargs'.left = fargs.left - 1
  <2>1. fargs' = [fargs EXCEPT !.left = fargs.left - 1]
    OBVIOUS
  <2>2. fargs.left - 1 \in 0 .. MaxBlock
    BY <1>2, RipAssumption
  <2> QED BY <1>2, <2>1, <2>2
<1>8. TypeOK'
  BY <1>1, <1>6, <1>7 DEF RipInv, TypeOK
<1>9. ItemsInv'
  BY <1>1 DEF RipInv, ItemsInv, InTurn
<1>10. FramesInv'
  <2>1. FrameFile' = FrameFile
    BY DEF FrameFile
  <2>2. fargs'.left <= Len(read_buffer)
    BY <1>2, <1>7 DEF RipInv, TypeOK
  <2> QED BY <1>3, <1>2, <1>6, <1>7, <2>1, <2>2 DEF RipInv, FramesInv
<1>11. FilesInv'
  <2>1. ft # NoItem => ft.name \in Names
    BY InHand DEF RipInv
  <2>2. ft_sub # NoItem => ft_sub.name \in Names
    BY InHand DEF RipInv
  <2>3. ppc \in Making => ft # NoItem
    BY DEF RipInv, ItemsInv, Making
  <2> QED BY <1>1, <1>6, <2>1, <2>2, <2>3 DEF RipInv, FilesInv
<1>12. DecodersInv'
  BY <1>1 DEF RipInv, DecodersInv
<1> QED
  BY <1>8, <1>9, <1>10, <1>11, <1>12 DEF RipInv

LEMMA FrameThreadEndsInv == RipInv /\ FrameThreadEnds => RipInv'
<1> SUFFICES ASSUME RipInv, FrameThreadEnds PROVE RipInv'
  OBVIOUS
<1> USE DEF FrameThreadEnds, control, flags, place, block, outputs
<1>1. /\ Names' = Names /\ Items' = Items /\ Item' = Item /\ Chosen' = Chosen
      /\ Wholes' = Wholes /\ Isos' = Isos /\ Tracks' = Tracks
  BY Fixed, FixedSets
<1>2. TypeOK'
  BY <1>1 DEF RipInv, TypeOK
<1>3. ItemsInv'
  BY <1>1 DEF RipInv, ItemsInv, InTurn
<1>4. FramesInv'
  <2>1. FrameFile' = FrameFile
    BY DEF FrameFile
  <2> QED BY <2>1 DEF RipInv, FramesInv
<1>5. FilesInv' /\ DecodersInv'
  BY <1>1 DEF RipInv, FilesInv, DecodersInv
<1> QED
  BY <1>2, <1>3, <1>4, <1>5 DEF RipInv

(* Setting the state of a file, closing it, destroying a decoder.          *)
LEMMA Marked ==
    ASSUME NEW N, NEW S, NEW Q, NEW f \in [N -> [state : S, sectors : Q]],
           NEW n \in N, NEW t \in S
    PROVE  /\ [f EXCEPT ![n].state = t] \in [N -> [state : S, sectors : Q]]
           /\ [f EXCEPT ![n].state = t][n].state = t
           /\ \A m \in N : [f EXCEPT ![n].state = t][m].sectors = f[m].sectors
           /\ \A m \in N : m # n => [f EXCEPT ![n].state = t][m] = f[m]
<1> DEFINE g == [f EXCEPT ![n].state = t]
           r == [f[n] EXCEPT !.state = t]
<1>1. /\ r \in [state : S, sectors : Q]
      /\ r.state = t /\ r.sectors = f[n].sectors
  OBVIOUS
<1>2. g = [f EXCEPT ![n] = r]
  OBVIOUS
<1> HIDE DEF r, g
<1>3. g \in [N -> [state : S, sectors : Q]]
  BY <1>1, <1>2
<1>4. \A m \in N : g[m] = IF m = n THEN r ELSE f[m]
  BY <1>2
<1> QED
  BY <1>1, <1>3, <1>4 DEF g

Files == [Names -> [state : {"none", "open", "closed", "removed", "failed"},
                    sectors : Seq(Sector)]]

LEMMA ClosedFiles ==
    ASSUME NEW files \in Files, NEW item, item.name \in Names,
           NEW s \in {"closed", "removed"}
    PROVE  /\ Closed(files, item, s) \in Files
           /\ Closed(files, item, s)[item.name].state # "open"
           /\ \A n \in Names :
                /\ Closed(files, item, s)[n].sectors = files[n].sectors
                /\ n # item.name => Closed(files, item, s)[n] = files[n]
                /\ \/ Closed(files, item, s)[n] = files[n]
                   \/ /\ files[n].state = "open"
                      /\ Closed(files, item, s)[n].state = s
<1> DEFINE n == item.name
<1>1. CASE files[n].state = "open"
  <2>1. Closed(files, item, s) = [files EXCEPT ![n].state = s]
    BY <1>1 DEF Closed
  <2>2. /\ files \in [Names -> [state : {"none", "open", "closed", "removed",
                                         "failed"},
                                sectors : Seq(Sector)]]
        /\ n \in Names
        /\ s \in {"none", "open", "closed", "removed", "failed"}
    BY DEF Files
  <2> HIDE DEF n
  <2>3. /\ [files EXCEPT ![n].state = s]
             \in [Names -> [state : {"none", "open", "closed", "removed",
                                     "failed"},
                            sectors : Seq(Sector)]]
        /\ [files EXCEPT ![n].state = s][n].state = s
        /\ \A m \in Names :
             [files EXCEPT ![n].state = s][m].sectors = files[m].sectors
        /\ \A m \in Names :
             m # n => [files EXCEPT ![n].state = s][m] = files[m]
    BY <2>2, Marked
  <2> QED BY <1>1, <2>1, <2>3 DEF Files, n
<1>2. CASE files[n].state # "open"
  BY <1>2 DEF Closed
<1> QED
  BY <1>1, <1>2

LEMMA DestroyedDecoders ==
    ASSUME NEW decoders \in [Names -> {"none", "open", "destroyed"}],
           NEW item, item.name \in Names \/ item.decode = FALSE
    PROVE  /\ Destroyed(decoders, item)
                \in [Names -> {"none", "open", "destroyed"}]
           /\ \A n \in Names :
                Destroyed(decoders, item)[n] = "open" =>
                   decoders[n] = "open" /\ ~(item.decode /\ n = item.name)
  BY DEF Destroyed

LEMMA FinishSubInv == RipInv /\ FinishSub => RipInv'
<1> SUFFICES ASSUME RipInv, FinishSub PROVE RipInv'
  OBVIOUS
<1> USE DEF FinishSub, control, flags, block
<1>1. /\ Names' = Names /\ Items' = Items /\ Item' = Item /\ Chosen' = Chosen
      /\ Wholes' = Wholes /\ Isos' = Isos /\ Tracks' = Tracks
  BY Fixed, FixedSets
<1>2. /\ ft # NoItem /\ Chosen /\ ppc = "joinEnd" /\ ppc' = "nextSub"
      /\ ft.name \in Names /\ ft_sub' = NoItem
      /\ file \in Files /\ decoder \in [Names -> {"none", "open", "destroyed"}]
      /\ file[ft.name].state = "open"
      /\ fpc' = "none" /\ running' = FALSE
  BY InHand DEF RipInv, ItemsInv, TypeOK, FilesInv, Making, Files
<1>3. ASSUME ft_sub # NoItem
      PROVE  /\ file' \in Files
             /\ \A n \in Names : file'[n].state = "open" => n = ft.name
             /\ file'[ft.name].state = "open"
             /\ decoder' \in [Names -> {"none", "open", "destroyed"}]
             /\ \A n \in Names : decoder'[n] # "open"
  <2>1. /\ ft_sub.name \in Names /\ ft_sub.name # ft.name
        /\ ft.decode = FALSE
    BY <1>3, InHand DEF RipInv
  <2>2. /\ file' = Closed(file, ft_sub, "closed")
        /\ decoder' = Destroyed(decoder, ft_sub)
    BY <1>3
  <2>3. /\ file' \in Files /\ file'[ft_sub.name].state # "open"
        /\ \A n \in Names : n # ft_sub.name => file'[n] = file[n]
    <3>1. "closed" \in {"closed", "removed"}
      OBVIOUS
    <3> HIDE DEF FinishSub
    <3>2. LET g == Closed(file, ft_sub, "closed")
          IN /\ g \in Files /\ g[ft_sub.name].state # "open"
             /\ \A n \in Names : n # ft_sub.name => g[n] = file[n]
      BY <1>2, <2>1, <3>1, ClosedFiles
    <3> QED BY <2>2, <3>2
  <2>4. /\ decoder' \in [Names -> {"none", "open", "destroyed"}]
        /\ \A n \in Names :
             decoder'[n] = "open" =>
                decoder[n] = "open" /\ ~(ft_sub.decode /\ n = ft_sub.name)
    BY <1>2, <2>1, <2>2, DestroyedDecoders
  <2>5. \A n \in Names : decoder'[n] # "open"
    BY <2>1, <2>4 DEF RipInv, DecodersInv
  <2>6. \A n \in Names : file'[n].state = "open" => n = ft.name
    BY <2>3 DEF RipInv, FilesInv
  <2> QED BY <1>2, <2>1, <2>3, <2>4, <2>5, <2>6
<1>4. ASSUME ft_sub = NoItem
      PROVE  /\ file' = file /\ decoder' = decoder
             /\ \A n \in Names : file'[n].state = "open" => n = ft.name
             /\ \A n \in Names : decoder'[n] = "open" => n = ft.name /\ ft.decode
  BY <1>4 DEF outputs, RipInv, FilesInv, DecodersInv
<1>5. /\ file' \in Files /\ decoder' \in [Names -> {"none", "open", "destroyed"}]
      /\ file'[ft.name].state = "open"
      /\ \A n \in Names : file'[n].state = "open" => n = ft.name
      /\ \A n \in Names : decoder'[n] = "open" => n = ft.name /\ ft.decode
  BY <1>2, <1>3, <1>4
<1>6. NoItem \in Item
  BY <1>2, ItemShape
<1>7. TypeOK'
  BY <1>1, <1>2, <1>5, <1>6 DEF RipInv, TypeOK, Files
<1>8. ItemsInv'
  BY <1>1, <1>2 DEF RipInv, ItemsInv, InTurn
<1>9. FramesInv'
  BY <1>2 DEF FramesInv
<1>10. FilesInv' /\ DecodersInv'
  BY <1>1, <1>2, <1>5 DEF FilesInv, DecodersInv, Making
<1> QED
  BY <1>7, <1>8, <1>9, <1>10 DEF RipInv

(* The next track file of the ISO.                                         *)
LEMMA NextSub ==
    ASSUME RipInv, ppc = "nextSub", ft.subs # <<>>
    PROVE  /\ ft \in Isos /\ ft_sub = NoItem /\ queue = <<>>
           /\ ft.subs \in Seq(Tracks) /\ InTurn(ft.subs)
           /\ request.mode = "concurrent"
           /\ Head(ft.subs) \in Tracks /\ Head(ft.subs) \in Wholes
           /\ Head(ft.subs) \in Item /\ Head(ft.subs) # NoItem
           /\ Head(ft.subs).name \in Names
           /\ Head(ft.subs).name # ft.name
           /\ Head(ft.subs).start \in Nat /\ Head(ft.subs).length \in Nat
           /\ Head(ft.subs).decode \in BOOLEAN
           /\ ft.decode = FALSE /\ ft.name \in Names /\ ft # NoItem
           /\ [ft EXCEPT !.subs = Tail(@)] \in Isos
           /\ [ft EXCEPT !.subs = Tail(@)].name = ft.name
           /\ [ft EXCEPT !.subs = Tail(@)].decode = FALSE
           /\ fpc = "none" /\ running = FALSE
           /\ mpc \notin {"enqueue", "start"}
<1>1. ft # NoItem /\ ft_sub = NoItem /\ fpc = "none" /\ Chosen
      /\ running = FALSE /\ mpc \notin {"enqueue", "start"}
  BY DEF RipInv, ItemsInv, FramesInv, TypeOK
<1>2. ft \in Isos /\ queue = <<>>
  BY <1>1, ItemShape DEF RipInv, ItemsInv
<1>3. ft.subs \in SubQueues /\ ft.decode = FALSE /\ ft.name = IsoName
  BY <1>1, <1>2, ItemShape
<1>4. /\ ft.subs \in Seq(Tracks) /\ InTurn(ft.subs)
      /\ request.mode = "concurrent"
  BY <1>3 DEF SubQueues
<1>5. /\ Head(ft.subs) \in Tracks
      /\ Tail(ft.subs) \in Seq(Tracks) /\ InTurn(Tail(ft.subs))
  BY <1>4, TailInTurn
<1>6. Head(ft.subs) \in Wholes /\ Head(ft.subs) \in Items
  BY <1>5 DEF Tracks, Wholes
<1>7. Tail(ft.subs) \in SubQueues
  BY <1>4, <1>5 DEF SubQueues
<1>8. [ft EXCEPT !.subs = Tail(@)] \in Isos
  BY <1>2, <1>7 DEF Isos
<1>9. /\ [ft EXCEPT !.subs = Tail(@)].name = ft.name
      /\ [ft EXCEPT !.subs = Tail(@)].decode = FALSE
  BY <1>2 DEF Isos
<1> QED
  BY <1>1, <1>2, <1>3, <1>4, <1>5, <1>6, <1>8, <1>9, ItemShape, ItemStart

LEMMA StartSubInv == RipInv /\ StartSub => RipInv'
<1> SUFFICES ASSUME RipInv, StartSub PROVE RipInv'
  OBVIOUS
<1> USE DEF control, flags, block, frames
<1>1. /\ Names' = Names /\ Items' = Items /\ Item' = Item /\ Chosen' = Chosen
      /\ Wholes' = Wholes /\ Isos' = Isos /\ Tracks' = Tracks
  BY Fixed, FixedSets DEF StartSub
<1> DEFINE sub == Head(ft.subs)
<1>2. ppc = "nextSub" /\ ft.subs # <<>>
  BY DEF StartSub
<1>3. /\ ft \in Isos /\ ft_sub = NoItem /\ queue = <<>>
      /\ request.mode = "concurrent"
      /\ sub \in Tracks /\ sub \in Wholes /\ sub \in Item /\ sub # NoItem
      /\ sub.name \in Names /\ sub.name # ft.name
      /\ sub.start \in Nat /\ sub.length \in Nat /\ sub.decode \in BOOLEAN
      /\ ft.decode = FALSE /\ ft.name \in Names /\ ft # NoItem
      /\ [ft EXCEPT !.subs = Tail(@)] \in Isos
      /\ [ft EXCEPT !.subs = Tail(@)].name = ft.name
      /\ fpc = "none" /\ running = FALSE /\ mpc \notin {"enqueue", "start"}
  BY <1>2, NextSub
<1>4. /\ ft_sub' = sub /\ ft' = [ft EXCEPT !.subs = Tail(@)]
      /\ end_lsn' = sub.start + sub.length
      /\ file' = [file EXCEPT ![sub.name].state = "open"]
      /\ decoder' = IF sub.decode THEN [decoder EXCEPT ![sub.name] = "open"]
                                  ELSE decoder
      /\ ppc' = "loop"
      /\ UNCHANGED <<control, flags, current_lsn, queue, block, frames>>
  BY DEF StartSub
<1> HIDE DEF sub
<1>5. ft' \in Isos /\ ft'.name = ft.name
  BY <1>3, <1>4
<1>6. /\ Chosen /\ ft' \in Item /\ ft' # NoItem /\ ft'.raw = TRUE
      /\ ft'.decode = FALSE
  BY <1>5, ItemShape DEF RipInv, ItemsInv
<1>7. /\ file' \in Files /\ file'[sub.name].state = "open"
      /\ \A n \in Names : n # sub.name => file'[n] = file[n]
  <2>1. file \in [Names -> [state : {"none", "open", "closed", "removed",
                                     "failed"},
                            sectors : Seq(Sector)]]
    BY DEF RipInv, TypeOK
  <2>2. "open" \in {"none", "open", "closed", "removed", "failed"}
    OBVIOUS
  <2> DEFINE n == sub.name
  <2>3. n \in Names /\ file' = [file EXCEPT ![n].state = "open"]
    BY <1>3, <1>4
  <2> HIDE DEF n
  <2>4. /\ [file EXCEPT ![n].state = "open"]
             \in [Names -> [state : {"none", "open", "closed", "removed",
                                     "failed"},
                            sectors : Seq(Sector)]]
        /\ [file EXCEPT ![n].state = "open"][n].state = "open"
        /\ \A m \in Names :
             m # n => [file EXCEPT ![n].state = "open"][m] = file[m]
    BY <2>1, <2>2, <2>3, Marked
  <2> QED BY <2>3, <2>4 DEF Files, n
<1>8. /\ decoder' \in [Names -> {"none", "open", "destroyed"}]
      /\ \A n \in Names : decoder'[n] = "open" => n = sub.name /\ sub.decode
  <2>1. \A n \in Names : decoder[n] # "open"
    BY <1>3 DEF RipInv, DecodersInv
  <2> QED BY <1>3, <1>4, <2>1 DEF RipInv, TypeOK
<1>9. TypeOK'
  <2>1. end_lsn' \in Nat
    BY <1>3, <1>4
  <2> QED BY <1>1, <1>3, <1>4, <1>6, <1>7, <1>8, <2>1
          DEF RipInv, TypeOK, Files
<1>10. ItemsInv'
  BY <1>1, <1>3, <1>4, <1>5, <1>6 DEF RipInv, ItemsInv, InTurn
<1>11. FramesInv'
  BY <1>3, <1>4 DEF FramesInv
<1>12. FilesInv'
  <2>1. file[ft.name].state = "open"
    BY <1>2 DEF RipInv, FilesInv, Making
  <2>2. \A n \in Names : file[n].state = "open" => n = ft.name
    BY <1>3 DEF RipInv, FilesInv
  <2> QED BY <1>1, <1>3, <1>4, <1>5, <1>7, <2>1, <2>2 DEF FilesInv, Making
<1>13. DecodersInv'
  BY <1>1, <1>3, <1>4, <1>8 DEF DecodersInv, Making
<1> QED
  BY <1>9, <1>10, <1>11, <1>12, <1>13 DEF RipInv

LEMMA StartSubFailsInv == RipInv /\ StartSubFails => RipInv'
<1> SUFFICES ASSUME RipInv, StartSubFails PROVE RipInv'
  OBVIOUS
<1> USE DEF control, flags, block, frames
<1>1. /\ Names' = Names /\ Items' = Items /\ Item' = Item /\ Chosen' = Chosen
      /\ Wholes' = Wholes /\ Isos' = Isos /\ Tracks' = Tracks
  BY Fixed, FixedSets DEF StartSubFails
<1> DEFINE sub == Head(ft.subs)
<1>2. ppc = "nextSub" /\ ft.subs # <<>>
  BY DEF StartSubFails
<1>3. /\ ft \in Isos /\ ft_sub = NoItem /\ queue = <<>>
      /\ request.mode = "concurrent"
      /\ sub \in Tracks /\ sub \in Wholes /\ sub \in Item /\ sub # NoItem
      /\ sub.name \in Names /\ sub.name # ft.name
      /\ ft.decode = FALSE /\ ft.name \in Names /\ ft # NoItem
      /\ fpc = "none" /\ running = FALSE /\ mpc \notin {"enqueue", "start"}
  BY <1>2, NextSub
<1>4. /\ ft_sub' = sub
      /\ file' = [file EXCEPT ![sub.name].state = "failed"]
      /\ ppc' = "check"
      /\ UNCHANGED <<control, flags, current_lsn, end_lsn, ft, queue, block,
                     frames, decoder>>
  BY DEF StartSubFails
<1> HIDE DEF sub
<1>5. /\ file' \in Files /\ file'[sub.name].state = "failed"
      /\ \A n \in Names : n # sub.name => file'[n] = file[n]
  <2>1. file \in [Names -> [state : {"none", "open", "closed", "removed",
                                     "failed"},
                            sectors : Seq(Sector)]]
    BY DEF RipInv, TypeOK
  <2>2. "failed" \in {"none", "open", "closed", "removed", "failed"}
    OBVIOUS
  <2> DEFINE n == sub.name
  <2>3. n \in Names /\ file' = [file EXCEPT ![n].state = "failed"]
    BY <1>3, <1>4
  <2> HIDE DEF n
  <2>4. /\ [file EXCEPT ![n].state = "failed"]
             \in [Names -> [state : {"none", "open", "closed", "removed",
                                     "failed"},
                            sectors : Seq(Sector)]]
        /\ [file EXCEPT ![n].state = "failed"][n].state = "failed"
        /\ \A m \in Names :
             m # n => [file EXCEPT ![n].state = "failed"][m] = file[m]
    BY <2>1, <2>2, <2>3, Marked
  <2> QED BY <2>3, <2>4 DEF Files, n
<1>6. TypeOK'
  BY <1>1, <1>3, <1>4, <1>5 DEF RipInv, TypeOK, Files
<1>7. ItemsInv'
  BY <1>1, <1>3, <1>4 DEF RipInv, ItemsInv, InTurn
<1>8. FramesInv'
  BY <1>3, <1>4 DEF FramesInv
<1>9. FilesInv'
  <2>1. \A n \in Names : file[n].state = "open" => n = ft.name
    BY <1>3 DEF RipInv, FilesInv
  <2> QED BY <1>1, <1>3, <1>4, <1>5, <2>1 DEF FilesInv, Making
<1>10. DecodersInv'
  <2>1. \A n \in Names : decoder[n] # "open"
    BY <1>3 DEF RipInv, DecodersInv
  <2> QED BY <1>1, <1>3, <1>4, <2>1 DEF DecodersInv
<1> QED
  BY <1>6, <1>7, <1>8, <1>9, <1>10 DEF RipInv

(* What ending the files in hand leaves.                                   *)
LEMMA Ended ==
    ASSUME RipInv, ft # NoItem, NEW s \in {"closed", "removed"}
    PROVE  /\ Closed(file, ft, s) \in Files
           /\ Destroyed(decoder, ft)
                \in [Names -> {"none", "open", "destroyed"}]
           /\ \A n \in Names :
                Closed(file, ft, s)[n].state = "open" =>
                    ft_sub # NoItem /\ n = ft_sub.name /\ file[n].state = "open"
           /\ \A n \in Names :
                Destroyed(decoder, ft)[n] = "open" =>
                    ft_sub # NoItem /\ n = ft_sub.name /\ decoder[n] = "open"
<1>1. /\ ft.name \in Names /\ file \in Files
      /\ decoder \in [Names -> {"none", "open", "destroyed"}]
  BY InHand DEF RipInv, TypeOK, Files
<1>2. /\ Closed(file, ft, s) \in Files
      /\ Closed(file, ft, s)[ft.name].state # "open"
      /\ \A n \in Names : n # ft.name => Closed(file, ft, s)[n] = file[n]
  BY <1>1, ClosedFiles
<1>3. /\ Destroyed(decoder, ft) \in [Names -> {"none", "open", "destroyed"}]
      /\ \A n \in Names :
           Destroyed(decoder, ft)[n] = "open" =>
              decoder[n] = "open" /\ ~(ft.decode /\ n = ft.name)
  BY <1>1, DestroyedDecoders
<1>4. ASSUME NEW n \in Names, Closed(file, ft, s)[n].state = "open"
      PROVE  ft_sub # NoItem /\ n = ft_sub.name /\ file[n].state = "open"
  <2>1. n # ft.name
    BY <1>2, <1>4
  <2>2. file[n].state = "open"
    BY <1>2, <1>4, <2>1
  <2> QED BY <2>1, <2>2 DEF RipInv, FilesInv
<1>5. ASSUME NEW n \in Names, Destroyed(decoder, ft)[n] = "open"
      PROVE  ft_sub # NoItem /\ n = ft_sub.name /\ decoder[n] = "open"
  <2>1. decoder[n] = "open" /\ ~(ft.decode /\ n = ft.name)
    BY <1>3, <1>5
  <2> QED BY <2>1 DEF RipInv, DecodersInv
<1> QED
  BY <1>2, <1>3, <1>4, <1>5

LEMMA FinishItemInv == RipInv /\ FinishItem => RipInv'
<1> SUFFICES ASSUME RipInv, FinishItem PROVE RipInv'
  OBVIOUS
<1>1. /\ ppc = "check" /\ stop_processing # 1
      /\ UNCHANGED <<disc, request, mpc, ft, ft_sub, queue, running, fpc,
                     fargs, stop_processing, processing, interrupted,
                     current_lsn, end_lsn, block>>
  BY DEF FinishItem, Stopped, control, flags, place, frames
<1>2. /\ Names' = Names /\ Items' = Items /\ Item' = Item /\ Chosen' = Chosen
      /\ Wholes' = Wholes /\ Isos' = Isos /\ Tracks' = Tracks
  BY <1>1, Fixed, FixedSets
<1>3. /\ ft # NoItem /\ fpc = "none" /\ running = FALSE
      /\ mpc \notin {"enqueue", "start"}
  BY <1>1 DEF RipInv, ItemsInv, FramesInv, TypeOK
<1>4. CASE CloseCrashes(ft)
  <2>1. /\ ppc' = "crashed" /\ UNCHANGED outputs
    BY <1>4 DEF FinishItem
  <2>2. Still
    BY <1>1, <2>1 DEF Still, outputs
  <2>3. TypeOK'
    BY <1>1, <1>2, <2>1 DEF block, outputs, RipInv, TypeOK
  <2> QED BY <1>1, <1>3, <2>1, <2>2, <2>3, Moves DEF Making
<1>5. CASE ~CloseCrashes(ft)
  <2>1. /\ ppc' = "next"
        /\ file' = Closed(file, ft, "closed")
        /\ decoder' = Destroyed(decoder, ft)
    BY <1>5 DEF FinishItem
  <2>2. /\ file' \in Files
        /\ decoder' \in [Names -> {"none", "open", "destroyed"}]
        /\ \A n \in Names : file'[n].state # "open" /\ decoder'[n] # "open"
    <3>1. "closed" \in {"closed", "removed"}
      OBVIOUS
    <3>2. /\ file' \in Files
          /\ decoder' \in [Names -> {"none", "open", "destroyed"}]
          /\ \A n \in Names :
               file'[n].state = "open" =>
                 ft_sub # NoItem /\ n = ft_sub.name /\ file[n].state = "open"
          /\ \A n \in Names :
               decoder'[n] = "open" =>
                 ft_sub # NoItem /\ n = ft_sub.name /\ decoder[n] = "open"
      BY <1>3, <2>1, <3>1, Ended
    <3>3. ft_sub # NoItem => /\ file[ft_sub.name].state # "open"
                             /\ decoder[ft_sub.name] # "open"
      BY <1>1 DEF RipInv, FilesInv, DecodersInv
    <3> QED BY <3>2, <3>3
  <2>3. TypeOK'
    BY <1>1, <1>2, <2>1, <2>2 DEF block, RipInv, TypeOK, Files
  <2>4. ItemsInv'
    BY <1>1, <1>2, <1>3, <2>1 DEF RipInv, ItemsInv, InTurn
  <2>5. FramesInv'
    BY <1>1, <1>3, <2>1 DEF FramesInv
  <2>6. FilesInv' /\ DecodersInv'
    BY <1>2, <2>1, <2>2 DEF FilesInv, DecodersInv, Making
  <2> QED BY <2>3, <2>4, <2>5, <2>6 DEF RipInv
<1> QED
  BY <1>4, <1>5

LEMMA RemovedFile ==
    ASSUME NEW files \in Files, NEW item, item.name \in Names
    PROVE  /\ Closed(files, item, "removed") \in Files
           /\ Closed(files, item, "removed")[item.name].state # "open"
           /\ \A n \in Names : n # item.name =>
                Closed(files, item, "removed")[n] = files[n]
<1>1. "removed" \in {"closed", "removed"}
  OBVIOUS
<1> QED
  BY <1>1, ClosedFiles

LEMMA CancelInv == RipInv /\ Cancel => RipInv'
<1> SUFFICES ASSUME RipInv, Cancel PROVE RipInv'
  OBVIOUS
<1>1. /\ ppc = "check" /\ stop_processing = 1
      /\ running' = FALSE /\ fpc' = "none"
      /\ UNCHANGED <<disc, request, mpc, ft, ft_sub, stop_processing,
                     interrupted, block, fargs, current_lsn, end_lsn>>
  BY DEF Cancel, Stopped, control, place
<1>2. /\ Names' = Names /\ Items' = Items /\ Item' = Item /\ Chosen' = Chosen
      /\ Wholes' = Wholes /\ Isos' = Isos /\ Tracks' = Tracks
  BY <1>1, Fixed, FixedSets
<1>3. ft # NoItem /\ mpc \notin {"enqueue", "start"} /\ Chosen
  BY <1>1 DEF RipInv, ItemsInv
<1>4. FramesInv'
  BY <1>1 DEF FramesInv
<1>5. \/ /\ ppc' = "crashed"
         /\ UNCHANGED <<processing, place, outputs>>
      \/ /\ file' = LET files == IF ft_sub = NoItem THEN file
                                 ELSE Closed(file, ft_sub, "removed")
                    IN Closed(files, ft, "removed")
         /\ decoder' = Destroyed(Destroyed(decoder, ft_sub), ft)
         /\ processing' = 0
         /\ queue' = <<>>
         /\ ppc' = "exited"
  BY DEF Cancel
<1>6. CASE /\ ppc' = "crashed"
           /\ UNCHANGED <<processing, place, outputs>>
  <2>1. TypeOK'
    BY <1>1, <1>2, <1>6 DEF block, outputs, place, RipInv, TypeOK
  <2>2. ItemsInv'
    BY <1>1, <1>2, <1>3, <1>6 DEF place, RipInv, ItemsInv, InTurn
  <2>3. FilesInv' /\ DecodersInv'
    BY <1>1, <1>2, <1>6 DEF outputs, RipInv, FilesInv, DecodersInv, Making
  <2> QED BY <1>4, <2>1, <2>2, <2>3 DEF RipInv
<1>7. CASE /\ file' = LET files == IF ft_sub = NoItem THEN file
                                   ELSE Closed(file, ft_sub, "removed")
                      IN Closed(files, ft, "removed")
           /\ decoder' = Destroyed(Destroyed(decoder, ft_sub), ft)
           /\ processing' = 0
           /\ queue' = <<>>
           /\ ppc' = "exited"
  <2>1. /\ ft.name \in Names /\ file \in Files
        /\ decoder \in [Names -> {"none", "open", "destroyed"}]
        /\ ft_sub # NoItem => ft_sub.name \in Names /\ ft.decode = FALSE
        /\ ft_sub = NoItem => ft_sub.decode = FALSE
        /\ ft_sub.name \in Names \/ ft_sub.decode = FALSE
        /\ "removed" \in {"closed", "removed"}
    BY <1>3, InHand, ItemShape DEF RipInv, TypeOK, Files
  <2> DEFINE files == IF ft_sub = NoItem THEN file
                      ELSE Closed(file, ft_sub, "removed")
             decoders == Destroyed(decoder, ft_sub)
  <2>2. /\ files \in Files
        /\ \A n \in Names : files[n].state = "open" => n = ft.name
    <3>1. CASE ft_sub = NoItem
      <4>1. files = file
        BY <3>1
      <4> QED BY <2>1, <3>1, <4>1 DEF RipInv, FilesInv
    <3>2. CASE ft_sub # NoItem
      <4>1. files = Closed(file, ft_sub, "removed")
        BY <3>2
      <4>2. /\ files \in Files /\ files[ft_sub.name].state # "open"
            /\ \A n \in Names : n # ft_sub.name => files[n] = file[n]
        BY <2>1, <3>2, <4>1, ClosedFiles
      <4> QED BY <4>2 DEF RipInv, FilesInv
    <3> QED BY <3>1, <3>2
  <2>3. /\ decoders \in [Names -> {"none", "open", "destroyed"}]
        /\ \A n \in Names : decoders[n] = "open" => n = ft.name /\ ft.decode
    <3>1. /\ decoders \in [Names -> {"none", "open", "destroyed"}]
          /\ \A n \in Names :
               decoders[n] = "open" =>
                  decoder[n] = "open" /\ ~(ft_sub.decode /\ n = ft_sub.name)
      BY <2>1, DestroyedDecoders
    <3> QED BY <3>1 DEF RipInv, DecodersInv
  <2>4. file' = Closed(files, ft, "removed") /\ decoder' = Destroyed(decoders, ft)
    BY <1>7
  <2> HIDE DEF files, decoders
  <2>5. /\ file' \in Files /\ \A n \in Names : file'[n].state # "open"
    <3>1. /\ file' \in Files /\ file'[ft.name].state # "open"
          /\ \A n \in Names : n # ft.name => file'[n] = files[n]
      <4>1. /\ Closed(files, ft, "removed") \in Files
            /\ Closed(files, ft, "removed")[ft.name].state # "open"
        <5>1. files \in Files /\ ft.name \in Names
          BY <2>1, <2>2
        <5> QED BY <5>1, RemovedFile
      <4>2. \A n \in Names :
              n # ft.name => Closed(files, ft, "removed")[n] = files[n]
        BY <2>1, <2>2, RemovedFile
      <4> QED BY <2>4, <4>1, <4>2
    <3> QED BY <2>2, <3>1
  <2>6. /\ decoder' \in [Names -> {"none", "open", "destroyed"}]
        /\ \A n \in Names : decoder'[n] # "open"
    <3>1. /\ decoder' \in [Names -> {"none", "open", "destroyed"}]
          /\ \A n \in Names :
               decoder'[n] = "open" =>
                  decoders[n] = "open" /\ ~(ft.decode /\ n = ft.name)
      BY <2>1, <2>3, <2>4, DestroyedDecoders
    <3> QED BY <2>3, <3>1
  <2>7. TypeOK'
    <3>1. queue' \in Seq(Items) /\ processing' \in 0 .. 1
      BY <1>7
    <3>2. ppc' = "exited" /\ running' \in BOOLEAN /\ fpc' = "none"
      BY <1>1, <1>7
    <3> QED BY <1>1, <1>2, <2>5, <2>6, <3>1, <3>2
            DEF block, RipInv, TypeOK, Files
  <2>8. ItemsInv'
    BY <1>1, <1>2, <1>3, <1>7 DEF RipInv, ItemsInv, InTurn
  <2>9. FilesInv' /\ DecodersInv'
    BY <1>2, <1>7, <2>5, <2>6 DEF FilesInv, DecodersInv, Making
  <2> QED BY <1>4, <2>7, <2>8, <2>9 DEF RipInv
<1> QED
  BY <1>5, <1>6, <1>7

LEMMA StutterInv == RipInv /\ UNCHANGED vars => RipInv'
<1> SUFFICES ASSUME RipInv, UNCHANGED vars PROVE RipInv'
  OBVIOUS
<1> USE DEF vars, control, flags, place, block, frames, outputs
<1>1. Still
  BY DEF Still
<1>2. TypeOK'
  BY TypesFixed DEF RipInv, TypeOK
<1>3. /\ Names' = Names /\ Chosen' = Chosen
      /\ Wholes' = Wholes /\ Isos' = Isos /\ Tracks' = Tracks
  BY Fixed, FixedSets
<1>4. ItemsInv'
  BY <1>3 DEF RipInv, ItemsInv, InTurn
<1>5. FramesInv'
  BY DEF RipInv, FramesInv, FrameFile
<1>6. FilesInv' /\ DecodersInv'
  BY <1>3 DEF RipInv, FilesInv, DecodersInv
<1> QED
  BY <1>2, <1>4, <1>5, <1>6 DEF RipInv

(* Whatever the disc, the request and the size of the blocks, and whenever *)
(* the user presses ^C: types, queue and files in hand, the frame thread,  *)
(* the open files and the decoders are as RipInv says.                     *)
THEOREM RipInvariance == Spec => []RipInv
<1>1. RipInv /\ [Next]_vars => RipInv'
  <2> SUFFICES ASSUME RipInv, [Next]_vars PROVE RipInv'
    OBVIOUS
  <2>1. CASE Main
    BY <2>1, EnqueueInv, scarletbook_output_startInv, DestroyInterruptsInv,
       DestroyJoinsInv DEF Main
  <2>2. CASE handle_sigint
    BY <2>2, handle_sigintInv
  <2>3. CASE ProcessingThread
    BY <2>3, BeginInv, NextItemInv, QueueEmptyInv, CreateFileInv,
       CreateFailsInv, ResetStopInv, LoopStopsInv, LoopAtEndInv, ReadBlockInv,
       ReadErrorInv, CopyBlockInv, ProcessBlockInv, FinishSubInv,
       GapBeforeSubInv, StartSubInv, StartSubFailsInv, NoMoreSubsInv,
       CancelInv, FinishItemInv
       DEF ProcessingThread
  <2>4. CASE FrameThread
    BY <2>4, ProcessSectorInv, FrameThreadEndsInv DEF FrameThread
  <2>5. CASE UNCHANGED vars
    BY <2>5, StutterInv
  <2> QED BY <2>1, <2>2, <2>3, <2>4, <2>5 DEF Next
<1> QED
  BY InitInv, <1>1, PTL DEF Spec

(* Every variable keeps its range: blocks never exceed the buffer          *)
(* (scarletbook_output.c:475-500), and files, items and decoders are known *)
(* ones, for every disc, request and size of the blocks.                   *)
THEOREM RipTypeCorrect == Spec => []TypeOK
<1>1. RipInv => TypeOK
  BY DEF RipInv
<1> QED
  BY RipInvariance, <1>1, PTL

(* Whichever way the processing thread ends, no file is open, no decoder   *)
(* alive and no frame thread running, for every disc and request.          *)
THEOREM NothingIsLeft == Spec => []NothingLeftBehind
<1>1. RipInv => NothingLeftBehind
  BY DEF RipInv, FramesInv, FilesInv, DecodersInv, NothingLeftBehind, Making
<1> QED
  BY RipInvariance, <1>1, PTL

(* There is never more than one DST decoder: a track made with an ISO has  *)
(* it for itself, since the ISO has none, and each item's is destroyed     *)
(* before the next item is taken.                                          *)
THEOREM DecoderAlone == Spec => []OneDecoder
<1>1. RipInv => OneDecoder
  <2> SUFFICES ASSUME RipInv PROVE OneDecoder
    OBVIOUS
  <2> DEFINE D == {n \in Names : decoder[n] = "open"}
  <2>1. \A m, n \in D : m = n
    BY InHand DEF RipInv, DecodersInv
  <2>2. CASE D = {}
    BY <2>2, FS_EmptySet DEF OneDecoder
  <2>3. CASE D # {}
    <3>1. PICK n \in D : D = {n}
      BY <2>1, <2>3
    <3>2. Cardinality(D) = 1
      BY <3>1, FS_Singleton
    <3> QED BY <3>2 DEF OneDecoder
  <2> QED BY <2>2, <2>3
<1> QED
  BY RipInvariance, <1>1, PTL

(* While a frame thread runs nobody changes the buffer it reads, closes    *)
(* its file, destroys its decoder or starts another, in any step of any    *)
(* thread: the joins of lines 571, 587 and 650 come before all of these.   *)
THEOREM Undisturbed == Spec => FrameThreadUndisturbed
<1> DEFINE Works == fpc = "running" =>
                      /\ read_buffer' = read_buffer
                      /\ file'[fargs.name].state = "open"
                      /\ decoder'[fargs.name] = decoder[fargs.name]
                      /\ fpc' \in {"running", "done"}
                      /\ fargs'.left <= fargs.left
<1>1. ASSUME RipInv, [Next]_vars
      PROVE  Works \/ UNCHANGED vars
  <2> SUFFICES ASSUME fpc = "running", ~UNCHANGED vars
               PROVE  Works
    BY DEF Works
  <2>1. /\ ppc \in {"loop", "joinRead", "joinEnd", "check", "crashed"}
        /\ ppc = "check" => stop_processing = 1
        /\ file[fargs.name].state = "open"
    BY <1>1 DEF RipInv, FramesInv
  <2>8. running = TRUE
    <3>1. running \in BOOLEAN
      BY <1>1 DEF RipInv, TypeOK
    <3> QED BY <1>1, <3>1, Zenon DEF RipInv, FramesInv
  <2>9. fargs.left \in Nat
    BY <1>1, RipAssumption DEF RipInv, TypeOK
  <2>10. ft # NoItem
    BY <1>1, <2>1 DEF RipInv, ItemsInv
  <2> DEFINE Kept == UNCHANGED <<read_buffer, file, decoder, fpc, fargs>>
  <2>2. Kept => Works
    BY <2>1, <2>8, <2>9, <2>10
  <2>3. CASE Main
    <3>1. Kept
      <4> USE DEF flags, place, block, frames, outputs
      <4>1. CASE Enqueue
        BY <1>1, <2>1, <2>8, <2>9, <2>10, <4>1 DEF RipInv, ItemsInv, Enqueue
      <4>2. CASE scarletbook_output_start \/ DestroyInterrupts
        BY <4>2 DEF scarletbook_output_start, DestroyInterrupts
      <4>3. CASE DestroyJoins
        BY <1>1, <2>1, <2>8, <2>9, <2>10, <4>3 DEF DestroyJoins
      <4> QED BY <2>3, <4>1, <4>2, <4>3 DEF Main
    <3> QED BY <2>2, <3>1
  <2>4. CASE handle_sigint
    BY <2>2, <2>4 DEF handle_sigint, block, frames, outputs
  <2>5. CASE ProcessingThread
    <3>1. Kept
      <4> USE DEF flags, place, block, frames, outputs
      <4>1. CASE \/ Begin \/ NextItem \/ QueueEmpty \/ CreateFile
                 \/ CreateFails \/ ResetStop \/ ProcessBlock \/ GapBeforeSub
                 \/ StartSub \/ StartSubFails \/ NoMoreSubs
        BY <1>1, <2>1, <2>8, <2>9, <2>10, <4>1
           DEF Begin, NextItem, QueueEmpty, CreateFile, CreateFails,
               ResetStop, ProcessBlock, GapBeforeSub, StartSub,
               StartSubFails, NoMoreSubs
      <4>2. CASE LoopStops \/ LoopAtEnd \/ ReadBlock \/ ReadError
        BY <4>2 DEF LoopStops, LoopAtEnd, ReadBlock, ReadError
      <4>3. CASE CopyBlock \/ FinishSub \/ Cancel
        BY <1>1, <2>1, <2>8, <2>9, <2>10, <4>3 DEF CopyBlock, FinishSub, Cancel, Joined
      <4>4. CASE FinishItem
        BY <1>1, <2>1, <2>8, <2>9, <2>10, <4>4 DEF FinishItem, Stopped
      <4> QED BY <2>5, <4>1, <4>2, <4>3, <4>4 DEF ProcessingThread
    <3> QED BY <2>2, <3>1
  <2>6. CASE FrameThread /\ ProcessSector
    <3>1. /\ UNCHANGED <<read_buffer, fpc, decoder>>
          /\ fargs' = [fargs EXCEPT !.left = @ - 1]
          /\ ppc # "crashed"
      BY <2>6 DEF FrameThread, ProcessSector, block
    <3>2. RipInv'
      BY <1>1, <2>6, <3>1, ProcessSectorInv
    <3>3. fargs'.left = fargs.left - 1 /\ fargs'.name = fargs.name
      BY <1>1, <3>1 DEF RipInv, TypeOK
    <3>4. file'[fargs.name].state = "open"
      BY <3>1, <3>2, <3>3 DEF RipInv, FramesInv
    <3> QED BY <1>1, <2>1, <2>8, <2>9, <2>10, <3>1, <3>3, <3>4
  <2>7. CASE FrameThreadEnds
    BY <1>1, <2>1, <2>8, <2>9, <2>10, <2>7 DEF FrameThreadEnds, block, outputs
  <2> QED BY <2>3, <2>4, <2>5, <2>6, <2>7, <1>1 DEF Next, FrameThread
<1>2. RipInv /\ [Next]_vars => [Works]_vars
  BY <1>1
<1> QED
  BY RipInvariance, <1>2, PTL DEF Spec, FrameThreadUndisturbed
=============================================================================
