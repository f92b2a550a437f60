--------------------------- MODULE DstFrameProofs ---------------------------
(***************************************************************************)
(* The audio of a DST frame: types, the interval of the arithmetic decoder,*)
(* the frame's answer and the prediction, for every width of the registers,*)
(* the coefficients and the orders, every number of channels and length.   *)
(*                                                                         *)
(* Three invariants are put on one another.  TablesInv: the tables a bit   *)
(* uses have been read.  AudioTypes: with them, a step keeps the types and *)
(* the interval.  HistoryInv: what the history of a channel holds is what  *)
(* was put out of it, and what was put out is what the frame has given.    *)
(***************************************************************************)
EXTENDS DstTablesProofs

(* What a step that reads may do besides: it has the channels that there were, *)
(* and either goes on reading or has found an error.                          *)
Like(h) == "NrOfChannels" \in DOMAIN h /\ h.NrOfChannels = FH.NrOfChannels

ReadPcs == SegPcs \cup MapPcs \cup TablePcs \cup {"PSameMapAsF", "HalfProb", "AData", "overrun"}

GoesOnOrStops ==
  /\ FH'.NrOfChannels = FH.NrOfChannels
  /\ (err' = err /\ pc' \in ReadPcs) \/ (err' # "NoError" /\ pc' = "answer")

LEMMA LikeIt ==
    ASSUME FH \in Headers
    PROVE  Like(FH)
  BY DEF Like, Headers

LEMMA StopStops ==
    ASSUME NEW e, e # "NoError", Stop(e), FH' = FH \/ Like(FH')
    PROVE  GoesOnOrStops
  BY DEF Stop, GoesOnOrStops, Like

LEMMA RefuseStops ==
    ASSUME NEW e, e # "NoError", Refuse(e)
    PROVE  GoesOnOrStops
  BY StopStops DEF Refuse

LEMMA GotoGoesOn ==
    ASSUME NEW p \in ReadPcs, Goto(p), FH' = FH \/ Like(FH')
    PROVE  GoesOnOrStops
  BY DEF Goto, GoesOnOrStops, Like

LEMMA CopySegmentDataGoesOn ==
    ASSUME NEW h, Like(h), CopySegmentData(h)
    PROVE  GoesOnOrStops
<1>1. CASE Refuse("TooManySegments") \/ Refuse("InvalidSegmentLength")
  BY <1>1, RefuseStops
<1>2. CASE ~(Refuse("TooManySegments") \/ Refuse("InvalidSegmentLength"))
  <2>1. Like(FH')
    BY <1>2 DEF CopySegmentData, Like
  <2>2. Goto("PSameMapAsF")
    BY <1>2 DEF CopySegmentData
  <2> QED BY <2>1, <2>2, GotoGoesOn DEF ReadPcs
<1> QED
  BY <1>1, <1>2

LEMMA SegmentsReadGoesOn ==
    ASSUME NEW h, Like(h), SegmentsRead(h)
    PROVE  GoesOnOrStops
<1> DEFINE done == [h EXCEPT !.Seg[cur.t].Resolution = IF cur.ResolRead = 0 THEN 1 ELSE @]
<1>1. Like(done)
  BY DEF Like
<1>2. CopySegmentData(done) \/ (FH' = done /\ (Goto("SameSegAllCh") \/ Goto("PSameMapAsF")))
  BY DEF SegmentsRead
<1> HIDE DEF done
<1> QED
  BY <1>1, <1>2, CopySegmentDataGoesOn, GotoGoesOn DEF ReadPcs, SegPcs

LEMMA CloseChannelGoesOn ==
    ASSUME Like(FH), CloseChannel
    PROVE  GoesOnOrStops
<1> DEFINE n == cur.SegNr + 1
           last == [S.SegmentLen EXCEPT ![At(cur.ChNr, cur.SegNr)] = 0]
           row == CopyRow(last, n)
           first == IF WritesBehind(n) THEN row[Behind] ELSE n
           segments == [c \in DOMAIN S.NrOfSegments |-> IF c = 0 THEN first ELSE IF c \in Channels THEN n
                                                        ELSE S.NrOfSegments[c]]
           all == [FH EXCEPT !.Seg[cur.t].SegmentLen = row, !.Seg[cur.t].NrOfSegments = segments]
           one == [FH EXCEPT !.Seg[cur.t].SegmentLen = last, !.Seg[cur.t].NrOfSegments[cur.ChNr] = n]
<1>1. Like(all) /\ Like(one)
  <2> HIDE DEF n, last, row, segments
  <2> QED BY DEF Like
<1>2. CloseAllChannels(n, row) \/ SegmentsRead(one) \/ (FH' = one /\ Goto("EndOfChannel"))
  BY DEF CloseChannel
<1>3. CloseAllChannels(n, row) => (pc' = "overrun" /\ UNCHANGED <<FH, err>>) \/ SegmentsRead(all)
  <2> HIDE DEF n, row
  <2> QED BY DEF CloseAllChannels
<1> HIDE DEF all, one
<1>4. ASSUME pc' = "overrun", UNCHANGED <<FH, err>> PROVE GoesOnOrStops
  BY <1>4 DEF GoesOnOrStops, ReadPcs
<1> QED
  BY <1>1, <1>2, <1>3, <1>4, SegmentsReadGoesOn, GotoGoesOn DEF ReadPcs, SegPcs

LEMMA CopyMappingDataGoesOn ==
    ASSUME NEW h, Like(h), CopyMappingData(h)
    PROVE  GoesOnOrStops
<1>1. CASE Refuse("SegmentNumberMismatch")
  BY <1>1, RefuseStops
<1>2. CASE ~Refuse("SegmentNumberMismatch")
  <2>1. Like(FH')
    BY <1>2 DEF CopyMappingData, Like
  <2>2. Goto("HalfProb")
    BY <1>2 DEF CopyMappingData, StartHalfProb
  <2> QED BY <2>1, <2>2, GotoGoesOn DEF ReadPcs
<1> QED
  BY <1>1, <1>2

LEMMA MappingReadGoesOn ==
    ASSUME NEW h, Like(h), NEW count, MappingRead(h, count)
    PROVE  GoesOnOrStops
<1> DEFINE t == cur.t
           done == [h EXCEPT !.NrOfTables[t] = count,
                             !.Seg[t].Table4Segment = IF h.SameMapAllCh[t] = 1
                                                      THEN CopyRow(@, h.Seg[t].NrOfSegments[0]) ELSE @]
           zero == [done EXCEPT !.Seg["P"].Table4Segment[0] = 0]
<1>1. Like(done)
  BY DEF Like
<1>2. \/ Refuse("InvalidChannelMapping") \/ Refuse("TooManyTables")
      \/ FH' = done /\ StartHalfProb
      \/ CopyMappingData(done)
      \/ FH' = zero /\ Goto("SameMapAllCh")
  BY DEF MappingRead
<1> HIDE DEF done
<1>3. Like(zero)
  BY <1>1 DEF Like
<1> HIDE DEF zero
<1>4. ASSUME FH' = done, StartHalfProb PROVE GoesOnOrStops
  BY <1>1, <1>4, GotoGoesOn DEF StartHalfProb, ReadPcs
<1> QED
  BY <1>1, <1>2, <1>3, <1>4, RefuseStops, CopyMappingDataGoesOn, GotoGoesOn DEF ReadPcs, MapPcs

LEMMA NextMappingGoesOn ==
    ASSUME NEW h, Like(h), NEW count, NextMapping(h, count)
    PROVE  GoesOnOrStops
<1>1. (FH' = h /\ Goto("Table4Segment")) \/ MappingRead(h, count)
  BY DEF NextMapping
<1> QED
  BY <1>1, MappingReadGoesOn, GotoGoesOn DEF ReadPcs, MapPcs

LEMMA TableReadGoesOn ==
    ASSUME NEW h, Like(h), TableRead(h)
    PROVE  GoesOnOrStops
<1> DEFINE clear == IF cur.t = "P" THEN h
                    ELSE [h EXCEPT !.Entry["F"][cur.Nr] = [i \in DOMAIN @ |-> IF i < h.Len["F"][cur.Nr] THEN @[i] ELSE 0]]
<1>1. Like(clear)
  BY DEF Like
<1>2. TablesRead(clear) \/ (FH' = clear /\ Goto("Len"))
  BY DEF TableRead
<1> HIDE DEF clear
<1> DEFINE half == [clear EXCEPT !.NrOfHalfBits = [c \in DOMAIN @ |-> IF c \in Channels
                            THEN clear.Len["F"][clear.Seg["F"].Table4Segment[At(c, 0)]] ELSE @[c]]]
<1>3. Like(half)
  BY <1>1 DEF Like
<1>4. TablesRead(clear) => (FH' = half /\ Goto("Len")) \/ (FH' = clear /\ Goto("AData"))
  BY DEF TablesRead
<1> HIDE DEF half
<1> QED
  BY <1>1, <1>2, <1>3, <1>4, GotoGoesOn DEF ReadPcs, TablePcs

LEMMA NextEntryGoesOn ==
    ASSUME Like(FH), NEW v, NextEntry(SetEntry(FH, v))
    PROVE  GoesOnOrStops
<1> DEFINE g == SetEntry(FH, v)
<1>1. Like(g)
  BY DEF Like, SetEntry
<1>2. TableRead(g) \/ (FH' = g /\ (Goto("entry") \/ Goto("RiceM") \/ Goto("rice")))
  BY DEF NextEntry
<1> HIDE DEF g
<1> QED
  BY <1>1, <1>2, TableReadGoesOn, GotoGoesOn DEF ReadPcs, TablePcs

-----------------------------------------------------------------------------
(* The first bit says whether the frame is coded.                             *)
LEMMA PlainStep ==
    ASSUME FH \in Headers, ReadDSTCoded \/ ReadStuffing
    PROVE  /\ FH'.NrOfChannels = FH.NrOfChannels
           /\ \/ err' = err /\ pc' \in {"PSameSegAsF", "stuffing", "plain"}
              \/ err' # "NoError" /\ pc' = "answer"
<1>0. CASE Stop("NegativeBitAllocation") /\ UNCHANGED <<FH, SD, cur>>
  BY <1>0 DEF Stop
<1>1. CASE ReadDSTCoded
  <2>1. ASSUME NEW v \in Bits(1), FH' = [FH EXCEPT !.DSTCoded = v], Goto(IF v = 0 THEN "stuffing" ELSE "PSameSegAsF")
        PROVE  FH'.NrOfChannels = FH.NrOfChannels /\ err' = err /\ pc' \in {"PSameSegAsF", "stuffing", "plain"}
    BY <2>1 DEF Headers, Goto
  <2> QED BY <1>0, <1>1, <2>1 DEF ReadDSTCoded, Field, FIO_BitGet
<1>2. CASE ReadStuffing
  <2>1. ASSUME NEW v \in {0, 1},
               IF v # 0 THEN Refuse("InvalidStuffingPattern") ELSE Goto("plain") /\ UNCHANGED <<FH, cur>>
        PROVE  FH' = FH /\ ((err' = err /\ pc' = "plain") \/ (err' # "NoError" /\ pc' = "answer"))
    BY <2>1 DEF Refuse, Stop, Goto
  <2> QED BY <1>0, <1>2, <2>1 DEF ReadStuffing, Field, FIO_BitGet
<1> QED
  BY <1>1, <1>2

LEMMA SegmentStep ==
    ASSUME FH \in Headers, ReadSegmentData
    PROVE  GoesOnOrStops
<1>0. Like(FH)
  BY LikeIt
<1>1. CASE Stop("NegativeBitAllocation") /\ UNCHANGED <<FH, SD, cur>>
  BY <1>1, StopStops
<1>2. CASE ReadPSameSegAsF
  <2>1. ASSUME NEW v, FH' = [FH EXCEPT !.PSameSegAsF = v], Goto("SameSegAllCh") PROVE GoesOnOrStops
    <3>1. Like(FH')
      BY <1>0, <2>1 DEF Like
    <3> QED BY <2>1, <3>1, GotoGoesOn DEF ReadPcs, SegPcs
  <2> QED BY <1>1, <1>2, <2>1 DEF ReadPSameSegAsF, Field, FIO_BitGet
<1>3. CASE ReadSameSegAllCh
  <2>1. ASSUME NEW v, FH' = [FH EXCEPT !.SameSegAllCh[cur.t] = v], Goto("EndOfChannel") PROVE GoesOnOrStops
    <3>1. Like(FH')
      BY <1>0, <2>1 DEF Like
    <3> QED BY <2>1, <3>1, GotoGoesOn DEF ReadPcs, SegPcs
  <2> QED BY <1>1, <1>3, <2>1 DEF ReadSameSegAllCh, Field, FIO_BitGet
<1>4. CASE ReadEndOfChannel
  <2>1. \/ Refuse("TooManySegments") \/ (Stop("NegativeBitAllocation") /\ UNCHANGED <<FH, SD, cur>>)
        \/ CloseChannel
        \/ FH' = FH /\ Goto(IF cur.ResolRead = 0 THEN "Resolution" ELSE "SegmentLen")
    BY <1>4 DEF ReadEndOfChannel, Field, FIO_BitGet
  <2> QED BY <1>0, <1>1, <2>1, RefuseStops, CloseChannelGoesOn, GotoGoesOn DEF ReadPcs, SegPcs
<1>5. CASE ReadResolution
  <2>1. ASSUME NEW v, FH' = [FH EXCEPT !.Seg[cur.t].Resolution = v],
               Stop("InvalidSegmentResolution") \/ Goto("SegmentLen")
        PROVE  GoesOnOrStops
    <3>1. Like(FH')
      BY <1>0, <2>1 DEF Like
    <3> QED BY <2>1, <3>1, StopStops, GotoGoesOn DEF ReadPcs, SegPcs
  <2> QED BY <1>1, <1>5, <2>1 DEF ReadResolution, Field, FIO_BitGet
<1>6. CASE ReadSegmentLen
  <2>1. ASSUME NEW v, FH' = [FH EXCEPT !.Seg[cur.t].SegmentLen[At(cur.ChNr, cur.SegNr)] = v],
               Stop("InvalidSegmentLength") \/ Goto("EndOfChannel")
        PROVE  GoesOnOrStops
    <3>1. Like(FH')
      BY <1>0, <2>1 DEF Like
    <3> QED BY <2>1, <3>1, StopStops, GotoGoesOn DEF ReadPcs, SegPcs
  <2> QED BY <1>1, <1>6, <2>1 DEF ReadSegmentLen, Field, FIO_BitGet
<1> QED
  BY <1>2, <1>3, <1>4, <1>5, <1>6 DEF ReadSegmentData

LEMMA MappingStep ==
    ASSUME FH \in Headers, ReadMappingData
    PROVE  GoesOnOrStops
<1>0. Like(FH)
  BY LikeIt
<1>1. CASE Stop("NegativeBitAllocation") /\ UNCHANGED <<FH, SD, cur>>
  BY <1>1, StopStops
<1>2. CASE ReadPSameMapAsF
  <2>1. ASSUME NEW v, FH' = [FH EXCEPT !.PSameMapAsF = v, !.Seg["F"].Table4Segment[0] = 0], Goto("SameMapAllCh")
        PROVE  GoesOnOrStops
    <3>1. Like(FH')
      BY <1>0, <2>1 DEF Like
    <3> QED BY <2>1, <3>1, GotoGoesOn DEF ReadPcs, MapPcs
  <2> QED BY <1>1, <1>2, <2>1 DEF ReadPSameMapAsF, Field, FIO_BitGet
<1>3. CASE ReadSameMapAllCh
  <2>1. ASSUME NEW v, NextMapping([FH EXCEPT !.SameMapAllCh[cur.t] = v], 1) PROVE GoesOnOrStops
    <3> DEFINE g == [FH EXCEPT !.SameMapAllCh[cur.t] = v]
    <3>1. Like(g)
      BY <1>0 DEF Like
    <3> HIDE DEF g
    <3> QED BY <2>1, <3>1, NextMappingGoesOn DEF g
  <2> QED BY <1>1, <1>3, <2>1 DEF ReadSameMapAllCh, Field, FIO_BitGet
<1>4. CASE ReadTable4Segment
  <2>1. ASSUME NEW v, NEW count, NextMapping([FH EXCEPT !.Seg[cur.t].Table4Segment[At(cur.ChNr, cur.SegNr)] = v], count)
        PROVE  GoesOnOrStops
    <3> DEFINE g == [FH EXCEPT !.Seg[cur.t].Table4Segment[At(cur.ChNr, cur.SegNr)] = v]
    <3>1. Like(g)
      BY <1>0 DEF Like
    <3> HIDE DEF g
    <3> QED BY <2>1, <3>1, NextMappingGoesOn DEF g
  <2> QED BY <1>1, <1>4, <2>1, RefuseStops DEF ReadTable4Segment, Field, FIO_BitGet
<1>5. CASE ReadHalfProb
  <2>1. ASSUME NEW v, FH' = [FH EXCEPT !.HalfProb[cur.ChNr] = v], Goto("HalfProb") \/ Goto("Len") PROVE GoesOnOrStops
    <3>1. Like(FH')
      BY <1>0, <2>1 DEF Like
    <3> QED BY <2>1, <3>1, GotoGoesOn DEF ReadPcs, TablePcs
  <2> QED BY <1>1, <1>5, <2>1 DEF ReadHalfProb, Field, FIO_BitGet
<1> QED
  BY <1>2, <1>3, <1>4, <1>5 DEF ReadMappingData

LEMMA TableStep ==
    ASSUME FH \in Headers, ReadTable
    PROVE  GoesOnOrStops
<1>0. Like(FH)
  BY LikeIt
<1>1. CASE Stop("NegativeBitAllocation") /\ UNCHANGED <<FH, SD, cur>>
  BY <1>1, StopStops
<1>2. CASE ReadLen
  <2>1. ASSUME NEW v,
               \/ TableRead([[FH EXCEPT !.Len[cur.t][cur.Nr] = v] EXCEPT !.Entry["P"][cur.Nr][0] = Pow2[AC_BITS - 1]])
               \/ FH' = [FH EXCEPT !.Len[cur.t][cur.Nr] = v] /\ Goto("Coded")
        PROVE  GoesOnOrStops
    <3> DEFINE g == [FH EXCEPT !.Len[cur.t][cur.Nr] = v]
               f == [g EXCEPT !.Entry["P"][cur.Nr][0] = Pow2[AC_BITS - 1]]
    <3>1. Like(g)
      BY <1>0 DEF Like
    <3>2. TableRead(f) \/ (FH' = g /\ Goto("Coded"))
      BY <2>1
    <3> HIDE DEF g
    <3>3. Like(f)
      BY <3>1 DEF Like
    <3> HIDE DEF f
    <3> QED BY <3>1, <3>2, <3>3, TableReadGoesOn, GotoGoesOn DEF ReadPcs, TablePcs
  <2> QED BY <1>1, <1>2, <2>1 DEF ReadLen, Field, FIO_BitGet
<1>3. CASE ReadCoded
  <2>1. (Stop("NegativeBitAllocation") /\ UNCHANGED <<FH, SD, cur>>)
        \/ (FH' = FH /\ (Goto("entry") \/ Goto("BestMethod")))
    BY <1>3 DEF ReadCoded, Field, FIO_BitGet
  <2> QED BY <1>1, <2>1, GotoGoesOn DEF ReadPcs, TablePcs
<1>4. CASE ReadBestMethod
  <2>1. \/ Stop("NegativeBitAllocation") /\ UNCHANGED <<FH, SD, cur>>
        \/ Refuse("InvalidCoefficientCoding") \/ Refuse("InvalidPtableCoding")
        \/ FH' = FH /\ (Goto("entry") \/ Goto("RiceM"))
    BY <1>4 DEF ReadBestMethod, Field, FIO_BitGet
  <2> QED BY <1>1, <2>1, RefuseStops, GotoGoesOn DEF ReadPcs, TablePcs
<1>5. CASE ReadEntry
  <2>1. \/ Stop("NegativeBitAllocation") /\ UNCHANGED <<FH, SD, cur>>
        \/ \E v \in Coefs \cup Entries : NextEntry(SetEntry(FH, v))
    BY <1>5 DEF ReadEntry, Field, FIO_BitGet
  <2> QED BY <1>0, <1>1, <2>1, NextEntryGoesOn
<1>6. CASE ReadRiceM
  <2>1. (Stop("NegativeBitAllocation") /\ UNCHANGED <<FH, SD, cur>>) \/ (FH' = FH /\ Goto("rice"))
    BY <1>6 DEF ReadRiceM, Field, FIO_BitGet
  <2> QED BY <1>1, <2>1, GotoGoesOn DEF ReadPcs, TablePcs
<1>7. CASE ReadRiceEntry
  <2>1. \/ \E nr \in RiceNumbers : NextEntry(SetEntry(FH, nr + Predicted))
        \/ Refuse("InvalidCoefficientRange") \/ Refuse("InvalidPtableRange")
    BY <1>7 DEF ReadRiceEntry
  <2> QED BY <1>0, <2>1, RefuseStops, NextEntryGoesOn
<1> QED
  BY <1>2, <1>3, <1>4, <1>5, <1>6, <1>7 DEF ReadTable

LEMMA UnpackStep ==
    ASSUME FH \in Headers, UnpackHeader
    PROVE  GoesOnOrStops \/ ReadDSTCoded \/ ReadStuffing
  BY SegmentStep, MappingStep, TableStep DEF UnpackHeader, ReadFilterCoefSets, ReadProbabilityTables

-----------------------------------------------------------------------------
(* The numbers of the arithmetic decoder.                                     *)
LEMMA Widths ==
    /\ NBITS \in Nat /\ NBITS >= 1 /\ WORD \in Nat /\ ABITS \in Nat /\ ABITS - 1 \in Nat /\ AC_BITS - 1 \in Nat
    /\ ONE \in Nat \ {0} /\ HALF \in Nat \ {0} /\ ONE = 2 * HALF
    /\ HALF = Pow2[NBITS] * Pow2[AC_BITS - 1]
    /\ ONE = Pow2[NBITS] * Pow2[AC_BITS]
    /\ Pow2[AC_BITS] = 2 * Pow2[AC_BITS - 1] /\ Pow2[AC_BITS] \in Nat \ {0} /\ Pow2[AC_BITS - 1] \in Nat \ {0}
    /\ Pow2[NBITS] \in Nat \ {0}
    /\ \E m \in Nat \ {0} : Pow2[NBITS] = 2 * m
<1>1. /\ NBITS \in Nat /\ NBITS >= 1 /\ WORD \in Nat /\ ABITS \in Nat /\ ABITS - 1 \in Nat /\ AC_BITS - 1 \in Nat
      /\ ABITS - 1 = NBITS + (AC_BITS - 1) /\ ABITS = NBITS + AC_BITS /\ (ABITS - 1) + 1 = ABITS
      /\ (AC_BITS - 1) + 1 = AC_BITS /\ AC_BITS \in Nat /\ NBITS - 1 \in Nat /\ (NBITS - 1) + 1 = NBITS
  BY Constants, FrameConstants DEF ABITS
<1>2. /\ ONE \in Nat \ {0} /\ HALF \in Nat \ {0} /\ ONE = 2 * HALF
      /\ Pow2[AC_BITS] = 2 * Pow2[AC_BITS - 1] /\ Pow2[AC_BITS] \in Nat \ {0} /\ Pow2[AC_BITS - 1] \in Nat \ {0}
      /\ Pow2[NBITS] \in Nat \ {0}
      /\ Pow2[NBITS] = 2 * Pow2[NBITS - 1] /\ Pow2[NBITS - 1] \in Nat \ {0}
  BY <1>1, Pow2Is DEF ONE, HALF
<1>3. HALF = Pow2[NBITS] * Pow2[AC_BITS - 1] /\ ONE = Pow2[NBITS] * Pow2[AC_BITS]
  BY <1>1, Pow2Plus DEF ONE, HALF
<1> QED
  BY <1>1, <1>2, <1>3

LEMMA BitIs ==
    ASSUME NEW x \in Int, NEW i \in Nat
    PROVE  Bit(x, i) \in {0, 1}
<1>1. x \div Pow2[i] \in Int
  BY Pow2Is, DivMod
<1>2. (x \div Pow2[i]) % 2 \in 0 .. (2 - 1)
  BY <1>1
<1> QED
  BY <1>2 DEF Bit

(* A product is between those of the bounds.                                  *)
LEMMA ProductIs ==
    ASSUME NEW a \in Nat, NEW b \in Nat, NEW c \in Nat, NEW d \in Nat, a <= c, b <= d
    PROVE  a * b \in Nat /\ a * b <= c * d /\ c * d \in Nat
<1>1. a * b \in Nat /\ c * d \in Nat /\ c * b \in Nat
  OBVIOUS
<1>2. a * b <= c * b
  <2>1. (c - a) * b >= 0
    OBVIOUS
  <2>2. (c - a) * b = c * b - a * b
    OBVIOUS
  <2> QED BY <2>1, <2>2, <1>1
<1>3. c * b <= c * d
  <2>1. c * (d - b) >= 0
    OBVIOUS
  <2>2. c * (d - b) = c * d - c * b
    OBVIOUS
  <2> QED BY <2>1, <2>2, <1>1
<1> QED
  BY <1>1, <1>2, <1>3

(* The part of the interval that stands for 0 is neither empty nor all of it. *)
LEMMA PartIs ==
    ASSUME NEW A \in HALF .. (ONE - 1), NEW p \in Probabilities
    PROVE  LET q == A \div Pow2[AC_BITS]
               ap == (IF Bit(A, AC_BITS - 1) = 1 /\ q % 2 = 0 THEN q + 1 ELSE q) * p
           IN ap \in 1 .. (A - 1)
<1> DEFINE d == Pow2[AC_BITS]
           e == Pow2[AC_BITS - 1]
           N == Pow2[NBITS]
           q == A \div d
           r == IF Bit(A, AC_BITS - 1) = 1 /\ q % 2 = 0 THEN q + 1 ELSE q
<1>1. /\ d \in Nat \ {0} /\ e \in Nat \ {0} /\ N \in Nat \ {0} /\ d = 2 * e
      /\ HALF = N * e /\ ONE = N * d /\ HALF \in Nat /\ ONE \in Nat
  BY Widths
<1>2. PICK m \in Nat \ {0} : N = 2 * m
  BY Widths
<1>3. A \in Nat /\ HALF <= A /\ A < ONE /\ p \in Nat /\ 1 <= p /\ p <= e
  BY <1>1 DEF Probabilities
<1> HIDE DEF d, e, N
<1>4. q \in Int /\ A % d \in 0 .. (d - 1) /\ A = q * d + (A % d)
  <2>1. A \in Int /\ d \in Nat \ {0}
    BY <1>1, <1>3
  <2> QED BY <2>1, DivMod
<1> HIDE DEF q
<1>5. q <= N - 1
  <2> SUFFICES ASSUME q >= N PROVE FALSE
    BY <1>1, <1>4
  <2>1. q \in Nat /\ d \in Nat /\ N \in Nat /\ d <= d
    BY <1>1, <1>4
  <2>2. N * d <= q * d
    BY <2>1, ProductIs
  <2>3. N * d \in Int /\ q * d \in Int
    BY <2>1
  <2> QED BY <2>2, <2>3, <1>1, <1>3, <1>4
<1>6. q >= m
  <2> SUFFICES ASSUME q <= m - 1 PROVE FALSE
    BY <1>2, <1>4
  <2>1. (m - 1 - q) * d >= 0
    <3>1. m - 1 - q \in Nat
      BY <1>2, <1>4
    <3> QED BY <3>1, <1>1
  <2>2. (m - 1 - q) * d = m * d - d - q * d
    BY <1>1, <1>2, <1>4
  <2>3. m * d = N * e
    BY <1>1, <1>2
  <2>4. m * d \in Int /\ q * d \in Int
    BY <1>1, <1>2, <1>4
  <2> QED BY <2>1, <2>2, <2>3, <2>4, <1>1, <1>3, <1>4
<1>7. r \in 1 .. (N - 1)
  <2>1. q \in 1 .. (N - 1)
    BY <1>1, <1>2, <1>4, <1>5, <1>6
  <2>2. q % 2 = 0 => q # N - 1
    BY <1>2, <1>4
  <2> QED BY <2>1, <2>2, <1>1
<1> HIDE DEF r
<1>8. r * p \in Nat /\ r * p >= 1
  BY <1>1, <1>3, <1>7
<1>9. r * p <= (N - 1) * e
  <2>1. r \in Nat /\ p \in Nat /\ N - 1 \in Nat /\ e \in Nat /\ r <= N - 1 /\ p <= e
    BY <1>1, <1>3, <1>7
  <2> QED BY <2>1, ProductIs
<1>10. (N - 1) * e = N * e - e /\ N * e \in Int
  BY <1>1
<1>11. r * p \in 1 .. (A - 1)
  BY <1>1, <1>3, <1>8, <1>9, <1>10
<1> QED
  BY <1>11 DEF r, q, d

LEMMA ResidualIs ==
    ASSUME NEW ac, ac.A \in HALF .. (ONE - 1), ac.C \in Nat, NEW p \in Probabilities
    PROVE  /\ Residual(ac, p).A \in 1 .. (ac.A - 1) /\ Residual(ac, p).C \in Nat /\ Residual(ac, p).bit \in {0, 1}
           /\ ac.C < ac.A => Residual(ac, p).C < Residual(ac, p).A
<1> DEFINE q == ac.A \div Pow2[AC_BITS]
           ap == (IF Bit(ac.A, AC_BITS - 1) = 1 /\ q % 2 = 0 THEN q + 1 ELSE q) * p
           h == ac.A - ap
<1>1. ap \in 1 .. (ac.A - 1) /\ ac.A \in Nat
  <2>1. HALF \in Nat /\ ONE \in Nat
    BY Widths
  <2> QED BY <2>1, PartIs
<1>2. Residual(ac, p) = IF ac.C >= h THEN [A |-> ap, C |-> ac.C - h, bit |-> 0] ELSE [A |-> h, C |-> ac.C, bit |-> 1]
  BY DEF Residual, Lower
<1> HIDE DEF ap
<1>3. CASE ac.C >= h
  BY <1>1, <1>2, <1>3
<1>4. CASE ~(ac.C >= h)
  BY <1>1, <1>2, <1>4
<1> QED
  BY <1>3, <1>4

(* The register is shifted into its upper half.                               *)
LEMMA ShiftsIs ==
    ASSUME NEW A \in 1 .. (ONE - 1)
    PROVE  Shifts(A) \in 0 .. ABITS /\ A * Pow2[Shifts(A)] \in HALF .. (ONE - 1)
<1> DEFINE T == {n \in 0 .. ABITS : A * Pow2[n] >= HALF}
<1>0. A \in Nat /\ A >= 1 /\ A < ONE /\ ABITS \in Nat /\ ABITS - 1 \in 0 .. ABITS
      /\ HALF \in Nat \ {0} /\ ONE \in Nat /\ ONE = 2 * HALF
      /\ \A n \in 0 .. ABITS : Pow2[n] \in Nat \ {0} /\ A * Pow2[n] \in Nat
  <2>1. \A n \in 0 .. ABITS : Pow2[n] \in Nat \ {0}
    BY Pow2Is, Widths
  <2> QED BY <2>1, Widths
<1>1. ABITS - 1 \in T
  <2>1. Pow2[ABITS - 1] = HALF
    BY DEF HALF
  <2>2. A * HALF >= HALF
    BY <1>0
  <2> QED BY <1>0, <2>1, <2>2
<1>2. PICK n \in T : \A m \in T : n <= m
  <2>1. T \in SUBSET Nat /\ T # {}
    BY <1>0, <1>1
  <2> HIDE DEF T
  <2> QED BY <2>1, Smallest
<1>3. n \in 0 .. ABITS /\ A * Pow2[n] >= HALF /\ \A m \in 0 .. (n - 1) : A * Pow2[m] < HALF
  <2>1. n \in 0 .. ABITS /\ A * Pow2[n] >= HALF
    OBVIOUS
  <2>2. ASSUME NEW m \in 0 .. (n - 1) PROVE A * Pow2[m] < HALF
    <3>1. m \in 0 .. ABITS /\ m \notin T
      BY <1>0, <1>2, <2>1
    <3>2. A * Pow2[m] \in Nat
      BY <3>1, <1>0
    <3> QED BY <3>1, <3>2, <1>0
  <2> QED BY <2>1, <2>2
<1> DEFINE k == Shifts(A)
<1>4. k \in 0 .. ABITS /\ A * Pow2[k] >= HALF /\ \A m \in 0 .. (k - 1) : A * Pow2[m] < HALF
  BY <1>3 DEF Shifts
<1> HIDE DEF k
<1>5. A * Pow2[k] <= ONE - 1
  <2>1. CASE k = 0
    BY <2>1, <1>0, Pow2Is
  <2>2. CASE k # 0
    <3>1. k - 1 \in 0 .. (k - 1) /\ k - 1 \in Nat /\ (k - 1) + 1 = k /\ k - 1 \in 0 .. ABITS
      BY <2>2, <1>0, <1>4
    <3>2. Pow2[k] = 2 * Pow2[k - 1] /\ Pow2[k - 1] \in Nat
      BY <3>1, Pow2Is
    <3> DEFINE x == Pow2[k - 1]
    <3>3. A * x < HALF
      BY <3>1, <1>4
    <3>4. A * (2 * x) = 2 * (A * x)
      <4> HIDE DEF x
      <4> QED BY <3>2, <1>0 DEF x
    <3>5. A * x \in Nat
      BY <3>1, <1>0
    <3> HIDE DEF x
    <3> QED BY <3>2, <3>3, <3>4, <3>5, <1>0 DEF x
  <2> QED BY <2>1, <2>2
<1>6. A * Pow2[k] \in Nat
  BY <1>0, <1>4
<1> QED
  BY <1>0, <1>4, <1>5, <1>6 DEF k

LEMMA CodeBitsAre ==
    ASSUME NEW cbptr \in Int, NEW fs \in Int, NEW k \in Nat, NEW v \in CodeBits(cbptr, fs, k)
    PROVE  v \in 0 .. (Pow2[k] - 1)
<1> DEFINE left == IF cbptr >= fs THEN 0 ELSE IF fs - cbptr < k THEN fs - cbptr ELSE k
<1>1. left \in Nat /\ k - left \in Nat /\ left + (k - left) = k
  OBVIOUS
<1>2. PICK w \in Bits(left) : v = w * Pow2[k - left]
  BY DEF CodeBits
<1> HIDE DEF left
<1> DEFINE x == Pow2[left]
           y == Pow2[k - left]
<1>3. x \in Nat \ {0} /\ y \in Nat \ {0} /\ Pow2[k] = x * y /\ w \in 0 .. (x - 1)
  BY <1>1, <1>2, Pow2Is, Pow2Plus DEF Bits
<1> HIDE DEF x, y
<1>4. (x - 1 - w) * y >= 0 /\ (x - 1 - w) * y = x * y - y - w * y
  <2>1. x - 1 - w \in Nat
    BY <1>3
  <2> QED BY <2>1, <1>3
<1>5. w * y \in Nat /\ x * y \in Nat
  BY <1>3
<1> QED
  BY <1>2, <1>3, <1>4, <1>5 DEF y

(* A bit decoded: the width is in the upper half again, and a code that was   *)
(* within the interval is.                                                    *)
Decoded(ac, p, v) ==
    [ac EXCEPT !.A = Residual(ac, p).A * Pow2[Shifts(Residual(ac, p).A)],
               !.C = (Residual(ac, p).C * Pow2[Shifts(Residual(ac, p).A)] + v) % Pow2[WORD],
               !.cbptr = @ + Shifts(Residual(ac, p).A)]

LEMMA DecodedIs ==
    ASSUME NEW ac \in [A : HALF .. (ONE - 1), C : Nat, cbptr : Int, fs : Int], NEW p \in Probabilities,
           NEW v \in CodeBits(ac.cbptr, ac.fs, Shifts(Residual(ac, p).A)),
           NEW a, a = Decoded(ac, p, v)
    PROVE  /\ a \in [A : HALF .. (ONE - 1), C : Bits(WORD), cbptr : Int, fs : Int]
           /\ ac.C < ac.A => a.C < a.A
<1> DEFINE r == Residual(ac, p)
           k == Shifts(r.A)
           y == Pow2[k]
<1>1. /\ r.A \in 1 .. (ac.A - 1) /\ r.C \in Nat
      /\ (ac.C < ac.A => r.C < r.A) /\ ac.A \in HALF .. (ONE - 1)
  BY ResidualIs
<1>2. r.A \in 1 .. (ONE - 1)
  <2>1. ONE \in Nat /\ HALF \in Nat
    BY Widths
  <2> QED BY <2>1, <1>1
<1>3. k \in Nat /\ r.A * y \in HALF .. (ONE - 1)
  <2>1. ABITS \in Nat
    BY Widths
  <2> HIDE DEF r
  <2> QED BY <2>1, <1>2, ShiftsIs
<1>4. v \in 0 .. (y - 1) /\ y \in Nat \ {0}
  <2>1. ac.cbptr \in Int /\ ac.fs \in Int
    OBVIOUS
  <2>2. y \in Nat \ {0}
    BY <1>3, Pow2Is
  <2> HIDE DEF k
  <2> QED BY <2>1, <2>2, <1>3, CodeBitsAre DEF k
<1> HIDE DEF r, k
<1> DEFINE c == r.C * y + v
<1>5. c \in Nat
  BY <1>1, <1>4
<1>6. c % Pow2[WORD] \in Bits(WORD) /\ c % Pow2[WORD] <= c
  <2>1. Pow2[WORD] \in Nat \ {0}
    BY Widths, Pow2Is
  <2>2. c % Pow2[WORD] \in 0 .. (Pow2[WORD] - 1) /\ c \div Pow2[WORD] \in Int
        /\ c = (c \div Pow2[WORD]) * Pow2[WORD] + (c % Pow2[WORD])
    <3> DEFINE W == Pow2[WORD]
    <3>1. c \in Int /\ W \in Nat \ {0}
      BY <2>1, <1>5
    <3> HIDE DEF c, W
    <3>2. c \div W \in Int /\ c % W \in 0 .. (W - 1) /\ c = (c \div W) * W + (c % W)
      BY <3>1, DivMod
    <3> QED BY <3>2 DEF W
  <2>3. c % Pow2[WORD] <= c
    <3> HIDE DEF c
    <3> QED BY <2>1, <1>5
  <2> QED BY <2>2, <2>3 DEF Bits
<1>7. ac.C < ac.A => c < r.A * y
  <2> SUFFICES ASSUME r.C < r.A PROVE c < r.A * y
    BY <1>1
  <2> DEFINE s == r.C
             t == r.A
  <2>1. s \in Nat /\ t \in Nat /\ s < t
    BY <1>1, <1>2
  <2> HIDE DEF s, t, y
  <2>2. (t - 1 - s) * y >= 0 /\ (t - 1 - s) * y = t * y - y - s * y
    <3>1. t - 1 - s \in Nat
      BY <2>1
    <3> QED BY <3>1, <2>1, <1>4
  <2>3. t * y \in Int /\ s * y \in Int
    BY <2>1, <1>4
  <2> QED BY <2>2, <2>3, <1>4 DEF s, t
<1>8. a = [ac EXCEPT !.A = r.A * y, !.C = c % Pow2[WORD], !.cbptr = @ + k]
  BY DEF r, k, Decoded
<1> DEFINE z == c % Pow2[WORD]
           u == r.A * y
<1>9. z \in Bits(WORD) /\ z <= c /\ z \in Nat
  <2>1. Pow2[WORD] \in Nat \ {0}
    BY Widths, Pow2Is
  <2> QED BY <2>1, <1>6 DEF Bits
<1>10. u \in HALF .. (ONE - 1) /\ u \in Nat /\ (ac.C < ac.A => c < u)
  <2>1. HALF \in Nat /\ ONE \in Nat
    BY Widths
  <2> QED BY <2>1, <1>3, <1>7
<1>11. a = [ac EXCEPT !.A = u, !.C = z, !.cbptr = @ + k]
  BY <1>8
<1> HIDE DEF z, u, c, y
<1>12. a = [A |-> u, C |-> z, cbptr |-> ac.cbptr + k, fs |-> ac.fs]
  BY <1>11
<1>13. ac.cbptr + k \in Int /\ ac.fs \in Int
  BY <1>3
<1>14. a \in [A : HALF .. (ONE - 1), C : Bits(WORD), cbptr : Int, fs : Int]
  BY <1>9, <1>10, <1>12, <1>13
<1>15. ac.C < ac.A => a.C < a.A
  <2>1. a.C = z /\ a.A = u
    BY <1>12
  <2>2. ac.C < ac.A => z < u
    BY <1>5, <1>9, <1>10
  <2> QED BY <2>1, <2>2
<1> QED
  BY <1>14, <1>15

-----------------------------------------------------------------------------
(* A number of n bits, the highest first.                                     *)
LEMMA WeightsAre ==
    ASSUME NEW n \in Nat, NEW f, \A i \in 0 .. (n - 1) : f[i] \in 0 .. Pow2[n - 1 - i]
    PROVE  Sum(n, f) \in 0 .. (Pow2[n] - 1)
<1>0. \A i \in 0 .. (n - 1) : f[i] \in Int /\ 0 <= f[i] /\ f[i] <= Pow2[n - 1 - i]
  <2> TAKE i \in 0 .. (n - 1)
  <2>1. n - 1 - i \in Nat
    OBVIOUS
  <2>2. Pow2[n - 1 - i] \in Nat
    BY <2>1, Pow2Is
  <2> QED BY <2>2
<1> DEFINE T == {k \in Nat : k <= n => Sum(k, f) >= 0 /\ Sum(k, f) + Pow2[n - k] <= Pow2[n]}
<1>1. 0 \in T
  <2>1. Sum(0, f) = 0 /\ Pow2[n - 0] = Pow2[n] /\ Pow2[n] \in Nat
    <3>1. n - 0 = n
      OBVIOUS
    <3> QED BY <3>1, <1>0, SumIs, Pow2Is
  <2> QED BY <2>1
<1>2. ASSUME NEW k \in Nat, k \in T PROVE k + 1 \in T
  <2> SUFFICES ASSUME k + 1 <= n
               PROVE  Sum(k + 1, f) >= 0 /\ Sum(k + 1, f) + Pow2[n - (k + 1)] <= Pow2[n]
    OBVIOUS
  <2>1. k \in 0 .. (n - 1) /\ n - 1 - k \in Nat /\ n - (k + 1) = n - 1 - k /\ (n - 1 - k) + 1 = n - k
    OBVIOUS
  <2>2. Sum(k, f) >= 0 /\ Sum(k, f) + Pow2[n - k] <= Pow2[n]
    BY <1>2, <2>1
  <2>3. Sum(k + 1, f) = Sum(k, f) + f[k] /\ Sum(k, f) \in Int
    BY <1>0, <2>1, SumIs
  <2>4. Pow2[n - k] = 2 * Pow2[n - 1 - k] /\ Pow2[n - 1 - k] \in Nat /\ Pow2[n] \in Nat
    BY <2>1, Pow2Is
  <2>5. f[k] \in Int /\ 0 <= f[k] /\ f[k] <= Pow2[n - 1 - k]
    BY <1>0, <2>1
  <2> QED BY <2>1, <2>2, <2>3, <2>4, <2>5
<1>3. n \in T
  <2> HIDE DEF T
  <2>1. Nat \subseteq T
    BY <1>1, <1>2, Induction
  <2> QED BY <2>1
<1>4. Pow2[n - n] = 1 /\ Pow2[n] \in Nat
  <2>1. n - n = 0
    OBVIOUS
  <2> QED BY <2>1, Pow2Is
<1>5. Sum(n, f) \in Int
  BY <1>0, SumIs
<1> QED
  BY <1>3, <1>4, <1>5

LEMMA Reverse7LSBsIs ==
    ASSUME NEW c \in Int
    PROVE  Reverse7LSBs(c) \in Probabilities
<1> DEFINE n == AC_BITS - 1
           low == (c + Pow2[SIZE_PREDCOEF]) % Pow2[n]
           f == [i \in 0 .. (n - 1) |-> Bit(low, i) * Pow2[n - 1 - i]]
<1>1. n \in Nat /\ Pow2[n] \in Nat \ {0} /\ Pow2[SIZE_PREDCOEF] \in Int
  BY Constants, Pow2Is
<1>2. low \in Int
  <2> DEFINE x == c + Pow2[SIZE_PREDCOEF]
             W == Pow2[n]
  <2>1. x \in Int /\ W \in Nat \ {0}
    BY <1>1
  <2> HIDE DEF x, W
  <2>2. x % W \in 0 .. (W - 1)
    BY <2>1, DivMod
  <2>3. x % W \in Int
    BY <2>1, <2>2
  <2> QED BY <2>3 DEF x, W
<1> HIDE DEF low, n
<1>3. \A i \in 0 .. (n - 1) : f[i] \in 0 .. Pow2[n - 1 - i]
  <2> TAKE i \in 0 .. (n - 1)
  <2>1. Bit(low, i) \in {0, 1} /\ n - 1 - i \in Nat
    BY <1>1, <1>2, BitIs
  <2>2. Pow2[n - 1 - i] \in Nat
    BY <2>1, Pow2Is
  <2>3. f[i] = Bit(low, i) * Pow2[n - 1 - i]
    OBVIOUS
  <2> HIDE DEF f
  <2> QED BY <2>1, <2>2, <2>3
<1> HIDE DEF f
<1>4. Sum(n, f) \in 0 .. (Pow2[n] - 1)
  BY <1>1, <1>3, WeightsAre
<1>5. Reverse7LSBs(c) = 1 + Sum(n, f)
  BY DEF Reverse7LSBs, n, low, f
<1> QED
  BY <1>1, <1>4, <1>5 DEF Probabilities, n

-----------------------------------------------------------------------------
(* The prediction of a bit is a number, and so it has a probability.          *)
History == [0 .. (TAPS - 1) -> {0, 1}]

LEMMA TapsAre ==
    /\ TAPS \in Nat /\ TAPS >= 1 /\ TAPS = MaxEntries("F")
    /\ TAPS \div RESOL \in Nat /\ TAPS = (TAPS \div RESOL) * RESOL /\ RESOL \in Nat \ {0}
    /\ \A n \in 0 .. (TAPS \div RESOL - 1), j \in 0 .. (RESOL - 1) : n * RESOL + j \in 0 .. (TAPS - 1)
<1> DEFINE B == TAPS \div RESOL
<1>1. TAPS \in Nat /\ TAPS >= 1 /\ TAPS = MaxEntries("F") /\ RESOL \in Nat \ {0} /\ TAPS % RESOL = 0
  BY Constants, FrameConstants, Pow2Is DEF TAPS, MaxEntries
<1>2. B \in Int /\ TAPS = B * RESOL + (TAPS % RESOL)
  <2>1. TAPS \in Int /\ RESOL \in Nat \ {0}
    BY <1>1
  <2> QED BY <2>1, DivMod
<1> HIDE DEF B
<1>3. TAPS = B * RESOL
  <2>1. B * RESOL \in Int
    BY <1>1, <1>2
  <2> QED BY <1>1, <1>2, <2>1
<1>4. B \in Nat
  <2> SUFFICES ASSUME B <= -1 PROVE FALSE
    BY <1>2
  <2>1. (-1 - B) * RESOL >= 0 /\ (-1 - B) * RESOL = -RESOL - B * RESOL
    <3>1. -1 - B \in Nat
      BY <1>2
    <3> QED BY <3>1, <1>1, <1>2
  <2> QED BY <2>1, <1>1, <1>2, <1>3
<1>5. ASSUME NEW n \in 0 .. (B - 1), NEW j \in 0 .. (RESOL - 1)
      PROVE  n * RESOL + j \in 0 .. (TAPS - 1)
  <2>1. (B - 1 - n) * RESOL >= 0 /\ (B - 1 - n) * RESOL = B * RESOL - RESOL - n * RESOL
    <3>1. B - 1 - n \in Nat
      BY <1>4
    <3> QED BY <3>1, <1>1, <1>4
  <2>2. n * RESOL \in Nat /\ B * RESOL \in Nat
    BY <1>1, <1>4
  <2> QED BY <2>1, <2>2, <1>1, <1>3
<1> QED
  BY <1>1, <1>3, <1>4, <1>5 DEF B

LEMMA CoefTableIs ==
    ASSUME FH \in Headers, NEW filter \in Tables, FH.Len["F"][filter] \in 1 .. MaxEntries("F"),
           NEW n \in Nat, NEW i \in Int
    PROVE  /\ LT_InitCoefTablesI(filter, n, i) \in Int
           /\ LET left == FH.Len["F"][filter] - n * RESOL
                  k == IF left > RESOL THEN RESOL ELSE IF left < 0 THEN 0 ELSE left
              IN /\ k \in 0 .. RESOL
                 /\ \A j \in 0 .. (k - 1) :
                      /\ Bit(i, j) \in {0, 1}
                      /\ n * RESOL + j \in 0 .. (FH.Len["F"][filter] - 1)
                      /\ FH.Entry["F"][filter][n * RESOL + j] \in Int
<1> DEFINE L == FH.Len["F"][filter]
           R == FH.Entry["F"][filter]
           m == n * RESOL
           left == L - m
           k == IF left > RESOL THEN RESOL ELSE IF left < 0 THEN 0 ELSE left
           f == [j \in 0 .. (k - 1) |-> (Bit(i, j) * 2 - 1) * R[m + j]]
<1>1. /\ MaxEntries("F") \in Nat /\ L \in 1 .. MaxEntries("F") /\ RESOL \in Nat /\ m \in Nat
      /\ R \in [0 .. (MaxEntries("F") - 1) -> Int]
  <2>1. "F" \in Kinds
    BY DEF Kinds
  <2>2. R \in Rows("F")
    BY <2>1, HeaderIs
  <2> QED BY <2>1, <2>2, MaxEntriesAre, Constants DEF Rows
<1> HIDE DEF L, R, m
<1>2. k \in 0 .. RESOL /\ \A j \in 0 .. (k - 1) : m + j \in 0 .. (L - 1)
  BY <1>1
<1>3. ASSUME NEW j \in 0 .. (k - 1) PROVE Bit(i, j) \in {0, 1} /\ R[m + j] \in Int /\ f[j] \in Int
  <2>1. j \in Nat /\ m + j \in 0 .. (MaxEntries("F") - 1)
    BY <1>1, <1>2
  <2>2. Bit(i, j) \in {0, 1} /\ R[m + j] \in Int
    BY <2>1, <1>1, BitIs
  <2>3. f[j] = (Bit(i, j) * 2 - 1) * R[m + j]
    OBVIOUS
  <2> HIDE DEF f, k
  <2> QED BY <2>2, <2>3
<1>4. Sum(k, f) \in Int
  <2>1. k \in Nat /\ k \in 0 .. k
    BY <1>1
  <2> HIDE DEF f, k
  <2> QED BY <2>1, <1>3, SumIs
<1>5. LT_InitCoefTablesI(filter, n, i) = Sum(k, f)
  BY DEF LT_InitCoefTablesI, L, R, m
<1> QED
  BY <1>1, <1>2, <1>3, <1>4, <1>5 DEF L, R, m

(* The byte of the bits before that a table of sums is read at.               *)
HistoryByte(ch, n) == Sum(RESOL, [j \in 0 .. (RESOL - 1) |-> Status[ch][n * RESOL + j] * Pow2[j]])

LEMMA HistoryByteIs ==
    ASSUME NEW ch, Status[ch] \in History, NEW n \in 0 .. (TAPS \div RESOL - 1)
    PROVE  /\ HistoryByte(ch, n) \in Int
           /\ \A j \in 0 .. (RESOL - 1) : Status[ch][n * RESOL + j] \in {0, 1}
<1> DEFINE f == [j \in 0 .. (RESOL - 1) |-> Status[ch][n * RESOL + j] * Pow2[j]]
<1>1. \A j \in 0 .. (RESOL - 1) : n * RESOL + j \in 0 .. (TAPS - 1) /\ RESOL \in Nat
  BY TapsAre
<1>2. ASSUME NEW j \in 0 .. (RESOL - 1) PROVE Status[ch][n * RESOL + j] \in {0, 1} /\ f[j] \in Int
  <2>1. Status[ch][n * RESOL + j] \in {0, 1}
    BY <1>1 DEF History
  <2>2. Pow2[j] \in Nat
    BY <1>1, Pow2Is
  <2>3. f[j] = Status[ch][n * RESOL + j] * Pow2[j]
    OBVIOUS
  <2> HIDE DEF f
  <2> QED BY <2>1, <2>2, <2>3
<1>3. RESOL \in Nat /\ RESOL \in 0 .. RESOL
  BY TapsAre
<1> HIDE DEF f
<1>4. Sum(RESOL, f) \in Int
  BY <1>2, <1>3, SumIs
<1> QED
  BY <1>2, <1>4 DEF HistoryByte, f

LEMMA ShortIs ==
    ASSUME NEW x \in Int
    PROVE  Short(x) \in Int
<1> DEFINE w == Pow2[SIZE_PREDCOEF + SIZE_CODEDPREDORDER]
           y == x + w \div 2
<1>1. w \in Nat \ {0}
  <2>1. SIZE_PREDCOEF + SIZE_CODEDPREDORDER \in Nat
    BY Constants
  <2> QED BY <2>1, Pow2Is
<1> HIDE DEF w
<1>2. y \in Int /\ w \div 2 \in Int
  BY <1>1
<1> HIDE DEF y
<1>3. y % w \in 0 .. (w - 1)
  BY <1>1, <1>2, DivMod
<1>4. Short(x) = (y % w) - (w \div 2)
  BY DEF Short, w, y
<1> QED
  BY <1>1, <1>2, <1>3, <1>4

LEMMA FilterIs ==
    ASSUME FH \in Headers, NEW filter \in Tables, FH.Len["F"][filter] \in 1 .. MaxEntries("F"),
           NEW ch, Status[ch] \in History
    PROVE  LT_RUN_FILTER_I(filter, ch) \in Int
<1> DEFINE B == TAPS \div RESOL
           f == [n \in 0 .. (B - 1) |-> LT_InitCoefTablesI(filter, n, HistoryByte(ch, n))]
<1>1. B \in Nat /\ B \in 0 .. B
  BY TapsAre
<1>2. \A n \in 0 .. (B - 1) : HistoryByte(ch, n) \in Int
  BY HistoryByteIs
<1> HIDE DEF B
<1>3. \A n \in 0 .. (B - 1) : f[n] \in Int
  <2> TAKE n \in 0 .. (B - 1)
  <2>1. n \in Nat /\ HistoryByte(ch, n) \in Int
    BY <1>1, <1>2
  <2> QED BY <2>1, CoefTableIs
<1> HIDE DEF f
<1>4. Sum(B, f) \in Int
  BY <1>1, <1>3, SumIs
<1>5. LT_RUN_FILTER_I(filter, ch) = Short(Sum(B, f))
  BY DEF LT_RUN_FILTER_I, HistoryByte, f, B
<1> QED
  BY <1>4, <1>5, ShortIs

LEMMA PredictIs ==
    ASSUME TablesInv, pc = "decode", NEW ch \in Channels, Status[ch] \in History, NEW b
    PROVE  Predict(ch, b) \in Int
<1> DEFINE filter == FillTable4Bit("F", ch, b)
<1>1. filter \in Tables /\ TableOK(FH, "F", filter)
  BY TableOfBit DEF Kinds
<1>2. FH \in Headers
  BY DEF TablesInv, Unpacked
<1> HIDE DEF filter
<1>3. LT_RUN_FILTER_I(filter, ch) \in Int
  BY <1>1, <1>2, FilterIs DEF TableOK
<1> QED
  BY <1>3 DEF Predict, filter

LEMMA ProbabilityIs ==
    ASSUME TablesInv, pc = "decode", NEW ch \in Channels, NEW b, NEW predict \in Int
    PROVE  Probability(ch, b, predict) \in Probabilities
<1> DEFINE table == FillTable4Bit("P", ch, b)
           len == FH.Len["P"][table]
           x == LT_ACGetPtableIndex(predict, len)
<1>1. TableOK(FH, "P", table)
  BY TableOfBit DEF Kinds
<1> HIDE DEF table
<1>2. len \in Nat /\ len >= 1 /\ EntriesOK(FH, "P", table, len)
  <2>1. MaxEntries("P") \in Nat
    BY MaxEntriesAre DEF Kinds
  <2> QED BY <1>1, <2>1 DEF TableOK
<1> HIDE DEF len
<1>3. x \in 0 .. (len - 1)
  <2> DEFINE a == IF predict > 0 THEN predict ELSE -predict
             d == Pow2[SIZE_PREDCOEF - AC_HISBITS]
  <2>1. a \in Nat
    OBVIOUS
  <2>2. d \in Nat \ {0}
    <3>1. SIZE_PREDCOEF - AC_HISBITS \in Nat
      BY Constants, FrameConstants
    <3> QED BY <3>1, Pow2Is
  <2> HIDE DEF a, d
  <2>3. a \div d \in Nat
    BY <2>1, <2>2
  <2>4. x = IF a \div d >= len THEN len - 1 ELSE a \div d
    BY DEF LT_ACGetPtableIndex, a, d
  <2> HIDE DEF x
  <2> QED BY <2>3, <2>4, <1>2
<1> HIDE DEF x
<1>4. FH.Entry["P"][table][x] \in Probabilities
  BY <1>2, <1>3 DEF EntriesOK, Numbers
<1> QED
  BY <1>4, NumbersAre DEF Probability, x, len, table

-----------------------------------------------------------------------------
(* The types of the audio, with the width of the interval.                    *)
AudioTypes ==
  /\ out \in [0 .. (ByteStreamLen - 1) -> Bits(RESOL)]
  /\ AC \in [A : 0 .. (ONE - 1), C : Bits(WORD), cbptr : Int, fs : Int]
  /\ at \in [BitNr : 0 .. NrOfBitsPerCh, ChNr : Channels]
  /\ Status \in [Channels -> History]
  /\ given \in [Channels -> [BitsOfChannel -> {NotGiven, 0, 1}]]
  /\ at.BitNr = NrOfBitsPerCh => at.ChNr = 0
  /\ pc = "decode" => AC.A \in HALF .. (ONE - 1)

LEMMA NumbersOfBits ==
    /\ NrOfBitsPerCh \in Nat /\ NrOfBitsPerCh >= 1 /\ RESOL \in Nat \ {0} /\ MaxFrameLen \in Nat \ {0}
    /\ \A n \in Nat : 0 \in Bits(n) /\ Bits(n) \subseteq Nat
    /\ RESOL \in Nat /\ WORD \in Nat
<1>1. MaxFrameLen \in Nat \ {0} /\ RESOL \in Nat \ {0} /\ WORD \in Nat
  BY Constants, Widths
<1>2. NrOfBitsPerCh \in Nat /\ NrOfBitsPerCh >= 1
  BY <1>1 DEF NrOfBitsPerCh
<1>3. \A n \in Nat : 0 \in Bits(n) /\ Bits(n) \subseteq Nat
  BY Pow2Is DEF Bits
<1> QED
  BY <1>1, <1>2, <1>3

LEMMA InitAudio ==
    ASSUME Init
    PROVE  AudioTypes
<1>1. PICK channels \in ChannelCounts, x \in Stale :
        /\ FH = NewHeader(channels, x)
        /\ pc = "DSTCoded"
        /\ AC = [A |-> 0, C |-> 0, cbptr |-> 0, fs |-> 0]
        /\ Status = [c \in 0..(channels - 1) |-> [j \in 0..(TAPS - 1) |-> x % 2]]
        /\ out = [i \in 0..(MaxFrameLen * channels - 1) |-> x % Pow2[RESOL]]
        /\ at = [BitNr |-> 0, ChNr |-> 0]
        /\ given = [c \in 0..(channels - 1) |-> [b \in BitsOfChannel |-> NotGiven]]
  BY DEF Init
<1>2. channels \in 1 .. MAX_CHANNELS /\ x \in Int
  BY TableConstants
<1>3. FH.NrOfChannels = channels
  BY <1>1 DEF NewHeader
<1>4. Channels = 0 .. (channels - 1) /\ ByteStreamLen = MaxFrameLen * channels /\ 0 \in Channels
  BY <1>2, <1>3 DEF Channels, ByteStreamLen
<1>5. x % 2 \in {0, 1}
  BY <1>2
<1>6. x % Pow2[RESOL] \in Bits(RESOL)
  <2> DEFINE W == Pow2[RESOL]
  <2>1. W \in Nat \ {0}
    BY NumbersOfBits, Pow2Is
  <2> HIDE DEF W
  <2>2. x % W \in 0 .. (W - 1)
    BY <1>2, <2>1, DivMod
  <2> QED BY <2>2 DEF W, Bits
<1>7. out \in [0 .. (ByteStreamLen - 1) -> Bits(RESOL)]
  BY <1>1, <1>4, <1>6
<1>8. Status \in [Channels -> History]
  BY <1>1, <1>4, <1>5 DEF History
<1>9. AC \in [A : 0 .. (ONE - 1), C : Bits(WORD), cbptr : Int, fs : Int]
  <2>1. 0 \in 0 .. (ONE - 1) /\ 0 \in Bits(WORD) /\ 0 \in Int
    BY Widths, NumbersOfBits
  <2> QED BY <1>1, <2>1
<1>10. at \in [BitNr : 0 .. NrOfBitsPerCh, ChNr : Channels] /\ at.ChNr = 0
  <2>1. 0 \in 0 .. NrOfBitsPerCh
    BY NumbersOfBits
  <2> QED BY <1>1, <1>4, <2>1
<1>11. given \in [Channels -> [BitsOfChannel -> {NotGiven, 0, 1}]]
  BY <1>1, <1>4
<1> QED
  BY <1>1, <1>7, <1>8, <1>9, <1>10, <1>11 DEF AudioTypes

(* A step that leaves the channels and the audio.                             *)
LEMMA AudioKept ==
    ASSUME AudioTypes, FH'.NrOfChannels = FH.NrOfChannels, UNCHANGED audio, pc' # "decode"
    PROVE  AudioTypes'
<1>1. /\ Channels' = Channels /\ ByteStreamLen' = ByteStreamLen /\ NrOfBitsPerCh' = NrOfBitsPerCh
      /\ BitsOfChannel' = BitsOfChannel
  BY DEF Channels, ByteStreamLen, NrOfBitsPerCh, BitsOfChannel
<1> QED
  BY <1>1 DEF AudioTypes, audio

(* The start of the code: the whole interval, and the first bits of the code.  *)
LEMMA StartIs ==
    ASSUME TablesInv, ReadArithmeticCodedData
    PROVE  /\ UNCHANGED <<FH, SD, cur>> /\ pc = "AData"
           /\ \/ pc' = "answer" /\ err' = "InvalidArithmeticCode" /\ UNCHANGED audio
              \/ /\ pc' = "decode" /\ err' = err /\ given' = given
                 /\ Status' = LT_InitStatus /\ out' = Cleared /\ at' = [BitNr |-> 0, ChNr |-> 0]
                 /\ AC' \in [A : HALF .. (ONE - 1), C : Bits(WORD), cbptr : Int, fs : Int]
<1> DEFINE p == Reverse7LSBs(FH.Entry["F"][0][0])
           fs == SD.total - SD.pos
           ac == [A |-> ONE - 1, C |-> 0, cbptr |-> ABITS + 1, fs |-> fs]
<1>1. p \in Probabilities
  <2>1. FH \in Headers /\ "F" \in Kinds /\ MaxEntries("F") \in Nat /\ MaxEntries("F") >= 1 /\ MAX_CHANNELS \in Nat
        /\ MAX_CHANNELS > 0
    BY MaxEntriesAre, Constants DEF TablesInv, Unpacked, Kinds
  <2>2. 0 \in Tables /\ 0 \in 0 .. (MaxEntries("F") - 1)
    BY <2>1 DEF Tables
  <2>3. FH.Entry["F"][0] \in [0 .. (MaxEntries("F") - 1) -> Int]
    BY <2>1, <2>2, HeaderIs DEF Rows
  <2>4. FH.Entry["F"][0][0] \in Int
    BY <2>2, <2>3
  <2> QED BY <2>4, Reverse7LSBsIs
<1>2. fs \in Int
  BY DEF TablesInv
<1> HIDE DEF p, fs
<1>3. ASSUME NEW c \in Nat, NEW v \in CodeBits(ABITS + 1, fs, Shifts(Residual([ac EXCEPT !.C = c], p).A))
      PROVE  Decoded([ac EXCEPT !.C = c], p, v) \in [A : HALF .. (ONE - 1), C : Bits(WORD), cbptr : Int, fs : Int]
  <2> DEFINE a == [ac EXCEPT !.C = c]
  <2>1. a = [A |-> ONE - 1, C |-> c, cbptr |-> ABITS + 1, fs |-> fs]
    OBVIOUS
  <2>2. ONE - 1 \in HALF .. (ONE - 1) /\ ABITS + 1 \in Int
    BY Widths
  <2>3. a \in [A : HALF .. (ONE - 1), C : Nat, cbptr : Int, fs : Int] /\ a.cbptr = ABITS + 1 /\ a.fs = fs
    BY <1>2, <2>1, <2>2
  <2>4. v \in CodeBits(a.cbptr, a.fs, Shifts(Residual(a, p).A))
    BY <1>3, <2>3
  <2> HIDE DEF a
  <2>5. Decoded(a, p, v) \in [A : HALF .. (ONE - 1), C : Bits(WORD), cbptr : Int, fs : Int]
    BY <1>1, <2>3, <2>4, DecodedIs
  <2> QED BY <2>5 DEF a
<1>4. ASSUME NEW c \in Nat, LT_ACDecodeBit_Decode([ac EXCEPT !.C = c], p, LAMBDA a, r : AC' = a)
      PROVE  AC' \in [A : HALF .. (ONE - 1), C : Bits(WORD), cbptr : Int, fs : Int]
  <2> DEFINE a == [ac EXCEPT !.C = c]
  <2>1. a.cbptr = ABITS + 1 /\ a.fs = fs
    OBVIOUS
  <2>2. LT_ACDecodeBit_Decode(a, p, LAMBDA x, r : AC' = x)
    BY <1>4
  <2> HIDE DEF a
  <2>3. \E v \in CodeBits(ABITS + 1, fs, Shifts(Residual(a, p).A)) : AC' = Decoded(a, p, v)
    BY <2>1, <2>2 DEF LT_ACDecodeBit_Decode, Decoded
  <2> QED BY <2>3, <1>3 DEF a
<1>5. \/ pc' = "answer" /\ err' = "InvalidArithmeticCode" /\ UNCHANGED AC
      \/ /\ pc' = "decode" /\ err' = err
         /\ \/ \E c \in CodeBits(1, fs, ABITS) : LT_ACDecodeBit_Decode([ac EXCEPT !.C = c], p, LAMBDA a, r : AC' = a)
            \/ LT_ACDecodeBit_Decode(ac, p, LAMBDA a, r : AC' = a)
  BY DEF ReadArithmeticCodedData, p, fs
<1>6. CodeBits(1, fs, ABITS) \subseteq Nat
  <2> SUFFICES ASSUME NEW c \in CodeBits(1, fs, ABITS) PROVE c \in Nat
    OBVIOUS
  <2>1. ABITS \in Nat /\ 1 \in Int /\ Pow2[ABITS] \in Nat
    BY Widths, Pow2Is
  <2>2. c \in 0 .. (Pow2[ABITS] - 1)
    BY <1>2, <2>1, CodeBitsAre
  <2> QED BY <2>1, <2>2
<1>7. ac = [ac EXCEPT !.C = 0]
  OBVIOUS
<1> HIDE DEF ac
<1>8. ASSUME LT_ACDecodeBit_Decode(ac, p, LAMBDA a, r : AC' = a)
      PROVE  AC' \in [A : HALF .. (ONE - 1), C : Bits(WORD), cbptr : Int, fs : Int]
  <2>1. LT_ACDecodeBit_Decode([ac EXCEPT !.C = 0], p, LAMBDA a, r : AC' = a)
    BY <1>7, <1>8
  <2> QED BY <2>1, <1>4, 0 \in Nat
<1>9. /\ UNCHANGED <<FH, SD, cur, given>> /\ pc = "AData"
      /\ pc' = "decode" => Status' = LT_InitStatus /\ out' = Cleared /\ at' = [BitNr |-> 0, ChNr |-> 0]
      /\ pc' # "decode" => UNCHANGED <<Status, out, at>>
  BY DEF ReadArithmeticCodedData
<1>10. pc' = "answer" /\ UNCHANGED AC => UNCHANGED audio
  BY <1>9 DEF audio
<1> QED
  BY <1>4, <1>5, <1>6, <1>8, <1>9, <1>10

(* A step that decodes a bit.                                                 *)
LEMMA BitIsDecoded ==
    ASSUME TablesInv, AudioTypes, DecodeBit
    PROVE  /\ AC' \in [A : HALF .. (ONE - 1), C : Bits(WORD), cbptr : Int, fs : Int]
           /\ AC.C < AC.A => AC'.C < AC'.A
           /\ \E val \in {0, 1} :
                /\ Status' = [Status EXCEPT ![at.ChNr] = [j \in DOMAIN @ |-> IF j = 0 THEN val ELSE @[j - 1]]]
                /\ given' = [given EXCEPT ![at.ChNr][at.BitNr] = val]
                /\ out' = IF val = 1 THEN [out EXCEPT ![ByteOf(at.BitNr, at.ChNr)] = WithBit(@, PlaceInByte(at.BitNr))]
                          ELSE out
<1> DEFINE ch == at.ChNr
           predict == Predict(ch, at.BitNr)
           p == Probability(ch, at.BitNr, predict)
           r == Residual(AC, p)
           val(residual) == IF predict < 0 THEN 1 - residual ELSE residual
           rest(residual) ==
             /\ out' = IF val(residual) = 1
                       THEN [out EXCEPT ![ByteOf(at.BitNr, ch)] = WithBit(@, PlaceInByte(at.BitNr))]
                       ELSE out
             /\ given' = [given EXCEPT ![ch][at.BitNr] = val(residual)]
             /\ Status' = [Status EXCEPT ![ch] = [j \in DOMAIN @ |-> IF j = 0 THEN val(residual) ELSE @[j - 1]]]
<1>1. ch \in Channels /\ Status[ch] \in History /\ pc = "decode"
  BY DEF AudioTypes, DecodeBit
<1>2. predict \in Int
  BY <1>1, PredictIs
<1>3. p \in Probabilities
  <2> HIDE DEF predict
  <2> QED BY <1>1, <1>2, ProbabilityIs
<1>4. AC \in [A : HALF .. (ONE - 1), C : Nat, cbptr : Int, fs : Int]
  <2>1. AC \in [A : 0 .. (ONE - 1), C : Bits(WORD), cbptr : Int, fs : Int] /\ AC.A \in HALF .. (ONE - 1)
    BY <1>1 DEF AudioTypes
  <2> QED BY <2>1, NumbersOfBits
<1>5. \E v \in CodeBits(AC.cbptr, AC.fs, Shifts(Residual(AC, p).A)) : AC' = Decoded(AC, p, v) /\ rest(r.bit)
  <2>1. DecodeBit => LT_ACDecodeBit_Decode(AC, p, LAMBDA a, residual : AC' = a /\ rest(residual))
    BY DEF DecodeBit
  <2>2. DecodeBit
    OBVIOUS
  <2> HIDE DEF rest, p, DecodeBit
  <2> QED BY <2>1, <2>2 DEF LT_ACDecodeBit_Decode, Decoded
<1> HIDE DEF p, predict
<1>6. r.bit \in {0, 1}
  BY <1>3, <1>4, ResidualIs
<1>7. AC' \in [A : HALF .. (ONE - 1), C : Bits(WORD), cbptr : Int, fs : Int] /\ (AC.C < AC.A => AC'.C < AC'.A)
  <2> HIDE DEF rest, r
  <2> QED BY <1>3, <1>4, <1>5, DecodedIs
<1>8. val(r.bit) \in {0, 1}
  <2> HIDE DEF r
  <2> QED BY <1>6
<1>9. rest(r.bit)
  BY <1>5
<1> HIDE DEF r
<1> QED
  BY <1>7, <1>8, <1>9

-----------------------------------------------------------------------------
(* The bits of a number.                                                      *)
LEMMA DivDiv ==
    ASSUME NEW z \in Int, NEW a \in Nat \ {0}, NEW b \in Nat \ {0}
    PROVE  (z \div a) \div b = z \div (a * b)
<1> DEFINE q == z \div a
           r == z % a
           s == q \div b
           t == q % b
           n == a * b
<1>1. q \in Int /\ r \in 0 .. (a - 1) /\ z = q * a + r
  BY DivMod
<1> HIDE DEF q, r
<1>2. s \in Int /\ t \in 0 .. (b - 1) /\ q = s * b + t
  BY <1>1, DivMod
<1> HIDE DEF s, t
<1>3. n \in Nat \ {0}
  OBVIOUS
<1>4. z = s * n + (t * a + r)
  <2>1. q * a = s * (a * b) + t * a
    BY <1>1, <1>2
  <2>2. s * (a * b) \in Int /\ t * a \in Int
    BY <1>1, <1>2
  <2> QED BY <2>1, <2>2, <1>1
<1>5. t * a + r \in 0 .. (n - 1)
  <2>1. (b - 1 - t) * a >= 0 /\ (b - 1 - t) * a = a * b - a - t * a
    <3>1. b - 1 - t \in Nat
      BY <1>2
    <3> QED BY <3>1, <1>2
  <2>2. t * a \in Nat /\ a * b \in Nat
    BY <1>2
  <2> QED BY <2>1, <2>2, <1>1
<1> HIDE DEF n
<1> DEFINE w == t * a + r
<1>6. w \in 0 .. (n - 1) /\ z = s * n + w
  BY <1>4, <1>5
<1> HIDE DEF w
<1>7. z \div n = s
  BY <1>2, <1>3, <1>6, DivIs
<1> QED
  BY <1>7 DEF s, q, n

LEMMA BitAbove ==
    ASSUME NEW x \in Int, NEW k \in Nat, NEW m \in Nat
    PROVE  Bit(x, k + m) = Bit(x \div Pow2[k], m)
<1>1. Pow2[k + m] = Pow2[k] * Pow2[m] /\ Pow2[k] \in Nat \ {0} /\ Pow2[m] \in Nat \ {0}
  BY Pow2Is, Pow2Plus
<1>2. (x \div Pow2[k]) \div Pow2[m] = x \div (Pow2[k] * Pow2[m])
  BY <1>1, DivDiv
<1> QED
  BY <1>1, <1>2 DEF Bit

(* Setting a bit that is not set changes that bit.                            *)
LEMMA WithBitIs ==
    ASSUME NEW R \in Nat, NEW x \in Bits(R), NEW k \in 0 .. (R - 1)
    PROVE  /\ WithBit(x, k) \in Bits(R)
           /\ Bit(WithBit(x, k), k) = 1
           /\ \A i \in 0 .. (R - 1) : i # k => Bit(WithBit(x, k), i) = Bit(x, i)
<1>0. x \in Nat /\ x < Pow2[R] /\ k \in Nat /\ k < R
  BY BitsAre
<1>1. CASE Bit(x, k) = 1
  BY <1>1 DEF WithBit
<1>2. CASE Bit(x, k) # 1
  <2> DEFINE p == Pow2[k]
             q == x \div p
             b == x % p
             y == x + p
             a == q \div 2
  <2>1. p \in Nat \ {0} /\ Pow2[k + 1] = 2 * p
    BY <1>0, Pow2Is
  <2>2. WithBit(x, k) = y
    BY <1>2 DEF WithBit
  <2>3. q % 2 # 1
    BY <1>2 DEF Bit
  <2> HIDE DEF p
  <2>4. q \in Int /\ b \in 0 .. (p - 1) /\ x = q * p + b
    <3>1. x \in Int /\ p \in Nat \ {0}
      BY <1>0, <2>1
    <3> QED BY <3>1, DivMod
  <2> HIDE DEF q, b
  <2>5. a \in Int /\ q = a * 2
    BY <2>3, <2>4
  <2> HIDE DEF a
  <2>6. y = (q + 1) * p + b /\ y \in Nat
    <3>1. (q + 1) * p = q * p + p /\ q * p \in Int
      BY <2>1, <2>4
    <3> QED BY <3>1, <2>1, <2>4, <1>0
  <2> HIDE DEF y
  <2>7. y \div p = q + 1
    <3>1. q + 1 \in Int
      BY <2>4
    <3> QED BY <3>1, <2>1, <2>4, <2>6, DivIs
  <2>8. Bit(y, k) = 1
    <3>1. (q + 1) % 2 = 1
      BY <2>5
    <3> QED BY <3>1, <2>7 DEF Bit, p
  <2>9. x \div (p * 2) = a /\ y \div (p * 2) = a
    <3>1. (x \div p) \div 2 = x \div (p * 2) /\ (y \div p) \div 2 = y \div (p * 2)
      <4>1. x \in Int /\ y \in Int /\ 2 \in Nat \ {0}
        BY <1>0, <2>6
      <4> QED BY <4>1, <2>1, DivDiv
    <3>2. (q + 1) \div 2 = a /\ q \div 2 = a
      BY <2>5
    <3> QED BY <3>1, <3>2, <2>7 DEF q
  <2>10. ASSUME NEW i \in 0 .. (R - 1), i > k PROVE Bit(y, i) = Bit(x, i)
    <3>1. i - (k + 1) \in Nat /\ i = (k + 1) + (i - (k + 1)) /\ k + 1 \in Nat
      BY <2>10, <1>0
    <3>2. Bit(y, i) = Bit(y \div Pow2[k + 1], i - (k + 1)) /\ Bit(x, i) = Bit(x \div Pow2[k + 1], i - (k + 1))
      <4>1. \A z \in Int, c \in Nat, m \in Nat : Bit(z, c + m) = Bit(z \div Pow2[c], m)
        BY BitAbove
      <4>2. x \in Int /\ y \in Int
        BY <1>0, <2>6
      <4> QED BY <4>1, <4>2, <3>1
    <3>3. Pow2[k + 1] = p * 2
      BY <2>1
    <3> QED BY <3>2, <3>3, <2>9
  <2>11. ASSUME NEW i \in 0 .. (R - 1), i < k PROVE Bit(y, i) = Bit(x, i)
    <3> DEFINE c == Pow2[i]
               d == Pow2[k - i - 1]
               u == x \div c
               r == x % c
    <3>1. /\ k - i - 1 \in Nat /\ i \in Nat /\ i + 1 \in Nat /\ (i + 1) + (k - i - 1) = k
      BY <2>11, <1>0
    <3>2. c \in Nat \ {0} /\ d \in Nat \ {0} /\ p = (2 * c) * d
      <4>1. Pow2[i + 1] = 2 * Pow2[i]
        BY <3>1, Pow2Is
      <4>2. Pow2[(i + 1) + (k - i - 1)] = Pow2[i + 1] * Pow2[k - i - 1]
        BY <3>1, Pow2Plus
      <4> QED BY <4>1, <4>2, <3>1, Pow2Is DEF p
    <3> HIDE DEF c, d
    <3>3. u \in Int /\ r \in 0 .. (c - 1) /\ x = u * c + r
      BY <1>0, <3>2, DivMod
    <3> HIDE DEF u, r
    <3>4. y = (u + 2 * d) * c + r
      <4>1. (u + 2 * d) * c = u * c + (2 * c) * d
        BY <3>2, <3>3
      <4>2. u * c \in Int /\ (2 * c) * d \in Int
        BY <3>2, <3>3
      <4> QED BY <4>1, <4>2, <3>2, <3>3 DEF y
    <3>5. u + 2 * d \in Int /\ (u + 2 * d) % 2 = u % 2
      BY <3>2, <3>3
    <3>6. y \div c = u + 2 * d
      BY <3>2, <3>3, <3>4, <3>5, DivIs
    <3> QED BY <3>5, <3>6 DEF Bit, c, u
  <2>12. y \in Bits(R)
    <3> DEFINE e == Pow2[R - (k + 1)]
    <3>1. R - (k + 1) \in Nat /\ k + 1 \in Nat /\ (k + 1) + (R - (k + 1)) = R
      BY <1>0
    <3>2. e \in Nat \ {0} /\ Pow2[R] = (2 * p) * e
      <4>1. Pow2[(k + 1) + (R - (k + 1))] = Pow2[k + 1] * Pow2[R - (k + 1)]
        BY <3>1, Pow2Plus
      <4>2. Pow2[R - (k + 1)] \in Nat \ {0}
        BY <3>1, Pow2Is
      <4> QED BY <4>1, <4>2, <3>1, <2>1
    <3> HIDE DEF e
    <3>3. x = a * (2 * p) + b /\ y = a * (2 * p) + p + b
      <4>1. q * p = a * (2 * p) /\ (q + 1) * p = a * (2 * p) + p
        BY <2>1, <2>5
      <4> QED BY <4>1, <2>4, <2>6
    <3>4. a <= e - 1
      <4> SUFFICES ASSUME a >= e PROVE FALSE
        BY <2>5, <3>2
      <4>1. (a - e) * (2 * p) >= 0 /\ (a - e) * (2 * p) = a * (2 * p) - (2 * p) * e
        <5>1. a - e \in Nat
          BY <2>5, <3>2
        <5> QED BY <5>1, <2>1, <2>5, <3>2
      <4>2. a * (2 * p) \in Int /\ (2 * p) * e \in Int
        BY <2>1, <2>5, <3>2
      <4> QED BY <4>1, <4>2, <3>2, <3>3, <1>0, <2>4
    <3>5. (e - 1 - a) * (2 * p) >= 0 /\ (e - 1 - a) * (2 * p) = (2 * p) * e - 2 * p - a * (2 * p)
      <4>1. e - 1 - a \in Nat
        BY <3>2, <3>4, <2>5
      <4> QED BY <4>1, <2>1, <2>5, <3>2
    <3>6. a * (2 * p) \in Int /\ (2 * p) * e \in Int
      BY <2>1, <2>5, <3>2
    <3>7. y < Pow2[R]
      BY <3>2, <3>3, <3>5, <3>6, <2>1, <2>4
    <3>8. Pow2[R] \in Nat
      BY Pow2Is
    <3> QED BY <3>7, <3>8, <2>6 DEF Bits
  <2>13. \A i \in 0 .. (R - 1) : i # k => i < k \/ i > k
    BY <1>0
  <2> QED BY <2>2, <2>8, <2>10, <2>11, <2>12, <2>13
<1> QED
  BY <1>1, <1>2

-----------------------------------------------------------------------------
(* Where in the output a bit of a channel is.                                 *)
LEMMA ByteIs ==
    ASSUME FH \in Headers, NEW b \in 0 .. (NrOfBitsPerCh - 1), NEW ch \in Channels
    PROVE  /\ ByteOf(b, ch) \in 0 .. (ByteStreamLen - 1)
           /\ PlaceInByte(b) \in 0 .. (RESOL - 1)
<1> DEFINE N == FH.NrOfChannels
           q == b \div RESOL
           r == b % RESOL
           F == MaxFrameLen
<1>1. /\ N \in Nat \ {0} /\ RESOL \in Nat \ {0} /\ F \in Nat \ {0} /\ b \in Nat /\ b < F * RESOL
      /\ ch \in 0 .. (N - 1) /\ F * RESOL \in Nat
  BY HeaderIs, NumbersOfBits DEF NrOfBitsPerCh, Channels
<1>2. q \in Int /\ r \in 0 .. (RESOL - 1) /\ b = q * RESOL + r
  <2>1. b \in Int /\ RESOL \in Nat \ {0}
    BY <1>1
  <2> QED BY <2>1, DivMod
<1> HIDE DEF q, r, N, F
<1>3. q >= 0
  <2> SUFFICES ASSUME q <= -1 PROVE FALSE
    BY <1>2
  <2>1. (-1 - q) * RESOL >= 0 /\ (-1 - q) * RESOL = -RESOL - q * RESOL
    <3>1. -1 - q \in Nat
      BY <1>2
    <3> QED BY <3>1, <1>1, <1>2
  <2>2. q * RESOL \in Int
    BY <1>1, <1>2
  <2> QED BY <2>1, <2>2, <1>1, <1>2
<1>4. q <= F - 1
  <2> SUFFICES ASSUME q >= F PROVE FALSE
    BY <1>1, <1>2
  <2>1. (q - F) * RESOL >= 0 /\ (q - F) * RESOL = q * RESOL - F * RESOL
    <3>1. q - F \in Nat
      BY <1>1, <1>2
    <3> QED BY <3>1, <1>1, <1>2
  <2>2. q * RESOL \in Int
    BY <1>1, <1>2
  <2> QED BY <2>1, <2>2, <1>1, <1>2
<1>5. (F - 1 - q) * N >= 0 /\ (F - 1 - q) * N = F * N - N - q * N
  <2>1. F - 1 - q \in Nat
    BY <1>1, <1>2, <1>4
  <2> QED BY <2>1, <1>1, <1>2
<1>6. q * N \in Nat /\ F * N \in Nat
  BY <1>1, <1>2, <1>3
<1>7. q * N + ch \in 0 .. (F * N - 1)
  BY <1>1, <1>5, <1>6
<1> QED
  BY <1>1, <1>2, <1>7 DEF ByteOf, PlaceInByte, ByteStreamLen, q, r, N, F

(* The bit that is decoded is added to the output or not.                     *)
LEMMA OutputIs ==
    ASSUME FH \in Headers, AudioTypes, at.BitNr < NrOfBitsPerCh, NEW val \in {0, 1},
           out' = IF val = 1 THEN [out EXCEPT ![ByteOf(at.BitNr, at.ChNr)] = WithBit(@, PlaceInByte(at.BitNr))] ELSE out
    PROVE  /\ out' \in [0 .. (ByteStreamLen - 1) -> Bits(RESOL)]
           /\ \A i \in 0 .. (ByteStreamLen - 1), k \in 0 .. (RESOL - 1) :
                Bit(out'[i], k) = IF val = 1 /\ i = ByteOf(at.BitNr, at.ChNr) /\ k = PlaceInByte(at.BitNr)
                                  THEN 1 ELSE Bit(out[i], k)
<1> DEFINE B == ByteOf(at.BitNr, at.ChNr)
           k0 == PlaceInByte(at.BitNr)
           D == 0 .. (ByteStreamLen - 1)
           X == Bits(RESOL)
           y == WithBit(out[B], k0)
<1>1. out \in [D -> X] /\ B \in D /\ k0 \in 0 .. (RESOL - 1)
  <2>1. at.BitNr \in 0 .. (NrOfBitsPerCh - 1) /\ at.ChNr \in Channels /\ out \in [D -> X]
    BY NumbersOfBits DEF AudioTypes
  <2> QED BY <2>1, ByteIs
<1>2. y \in X /\ Bit(y, k0) = 1 /\ \A k \in 0 .. (RESOL - 1) : k # k0 => Bit(y, k) = Bit(out[B], k)
  <2>1. RESOL \in Nat /\ out[B] \in X
    BY <1>1, NumbersOfBits
  <2> HIDE DEF k0, B
  <2> QED BY <2>1, <1>1, WithBitIs
<1>3. out' = IF val = 1 THEN [out EXCEPT ![B] = y] ELSE out
  OBVIOUS
<1> HIDE DEF B, k0, D, X, y
<1>4. out' \in [D -> X] /\ \A i \in D : out'[i] = IF val = 1 /\ i = B THEN y ELSE out[i]
  BY <1>1, <1>2, <1>3
<1>5. \A i \in D, k \in 0 .. (RESOL - 1) : Bit(out'[i], k) = IF val = 1 /\ i = B /\ k = k0 THEN 1 ELSE Bit(out[i], k)
  BY <1>2, <1>4
<1> QED
  BY <1>4, <1>5 DEF B, k0, D, X

LEMMA HistoryIs ==
    ASSUME AudioTypes, NEW val \in {0, 1},
           Status' = [Status EXCEPT ![at.ChNr] = [j \in DOMAIN @ |-> IF j = 0 THEN val ELSE @[j - 1]]]
    PROVE  /\ Status' \in [Channels -> History]
           /\ \A c \in Channels, j \in 0 .. (TAPS - 1) :
                Status'[c][j] = IF c # at.ChNr THEN Status[c][j] ELSE IF j = 0 THEN val ELSE Status[c][j - 1]
<1> DEFINE ch == at.ChNr
           old == Status[ch]
           row == [j \in DOMAIN old |-> IF j = 0 THEN val ELSE old[j - 1]]
<1>1. ch \in Channels /\ Status \in [Channels -> History] /\ old \in [0 .. (TAPS - 1) -> {0, 1}]
  BY DEF AudioTypes, History
<1>2. row \in History /\ \A j \in 0 .. (TAPS - 1) : row[j] = IF j = 0 THEN val ELSE old[j - 1]
  <2>1. TAPS \in Nat
    BY TapsAre
  <2> HIDE DEF old
  <2> QED BY <1>1, <2>1 DEF History
<1>3. Status' = [Status EXCEPT ![ch] = row]
  OBVIOUS
<1> HIDE DEF ch, row
<1>4. Status' \in [Channels -> History]
  BY <1>1, <1>2, <1>3
<1>5. ASSUME NEW c \in Channels, NEW j \in 0 .. (TAPS - 1)
      PROVE  Status'[c][j] = IF c # ch THEN Status[c][j] ELSE IF j = 0 THEN val ELSE Status[c][j - 1]
  <2>1. Status'[c] = IF c = ch THEN row ELSE Status[c]
    BY <1>1, <1>3
  <2> QED BY <2>1, <1>2 DEF old
<1> QED
  BY <1>4, <1>5 DEF ch

(* What the frame has given is noted for the bit and the channel.             *)
LEMMA GivenIs ==
    ASSUME AudioTypes, NEW val \in {0, 1}, given' = [given EXCEPT ![at.ChNr][at.BitNr] = val]
    PROVE  /\ given' \in [Channels -> [BitsOfChannel -> {NotGiven, 0, 1}]]
           /\ \A c \in Channels, b \in BitsOfChannel :
                given'[c][b] = IF c = at.ChNr /\ b = at.BitNr THEN val ELSE given[c][b]
<1> DEFINE ch == at.ChNr
           row == [given[ch] EXCEPT ![at.BitNr] = val]
           X == {NotGiven, 0, 1}
           B == BitsOfChannel
<1>1. ch \in Channels /\ given \in [Channels -> [B -> X]] /\ given[ch] \in [B -> X] /\ val \in X
  BY DEF AudioTypes
<1>2. given' = [given EXCEPT ![ch] = row]
  OBVIOUS
<1> HIDE DEF X, B
<1>3. row \in [B -> X] /\ \A b \in B : row[b] = IF b = at.BitNr THEN val ELSE given[ch][b]
  BY <1>1
<1> HIDE DEF ch, row
<1>4. given' \in [Channels -> [B -> X]] /\ \A c \in Channels : given'[c] = IF c = ch THEN row ELSE given[c]
  BY <1>1, <1>2, <1>3
<1> QED
  BY <1>3, <1>4 DEF ch, X, B

(* A plain frame: what is put out is what was read, byte for byte.            *)
LEMMA CopyIs ==
    ASSUME FH \in Headers, AudioTypes, ReadDSDframe
    PROVE  /\ out' \in [0 .. (ByteStreamLen - 1) -> Bits(RESOL)]
           /\ given' \in [Channels -> [BitsOfChannel -> {NotGiven, 0, 1}]]
           /\ \A c \in Channels, b \in BitsOfChannel : OutBit(c, b)' = given'[c][b]
<1>1. PICK byte \in PlainBytes :
        /\ out' = [i \in DOMAIN out |-> IF SD.pos + (i + 1) * RESOL <= SD.total THEN byte ELSE 0]
        /\ given' = [c \in Channels |-> [b \in BitsOfChannel |->
                       Bit(IF SD.pos + (ByteOf(b, c) + 1) * RESOL <= SD.total THEN byte ELSE 0, PlaceInByte(b))]]
  BY DEF ReadDSDframe
<1> DEFINE Read(i) == IF SD.pos + (i + 1) * RESOL <= SD.total THEN byte ELSE 0
<1>2. \A i : Read(i) \in Bits(RESOL) /\ Read(i) \in Int
  <2>1. byte \in Bits(RESOL) /\ 0 \in Bits(RESOL) /\ Bits(RESOL) \subseteq Nat
    BY FrameConstants, NumbersOfBits
  <2> QED BY <2>1
<1>3. out' = [i \in DOMAIN out |-> Read(i)] /\ DOMAIN out = 0 .. (ByteStreamLen - 1)
  BY <1>1 DEF AudioTypes
<1>4. given' = [c \in Channels |-> [b \in BitsOfChannel |-> Bit(Read(ByteOf(b, c)), PlaceInByte(b))]]
  BY <1>1
<1>5. FH' = FH
  BY DEF ReadDSDframe
<1> HIDE DEF Read
<1>6. ASSUME NEW c \in Channels, NEW b \in BitsOfChannel
      PROVE  /\ ByteOf(b, c) \in 0 .. (ByteStreamLen - 1) /\ PlaceInByte(b) \in Nat
             /\ Bit(Read(ByteOf(b, c)), PlaceInByte(b)) \in {NotGiven, 0, 1}
             /\ OutBit(c, b)' = given'[c][b]
  <2>1. ByteOf(b, c) \in 0 .. (ByteStreamLen - 1) /\ PlaceInByte(b) \in Nat
    BY ByteIs, NumbersOfBits DEF BitsOfChannel
  <2>2. Bit(Read(ByteOf(b, c)), PlaceInByte(b)) \in {NotGiven, 0, 1}
    BY <1>2, <2>1, BitIs
  <2>3. OutBit(c, b)' = Bit(out'[ByteOf(b, c)], PlaceInByte(b))
    BY <1>5 DEF OutBit, ByteOf, PlaceInByte, Bit
  <2>4. out'[ByteOf(b, c)] = Read(ByteOf(b, c))
    BY <1>3, <2>1
  <2>5. given'[c][b] = Bit(Read(ByteOf(b, c)), PlaceInByte(b))
    BY <1>4
  <2> QED BY <2>1, <2>2, <2>3, <2>4, <2>5
<1>7. out' \in [0 .. (ByteStreamLen - 1) -> Bits(RESOL)]
  BY <1>2, <1>3
<1>8. given' \in [Channels -> [BitsOfChannel -> {NotGiven, 0, 1}]]
  BY <1>4, <1>6
<1> QED
  BY <1>6, <1>7, <1>8

LEMMA NextAudio ==
    ASSUME TablesInv, AudioTypes, [Next]_vars
    PROVE  AudioTypes'
<1>0. FH \in Headers /\ FH.NrOfChannels \in Nat /\ 0 \in Channels
  <2>1. FH \in Headers
    BY DEF TablesInv, Unpacked
  <2> QED BY <2>1, HeaderIs DEF Chans, Channels
<1>a. ASSUME FH' = FH
      PROVE  /\ Channels' = Channels /\ ByteStreamLen' = ByteStreamLen /\ NrOfBitsPerCh' = NrOfBitsPerCh
             /\ BitsOfChannel' = BitsOfChannel
  BY <1>a DEF Channels, ByteStreamLen, NrOfBitsPerCh, BitsOfChannel
<1>1. CASE Unpack
  <2>1. FH'.NrOfChannels = FH.NrOfChannels /\ pc' # "decode"
    <3>1. CASE GoesOnOrStops
      BY <3>1 DEF GoesOnOrStops, ReadPcs, SegPcs, MapPcs, TablePcs
    <3>2. CASE ReadDSTCoded \/ ReadStuffing
      BY <1>0, <3>2, PlainStep
    <3> QED BY <1>0, <1>1, <3>1, <3>2, UnpackStep DEF Unpack
  <2> QED BY <1>1, <2>1, AudioKept DEF Unpack
<1>2. CASE ReadDSDframe
  <2>1. UNCHANGED <<FH, AC, Status, at>> /\ pc' = "answer"
    BY <1>2 DEF ReadDSDframe
  <2>2. /\ out' \in [0 .. (ByteStreamLen - 1) -> Bits(RESOL)]
        /\ given' \in [Channels -> [BitsOfChannel -> {NotGiven, 0, 1}]]
    BY <1>0, <1>2, CopyIs
  <2> QED BY <1>a, <2>1, <2>2 DEF AudioTypes
<1>3. CASE ReadArithmeticCodedData
  <2>1. FH' = FH
    BY <1>3, StartIs
  <2>2. CASE pc' = "answer" /\ UNCHANGED audio
    BY <2>1, <2>2, AudioKept
  <2>3. CASE /\ pc' = "decode" /\ Status' = LT_InitStatus /\ out' = Cleared /\ at' = [BitNr |-> 0, ChNr |-> 0]
             /\ given' = given
             /\ AC' \in [A : HALF .. (ONE - 1), C : Bits(WORD), cbptr : Int, fs : Int]
    <3>1. Status' \in [Channels -> History]
      <4>1. \A j \in 0 .. (TAPS - 1) : j % 2 \in {0, 1}
        BY TapsAre
      <4> QED BY <2>3, <4>1 DEF LT_InitStatus, History
    <3>2. out' \in [0 .. (ByteStreamLen - 1) -> Bits(RESOL)]
      <4>1. DOMAIN out = 0 .. (ByteStreamLen - 1) /\ 0 \in Bits(RESOL)
        BY NumbersOfBits DEF AudioTypes
      <4> QED BY <2>3, <4>1 DEF Cleared
    <3>3. at' \in [BitNr : 0 .. NrOfBitsPerCh, ChNr : Channels] /\ at'.ChNr = 0
      BY <1>0, <2>3, NumbersOfBits
    <3>4. AC' \in [A : 0 .. (ONE - 1), C : Bits(WORD), cbptr : Int, fs : Int] /\ AC'.A \in HALF .. (ONE - 1)
      <4>1. HALF .. (ONE - 1) \subseteq 0 .. (ONE - 1)
        BY Widths
      <4> QED BY <2>3, <4>1
    <3>5. given' = given
      BY <2>3
    <3> QED BY <1>a, <2>1, <3>1, <3>2, <3>3, <3>4, <3>5 DEF AudioTypes
  <2> QED BY <1>3, <2>2, <2>3, StartIs
<1>4. CASE DecodeBit
  <2>1. FH' = FH /\ at.BitNr < NrOfBitsPerCh /\ pc' = pc
    BY <1>4 DEF DecodeBit, header
  <2>2. AC' \in [A : HALF .. (ONE - 1), C : Bits(WORD), cbptr : Int, fs : Int]
    BY <1>4, BitIsDecoded
  <2>3. PICK val \in {0, 1} :
          /\ given' = [given EXCEPT ![at.ChNr][at.BitNr] = val]
          /\ Status' = [Status EXCEPT ![at.ChNr] = [j \in DOMAIN @ |-> IF j = 0 THEN val ELSE @[j - 1]]]
          /\ out' = IF val = 1 THEN [out EXCEPT ![ByteOf(at.BitNr, at.ChNr)] = WithBit(@, PlaceInByte(at.BitNr))] ELSE out
    BY <1>4, BitIsDecoded
  <2>4. Status' \in [Channels -> History] /\ out' \in [0 .. (ByteStreamLen - 1) -> Bits(RESOL)]
    BY <1>0, <2>1, <2>3, OutputIs, HistoryIs
  <2>5. AC' \in [A : 0 .. (ONE - 1), C : Bits(WORD), cbptr : Int, fs : Int] /\ AC'.A \in HALF .. (ONE - 1)
    <3>1. HALF .. (ONE - 1) \subseteq 0 .. (ONE - 1)
      BY Widths
    <3> QED BY <2>2, <3>1
  <2>6. at' \in [BitNr : 0 .. NrOfBitsPerCh, ChNr : Channels] /\ (at'.BitNr = NrOfBitsPerCh => at'.ChNr = 0)
    <3>1. at \in [BitNr : 0 .. NrOfBitsPerCh, ChNr : Channels] /\ NrOfBitsPerCh \in Nat
      BY NumbersOfBits DEF AudioTypes
    <3>2. CASE at.ChNr + 1 < FH.NrOfChannels
      <4>1. at' = [at EXCEPT !.ChNr = @ + 1]
        BY <1>4, <3>2 DEF DecodeBit
      <4>2. at.ChNr + 1 \in Channels
        BY <1>0, <3>1, <3>2 DEF Channels
      <4> QED BY <2>1, <3>1, <4>1, <4>2
    <3>3. CASE ~(at.ChNr + 1 < FH.NrOfChannels)
      <4>1. at' = [BitNr |-> at.BitNr + 1, ChNr |-> 0]
        BY <1>4, <3>3 DEF DecodeBit
      <4>2. at.BitNr + 1 \in 0 .. NrOfBitsPerCh
        BY <2>1, <3>1
      <4> QED BY <1>0, <4>1, <4>2
    <3> QED BY <3>2, <3>3
  <2>7. given' \in [Channels -> [BitsOfChannel -> {NotGiven, 0, 1}]]
    BY <2>3, GivenIs
  <2> QED BY <1>a, <2>1, <2>4, <2>5, <2>6, <2>7 DEF AudioTypes
<1>5. CASE LT_ACDecodeBit_Flush
  BY <1>5, AudioKept DEF LT_ACDecodeBit_Flush
<1>6. CASE Answer
  <2>1. UNCHANGED <<FH, AC, Status, at, given>> /\ pc' = "done"
    BY <1>6 DEF Answer
  <2>2. out' \in [0 .. (ByteStreamLen - 1) -> Bits(RESOL)]
    <3>1. SILENCE \in Bits(RESOL) /\ out \in [0 .. (ByteStreamLen - 1) -> Bits(RESOL)]
      BY FrameConstants DEF AudioTypes
    <3> QED BY <1>6, <3>1 DEF Answer
  <2> QED BY <1>a, <2>1, <2>2 DEF AudioTypes
<1>7. CASE UNCHANGED vars
  BY <1>7 DEF vars, header, audio, AudioTypes, Channels, ByteStreamLen, NrOfBitsPerCh, BitsOfChannel
<1> QED
  BY <1>1, <1>2, <1>3, <1>4, <1>5, <1>6, <1>7 DEF Next

(* The types of the audio rely on the tables: a probability that was not read *)
(* could take the whole interval.                                             *)
FrameInv == TablesInv /\ AudioTypes

(* The invariant of the tables and of the types of the audio holds always     *)
(* (dst_fram.c, DST_FramDSTDecode).                                           *)
THEOREM FrameInvariant == Spec => []FrameInv
<1>1. Init => FrameInv
  BY InitTables, InitAudio DEF FrameInv
<1>2. FrameInv /\ [Next]_vars => FrameInv'
  BY NextTables, NextAudio DEF FrameInv
<1> QED
  BY <1>1, <1>2, PTL DEF Spec

(* Output bytes stay bytes though bits are added to them one by one, the      *)
(* registers stay words, the bit and the channel stay in the frame            *)
(* (dst_fram.c, DST_FramDSTDecode), for every width and length.               *)
THEOREM FrameTypeCorrect == Spec => []TypeOK
<1>1. FrameInv => TypeOK
  <2> SUFFICES ASSUME FrameInv PROVE TypeOK
    OBVIOUS
  <2>1. err \in Errors /\ AudioTypes
    BY DEF FrameInv, TablesInv
  <2> QED BY <2>1 DEF AudioTypes, TypeOK
<1> QED
  BY <1>1, FrameInvariant, PTL

(* A code within the interval stays within it, and after each bit the width   *)
(* is in the upper half of the register again (dst_fram.c,                    *)
(* LT_ACDecodeBit_Decode), for every width of the registers and every entry.  *)
THEOREM IntervalKept == Spec => StaysInInterval
<1>1. FrameInv /\ [Next]_vars => [pc = "decode" /\ AC.C < AC.A => AC'.C < AC'.A /\ AC'.A \in HALF..(ONE - 1)]_vars
  <2> SUFFICES ASSUME FrameInv, Next, pc = "decode", AC.C < AC.A
               PROVE  AC'.C < AC'.A /\ AC'.A \in HALF..(ONE - 1)
    BY DEF vars
  <2>1. TablesInv /\ AudioTypes /\ AC.A \in HALF .. (ONE - 1)
    BY DEF FrameInv, AudioTypes
  <2>2. CASE DecodeBit
    BY <2>1, <2>2, BitIsDecoded
  <2>3. CASE AC' = AC
    BY <2>1, <2>3
  <2>4. ~ReadArithmeticCodedData
    BY DEF ReadArithmeticCodedData
  <2> QED BY <2>2, <2>3, <2>4 DEF Next, Unpack, ReadDSDframe, LT_ACDecodeBit_Flush, Answer, audio
<1> QED
  BY <1>1, FrameInvariant, PTL DEF Spec, StaysInInterval

-----------------------------------------------------------------------------
(* The history of a channel is what was put out of it: BitsOf counts the bits *)
(* that a channel has out, and before the first they alternate.  A bit that is *)
(* decoded is added to its byte, so the ones after it must not be set yet;    *)
(* then the ones before it are those that the frame has given.                *)
BitsOf(ch) == at.BitNr + (IF ch < at.ChNr THEN 1 ELSE 0)
PastBit(ch, b) == IF b >= 0 THEN OutBit(ch, b) ELSE (-b - 1) % 2
Kept == \A ch \in Channels, j \in 0 .. (TAPS - 1) : Status[ch][j] = PastBit(ch, BitsOf(ch) - 1 - j)
Unwritten == \A ch \in Channels : \A b \in BitsOf(ch) .. (NrOfBitsPerCh - 1) : OutBit(ch, b) = 0
Written == \A ch \in Channels : \A b \in 0 .. (BitsOf(ch) - 1) : OutBit(ch, b) = given[ch][b]
Whole == \A ch \in Channels, b \in BitsOfChannel : OutBit(ch, b) = given[ch][b]

HistoryInv ==
  /\ pc \notin {"answer", "done"} => err = "NoError"
  /\ pc = "decode" => Kept /\ Unwritten /\ Written
  /\ pc \in {"answer", "done"} /\ err = "NoError" => Whole
  /\ pc = "done" /\ err # "NoError" => \A i \in DOMAIN out : out[i] = SILENCE

LEMMA BitsOfAre ==
    ASSUME FH \in Headers, AudioTypes, NEW ch \in Channels
    PROVE  /\ BitsOf(ch) \in Nat /\ BitsOf(ch) <= NrOfBitsPerCh
           /\ at.BitNr < NrOfBitsPerCh => BitsOf(at.ChNr) = at.BitNr
           /\ at.BitNr = NrOfBitsPerCh => BitsOf(ch) = NrOfBitsPerCh
<1>1. /\ at.BitNr \in 0 .. NrOfBitsPerCh /\ at.ChNr \in Channels /\ NrOfBitsPerCh \in Nat
      /\ (at.BitNr = NrOfBitsPerCh => at.ChNr = 0) /\ Channels \subseteq Nat
  BY HeaderIs, NumbersOfBits DEF AudioTypes, Chans, Channels
<1>2. ch \in Nat /\ at.ChNr \in Nat /\ at.BitNr \in Nat /\ at.BitNr <= NrOfBitsPerCh
  <2>1. ch \in Nat /\ at.ChNr \in Nat
    BY <1>1, Zenon
  <2>2. \A x \in 0 .. NrOfBitsPerCh : x \in Nat /\ x <= NrOfBitsPerCh
    BY <1>1
  <2> QED BY <2>1, <2>2, <1>1, Zenon
<1>3. BitsOf(ch) \in Nat /\ BitsOf(ch) <= NrOfBitsPerCh
  <2>1. CASE ch < at.ChNr
    <3>1. at.BitNr # NrOfBitsPerCh
      BY <1>1, <1>2, <2>1
    <3> QED BY <1>1, <1>2, <2>1, <3>1 DEF BitsOf
  <2>2. CASE ~(ch < at.ChNr)
    BY <1>1, <1>2, <2>2 DEF BitsOf
  <2> QED BY <2>1, <2>2
<1>4. BitsOf(at.ChNr) = at.BitNr
  BY <1>2 DEF BitsOf
<1>5. at.BitNr = NrOfBitsPerCh => BitsOf(ch) = NrOfBitsPerCh
  BY <1>1, <1>2 DEF BitsOf
<1> QED
  BY <1>3, <1>4, <1>5

(* Each bit of each channel has a place of its own.                           *)
LEMMA PlacesApart ==
    ASSUME FH \in Headers, NEW b \in 0 .. (NrOfBitsPerCh - 1), NEW d \in 0 .. (NrOfBitsPerCh - 1),
           NEW c \in Channels, NEW e \in Channels,
           ByteOf(b, c) = ByteOf(d, e), PlaceInByte(b) = PlaceInByte(d)
    PROVE  b = d /\ c = e
<1> DEFINE N == FH.NrOfChannels
           q == b \div RESOL
           r == b % RESOL
           s == d \div RESOL
           t == d % RESOL
<1>1. N \in Nat \ {0} /\ RESOL \in Nat \ {0} /\ b \in Int /\ d \in Int /\ c \in 0 .. (N - 1) /\ e \in 0 .. (N - 1)
  BY HeaderIs, NumbersOfBits DEF Channels
<1>2. /\ q \in Int /\ r \in 0 .. (RESOL - 1) /\ b = q * RESOL + r
      /\ s \in Int /\ t \in 0 .. (RESOL - 1) /\ d = s * RESOL + t
  <2>1. b \in Int /\ d \in Int /\ RESOL \in Nat \ {0}
    BY <1>1
  <2> QED BY <2>1, DivMod
<1>3. q * N + c = s * N + e /\ RESOL - 1 - r = RESOL - 1 - t
  BY DEF ByteOf, PlaceInByte
<1> HIDE DEF N, q, r, s, t
<1>4. q = s /\ c = e
  BY <1>1, <1>2, <1>3, Apart
<1>5. r = t
  BY <1>1, <1>2, <1>3
<1> QED
  BY <1>2, <1>4, <1>5

LEMMA DecodeHistory ==
    ASSUME TablesInv, AudioTypes, Kept, Unwritten, Written, DecodeBit,
           NEW b0, b0 = at.BitNr, NEW c0, c0 = at.ChNr, NEW M, M = NrOfBitsPerCh
    PROVE  Kept' /\ Unwritten' /\ Written'
<1>0. /\ FH \in Headers /\ FH' = FH /\ b0 < M /\ b0 \in 0 .. (M - 1) /\ c0 \in Channels /\ M \in Nat /\ b0 \in Nat
      /\ Channels' = Channels /\ NrOfBitsPerCh' = M /\ Channels \subseteq Nat
      /\ BitsOf(c0) = b0
  <2>1. FH \in Headers /\ FH' = FH /\ b0 < M
    BY DEF TablesInv, Unpacked, DecodeBit, header
  <2>2. at \in [BitNr : 0 .. M, ChNr : Channels] /\ M \in Nat
    BY NumbersOfBits DEF AudioTypes
  <2>3. Channels' = Channels /\ NrOfBitsPerCh' = M /\ Channels \subseteq Nat
    BY <2>1, HeaderIs DEF Channels, Chans, NrOfBitsPerCh
  <2> QED BY <2>1, <2>2, <2>3, BitsOfAre
<1>1. PICK val \in {0, 1} :
        /\ Status' = [Status EXCEPT ![at.ChNr] = [j \in DOMAIN @ |-> IF j = 0 THEN val ELSE @[j - 1]]]
        /\ given' = [given EXCEPT ![at.ChNr][at.BitNr] = val]
        /\ out' = IF val = 1 THEN [out EXCEPT ![ByteOf(at.BitNr, at.ChNr)] = WithBit(@, PlaceInByte(at.BitNr))] ELSE out
  BY BitIsDecoded
<1>2. \A i \in 0 .. (ByteStreamLen - 1), k \in 0 .. (RESOL - 1) :
        Bit(out'[i], k) = IF val = 1 /\ i = ByteOf(b0, c0) /\ k = PlaceInByte(b0) THEN 1 ELSE Bit(out[i], k)
  BY <1>0, <1>1, OutputIs
<1>3. \A c \in Channels, j \in 0 .. (TAPS - 1) :
        Status'[c][j] = IF c # c0 THEN Status[c][j] ELSE IF j = 0 THEN val ELSE Status[c][j - 1]
  <2>1. \A c \in Channels, j \in 0 .. (TAPS - 1) :
          Status'[c][j] = IF c # at.ChNr THEN Status[c][j] ELSE IF j = 0 THEN val ELSE Status[c][j - 1]
    BY <1>1, HistoryIs
  <2> QED BY <2>1
<1>4. ASSUME NEW c \in Channels
      PROVE  BitsOf(c)' = IF c = c0 THEN b0 + 1 ELSE BitsOf(c)
  <2>0. FH.NrOfChannels \in Nat /\ c \in Nat /\ c0 \in Nat /\ c < FH.NrOfChannels /\ c0 < FH.NrOfChannels
    BY <1>0, HeaderIs DEF Channels
  <2>1. CASE c0 + 1 < FH.NrOfChannels
    <3>1. at' = [at EXCEPT !.ChNr = @ + 1] /\ at \in [BitNr : 0 .. M, ChNr : Channels]
      BY <2>1 DEF DecodeBit, AudioTypes
    <3>2. at'.BitNr = b0 /\ at'.ChNr = c0 + 1
      BY <3>1
    <3> QED BY <3>2, <2>0, <1>0 DEF BitsOf
  <2>2. CASE ~(c0 + 1 < FH.NrOfChannels)
    <3>1. at' = [BitNr |-> b0 + 1, ChNr |-> 0]
      BY <2>2 DEF DecodeBit
    <3> QED BY <3>1, <2>0, <2>2, <1>0 DEF BitsOf
  <2> QED BY <2>1, <2>2
<1>5. ASSUME NEW c \in Channels, NEW b \in 0 .. (M - 1)
      PROVE  OutBit(c, b)' = IF val = 1 /\ c = c0 /\ b = b0 THEN 1 ELSE OutBit(c, b)
  <2>1. ByteOf(b, c) \in 0 .. (ByteStreamLen - 1) /\ PlaceInByte(b) \in 0 .. (RESOL - 1)
    BY <1>0, ByteIs
  <2>2. OutBit(c, b)' = Bit(out'[ByteOf(b, c)], PlaceInByte(b))
    BY <1>0 DEF OutBit, ByteOf, PlaceInByte, Bit
  <2>3. ByteOf(b, c) = ByteOf(b0, c0) /\ PlaceInByte(b) = PlaceInByte(b0) => b = b0 /\ c = c0
    BY <1>0, PlacesApart
  <2> QED BY <1>2, <2>1, <2>2, <2>3 DEF OutBit
<1>6. OutBit(c0, b0)' = val
  <2>1. OutBit(c0, b0) = 0
    <3>1. b0 \in BitsOf(c0) .. (M - 1)
      BY <1>0
    <3> QED BY <3>1, <1>0 DEF Unwritten
  <2> QED BY <2>1, <1>0, <1>5
<1>7. ASSUME NEW c \in Channels, NEW b \in Int, b < M, ~(c = c0 /\ b = b0)
      PROVE  PastBit(c, b)' = PastBit(c, b)
  <2>1. CASE b >= 0
    <3>1. b \in 0 .. (M - 1)
      BY <1>0, <1>7, <2>1
    <3> QED BY <3>1, <2>1, <1>5, <1>7 DEF PastBit
  <2>2. CASE ~(b >= 0)
    BY <2>2 DEF PastBit
  <2> QED BY <2>1, <2>2
<1>8. Kept'
  <2> SUFFICES ASSUME NEW c \in Channels, NEW j \in 0 .. (TAPS - 1), NEW b, b = BitsOf(c)' - 1 - j
               PROVE  Status'[c][j] = PastBit(c, b)'
    <3>1. TAPS' = TAPS
      BY DEF TAPS
    <3> QED BY <3>1, <1>0 DEF Kept, PastBit, OutBit, ByteOf, PlaceInByte, Bit
  <2>0. BitsOf(c) \in Nat /\ BitsOf(c) <= M /\ j \in Nat
    BY <1>0, BitsOfAre, TapsAre
  <2>1. CASE c # c0
    <3>1. b = BitsOf(c) - 1 - j /\ b \in Int /\ b < M
      BY <2>0, <2>1, <1>0, <1>4
    <3>2. Status'[c][j] = Status[c][j]
      BY <1>3, <2>1
    <3>3. Status[c][j] = PastBit(c, b)
      BY <3>1 DEF Kept
    <3>4. PastBit(c, b)' = PastBit(c, b)
      BY <3>1, <2>1, <1>7
    <3> QED BY <3>2, <3>3, <3>4
  <2>2. CASE c = c0
    <3>1. b = b0 - j /\ b \in Int /\ b < M
      BY <1>0, <1>4, <2>0, <2>2
    <3>2. CASE j = 0
      <4>1. b = b0 /\ b >= 0
        BY <3>1, <3>2, <1>0
      <4>2. Status'[c][j] = val
        BY <1>3, <2>2, <3>2
      <4>3. PastBit(c0, b)' = OutBit(c0, b)'
        BY <4>1 DEF PastBit
      <4> QED BY <4>1, <4>2, <4>3, <1>6, <2>2
    <3>3. CASE j # 0
      <4>1. j - 1 \in 0 .. (TAPS - 1) /\ Status'[c][j] = Status[c0][j - 1]
        BY <1>3, <2>0, <2>2, <3>3, TapsAre
      <4>2. Status[c0][j - 1] = PastBit(c0, BitsOf(c0) - 1 - (j - 1))
        BY <1>0, <4>1 DEF Kept
      <4>3. BitsOf(c0) - 1 - (j - 1) = b /\ b # b0
        BY <1>0, <2>0, <3>1, <3>3
      <4>4. PastBit(c0, b)' = PastBit(c0, b)
        BY <1>0, <1>7, <3>1, <4>3
      <4> QED BY <4>1, <4>2, <4>3, <4>4, <2>2
    <3> QED BY <3>2, <3>3
  <2> QED BY <2>1, <2>2
<1>9. Unwritten'
  <2> SUFFICES ASSUME NEW c \in Channels, NEW b \in BitsOf(c)' .. (M - 1) PROVE OutBit(c, b)' = 0
    BY <1>0 DEF Unwritten, OutBit, ByteOf, PlaceInByte, Bit
  <2>1. BitsOf(c) \in Nat
    BY <1>0, BitsOfAre
  <2>2. b \in BitsOf(c) .. (M - 1) /\ b \in 0 .. (M - 1) /\ ~(c = c0 /\ b = b0)
    BY <2>1, <1>0, <1>4
  <2> QED BY <2>2, <1>5 DEF Unwritten
<1>10. Written'
  <2> SUFFICES ASSUME NEW c \in Channels, NEW b \in 0 .. (BitsOf(c)' - 1) PROVE OutBit(c, b)' = given'[c][b]
    BY <1>0 DEF Written, OutBit, ByteOf, PlaceInByte, Bit
  <2>1. BitsOf(c) \in Nat /\ BitsOf(c) <= M
    BY <1>0, BitsOfAre
  <2>2. b \in 0 .. (M - 1) /\ ((c = c0 /\ b = b0) \/ (b \in 0 .. (BitsOf(c) - 1) /\ ~(c = c0 /\ b = b0)))
    BY <2>1, <1>0, <1>4
  <2>3. given'[c][b] = IF c = c0 /\ b = b0 THEN val ELSE given[c][b]
    <3>1. b \in BitsOfChannel
      BY <2>2 DEF BitsOfChannel
    <3>2. given'[c][b] = IF c = at.ChNr /\ b = at.BitNr THEN val ELSE given[c][b]
      BY <1>1, <3>1, GivenIs
    <3> QED BY <3>2
  <2> QED BY <2>2, <2>3, <1>5, <1>6 DEF Written
<1> QED
  BY <1>8, <1>9, <1>10

-----------------------------------------------------------------------------
LEMMA StartHistory ==
    ASSUME FH \in Headers, FH' = FH, AudioTypes,
           Status' = LT_InitStatus, out' = Cleared, at' = [BitNr |-> 0, ChNr |-> 0]
    PROVE  Kept' /\ Unwritten' /\ Written'
<1>0. /\ Channels' = Channels /\ Channels \subseteq Nat /\ NrOfBitsPerCh' = NrOfBitsPerCh /\ NrOfBitsPerCh \in Nat
      /\ TAPS' = TAPS /\ TAPS \in Nat
  BY HeaderIs, NumbersOfBits, TapsAre DEF Channels, Chans, NrOfBitsPerCh, TAPS
<1>1. ASSUME NEW c \in Channels PROVE BitsOf(c)' = 0
  BY <1>0 DEF BitsOf
<1>2. Kept'
  <2> SUFFICES ASSUME NEW c \in Channels, NEW j \in 0 .. (TAPS - 1), NEW b, b = BitsOf(c)' - 1 - j
               PROVE  Status'[c][j] = PastBit(c, b)'
    BY <1>0 DEF Kept, PastBit, OutBit, ByteOf, PlaceInByte, Bit
  <2>1. b = -1 - j /\ ~(b >= 0) /\ -b - 1 = j
    BY <1>0, <1>1
  <2>2. PastBit(c, b)' = j % 2
    BY <2>1 DEF PastBit
  <2>3. Status'[c][j] = j % 2
    BY DEF LT_InitStatus
  <2> QED BY <2>2, <2>3
<1>3. Unwritten'
  <2> SUFFICES ASSUME NEW c \in Channels, NEW b \in BitsOf(c)' .. (NrOfBitsPerCh - 1) PROVE OutBit(c, b)' = 0
    BY <1>0 DEF Unwritten, OutBit, ByteOf, PlaceInByte, Bit
  <2>1. b \in 0 .. (NrOfBitsPerCh - 1)
    BY <1>1
  <2>2. ByteOf(b, c) \in 0 .. (ByteStreamLen - 1) /\ PlaceInByte(b) \in Nat
    BY <2>1, ByteIs, NumbersOfBits
  <2>3. out'[ByteOf(b, c)] = 0
    BY <2>2 DEF Cleared, AudioTypes
  <2>4. OutBit(c, b)' = Bit(0, PlaceInByte(b))
    BY <2>3 DEF OutBit, ByteOf, PlaceInByte, Bit
  <2>5. Bit(0, PlaceInByte(b)) = 0
    <3> DEFINE p == Pow2[PlaceInByte(b)]
    <3>1. p \in Nat \ {0}
      BY <2>2, Pow2Is
    <3>2. 0 \div p = 0
      <4> HIDE DEF p
      <4>1. (0 * p + 0) \div p = 0
        <5>1. 0 \in Int /\ 0 \in 0 .. (p - 1)
          BY <3>1
        <5> QED BY <3>1, <5>1, DivIs
      <4> QED BY <3>1, <4>1
    <3> QED BY <3>2 DEF Bit, p
  <2> QED BY <2>4, <2>5
<1>4. Written'
  <2> SUFFICES ASSUME NEW c \in Channels, NEW b \in 0 .. (BitsOf(c)' - 1) PROVE FALSE
    BY <1>0 DEF Written, OutBit, ByteOf, PlaceInByte, Bit
  <2> QED BY <1>1
<1> QED
  BY <1>2, <1>3, <1>4

(* What the history says stays as long as the output and the bits do.         *)
LEMMA KeptStays ==
    ASSUME FH' = FH, UNCHANGED <<Status, out, at, given>>
    PROVE  Kept' = Kept /\ Unwritten' = Unwritten /\ Written' = Written /\ Whole' = Whole
  BY DEF Kept, Unwritten, Written, Whole, PastBit, OutBit, ByteOf, PlaceInByte, Bit, BitsOf, Channels, TAPS,
         NrOfBitsPerCh, BitsOfChannel

(* A channel that has all its bits has the frame's.                           *)
LEMMA WrittenIsWhole ==
    ASSUME FH \in Headers, AudioTypes, Written, at.BitNr = NrOfBitsPerCh
    PROVE  Whole
<1> SUFFICES ASSUME NEW ch \in Channels, NEW b \in BitsOfChannel PROVE OutBit(ch, b) = given[ch][b]
  BY DEF Whole
<1>1. BitsOf(ch) = NrOfBitsPerCh
  BY BitsOfAre
<1>2. b \in 0 .. (BitsOf(ch) - 1)
  BY <1>1 DEF BitsOfChannel
<1> QED
  BY <1>2 DEF Written

LEMMA InitHistory ==
    ASSUME Init
    PROVE  HistoryInv
  BY DEF Init, HistoryInv

LEMMA NextHistory ==
    ASSUME TablesInv, AudioTypes, HistoryInv, [Next]_vars
    PROVE  HistoryInv'
<1>0. FH \in Headers
  BY DEF TablesInv, Unpacked
<1>1. CASE Unpack
  <2>0. pc \notin {"answer", "done", "decode"} /\ err = "NoError" /\ UNCHANGED audio
    <3>1. pc \notin {"answer", "done", "decode"}
      <4>1. ReadDSTCoded \/ ReadStuffing => pc \notin {"answer", "done", "decode"}
        BY DEF ReadDSTCoded, ReadStuffing
      <4>2. ReadSegmentData => pc \notin {"answer", "done", "decode"}
        BY DEF ReadSegmentData, ReadPSameSegAsF, ReadSameSegAllCh, ReadEndOfChannel, ReadResolution, ReadSegmentLen
      <4>3. ReadMappingData => pc \notin {"answer", "done", "decode"}
        BY DEF ReadMappingData, ReadPSameMapAsF, ReadSameMapAllCh, ReadTable4Segment, ReadHalfProb
      <4>4. ReadTable => pc \notin {"answer", "done", "decode"}
        BY DEF ReadTable, ReadLen, ReadCoded, ReadBestMethod, ReadEntry, ReadRiceM, ReadRiceEntry
      <4> QED
        BY <1>1, <4>1, <4>2, <4>3, <4>4, Zenon DEF Unpack, UnpackHeader, ReadFilterCoefSets, ReadProbabilityTables
    <3> QED BY <3>1, <1>1 DEF Unpack, HistoryInv
  <2>1. CASE GoesOnOrStops
    <3>1. (err' = err /\ pc' \in ReadPcs) \/ (err' # "NoError" /\ pc' = "answer")
      BY <2>1 DEF GoesOnOrStops
    <3>2. ReadPcs \cap {"answer", "done", "decode"} = {}
      BY DEF ReadPcs, SegPcs, MapPcs, TablePcs
    <3> QED BY <2>0, <3>1, <3>2 DEF HistoryInv
  <2>2. CASE ReadDSTCoded \/ ReadStuffing
    <3>1. \/ err' = err /\ pc' \in {"PSameSegAsF", "stuffing", "plain"}
          \/ err' # "NoError" /\ pc' = "answer"
      BY <1>0, <2>2, PlainStep
    <3> QED BY <2>0, <3>1 DEF HistoryInv
  <2> QED BY <1>0, <1>1, <2>1, <2>2, UnpackStep DEF Unpack
<1>2. CASE ReadDSDframe
  <2>1. pc = "plain" /\ pc' = "answer" /\ UNCHANGED <<FH, err>>
    BY <1>2 DEF ReadDSDframe
  <2>2. \A c \in Channels, b \in BitsOfChannel : OutBit(c, b)' = given'[c][b]
    BY <1>0, <1>2, CopyIs
  <2>3. Whole'
    BY <2>1, <2>2 DEF Whole, Channels, BitsOfChannel, NrOfBitsPerCh, OutBit, ByteOf, PlaceInByte, Bit
  <2> QED BY <2>1, <2>3 DEF HistoryInv
<1>3. CASE ReadArithmeticCodedData
  <2>1. FH' = FH /\ pc = "AData" /\ err = "NoError"
    BY <1>3, StartIs DEF HistoryInv
  <2>2. CASE pc' = "answer" /\ err' = "InvalidArithmeticCode"
    BY <2>2 DEF HistoryInv
  <2>3. CASE pc' = "decode" /\ err' = err /\ Status' = LT_InitStatus /\ out' = Cleared /\ at' = [BitNr |-> 0, ChNr |-> 0]
    <3>1. Kept' /\ Unwritten' /\ Written'
      BY <1>0, <2>1, <2>3, StartHistory
    <3> QED BY <2>1, <2>3, <3>1 DEF HistoryInv
  <2> QED BY <1>3, <2>2, <2>3, StartIs
<1>4. CASE DecodeBit
  <2>1. pc = "decode" /\ pc' = pc /\ err' = err
    BY <1>4 DEF DecodeBit, header
  <2>2. Kept' /\ Unwritten' /\ Written'
    BY <1>4, <2>1, DecodeHistory DEF HistoryInv
  <2> QED BY <2>1, <2>2 DEF HistoryInv
<1>5. CASE LT_ACDecodeBit_Flush
  <2>1. pc = "decode" /\ at.BitNr = NrOfBitsPerCh /\ pc' = "answer" /\ UNCHANGED <<FH, Status, out, at, given>>
    BY <1>5 DEF LT_ACDecodeBit_Flush, audio
  <2>2. Whole
    BY <1>0, <2>1, WrittenIsWhole DEF HistoryInv
  <2>3. Whole'
    BY <2>1, <2>2, KeptStays
  <2> QED BY <2>1, <2>3 DEF HistoryInv
<1>6. CASE Answer
  <2>1. pc = "answer" /\ pc' = "done" /\ UNCHANGED <<FH, err, Status, at, given>>
    BY <1>6 DEF Answer
  <2>2. CASE err # "NoError"
    BY <1>6, <2>1, <2>2 DEF Answer, HistoryInv
  <2>3. CASE err = "NoError"
    <3>1. out' = out
      BY <1>6, <2>3 DEF Answer
    <3>2. Whole' = Whole
      BY <2>1, <3>1, KeptStays
    <3> QED BY <2>1, <2>3, <3>2 DEF HistoryInv
  <2> QED BY <2>2, <2>3
<1>7. CASE UNCHANGED vars
  <2>1. UNCHANGED <<FH, pc, err, Status, out, at, given>>
    BY <1>7 DEF vars, header, audio
  <2>2. Kept' = Kept /\ Unwritten' = Unwritten /\ Written' = Written /\ Whole' = Whole
    BY <2>1, KeptStays
  <2> QED BY <2>1, <2>2 DEF HistoryInv
<1> QED
  BY <1>1, <1>2, <1>3, <1>4, <1>5, <1>6, <1>7 DEF Next

(* What the history of a channel holds is the past that the properties speak of. *)
LEMMA PastIs ==
    ASSUME FH \in Headers, AudioTypes, NEW c \in Channels, NEW j \in Nat, BitsOf(c) = at.BitNr
    PROVE  Past(c, j) = PastBit(c, BitsOf(c) - 1 - j)
  BY DEF Past, PastBit

(* The whole invariant of a frame.                                            *)
AudioInv == FrameInv /\ HistoryInv

(* The whole invariant holds always: the history of every channel is what was *)
(* put out of it, newest first, and what was put out is what the frame has    *)
(* given (dst_fram.c, DST_FramDSTDecode).                                     *)
THEOREM AudioInvariant == Spec => []AudioInv
<1>1. Init => HistoryInv
  BY InitHistory
<1>2. FrameInv /\ HistoryInv /\ [Next]_vars => HistoryInv'
  BY NextHistory DEF FrameInv
<1> QED
  BY <1>1, <1>2, FrameInvariant, PTL DEF Spec, AudioInv

(* A frame with an error is silence; of another, coded or plain, every bit of *)
(* every channel is the one that the frame has given, and so none is left from *)
(* the buffer's last use (dst_fram.c, DST_FramDSTDecode), for every frame.    *)
THEOREM FramesAnswered == Spec => []FrameAnswered
<1>1. AudioInv => FrameAnswered
  BY DEF AudioInv, HistoryInv, Whole, FrameAnswered
<1> QED
  BY <1>1, AudioInvariant, PTL

-----------------------------------------------------------------------------
(* A number made of bits has these bits.                                      *)
LEMMA BitsBack ==
    ASSUME NEW n \in Nat, NEW s, NEW f, \A j \in 0 .. (n - 1) : s[j] \in {0, 1} /\ f[j] = s[j] * Pow2[j]
    PROVE  Sum(n, f) \in Bits(n) /\ \A i \in 0 .. (n - 1) : Bit(Sum(n, f), i) = s[i]
<1> DEFINE T == {k \in Nat : k <= n => Sum(k, f) \in Bits(k) /\ \A i \in 0 .. (k - 1) : Bit(Sum(k, f), i) = s[i]}
<1>0. \A j \in 0 .. (n - 1) : f[j] \in Int
  <2> TAKE j \in 0 .. (n - 1)
  <2>1. j \in Nat
    OBVIOUS
  <2>2. Pow2[j] \in Nat /\ s[j] \in {0, 1} /\ f[j] = s[j] * Pow2[j]
    BY <2>1, Pow2Is
  <2> QED BY <2>2
<1>1. 0 \in T
  <2>1. Sum(0, f) = 0
    BY <1>0, SumIs
  <2>2. 0 \in Bits(0)
    BY Pow2Is DEF Bits
  <2> QED BY <2>1, <2>2
<1>2. ASSUME NEW k \in Nat, k \in T PROVE k + 1 \in T
  <2> SUFFICES ASSUME k + 1 <= n
               PROVE  Sum(k + 1, f) \in Bits(k + 1) /\ \A i \in 0 .. ((k + 1) - 1) : Bit(Sum(k + 1, f), i) = s[i]
    OBVIOUS
  <2> DEFINE x == Sum(k, f)
             p == Pow2[k]
  <2>1. x \in Bits(k) /\ \A i \in 0 .. (k - 1) : Bit(x, i) = s[i]
    BY <1>2
  <2>2. Sum(k + 1, f) = x + s[k] * p /\ s[k] \in {0, 1}
    <3>1. k \in 0 .. (n - 1)
      OBVIOUS
    <3> QED BY <3>1, <1>0, SumIs
  <2> HIDE DEF x
  <2>3. p \in Nat \ {0} /\ Pow2[k + 1] = 2 * p /\ x \in 0 .. (p - 1)
    BY <2>1, Pow2Is DEF Bits
  <2>4. x \in Bits(k + 1)
    BY <2>3 DEF Bits
  <2>5. Bit(x, k) = 0
    <3> HIDE DEF p
    <3>1. (0 * p + x) \div p = 0
      <4>1. 0 \in Int
        OBVIOUS
      <4> QED BY <4>1, <2>3, DivIs
    <3>2. 0 * p + x = x
      BY <2>3
    <3>3. x \div p = 0
      BY <3>1, <3>2
    <3> QED BY <3>3 DEF Bit, p
  <2>6. WithBit(x, k) = x + p
    BY <2>5 DEF WithBit
  <2>7. /\ WithBit(x, k) \in Bits(k + 1) /\ Bit(WithBit(x, k), k) = 1
        /\ \A i \in 0 .. ((k + 1) - 1) : i # k => Bit(WithBit(x, k), i) = Bit(x, i)
    <3>1. k + 1 \in Nat /\ k \in 0 .. ((k + 1) - 1)
      OBVIOUS
    <3> QED BY <3>1, <2>4, WithBitIs
  <2> HIDE DEF p
  <2>8. CASE s[k] = 0
    <3>1. Sum(k + 1, f) = x
      BY <2>2, <2>3, <2>8
    <3> QED BY <3>1, <2>1, <2>4, <2>5, <2>8
  <2>9. CASE s[k] = 1
    <3>1. Sum(k + 1, f) = WithBit(x, k)
      BY <2>2, <2>3, <2>6, <2>9
    <3>2. \A i \in 0 .. ((k + 1) - 1) : i = k \/ (i # k /\ i \in 0 .. (k - 1))
      OBVIOUS
    <3> QED BY <3>1, <3>2, <2>1, <2>7, <2>9
  <2> QED BY <2>2, <2>8, <2>9
<1>3. n \in T
  <2> HIDE DEF T
  <2>1. Nat \subseteq T
    BY <1>1, <1>2, Induction
  <2> QED BY <2>1
<1> QED
  BY <1>3

(* The tables of sums give, together, the sum over the whole filter: [F] is   *)
(* what each coefficient counts for.                                          *)
Tap(filter, ch) == [j \in 0 .. (FH.Len["F"][filter] - 1) |-> (2 * Status[ch][j] - 1) * FH.Entry["F"][filter][j]]

LEMMA TapIs ==
    ASSUME FH \in Headers, NEW filter \in Tables, TableOK(FH, "F", filter), NEW ch, Status[ch] \in History
    PROVE  LET L == FH.Len["F"][filter] IN
           /\ L \in 1 .. TAPS
           /\ \A j \in 0 .. (L - 1) :
                /\ Status[ch][j] \in {0, 1} /\ FH.Entry["F"][filter][j] \in Coefficients
                /\ Tap(filter, ch)[j] = (2 * Status[ch][j] - 1) * FH.Entry["F"][filter][j]
                /\ Tap(filter, ch)[j] \in Int
                /\ -Pow2[SIZE_PREDCOEF - 1] <= Tap(filter, ch)[j] /\ Tap(filter, ch)[j] <= Pow2[SIZE_PREDCOEF - 1]
<1> DEFINE L == FH.Len["F"][filter]
           R == FH.Entry["F"][filter]
           c == Pow2[SIZE_PREDCOEF - 1]
<1>1. L \in 1 .. TAPS /\ TAPS \in Nat
  BY TapsAre DEF TableOK
<1>2. c \in Nat /\ Coefficients = -c .. (c - 1)
  <2>1. SIZE_PREDCOEF - 1 \in Nat
    BY Constants
  <2> QED BY <2>1, Pow2Is DEF Coefficients
<1>3. ASSUME NEW j \in 0 .. (L - 1)
      PROVE  Status[ch][j] \in {0, 1} /\ R[j] \in Coefficients
  <2>1. j \in 0 .. (TAPS - 1)
    BY <1>1, <1>3
  <2>2. Status[ch][j] \in {0, 1}
    BY <2>1 DEF History
  <2>3. R[j] \in Coefficients
    BY DEF TableOK, EntriesOK, Numbers
  <2> QED BY <2>2, <2>3
<1>4. \A j \in 0 .. (L - 1) : Tap(filter, ch)[j] = (2 * Status[ch][j] - 1) * R[j]
  BY DEF Tap
<1> HIDE DEF L, R, c
<1>5. ASSUME NEW j \in 0 .. (L - 1)
      PROVE  /\ Tap(filter, ch)[j] \in Int
             /\ -c <= Tap(filter, ch)[j] /\ Tap(filter, ch)[j] <= c
  <2>1. Status[ch][j] \in {0, 1} /\ R[j] \in -c .. (c - 1)
    BY <1>2, <1>3
  <2>2. Tap(filter, ch)[j] = R[j] \/ Tap(filter, ch)[j] = -R[j]
    BY <1>4, <2>1
  <2> QED BY <1>2, <2>1, <2>2
<1> QED
  BY <1>1, <1>3, <1>4, <1>5 DEF L, R, c

LEMMA HistoryBits ==
    ASSUME NEW ch, Status[ch] \in History, NEW n \in 0 .. (TAPS \div RESOL - 1)
    PROVE  \A j \in 0 .. (RESOL - 1) : Bit(HistoryByte(ch, n), j) = Status[ch][n * RESOL + j]
<1> DEFINE s == [j \in 0 .. (RESOL - 1) |-> Status[ch][n * RESOL + j]]
           b == [j \in 0 .. (RESOL - 1) |-> Status[ch][n * RESOL + j] * Pow2[j]]
           r == RESOL
<1>1. \A j \in 0 .. (r - 1) : s[j] \in {0, 1} /\ b[j] = s[j] * Pow2[j]
  BY HistoryByteIs
<1>2. HistoryByte(ch, n) = Sum(r, b) /\ \A j \in 0 .. (r - 1) : s[j] = Status[ch][n * RESOL + j]
  BY DEF HistoryByte
<1>3. r \in Nat
  BY TapsAre
<1> HIDE DEF s, b, r
<1>4. \A j \in 0 .. (r - 1) : Bit(Sum(r, b), j) = s[j]
  BY <1>1, <1>3, BitsBack
<1> QED
  BY <1>2, <1>4 DEF r

(* One table of sums: the coefficients that are left for it.                  *)
Left(L, m) == IF L - m > RESOL THEN RESOL ELSE IF L - m < 0 THEN 0 ELSE L - m
Taps(filter, ch, n, k) == [j \in 0 .. (k - 1) |-> Tap(filter, ch)[n * RESOL + j]]

LEMMA TableGives ==
    ASSUME FH \in Headers, NEW filter \in Tables, TableOK(FH, "F", filter), NEW ch, Status[ch] \in History,
           NEW n \in 0 .. (TAPS \div RESOL - 1), NEW L, L = FH.Len["F"][filter],
           NEW k, k = Left(L, n * RESOL), NEW g, g = Taps(filter, ch, n, k)
    PROVE  LT_InitCoefTablesI(filter, n, HistoryByte(ch, n)) = Sum(k, g)
<1> DEFINE i == HistoryByte(ch, n)
           f == [j \in 0 .. (k - 1) |-> (Bit(i, j) * 2 - 1) * FH.Entry["F"][filter][n * RESOL + j]]
           m == n * RESOL
<1>1. L \in Nat /\ RESOL \in Nat /\ m \in Nat /\ n \in Nat
  <2>1. L \in 1 .. TAPS /\ TAPS \in Nat /\ RESOL \in Nat /\ TAPS \div RESOL \in Nat
    BY TapIs, TapsAre
  <2>2. n \in Nat /\ L \in Nat
    BY <2>1
  <2> QED BY <2>1, <2>2
<1>2. \A j \in 0 .. (RESOL - 1) : Bit(i, j) = Status[ch][m + j]
  BY HistoryBits
<1>3. LT_InitCoefTablesI(filter, n, i) = Sum(k, f)
  BY DEF LT_InitCoefTablesI, Left
<1>a. k = IF L - m > RESOL THEN RESOL ELSE IF L - m < 0 THEN 0 ELSE L - m
  BY DEF Left
<1> HIDE DEF i, m
<1>4. k \in Nat /\ k <= RESOL /\ \A j \in 0 .. (k - 1) : j \in 0 .. (RESOL - 1) /\ m + j \in 0 .. (L - 1)
  BY <1>1, <1>a
<1>5. \A j \in 0 .. (k - 1) : g[j] = Tap(filter, ch)[m + j] /\ f[j] = (Bit(i, j) * 2 - 1) * FH.Entry["F"][filter][m + j]
  BY DEF m, Taps
<1> HIDE DEF f
<1>6. ASSUME NEW j \in 0 .. (k - 1) PROVE f[j] \in Int /\ g[j] = f[j]
  <2>1. m + j \in 0 .. (L - 1) /\ Bit(i, j) = Status[ch][m + j]
    BY <1>2, <1>4
  <2>2. g[j] = (2 * Status[ch][m + j] - 1) * FH.Entry["F"][filter][m + j] /\ g[j] \in Int /\ Status[ch][m + j] \in {0, 1}
    BY <1>5, <2>1, TapIs
  <2>3. Bit(i, j) * 2 - 1 = 2 * Status[ch][m + j] - 1
    BY <2>1, <2>2
  <2>4. f[j] = g[j]
    BY <1>5, <2>2, <2>3
  <2> QED BY <2>2, <2>4
<1>7. Sum(k, f) = Sum(k, g)
  BY <1>4, <1>6, SumSame
<1> QED
  BY <1>3, <1>7 DEF i

-----------------------------------------------------------------------------
Least(x, y) == IF x <= y THEN x ELSE y

LEMMA OneTableMore ==
    ASSUME NEW L \in Nat, NEW m \in Nat, NEW f, \A i \in 0 .. (L - 1) : f[i] \in Int,
           NEW g, \A j \in 0 .. (Left(L, m) - 1) : g[j] = f[m + j]
    PROVE  Sum(Least(L, m + RESOL), f) = Sum(Least(L, m), f) + Sum(Left(L, m), g)
<1> DEFINE a == Least(L, m)
           k == Left(L, m)
<1>0. RESOL \in Nat
  BY TapsAre
<1>1. a \in Nat /\ k \in Nat /\ Least(L, m + RESOL) = a + k /\ a + k <= L /\ (k > 0 => a = m)
  BY <1>0 DEF Least, Left
<1>a. \A j \in 0 .. (k - 1) : g[j] = f[m + j]
  OBVIOUS
<1> HIDE DEF a, k
<1>2. \A i \in 0 .. (a + k - 1) : f[i] \in Int
  BY <1>1
<1>3. \A j \in 0 .. (k - 1) : g[j] = f[a + j]
  BY <1>1, <1>a
<1>4. Sum(a + k, f) = Sum(a, f) + Sum(k, g)
  BY <1>1, <1>2, <1>3, SumSplit
<1> QED
  BY <1>1, <1>4 DEF a, k

LEMMA FilterSum ==
    ASSUME FH \in Headers, NEW filter \in Tables, TableOK(FH, "F", filter), NEW ch, Status[ch] \in History
    PROVE  LT_RUN_FILTER_I(filter, ch) = Short(Sum(FH.Len["F"][filter], Tap(filter, ch)))
<1> DEFINE L == FH.Len["F"][filter]
           B == TAPS \div RESOL
           R == RESOL
           F == Tap(filter, ch)
           t == [n \in 0 .. (B - 1) |-> LT_InitCoefTablesI(filter, n, HistoryByte(ch, n))]
           T == {m \in Nat : m <= B => Sum(m, t) = Sum(Least(L, m * R), F)}
<1>1. /\ B \in Nat /\ R \in Nat /\ TAPS = B * R /\ TAPS \in Nat
      /\ L \in Nat /\ L <= TAPS /\ \A i \in 0 .. (L - 1) : F[i] \in Int
  <2>1. B \in Nat /\ R \in Nat /\ TAPS = B * R /\ TAPS \in Nat
    BY TapsAre
  <2>2. L \in 1 .. TAPS /\ \A i \in 0 .. (L - 1) : F[i] \in Int
    BY TapIs
  <2> QED BY <2>1, <2>2
<1>2. \A n \in 0 .. (B - 1) : t[n] \in Int
  <2> SUFFICES ASSUME NEW n \in 0 .. (B - 1) PROVE t[n] \in Int
    OBVIOUS
  <2>1. n \in Nat /\ HistoryByte(ch, n) \in Int /\ FH.Len["F"][filter] \in 1 .. MaxEntries("F")
    BY <1>1, HistoryByteIs DEF TableOK
  <2>2. LT_InitCoefTablesI(filter, n, HistoryByte(ch, n)) \in Int
    BY <2>1, CoefTableIs
  <2> QED BY <2>2
<1>3. ASSUME NEW n \in 0 .. (B - 1)
      PROVE  Sum(Least(L, n * R + R), F) = Sum(Least(L, n * R), F) + t[n]
  <2> DEFINE m == n * R
             k == Left(L, m)
             g == Taps(filter, ch, n, k)
  <2>1. LT_InitCoefTablesI(filter, n, HistoryByte(ch, n)) = Sum(k, g)
    BY TableGives
  <2>2. t[n] = Sum(k, g)
    BY <2>1
  <2>4. \A j \in 0 .. (Left(L, m) - 1) : g[j] = F[m + j]
    BY DEF Taps
  <2>5. m \in Nat /\ L \in Nat /\ \A i \in 0 .. (L - 1) : F[i] \in Int
    BY <1>1
  <2> HIDE DEF L, F, t, k, g, m
  <2>6. Sum(Least(L, m + RESOL), F) = Sum(Least(L, m), F) + Sum(Left(L, m), g)
    BY <2>4, <2>5, OneTableMore
  <2> QED BY <2>2, <2>6 DEF m, k
<1>4. LT_RUN_FILTER_I(filter, ch) = Short(Sum(B, t))
  BY DEF LT_RUN_FILTER_I, HistoryByte
<1> HIDE DEF L, B, R, F, t
<1>5. 0 \in T
  <2>1. Sum(0, t) = 0
    BY <1>1, <1>2, SumIs
  <2>2. Least(L, 0 * R) = 0
    BY <1>1 DEF Least
  <2>3. Sum(0, F) = 0
    BY <1>1, SumIs
  <2> QED BY <2>1, <2>2, <2>3
<1>6. ASSUME NEW m \in Nat, m \in T PROVE m + 1 \in T
  <2> SUFFICES ASSUME m + 1 <= B PROVE Sum(m + 1, t) = Sum(Least(L, (m + 1) * R), F)
    OBVIOUS
  <2>1. Sum(m, t) = Sum(Least(L, m * R), F) /\ m \in 0 .. (B - 1)
    BY <1>1, <1>6
  <2>2. Sum(m + 1, t) = Sum(m, t) + t[m]
    BY <1>1, <1>2, <2>1, SumIs
  <2>3. (m + 1) * R = m * R + R
    BY <1>1
  <2> QED BY <1>3, <2>1, <2>2, <2>3
<1>7. B \in T
  <2> HIDE DEF T
  <2>1. Nat \subseteq T
    BY <1>5, <1>6, Induction
  <2> QED BY <1>1, <2>1
<1>8. Sum(B, t) = Sum(Least(L, B * R), F)
  BY <1>1, <1>7
<1>9. Least(L, B * R) = L
  BY <1>1 DEF Least
<1> QED
  BY <1>4, <1>8, <1>9 DEF L, F

(* A sum as a short.                                                          *)
LEMMA ShortOf ==
    ASSUME NEW h, h = Pow2[SIZE_PREDCOEF + SIZE_CODEDPREDORDER - 1], NEW x \in -h .. h
    PROVE  Short(x) = IF x = h THEN -h ELSE x
<1> DEFINE w == Pow2[SIZE_PREDCOEF + SIZE_CODEDPREDORDER]
<1>1. h \in Nat \ {0} /\ w = 2 * h
  <2> DEFINE n == SIZE_PREDCOEF + SIZE_CODEDPREDORDER - 1
  <2>1. n \in Nat /\ n + 1 = SIZE_PREDCOEF + SIZE_CODEDPREDORDER
    BY Constants
  <2>2. Pow2[n] \in Nat \ {0} /\ Pow2[n + 1] = 2 * Pow2[n]
    BY <2>1, Pow2Is
  <2> QED BY <2>1, <2>2
<1>2. Short(x) = ((x + w \div 2) % w) - w \div 2
  BY DEF Short
<1> HIDE DEF w
<1>3. w \div 2 = h /\ w \in Nat \ {0} /\ x \in Int
  BY <1>1
<1>4. CASE x = h
  <2>1. x + h = 1 * w + 0 /\ 0 \in 0 .. (w - 1) /\ 1 \in Int
    BY <1>1, <1>4
  <2>2. (1 * w + 0) % w = 0
    BY <2>1, <1>3, DivIs
  <2> QED BY <1>1, <1>2, <1>3, <1>4, <2>1, <2>2
<1>5. CASE x # h
  <2>1. x + h = 0 * w + (x + h) /\ x + h \in 0 .. (w - 1) /\ 0 \in Int
    BY <1>1, <1>3, <1>5
  <2> DEFINE y == x + h
  <2> HIDE DEF y
  <2>2. (0 * w + y) % w = y
    BY <2>1, <1>3, DivIs DEF y
  <2>3. (x + h) % w = x + h
    BY <2>1, <2>2 DEF y
  <2> QED BY <1>1, <1>2, <1>3, <1>5, <2>3
<1> QED
  BY <1>4, <1>5

LEMMA FilterExact ==
    ASSUME FH \in Headers, NEW filter \in Tables, TableOK(FH, "F", filter), NEW ch, Status[ch] \in History,
           NEW h, h = Pow2[SIZE_PREDCOEF + SIZE_CODEDPREDORDER - 1],
           NEW e, e = Sum(FH.Len["F"][filter], Tap(filter, ch))
    PROVE  LT_RUN_FILTER_I(filter, ch) = IF e = h THEN -h ELSE e
<1> DEFINE L == FH.Len["F"][filter]
           F == Tap(filter, ch)
           c == Pow2[SIZE_PREDCOEF - 1]
<1>1. c \in Nat /\ h = TAPS * c /\ TAPS \in Nat /\ h \in Nat
  <2>1. SIZE_PREDCOEF - 1 \in Nat /\ SIZE_CODEDPREDORDER \in Nat
        /\ SIZE_CODEDPREDORDER + (SIZE_PREDCOEF - 1) = SIZE_PREDCOEF + SIZE_CODEDPREDORDER - 1
    BY Constants
  <2>2. Pow2[SIZE_CODEDPREDORDER + (SIZE_PREDCOEF - 1)] = TAPS * c
    BY <2>1, Pow2Plus DEF TAPS
  <2>3. c \in Nat /\ TAPS \in Nat
    BY <2>1, Pow2Is, TapsAre
  <2> QED BY <2>1, <2>2, <2>3
<1>2. L \in Nat /\ L <= TAPS /\ \A j \in 0 .. (L - 1) : F[j] \in Int /\ -c <= F[j] /\ F[j] <= c
  <2>1. L \in 1 .. TAPS /\ \A j \in 0 .. (L - 1) : F[j] \in Int /\ -c <= F[j] /\ F[j] <= c
    BY TapIs
  <2> QED BY <1>1, <2>1
<1>3. e = Sum(L, F)
  OBVIOUS
<1> HIDE DEF L, F, c
<1>4. e \in Int /\ L * (-c) <= e /\ e <= L * c
  <2>1. -c \in Int /\ c \in Int
    BY <1>1
  <2> QED BY <1>2, <1>3, <2>1, SumBetween
<1>5. L * c \in Nat /\ L * c <= TAPS * c /\ L * (-c) = -(L * c)
  <2>1. L * c \in Nat /\ L * c <= TAPS * c
    BY <1>1, <1>2, ProductIs
  <2> QED BY <1>1, <1>2, <2>1
<1>6. e \in -h .. h
  BY <1>1, <1>4, <1>5
<1>7. LT_RUN_FILTER_I(filter, ch) = Short(e)
  BY FilterSum
<1> QED
  BY <1>6, <1>7, ShortOf

(* The tables of sums that are read at bytes of the last bits give the filter *)
(* applied to the bits put out, except that the largest sum changes its sign  *)
(* as a short (dst_fram.c, LT_InitCoefTablesI, LT_RUN_FILTER_I), for every    *)
(* order, width and coefficient.                                              *)
THEOREM PredictionsExact == Spec => []PredictionExact
<1>1. AudioInv => PredictionExact
  <2> SUFFICES ASSUME FrameInv, HistoryInv, pc = "decode", at.BitNr < NrOfBitsPerCh PROVE PredictionExact
    BY DEF AudioInv, PredictionExact, Decoding
  <2> DEFINE ch == at.ChNr
             filter == FillTable4Bit("F", ch, at.BitNr)
             L == FH.Len["F"][filter]
             E == [j \in 0 .. (L - 1) |-> (2 * Past(ch, j) - 1) * FH.Entry["F"][filter][j]]
             h == Pow2[SIZE_PREDCOEF + SIZE_CODEDPREDORDER - 1]
  <2>1. TablesInv /\ AudioTypes /\ FH \in Headers /\ ch \in Channels /\ Status[ch] \in History /\ Kept
    BY DEF FrameInv, TablesInv, Unpacked, AudioTypes, HistoryInv
  <2>2. filter \in Tables /\ TableOK(FH, "F", filter)
    BY <2>1, TableOfBit DEF Kinds
  <2>3. PredictionExact <=> Predict(ch, at.BitNr) = IF Sum(L, E) = h THEN -h ELSE Sum(L, E)
    BY DEF PredictionExact, Decoding
  <2>4. Predict(ch, at.BitNr) = LT_RUN_FILTER_I(filter, ch)
    BY DEF Predict
  <2>5. BitsOf(ch) = at.BitNr
    BY <2>1, BitsOfAre
  <2>6. \A j \in 0 .. (L - 1) : E[j] = (2 * Past(ch, j) - 1) * FH.Entry["F"][filter][j]
    OBVIOUS
  <2> HIDE DEF ch, filter, E, h
  <2>7. /\ L \in 1 .. TAPS /\ TAPS \in Nat
        /\ \A j \in 0 .. (L - 1) : /\ Tap(filter, ch)[j] = (2 * Status[ch][j] - 1) * FH.Entry["F"][filter][j]
                                   /\ Tap(filter, ch)[j] \in Int
    BY <2>1, <2>2, TapIs, TapsAre
  <2>8. ASSUME NEW j \in 0 .. (L - 1) PROVE Tap(filter, ch)[j] \in Int /\ E[j] = Tap(filter, ch)[j]
    <3>1. j \in Nat /\ j \in 0 .. (TAPS - 1)
      BY <2>7
    <3>2. Past(ch, j) = Status[ch][j]
      <4>1. Past(ch, j) = PastBit(ch, BitsOf(ch) - 1 - j)
        BY <2>1, <2>5, <3>1, PastIs
      <4> QED BY <4>1, <2>1, <3>1 DEF Kept
    <3> QED BY <2>6, <2>7, <3>2
  <2>9. Sum(L, E) = Sum(L, Tap(filter, ch))
    <3>1. L \in Nat
      BY <2>7
    <3> HIDE DEF L
    <3>2. Sum(L, Tap(filter, ch)) = Sum(L, E)
      BY <3>1, <2>8, SumSame
    <3> QED BY <3>2
  <2>10. LT_RUN_FILTER_I(filter, ch) = IF Sum(L, E) = h THEN -h ELSE Sum(L, E)
    BY <2>1, <2>2, <2>9, FilterExact DEF h
  <2> QED BY <2>3, <2>4, <2>10
<1> QED
  BY <1>1, AudioInvariant, PTL
=============================================================================
