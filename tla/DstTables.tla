----------------------------- MODULE DstTables -----------------------------
(* What a DST frame says before its audio (unpack_dst.c, types.h, ccp_calc.c): *)
(* how each channel is cut into segments, which prediction filter and which   *)
(* probability table each segment uses, and the filters and the tables.       *)
(*                                                                            *)
(* The bits of a frame are not fixed in advance: each field that is read has  *)
(* every value it can have, of the values named by the constants where a      *)
(* field is wide.  SD counts the bits read and the bits there are, which is   *)
(* all that a read that fails depends on.  The widths are constants because   *)
(* the shape of a frame does not depend on them; the code's are 8 bits in a   *)
(* byte, 7 for an order, 9 for a coefficient, 8 for a probability.            *)
EXTENDS Integers, FiniteSets

CONSTANTS
  RESOL, SIZE_STUFFING,               \* bits in a byte, and after the first two of a plain frame
  MAX_CHANNELS, MAXNROF_SEGS,         \* the shape of the tables of segments
  MAXNROF_FSEGS, MAXNROF_PSEGS,       \* segments in a channel, for filters and tables
  MIN_FSEG_LEN, MIN_PSEG_LEN,         \* the least bits in a segment
  SIZE_CODEDPREDORDER, SIZE_PREDCOEF, \* bits of an order and of a coefficient
  AC_BITS, AC_HISBITS,                \* bits of a probability and of a table's length
  SIZE_RICEMETHOD, SIZE_RICEM,        \* bits of a coding method and of its parameter
  MaxFrameLen,                        \* bytes of a channel in a frame
  ChannelCounts, FrameSizes,          \* channels and bytes of the frames that are read
  PredOrders, PtableLens,             \* the orders, lengths, coefficients and entries
  Coefs, Entries, RiceNumbers,        \*   that are tried, and the numbers of a Rice code
  Stale                               \* what memory holds before it is written

\* 1 << n, and f[0] + ... + f[n - 1].
Pow2[n \in Nat] == IF n = 0 THEN 1 ELSE 2 * Pow2[n - 1]
Sum(n, f) == LET s[i \in 0..n] == IF i = 0 THEN 0 ELSE s[i - 1] + f[i - 1] IN s[n]

Coefficients  == -Pow2[SIZE_PREDCOEF - 1] .. (Pow2[SIZE_PREDCOEF - 1] - 1)
Probabilities == 1..Pow2[AC_BITS - 1]

ASSUME TableConstants ==
  /\ {RESOL, MAX_CHANNELS, MAXNROF_SEGS, MAXNROF_FSEGS, MAXNROF_PSEGS, MIN_FSEG_LEN, MIN_PSEG_LEN,
      SIZE_PREDCOEF, AC_BITS, MaxFrameLen} \subseteq Nat \ {0}
  /\ {SIZE_STUFFING, SIZE_CODEDPREDORDER, AC_HISBITS, SIZE_RICEMETHOD, SIZE_RICEM} \subseteq Nat
  /\ MAX_CHANNELS > 1
  /\ MAXNROF_FSEGS <= MAXNROF_PSEGS /\ MAXNROF_PSEGS <= MAXNROF_SEGS /\ MAXNROF_FSEGS < MAXNROF_SEGS
  /\ {MIN_FSEG_LEN, MIN_PSEG_LEN} \subseteq 1..(MaxFrameLen * RESOL)
  /\ ChannelCounts \subseteq 1..MAX_CHANNELS /\ FrameSizes \subseteq Nat
  /\ PredOrders \subseteq 1..Pow2[SIZE_CODEDPREDORDER] /\ PtableLens \subseteq 1..Pow2[AC_HISBITS]
  /\ Coefs \subseteq Coefficients /\ Entries \subseteq Probabilities
  /\ RiceNumbers \subseteq Int /\ Stale \subseteq Int

VARIABLES FH,   \* FrameHeader and the two CodedTables of ebunch
          SD,   \* StrData: bits read of the bits there are
          cur,  \* the loop variables of the function that is reading
          pc,   \* what is read next
          err   \* the error the frame ends with

header == <<FH, SD, cur, pc, err>>

Kinds == {"F", "P"}             \* filters and probability tables
MaxSegs(t) == IF t = "F" THEN MAXNROF_FSEGS ELSE MAXNROF_PSEGS
MinLen(t)  == IF t = "F" THEN MIN_FSEG_LEN ELSE MIN_PSEG_LEN
Room(t)    == MaxFrameLen - MinLen(t) \div RESOL
MaxNrOfTables == 2 * FH.NrOfChannels
Channels   == 0..(FH.NrOfChannels - 1)
NrOfBitsPerCh == MaxFrameLen * RESOL
MaxEntries(t) == IF t = "F" THEN Pow2[SIZE_CODEDPREDORDER] ELSE Pow2[AC_HISBITS]

\* The place of a segment of a channel: a row of MAXNROF_SEGS follows the other.
\* Behind is the place after the last row.  In memory, behind the lengths is the
\* number of segments of channel 0, behind the tables the table of its first bits.
At(ch, seg) == ch * MAXNROF_SEGS + seg
Behind == At(MAX_CHANNELS - 1, MAXNROF_SEGS)
Places == 0..Behind

NewSegment(x) == [Resolution |-> x, SegmentLen |-> [p \in Places |-> x],
                  NrOfSegments |-> [c \in 0..(MAX_CHANNELS - 1) |-> x],
                  Table4Segment |-> [p \in Places |-> x]]

\* The decoder is cleared once, before its first frame; its tables are not.
NewHeader(channels, x) ==
  LET both(v) == [t \in Kinds |-> v]
      tables(t) == 0..(2 * MAX_CHANNELS - 1)
  IN [NrOfChannels |-> channels, DSTCoded |-> 0, PSameSegAsF |-> 0, PSameMapAsF |-> 0,
      Seg |-> both(NewSegment(x)), SameSegAllCh |-> both(0), SameMapAllCh |-> both(0),
      NrOfTables |-> both(0), Len |-> both([n \in 0..(2 * MAX_CHANNELS - 1) |-> 0]),
      Entry |-> [t \in Kinds |-> [n \in tables(t) |-> [i \in 0..(MaxEntries(t) - 1) |-> x]]],
      HalfProb |-> [c \in 0..(MAX_CHANNELS - 1) |-> 0],
      NrOfHalfBits |-> [c \in 0..(MAX_CHANNELS - 1) |-> 0]]

\* The predictors of the Rice coded tables, in eighths.
CPredCoef == [F |-> <<<<-8>>, <<-16, 8>>, <<-9, -5, 6>>>>,
              P |-> <<<<-8>>, <<-16, 8>>, <<-24, 24, -8>>>>]

-----------------------------------------------------------------------------
Bits(n) == 0..(Pow2[n] - 1)
Truncated(n) == SD.pos + n > SD.total
Stop(e) == err' = e /\ pc' = "answer"

\* What a read of the next n bits can give: one of vals, or nothing.
FIO_BitGet(n, vals) == IF Truncated(n) THEN {} ELSE vals

\* A read and its test.
Field(n, vals, Use(_)) ==
  \/ /\ FIO_BitGet(n, vals) = {}
     /\ Stop("NegativeBitAllocation") /\ UNCHANGED <<FH, SD, cur>>
  \/ /\ SD' = [SD EXCEPT !.pos = @ + n]
     /\ \E v \in FIO_BitGet(n, vals) : Use(v)
Refuse(e) == Stop(e) /\ UNCHANGED <<FH, cur>>
Goto(p) == pc' = p /\ UNCHANGED err

\* The number of bits that hold 0 to x.
Log2RoundUp(x) == CHOOSE y \in 0..x : Pow2[y] > x /\ \A z \in 0..(y - 1) : Pow2[z] <= x

\* The first bit, then for a plain frame one that is not used and the stuffing.
ReadDSTCoded ==
  /\ pc = "DSTCoded"
  /\ Field(1, Bits(1), LAMBDA v :
       FH' = [FH EXCEPT !.DSTCoded = v] /\ UNCHANGED cur
       /\ Goto(IF v = 0 THEN "stuffing" ELSE "PSameSegAsF"))

ReadStuffing ==
  /\ pc = "stuffing"
  /\ Field(1 + SIZE_STUFFING, {0, 1}, LAMBDA v :
       IF v # 0 THEN Refuse("InvalidStuffingPattern") ELSE Goto("plain") /\ UNCHANGED <<FH, cur>>)

-----------------------------------------------------------------------------
(* Segments.                                                                 *)
StartSegments(t) == [t |-> t, ChNr |-> 0, SegNr |-> 0, DefinedBits |-> 0,
                     MaxSegSize |-> Room(t), ResolRead |-> 0]
S == FH.Seg[cur.t]

ReadPSameSegAsF ==
  /\ pc = "PSameSegAsF"
  /\ Field(1, Bits(1), LAMBDA v : FH' = [FH EXCEPT !.PSameSegAsF = v]
                                  /\ cur' = StartSegments("F") /\ Goto("SameSegAllCh"))

ReadSameSegAllCh ==
  /\ pc = "SameSegAllCh"
  /\ Field(1, Bits(1), LAMBDA v : FH' = [FH EXCEPT !.SameSegAllCh[cur.t] = v]
                                  /\ UNCHANGED cur /\ Goto("EndOfChannel"))

\* The row of channel 0 copied to the others, place by place: with a segment more
\* than a row holds, the place after the row is the first of the next.
CopyRow(row, count) ==
  LET n == (FH.NrOfChannels - 1) * count
      copied[k \in 0..n] ==
        IF k = 0 THEN row
        ELSE LET r == copied[k - 1]
                 seg == (k - 1) % count
             IN [r EXCEPT ![At((k - 1) \div count + 1, seg)] = r[At(0, seg)]]
  IN copied[n]

\* The filters' segments for the tables too.
CopySegmentData(h) ==
  LET F == h.Seg["F"]
      used == UNION {{At(c, i) : i \in 0..(F.NrOfSegments[c] - 1)} : c \in Channels}
  IN IF \E c \in Channels : F.NrOfSegments[c] > MAXNROF_PSEGS THEN Refuse("TooManySegments")
     ELSE IF \E p \in used : F.SegmentLen[p] # 0 /\ F.Resolution * RESOL * F.SegmentLen[p] < MIN_PSEG_LEN
     THEN Refuse("InvalidSegmentLength")
     ELSE /\ FH' = [h EXCEPT !.Seg["P"].Resolution = F.Resolution,
                             !.Seg["P"].NrOfSegments = [c \in DOMAIN @ |-> IF c \in Channels THEN F.NrOfSegments[c] ELSE @[c]],
                             !.Seg["P"].SegmentLen = [p \in Places |-> IF p \in used THEN F.SegmentLen[p] ELSE @[p]]]
          /\ UNCHANGED cur /\ Goto("PSameMapAsF")

SegmentsRead(h) ==
  LET t == cur.t
      done == [h EXCEPT !.Seg[t].Resolution = IF cur.ResolRead = 0 THEN 1 ELSE @]
  IN IF t = "F" /\ h.PSameSegAsF = 1 THEN CopySegmentData(done)
     ELSE /\ FH' = done
          /\ IF t = "F" THEN cur' = StartSegments("P") /\ Goto("SameSegAllCh")
             ELSE UNCHANGED cur /\ Goto("PSameMapAsF")

\* Is the place behind the lengths written, when each channel has n segments?
WritesBehind(n) == FH.NrOfChannels = MAX_CHANNELS /\ n > MAXNROF_SEGS

\* All channels have the n segments of channel 0.  When that writes behind the
\* lengths, channel 0 then has as many as its first segment is long: if they are
\* more than were read, the memory behind the tables is used, which is not in the
\* model.
CloseAllChannels(n, lengths) ==
  LET first == IF WritesBehind(n) THEN lengths[Behind] ELSE n
      segments == [c \in DOMAIN S.NrOfSegments |-> IF c = 0 THEN first ELSE IF c \in Channels THEN n
                                                   ELSE S.NrOfSegments[c]]
  IN IF first > n THEN pc' = "overrun" /\ UNCHANGED <<FH, cur, err>>
     ELSE SegmentsRead([FH EXCEPT !.Seg[cur.t].SegmentLen = lengths, !.Seg[cur.t].NrOfSegments = segments])

\* The last segment of a channel is the rest of it.
CloseChannel ==
  LET n == cur.SegNr + 1
      last == [S.SegmentLen EXCEPT ![At(cur.ChNr, cur.SegNr)] = 0]
  IN IF FH.SameSegAllCh[cur.t] = 1 THEN CloseAllChannels(n, CopyRow(last, n))
     ELSE LET h == [FH EXCEPT !.Seg[cur.t].SegmentLen = last, !.Seg[cur.t].NrOfSegments[cur.ChNr] = n]
          IN IF cur.ChNr + 1 = FH.NrOfChannels THEN SegmentsRead(h)
             ELSE /\ FH' = h /\ Goto("EndOfChannel")
                  /\ cur' = [StartSegments(cur.t) EXCEPT !.ChNr = cur.ChNr + 1, !.ResolRead = cur.ResolRead]

TooManySegments == cur.SegNr >= MaxSegs(cur.t)

\* Segments of all channels at once are counted after the bit that says there is
\* one more, those of one channel before it.
ReadEndOfChannel ==
  /\ pc = "EndOfChannel"
  /\ LET same == FH.SameSegAllCh[cur.t] = 1
     IN IF ~same /\ TooManySegments THEN Refuse("TooManySegments") /\ UNCHANGED SD
        ELSE Field(1, Bits(1), LAMBDA v :
               IF v = 1 THEN CloseChannel
               ELSE IF TooManySegments THEN Refuse("TooManySegments")
               ELSE Goto(IF cur.ResolRead = 0 THEN "Resolution" ELSE "SegmentLen") /\ UNCHANGED <<FH, cur>>)

ReadResolution ==
  /\ pc = "Resolution"
  /\ LET n == Log2RoundUp(Room(cur.t))
     IN Field(n, Bits(n), LAMBDA v :
          IF v = 0 \/ v > Room(cur.t)
          THEN Stop("InvalidSegmentResolution") /\ UNCHANGED cur /\ FH' = [FH EXCEPT !.Seg[cur.t].Resolution = v]
          ELSE FH' = [FH EXCEPT !.Seg[cur.t].Resolution = v] /\ cur' = [cur EXCEPT !.ResolRead = 1] /\ Goto("SegmentLen"))

ValidLength(bits) == /\ bits >= MinLen(cur.t)
                     /\ bits <= NrOfBitsPerCh - cur.DefinedBits - MinLen(cur.t)

ReadSegmentLen ==
  /\ pc = "SegmentLen"
  /\ LET n == Log2RoundUp(cur.MaxSegSize \div S.Resolution)
     IN Field(n, Bits(n), LAMBDA v :
          /\ FH' = [FH EXCEPT !.Seg[cur.t].SegmentLen[At(cur.ChNr, cur.SegNr)] = v]
          /\ IF ValidLength(S.Resolution * RESOL * v)
             THEN cur' = [cur EXCEPT !.DefinedBits = @ + S.Resolution * RESOL * v,
                                     !.MaxSegSize = @ - S.Resolution * v, !.SegNr = @ + 1] /\ Goto("EndOfChannel")
             ELSE Stop("InvalidSegmentLength") /\ UNCHANGED cur)

ReadSegmentData == \/ ReadPSameSegAsF \/ ReadSameSegAllCh \/ ReadEndOfChannel
                   \/ ReadResolution \/ ReadSegmentLen

-----------------------------------------------------------------------------
(* Which table a segment uses.  The first uses table 0, each other one used   *)
(* before or the next that was not.                                           *)
StartMapping(t) == [t |-> t, ChNr |-> 0, SegNr |-> 0, CountTables |-> 1]

ReadPSameMapAsF ==
  /\ pc = "PSameMapAsF"
  /\ Field(1, Bits(1), LAMBDA v :
       /\ FH' = [FH EXCEPT !.PSameMapAsF = v, !.Seg["F"].Table4Segment[0] = 0]
       /\ cur' = StartMapping("F") /\ Goto("SameMapAllCh"))

StartHalfProb == cur' = [ChNr |-> 0] /\ Goto("HalfProb")

\* The filters' numbers for the tables too.
CopyMappingData(h) ==
  LET F == h.Seg["F"]
      used == UNION {{At(c, i) : i \in 0..(F.NrOfSegments[c] - 1)} : c \in Channels}
  IN IF \E c \in Channels : F.NrOfSegments[c] # h.Seg["P"].NrOfSegments[c]
     THEN Refuse("SegmentNumberMismatch")
     ELSE /\ FH' = [h EXCEPT !.NrOfTables["P"] = h.NrOfTables["F"],
                             !.Seg["P"].Table4Segment = [p \in Places |-> IF p \in used THEN F.Table4Segment[p] ELSE @[p]]]
          /\ StartHalfProb

MappingRead(h, count) ==
  LET t == cur.t
      T == h.Seg[t]
      same == h.SameMapAllCh[t] = 1
      done == [h EXCEPT !.NrOfTables[t] = count,
                        !.Seg[t].Table4Segment = IF same THEN CopyRow(@, T.NrOfSegments[0]) ELSE @]
  IN IF same /\ \E c \in Channels : T.NrOfSegments[c] # T.NrOfSegments[0]
     THEN Refuse("InvalidChannelMapping")
     ELSE IF count > MaxNrOfTables THEN Refuse("TooManyTables")
     ELSE IF t = "P" THEN FH' = done /\ StartHalfProb
     ELSE IF h.PSameMapAsF = 1 THEN CopyMappingData(done)
     ELSE /\ FH' = [done EXCEPT !.Seg["P"].Table4Segment[0] = 0]
          /\ cur' = StartMapping("P") /\ Goto("SameMapAllCh")

\* The segment after this one, of this channel or the next; when all channels are
\* mapped at once only the first one's are read.
NextMapping(h, count) ==
  LET To(ch, seg) == /\ FH' = h /\ Goto("Table4Segment")
                      /\ cur' = [cur EXCEPT !.ChNr = ch, !.SegNr = seg, !.CountTables = count]
  IN IF cur.SegNr + 1 < h.Seg[cur.t].NrOfSegments[cur.ChNr] THEN To(cur.ChNr, cur.SegNr + 1)
     ELSE IF h.SameMapAllCh[cur.t] # 1 /\ cur.ChNr + 1 < h.NrOfChannels THEN To(cur.ChNr + 1, 0)
     ELSE MappingRead(h, count)

ReadSameMapAllCh ==
  /\ pc = "SameMapAllCh"
  /\ Field(1, Bits(1), LAMBDA v : NextMapping([FH EXCEPT !.SameMapAllCh[cur.t] = v], 1))

\* Mutant: a segment may skip a table.
MaySkip(v, count) == FALSE

UndefinedTable(v, count) == v > count

ReadTable4Segment ==
  /\ pc = "Table4Segment"
  /\ LET n == Log2RoundUp(cur.CountTables)
     IN Field(n, Bits(n), LAMBDA v :
          IF UndefinedTable(v, cur.CountTables) THEN Refuse("InvalidTableNumber")
          ELSE NextMapping([FH EXCEPT !.Seg[cur.t].Table4Segment[At(cur.ChNr, cur.SegNr)] = v],
                           IF v = cur.CountTables THEN v + 1 ELSE cur.CountTables))

StartTable(t, n) == [t |-> t, Nr |-> n, EntryNr |-> 0, raw |-> 0, method |-> 0, m |-> 0]

ReadHalfProb ==
  /\ pc = "HalfProb"
  /\ Field(1, Bits(1), LAMBDA v :
       /\ FH' = [FH EXCEPT !.HalfProb[cur.ChNr] = v]
       /\ IF cur.ChNr + 1 < FH.NrOfChannels THEN cur' = [cur EXCEPT !.ChNr = @ + 1] /\ Goto("HalfProb")
          ELSE cur' = StartTable("F", 0) /\ Goto("Len"))

ReadMappingData == \/ ReadPSameMapAsF \/ ReadSameMapAllCh \/ ReadTable4Segment \/ ReadHalfProb

-----------------------------------------------------------------------------
(* The filters and the probability tables.                                   *)
TableLen(c) == FH.Len[c.t][c.Nr]
SetEntry(h, v) == [h EXCEPT !.Entry[cur.t][cur.Nr][cur.EntryNr] = v]

\* With the last filter read, the bits of each channel before its history is full
\* are known; with the last table, all that is left is audio.
TablesRead(h) ==
  IF cur.t = "F"
  THEN /\ FH' = [h EXCEPT !.NrOfHalfBits = [c \in DOMAIN @ |-> IF c \in Channels
                            THEN h.Len["F"][h.Seg["F"].Table4Segment[At(c, 0)]] ELSE @[c]]]
       /\ cur' = StartTable("P", 0) /\ Goto("Len")
  ELSE FH' = h /\ UNCHANGED cur /\ Goto("AData")

\* A filter's coefficients beyond its order are cleared.
TableRead(h) ==
  LET clear == IF cur.t = "P" THEN h
               ELSE [h EXCEPT !.Entry["F"][cur.Nr] = [i \in DOMAIN @ |-> IF i < h.Len["F"][cur.Nr] THEN @[i] ELSE 0]]
  IN IF cur.Nr + 1 = FH.NrOfTables[cur.t] THEN TablesRead(clear)
     ELSE FH' = clear /\ cur' = StartTable(cur.t, cur.Nr + 1) /\ Goto("Len")

\* The entry after cur.EntryNr, with h: as it is, or coded after the parameter.
NextEntry(h) ==
  LET i == cur.EntryNr + 1
  IN IF i = TableLen(cur) THEN TableRead(h)
     ELSE FH' = h /\ cur' = [cur EXCEPT !.EntryNr = i] /\ Goto(IF i < cur.raw THEN "entry" ELSE IF pc = "entry" THEN "RiceM" ELSE "rice")

\* A table of one entry has the probability of a half and no coding.
ReadLen ==
  /\ pc = "Len"
  /\ LET F == cur.t = "F"
     IN Field(IF F THEN SIZE_CODEDPREDORDER ELSE AC_HISBITS, IF F THEN PredOrders ELSE PtableLens, LAMBDA v :
          LET h == [FH EXCEPT !.Len[cur.t][cur.Nr] = v]
          IN IF ~F /\ v = 1 THEN TableRead([h EXCEPT !.Entry["P"][cur.Nr][0] = Pow2[AC_BITS - 1]])
             ELSE FH' = h /\ UNCHANGED cur /\ Goto("Coded"))

ReadCoded ==
  /\ pc = "Coded"
  /\ Field(1, Bits(1), LAMBDA v :
       /\ UNCHANGED FH
       /\ IF v = 0 THEN cur' = [cur EXCEPT !.raw = TableLen(cur)] /\ Goto("entry")
          ELSE UNCHANGED cur /\ Goto("BestMethod"))

\* The order of the predictor of a method.  The number has room for one method
\* more than there are: its order is what follows the orders in memory, here 0 or
\* more than any table has.
CPredOrder(method) == IF method < 3 THEN {method + 1} ELSE {0, MaxEntries(cur.t)}

ReadBestMethod ==
  /\ pc = "BestMethod"
  /\ Field(SIZE_RICEMETHOD, Bits(SIZE_RICEMETHOD), LAMBDA v : \E order \in CPredOrder(v) :
       IF order >= TableLen(cur)
       THEN Refuse(IF cur.t = "F" THEN "InvalidCoefficientCoding" ELSE "InvalidPtableCoding")
       ELSE /\ UNCHANGED FH /\ cur' = [cur EXCEPT !.raw = order, !.method = v]
            /\ Goto(IF order = 0 THEN "RiceM" ELSE "entry"))

ReadEntry ==
  /\ pc = "entry"
  /\ IF cur.t = "F" THEN Field(SIZE_PREDCOEF, Coefs, LAMBDA v : NextEntry(SetEntry(FH, v)))
     ELSE Field(AC_BITS - 1, Entries, LAMBDA v : NextEntry(SetEntry(FH, v)))

ReadRiceM ==
  /\ pc = "RiceM"
  /\ Field(SIZE_RICEM, Bits(SIZE_RICEM), LAMBDA v :
       cur' = [cur EXCEPT !.m = v] /\ UNCHANGED FH /\ Goto("rice"))

\* What the predictor expects of the entry, the other way round and rounded.
Predicted ==
  LET order == cur.raw
      x == Sum(order, [k \in 0..(order - 1) |-> CPredCoef[cur.t][cur.method + 1][k + 1]
                                                * FH.Entry[cur.t][cur.Nr][cur.EntryNr - k - 1]])
  IN IF order = 0 THEN 0 ELSE IF x >= 0 THEN -((x + 4) \div 8) ELSE (3 - x) \div 8

InRange(c) == c \in IF cur.t = "F" THEN Coefficients ELSE Probabilities

RiceLength(nr) == LET a == IF nr < 0 THEN -nr ELSE nr
                  IN a \div Pow2[cur.m] + 1 + cur.m + (IF nr = 0 THEN 0 ELSE 1)

\* RiceDecode does not look whether its reads fail: at the end of the frame it
\* goes on with what its variables hold, a byte further at each read.
ReadRiceEntry ==
  /\ pc = "rice"
  /\ \E nr \in RiceNumbers :
       LET c == nr + Predicted
           end == SD.pos + RiceLength(nr)
       IN /\ SD' = [SD EXCEPT !.pos = IF end <= SD.total THEN end ELSE SD.total + RESOL]
          /\ IF InRange(c) THEN NextEntry(SetEntry(FH, c))
             ELSE Refuse(IF cur.t = "F" THEN "InvalidCoefficientRange" ELSE "InvalidPtableRange")

ReadTable == ReadLen \/ ReadCoded \/ ReadBestMethod \/ ReadEntry \/ ReadRiceM \/ ReadRiceEntry
ReadFilterCoefSets    == pc # "answer" /\ "t" \in DOMAIN cur /\ cur.t = "F" /\ ReadTable
ReadProbabilityTables == pc # "answer" /\ "t" \in DOMAIN cur /\ cur.t = "P" /\ ReadTable

UnpackHeader == \/ ReadDSTCoded \/ ReadStuffing \/ ReadSegmentData \/ ReadMappingData
                \/ ReadFilterCoefSets \/ ReadProbabilityTables
=============================================================================
