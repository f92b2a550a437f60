------------------------------ MODULE DstFrame ------------------------------
(* One DST frame decoded (dst_fram.c, dst_init.c): the frame is unpacked, then *)
(* each bit of each channel is what the prediction filter expects from the    *)
(* bits before it, corrected by a residual that the arithmetic decoder takes  *)
(* out of the rest of the frame.  A frame with an error becomes silence.      *)
EXTENDS DstTables

CONSTANTS NBITS,       \* bits of the decoder's registers beyond a probability's
          WORD,        \* bits of an unsigned int
          PlainBytes,  \* the bytes of a plain frame that are tried
          SILENCE      \* DSD silence, 0x55

ASSUME FrameConstants ==
  /\ NBITS \in Nat \ {0} /\ WORD \in Nat
  /\ PlainBytes \subseteq Bits(RESOL) /\ SILENCE \in Bits(RESOL)
  /\ AC_HISBITS <= SIZE_PREDCOEF
  /\ Pow2[SIZE_CODEDPREDORDER] % RESOL = 0   \* a filter is whole bytes of coefficients

VARIABLES AC,      \* ACData, and fs: the length of the arithmetic code
          Status,  \* the last bits of each channel, the newest first
          out,     \* MuxedDSDdata: a byte of each channel in turn
          at,      \* the loop variables: the bit and the channel
          given    \* history: the bits of each channel that the frame has given

audio == <<AC, Status, out, at, given>>
vars == <<header, audio>>

TAPS  == Pow2[SIZE_CODEDPREDORDER]
ABITS == AC_BITS + NBITS
ONE   == Pow2[ABITS]
HALF  == Pow2[ABITS - 1]
ByteStreamLen == MaxFrameLen * FH.NrOfChannels
BitsOfChannel == 0..(NrOfBitsPerCh - 1)
NotGiven == -1
Bit(x, i) == (x \div Pow2[i]) % 2

\* DST_InitDecoder and DST_FramDSTDecode's start: memory holds anything.
Init ==
  \E channels \in ChannelCounts, bytes \in FrameSizes, x \in Stale :
    /\ FH = NewHeader(channels, x)
    /\ SD = [pos |-> 0, total |-> bytes * RESOL]
    /\ cur = [ChNr |-> 0]
    /\ pc = "DSTCoded" /\ err = "NoError"
    /\ AC = [A |-> 0, C |-> 0, cbptr |-> 0, fs |-> 0]
    /\ Status = [c \in 0..(channels - 1) |-> [j \in 0..(TAPS - 1) |-> x % 2]]
    /\ out = [i \in 0..(MaxFrameLen * channels - 1) |-> x % Pow2[RESOL]]
    /\ at = [BitNr |-> 0, ChNr |-> 0]
    /\ given = [c \in 0..(channels - 1) |-> [b \in BitsOfChannel |-> NotGiven]]

-----------------------------------------------------------------------------
\* Where a bit of a channel is in the output.
ByteOf(b, ch) == (b \div RESOL) * FH.NrOfChannels + ch
PlaceInByte(b) == RESOL - 1 - (b % RESOL)
OutBit(ch, b) == Bit(out[ByteOf(b, ch)], PlaceInByte(b))

\* A plain frame is copied.  A byte beyond the data is read as 0, and no one looks.
ReadDSDframe ==
  /\ pc = "plain"
  /\ \E byte \in PlainBytes :
       LET Read(i) == IF SD.pos + (i + 1) * RESOL <= SD.total THEN byte ELSE 0
       IN /\ out' = [i \in DOMAIN out |-> Read(i)]
          /\ given' = [c \in Channels |-> [b \in BitsOfChannel |-> Bit(Read(ByteOf(b, c)), PlaceInByte(b))]]
  /\ pc' = "answer" /\ UNCHANGED <<FH, SD, cur, err, AC, Status, at>>

\* Where a channel's first segments end.
SegmentsEnd(t, ch, n) ==
  LET G == FH.Seg[t] IN Sum(n, [j \in 0..(n - 1) |-> G.Resolution * RESOL * G.SegmentLen[At(ch, j)]])

\* The segment a bit is in, and so the table it uses.  What is behind the tables has
\* by then become the table of the first bits of channel 0.
FillTable4Bit(t, ch, BitNr) ==
  LET G == FH.Seg[t]
      End(i) == SegmentsEnd(t, ch, i + 1)
      before == {i \in 0..(G.NrOfSegments[ch] - 2) : End(i) <= BitNr}
      place == At(ch, Cardinality(before))
  IN G.Table4Segment[IF place = Behind THEN 0 ELSE place]

\* The sum a filter gives for a byte of the last bits: one of 2^RESOL for each
\* byte of its coefficients, those beyond its order left out.
LT_InitCoefTablesI(filter, TableNr, i) ==
  LET left == FH.Len["F"][filter] - TableNr * RESOL
      k == IF left > RESOL THEN RESOL ELSE IF left < 0 THEN 0 ELSE left
  IN Sum(k, [j \in 0..(k - 1) |-> (Bit(i, j) * 2 - 1) * FH.Entry["F"][filter][TableNr * RESOL + j]])

\* As a short, which has one bit less than the sum of all coefficients may need.
Short(x) == LET w == Pow2[SIZE_PREDCOEF + SIZE_CODEDPREDORDER] IN ((x + w \div 2) % w) - w \div 2

LT_RUN_FILTER_I(filter, ch) ==
  LET byte(n) == Sum(RESOL, [j \in 0..(RESOL - 1) |-> Status[ch][n * RESOL + j] * Pow2[j]])
      bytes == TAPS \div RESOL
  IN Short(Sum(bytes, [n \in 0..(bytes - 1) |-> LT_InitCoefTablesI(filter, n, byte(n))]))

\* The low bits of a coefficient in reverse order, and one.
Reverse7LSBs(c) ==
  LET n == AC_BITS - 1
      low == (c + Pow2[SIZE_PREDCOEF]) % Pow2[n]
  IN 1 + Sum(n, [i \in 0..(n - 1) |-> Bit(low, i) * Pow2[n - 1 - i]])

LT_ACGetPtableIndex(predict, len) ==
  LET j == (IF predict > 0 THEN predict ELSE -predict) \div Pow2[SIZE_PREDCOEF - AC_HISBITS]
  IN IF j >= len THEN len - 1 ELSE j

-----------------------------------------------------------------------------
\* What the next k bits of the code can be; behind its end they are zeros.
CodeBits(cbptr, fs, k) ==
  LET left == IF cbptr >= fs THEN 0 ELSE IF fs - cbptr < k THEN fs - cbptr ELSE k
  IN {v * Pow2[k - left] : v \in Bits(left)}

\* Mutants: the code is not taken for the lower part at its border; the buffer and
\* the bits before the frame stay as they are; the shift is one too far.
AboveBorder(C, h) == C > h
StaysFilled == out
KeepsStatus == Status
ShiftTooFar(byte, k) == byte + Pow2[k + 1]

\* Is the code in the part of the interval that stands for 0?
Lower(C, h) == C >= h

\* One bit of probability p: the register A is the width of the interval that the
\* code can be in, C where in it the code is.
Residual(ac, p) ==
  LET q == ac.A \div Pow2[AC_BITS]
      ap == (IF Bit(ac.A, AC_BITS - 1) = 1 /\ q % 2 = 0 THEN q + 1 ELSE q) * p
      h == ac.A - ap
  IN IF Lower(ac.C, h) THEN [A |-> ap, C |-> ac.C - h, bit |-> 0]
                       ELSE [A |-> h, C |-> ac.C, bit |-> 1]

\* The register is shifted until it is wide enough again.
Shifts(A) == CHOOSE n \in 0..ABITS : A * Pow2[n] >= HALF /\ \A m \in 0..(n - 1) : A * Pow2[m] < HALF

LT_ACDecodeBit_Decode(ac, p, Use(_, _)) ==
  LET r == Residual(ac, p)
      k == Shifts(r.A)
  IN \E v \in CodeBits(ac.cbptr, ac.fs, k) :
       Use([ac EXCEPT !.A = r.A * Pow2[k], !.C = (r.C * Pow2[k] + v) % Pow2[WORD], !.cbptr = @ + k], r.bit)

\* 0xaa in every byte.
LT_InitStatus == [c \in Channels |-> [j \in 0..(TAPS - 1) |-> j % 2]]

Cleared == [i \in DOMAIN out |-> 0]

\* The rest of the frame is the arithmetic code, whose first bit is 0; a bit is
\* decoded before the audio and not looked at.
ReadArithmeticCodedData ==
  /\ pc = "AData"
  /\ LET fs == SD.total - SD.pos
         ac == [A |-> ONE - 1, C |-> 0, cbptr |-> ABITS + 1, fs |-> fs]
     IN IF fs > 0
        THEN \E b \in Bits(1), c \in CodeBits(1, fs, ABITS) :
               IF b # 0 THEN err' = "InvalidArithmeticCode" /\ pc' = "answer" /\ UNCHANGED AC
               ELSE LT_ACDecodeBit_Decode([ac EXCEPT !.C = c], Reverse7LSBs(FH.Entry["F"][0][0]), LAMBDA a, r : AC' = a)
                    /\ pc' = "decode" /\ UNCHANGED err
        ELSE LT_ACDecodeBit_Decode(ac, Reverse7LSBs(FH.Entry["F"][0][0]), LAMBDA a, r : AC' = a)
             /\ pc' = "decode" /\ UNCHANGED err
  /\ IF pc' = "decode"
     THEN /\ Status' = LT_InitStatus
          /\ out' = Cleared
          /\ at' = [BitNr |-> 0, ChNr |-> 0]
     ELSE UNCHANGED <<Status, out, at>>
  /\ UNCHANGED <<FH, SD, cur, given>>

\* The first bits of a channel may have even odds.
Probability(ch, BitNr, predict) ==
  IF FH.HalfProb[ch] = 1 /\ BitNr < FH.NrOfHalfBits[ch] THEN Pow2[AC_BITS - 1]
  ELSE LET table == FillTable4Bit("P", ch, BitNr)
       IN FH.Entry["P"][table][LT_ACGetPtableIndex(predict, FH.Len["P"][table])]

\* The byte with bit k set if it was not.
WithBit(byte, k) == IF Bit(byte, k) = 1 THEN byte ELSE byte + Pow2[k]

Predict(ch, BitNr) == LT_RUN_FILTER_I(FillTable4Bit("F", ch, BitNr), ch)

DecodeBit ==
  /\ pc = "decode" /\ at.BitNr < NrOfBitsPerCh
  /\ LET ch == at.ChNr
         predict == Predict(ch, at.BitNr)
     IN LT_ACDecodeBit_Decode(AC, Probability(ch, at.BitNr, predict), LAMBDA a, residual :
          LET val == IF predict < 0 THEN 1 - residual ELSE residual
          IN /\ AC' = a
             /\ out' = IF val = 1
                       THEN [out EXCEPT ![ByteOf(at.BitNr, ch)] = WithBit(@, PlaceInByte(at.BitNr))]
                       ELSE out
             /\ given' = [given EXCEPT ![ch][at.BitNr] = val]
             /\ Status' = [Status EXCEPT ![ch] = [j \in DOMAIN @ |-> IF j = 0 THEN val ELSE @[j - 1]]])
  /\ at' = IF at.ChNr + 1 < FH.NrOfChannels THEN [at EXCEPT !.ChNr = @ + 1]
           ELSE [BitNr |-> at.BitNr + 1, ChNr |-> 0]
  /\ UNCHANGED header

\* The code must end here, but for the bits that fill its last byte.
LT_ACDecodeBit_Flush ==
  /\ pc = "decode" /\ at.BitNr = NrOfBitsPerCh
  /\ err' = IF AC.cbptr < AC.fs - (RESOL - 1) THEN "ArithmeticDecoder" ELSE err
  /\ pc' = "answer" /\ UNCHANGED <<FH, SD, cur, audio>>

\* The frame is given back.
Answer ==
  /\ pc = "answer"
  /\ out' = IF err # "NoError" THEN [i \in DOMAIN out |-> SILENCE] ELSE out
  /\ pc' = "done" /\ UNCHANGED <<FH, SD, cur, err, AC, Status, at, given>>

\* The data buffer of the frame before is what FillBuffer replaces: the frame and
\* its size are all that is kept of it.
Unpack == UnpackHeader /\ UNCHANGED audio

Next == Unpack \/ ReadDSDframe \/ ReadArithmeticCodedData \/ DecodeBit \/ LT_ACDecodeBit_Flush \/ Answer
Spec == Init /\ [][Next]_vars

-----------------------------------------------------------------------------
Errors == {"NoError", "NegativeBitAllocation", "TooManySegments", "InvalidSegmentResolution",
           "InvalidSegmentLength", "InvalidTableNumber", "TooManyTables", "InvalidChannelMapping",
           "SegmentNumberMismatch", "InvalidCoefficientCoding", "InvalidCoefficientRange",
           "InvalidPtableCoding", "InvalidPtableRange", "InvalidStuffingPattern",
           "InvalidArithmeticCode", "ArithmeticDecoder"}
Decoding == pc = "decode" /\ at.BitNr < NrOfBitsPerCh

\* The type invariant: the error is one the decoder has a message for, each byte
\* of the output is a byte and the registers are words.
TypeOK ==
  /\ err \in Errors
  /\ DOMAIN out = 0..(ByteStreamLen - 1) /\ \A i \in DOMAIN out : out[i] \in Bits(RESOL)
  /\ AC.C \in Bits(WORD) /\ AC.A \in 0..(ONE - 1)
  /\ at.BitNr \in 0..NrOfBitsPerCh /\ at.ChNr \in Channels

\* However a frame is cut (unpack_dst.c, ReadSegmentData, ReadMappingData;
\* dst_fram.c, FillTable4Bit): when decoding starts the segments leave room for
\* the last one, every bit of every channel uses a filter and a probability table
\* that this frame has given, every entry of it can be coded, and the tables are
\* no more than there is memory for.
TablesDefined ==
  pc = "decode" =>
    \A t \in Kinds :
      /\ FH.NrOfTables[t] \in 1..MaxNrOfTables
      /\ \A ch \in Channels :
           /\ SegmentsEnd(t, ch, FH.Seg[t].NrOfSegments[ch] - 1) < NrOfBitsPerCh
           /\ \A b \in 0..(NrOfBitsPerCh - 1) :
                LET table == FillTable4Bit(t, ch, b)
                IN /\ table < FH.NrOfTables[t] /\ FH.Len[t][table] \in 1..MaxEntries(t)
                   /\ t = "P" => \A i \in 0..(FH.Len["P"][table] - 1) : FH.Entry["P"][table][i] \in Probabilities

\* The bit of a channel that was put out j bits before the one decoded now; before
\* the first one they alternate.
Past(ch, j) ==
  LET b == at.BitNr - 1 - j
  IN IF b >= 0 THEN OutBit(ch, b) ELSE (-b - 1) % 2

\* The prediction (dst_fram.c, LT_InitCoefTablesI, LT_RUN_FILTER_I and the shifted
\* status) is the filter applied to the bits that were put out: each coefficient
\* counted as it is for a 1 and negative for a 0.  Only the largest sum there can
\* be, of all coefficients at their least, comes out with the wrong sign.
PredictionExact ==
  Decoding =>
    LET filter == FillTable4Bit("F", at.ChNr, at.BitNr)
        order == FH.Len["F"][filter]
        exact == Sum(order, [j \in 0..(order - 1) |-> (2 * Past(at.ChNr, j) - 1) * FH.Entry["F"][filter][j]])
        largest == Pow2[SIZE_PREDCOEF + SIZE_CODEDPREDORDER - 1]
    IN Predict(at.ChNr, at.BitNr) = IF exact = largest THEN -largest ELSE exact

\* The arithmetic decoder (dst_fram.c, LT_ACDecodeBit_Decode) keeps its width in the
\* upper half of its register, and a code that is within the interval stays so,
\* whatever probabilities follow: every code is the code of some audio.
StaysInInterval ==
  [][pc = "decode" /\ AC.C < AC.A => AC'.C < AC'.A /\ AC'.A \in HALF..(ONE - 1)]_vars

\* What a frame comes out as (dst_fram.c, DST_FramDSTDecode): silence if it has an
\* error, found before or after audio was put out; otherwise each bit of each
\* channel is the one that this frame has given, coded or plain, in its place, and
\* nothing is left that was in the buffer before, which the pool hands from frame
\* to frame.
FrameAnswered ==
  pc = "done" =>
    IF err # "NoError" THEN \A i \in DOMAIN out : out[i] = SILENCE
    ELSE \A ch \in Channels, b \in BitsOfChannel : OutBit(ch, b) = given[ch][b]

\* The limit of the segments of a channel that conststr.h states.
SegmentsWithinLimit ==
  pc = "decode" => \A t \in Kinds, ch \in Channels : FH.Seg[t].NrOfSegments[ch] <= MaxSegs(t)
=============================================================================
