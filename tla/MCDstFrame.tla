----------------------------- MODULE MCDstFrame -----------------------------
(* Short frames of bytes of two bits: filters of up to four coefficients from  *)
(* -2 to 1, probabilities in eighths.                                         *)
EXTENDS DstFrame
MCCoefs == {-2, 1}
MCRice == -1..1

\* Of the longer frames not all are followed.  Those of 26 bits have room for
\* segments with tables of their own, and are followed when each table has one
\* entry that is not coded and each filter is the same, until a segment has ended.
SegmentedFrames ==
  /\ pc \notin {"BestMethod", "answer"} /\ at.BitNr < 5
  /\ \A n \in DOMAIN FH.Entry["F"] : FH.Entry["F"][n][0] # -2
  /\ \A c \in Channels : FH.HalfProb[c] = 0
  /\ \A t \in Kinds : \A n \in DOMAIN FH.Len[t] : FH.Len[t][n] < 2

\* Those of 32 bits are followed with one channel that is not cut, one coefficient
\* or the least ones, and the least probabilities: their code may go on after the
\* last bit of audio, and their prediction be the largest.
PlainFrames ==
  /\ FH.NrOfChannels = 1 /\ FH.HalfProb[0] = 0
  /\ FH.Len["F"][0] = 4 => \A i \in 0..3 : FH.Entry["F"][0][i] # 1
  /\ pc = "EndOfChannel" => FH.PSameSegAsF = 1 /\ FH.SameSegAllCh["F"] = 1
  /\ pc = "HalfProb" => FH.PSameMapAsF = 1
  /\ pc \notin {"Resolution", "BestMethod"}
  /\ pc = "decode" => FH.Entry["P"][0] = [i \in {0, 1} |-> 1]

\* Those of 40 bits are followed with two channels that have three segments each
\* for their tables: a segment more than the tables of segments have places.
OverfullFrames ==
  /\ FH.NrOfChannels = 2 /\ FH.PSameSegAsF = 0
  /\ pc = "EndOfChannel" => FH.SameSegAllCh[cur.t] = 1
  /\ pc = "Resolution" => cur.t = "P"
  /\ pc = "PSameMapAsF" => FH.Seg["P"].NrOfSegments[1] = 3
  /\ pc = "Table4Segment" => cur.t = "P"
  /\ SegmentedFrames

LongFrames == /\ SD.total = 26 => SegmentedFrames
              /\ SD.total = 32 => PlainFrames
              /\ SD.total = 40 => OverfullFrames
=============================================================================
