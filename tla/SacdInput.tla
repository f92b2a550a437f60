------------------------------- MODULE SacdInput -------------------------------
(* The disc as an image or a device (sacd_input.c), and the choice between it  *)
(* and the network (sacd_input_setup).  A file is read in pieces: a regular    *)
(* file gives all it has, a device may give less, and a read may fail.  The    *)
(* file ends wherever its copy ended, at a whole sector or not.                *)
EXTENDS NetInput

CONSTANT FileSizes    \* in halves of a sector

\* The file is a copy of the disc, or of its beginning.
ASSUME FileAssumption == FileSizes \subseteq 0..(2 * Sectors)

VARIABLES fileSize,
          pieces      \* a read has been answered with less than there was

inputVars == <<call, ret, buffer, heap, fds, outOfMemory, netVars, fileSize, pieces>>
unlessReading == <<outOfMemory, netVars, fileSize, pieces>>

\* An address: three dots with a colon behind the third.
sacd_input_setup(location) == location.dots >= 3 /\ location.colon

On(op, where) == ~call.net /\ call.op = op /\ call.at = where

sacd_dev_input_open ==
  /\ On("open", "start")
  /\ \/ Return(FALSE, 0) /\ outOfMemory' = TRUE /\ UNCHANGED <<heap, fds>>
     \/ \E opened \in BOOLEAN :
          /\ heap' = IF opened THEN heap \cup {Dev} ELSE heap
          /\ fds' = IF opened THEN fds \cup {"file"} ELSE fds
          /\ Return(opened, 0)
          /\ UNCHANGED outOfMemory
  /\ UNCHANGED <<buffer, netVars, fileSize, pieces>>

\* lseek, then the loop that reads.
sacd_dev_input_read ==
  /\ On("read", "start")
  /\ \/ Return(TRUE, 0)
     \/ call' = [call EXCEPT !.at = "reading", !.left = 2 * call.n] /\ UNCHANGED ret
  /\ UNCHANGED <<buffer, heap, fds, unlessReading>>

\* The place in the file is where the pieces so far have left it.
FileAt == 2 * call.pos + (2 * call.n - call.left)
Available == IF FileAt >= fileSize THEN 0
             ELSE IF call.left < fileSize - FileAt THEN call.left ELSE fileSize - FileAt

\* One read: every one is given the start of the buffer.  The bound: one read of
\* a run comes short of what there is.
ReadPiece ==
  /\ On("read", "reading") /\ call.left > 0
  /\ \E k \in IF pieces THEN {Available} \ {0} ELSE 1..Available :
       /\ buffer' = Overlay([i \in 1..k |-> FileAt + i - 1], buffer)
       /\ call' = [call EXCEPT !.left = @ - k]
       /\ pieces' = (pieces \/ k < Available)
  /\ UNCHANGED <<ret, heap, fds, outOfMemory, netVars, fileSize>>

\* A mutant: a sector that is partly there counts.
PartialBlocks == (2 * call.n - call.left + 1) \div 2

\* At the end of the file the whole sectors count.
WholeBlocks == (2 * call.n - call.left) \div 2

ReadReturns ==
  /\ On("read", "reading")
  /\ \/ call.left = 0 /\ Return(TRUE, call.n)
     \/ call.left > 0 /\ Available = 0 /\ Return(TRUE, WholeBlocks)
     \/ call.left > 0 /\ Return(TRUE, -1)
  /\ UNCHANGED <<buffer, heap, fds, unlessReading>>

sacd_dev_input_close ==
  /\ On("close", "start")
  /\ Return(TRUE, 0)
  /\ fds' = fds \ {"file"}
  /\ heap' = heap \ {Dev}
  /\ UNCHANGED <<buffer, unlessReading>>

\* fstat; a partial last sector does not count.
sacd_dev_input_total_sectors ==
  /\ On("total", "start")
  /\ \E fails \in BOOLEAN : Return(TRUE, IF fails THEN 0 ELSE fileSize \div 2)
  /\ UNCHANGED <<buffer, heap, fds, unlessReading>>

InputStep ==
  \/ NetStep /\ UNCHANGED <<fileSize, pieces>>
  \/ sacd_dev_input_open \/ sacd_dev_input_read \/ ReadPiece \/ ReadReturns
  \/ sacd_dev_input_close \/ sacd_dev_input_total_sectors

ServerStep ==
  /\ ServerAnswers \/ ServerSends
  /\ UNCHANGED <<fileSize, pieces>>

Break == ConnectionBreaks /\ UNCHANGED <<fileSize, pieces>>

InputInit ==
  /\ call = NoCall
  /\ ret = [op |-> "none", pos |-> 0, n |-> 0, ok |-> FALSE, v |-> 0]
  /\ buffer = <<>>
  /\ heap = {} /\ fds = {"stdin"}
  /\ outOfMemory = FALSE
  /\ sock = "invalid" /\ up = FALSE
  /\ toServer = <<>> /\ toClient = <<>> /\ owed = <<>>
  /\ decoder = NewDecoder
  /\ inStep = TRUE
  /\ pieces = FALSE

------------------------------------------------------------------------------
\* What a read returns as delivered is there: each of the sectors asked for, in
\* its place and whole.  It says nothing about reads that came in pieces, nor
\* about those that follow an answer left half read, such as one that gives no
\* sectors at all: both are known to deliver the wrong sectors.
SectorsDelivered ==
  (Idle /\ ret.op = "read" /\ ret.v > 0 /\ ~pieces /\ inStep) =>
     /\ ret.v <= ret.n
     /\ SubSeq(buffer, 1, 2 * ret.v) = SectorsFrom(ret.pos, ret.v)
==============================================================================
