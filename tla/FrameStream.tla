---------------------------- MODULE FrameStream ----------------------------
(***************************************************************************)
(* What a DST decoder promises the code that drives it, stated without any *)
(* thread, lock, list or buffer: between create and destroy the caller     *)
(* feeds frames 0, 1, 2, ..., and the two callbacks see the decoded frames *)
(* exactly once each, in that order, an error being reported together with *)
(* the frame it belongs to.  destroy returns once every frame that was fed *)
(* has been delivered.                                                     *)
(***************************************************************************)
EXTENDS Integers, Sequences

CONSTANTS Corrupt,    \* the frames whose DST data does not decode
          MaxFrames   \* how many frames one stream carries at most

VARIABLES status,     \* "closed", "open" or "closing"
          fed,        \* number of frames fed since create
          delivered   \* what the callbacks have seen since create

streamVars == <<status, fed, delivered>>

Silence == -1   \* the 0x55 pattern that replaces a frame in error

(* A decoded frame as the callbacks see it: its samples, and whether the   *)
(* error callback has announced it.                                        *)
Decoded(frame) ==
    [data  |-> IF frame \in Corrupt THEN Silence ELSE frame,
     error |-> frame \in Corrupt]

StreamInit ==
    /\ status = "closed"
    /\ fed = 0
    /\ delivered = <<>>

Create ==
    /\ status = "closed"
    /\ status' = "open"
    /\ fed' = 0
    /\ delivered' = <<>>

Feed ==
    /\ status = "open"
    /\ fed < MaxFrames
    /\ fed' = fed + 1
    /\ UNCHANGED <<status, delivered>>

Deliver ==
    /\ Len(delivered) < fed
    /\ delivered' = Append(delivered, Decoded(Len(delivered)))
    /\ UNCHANGED <<status, fed>>

Destroy ==
    /\ status = "open"
    /\ status' = "closing"
    /\ UNCHANGED <<fed, delivered>>

Destroyed ==
    /\ status = "closing"
    /\ Len(delivered) = fed
    /\ status' = "closed"
    /\ UNCHANGED <<fed, delivered>>

StreamNext == Create \/ Feed \/ Deliver \/ Destroy \/ Destroyed

StreamSteps == StreamInit /\ [][StreamNext]_streamVars

StreamSpec ==
    /\ StreamSteps
    /\ WF_streamVars(Deliver)
    /\ WF_streamVars(Destroyed)
=============================================================================
