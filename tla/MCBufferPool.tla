---------------------------- MODULE MCBufferPool ----------------------------
(* Two threads get spaces and two drop them, sharing one now and then; the *)
(* pool is made again and again, for one space, for two or without limit.  *)
EXTENDS BufferPool

MCLimits == {-1, 1, 2}
MCLocks  == 0 .. 2
=============================================================================
