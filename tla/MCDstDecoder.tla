---------------------------- MODULE MCDstDecoder ----------------------------
(* Two decode threads, an input pool of two spaces so that four frames run *)
(* it empty and the caller has to wait; one frame does not decode.         *)
EXTENDS DstDecoder

MCCorrupt == {1}
=============================================================================
