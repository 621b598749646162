----------------------------- MODULE MCFdOutBuf -----------------------------
(* Small instances of FdOutBuf for TLC: two byte values (interchangeable), *)
(* a put area of two characters and a device of four.                      *)
EXTENDS FdOutBuf, TLC

Symmetry == Permutations(Byte)
=============================================================================
