--------------------------- MODULE MCProcessSpawn ---------------------------
(* Two threads that start a process each. *)
EXTENDS ProcessSpawn
=============================================================================
