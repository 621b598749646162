------------------------------ MODULE MCPipes -------------------------------
(* Instances of Pipes for TLC. *)
EXTENDS Pipes

MCText == [out |-> 3, err |-> 2]
MCPipeCap == [in |-> 1, out |-> 2, err |-> 1]
=============================================================================
