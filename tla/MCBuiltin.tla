----------------------------- MODULE MCBuiltin ------------------------------
(* Small instances of Builtin for TLC: two waiting threads, two exit codes *)
(* and two retries of the thread creation.                                 *)
EXTENDS Builtin
=============================================================================
