------------------------------- MODULE MCJson -------------------------------
(* Strings that are hard to cut, and small buffers, for Json. *)
EXTENDS Json

MCNames == {<<"a", Q>>, <<"a", "L2", "C">>}
MCValues ==
  {Event("string", <<"a", "a", "a", "a", "a", "L3", "C", "C", "^A">>), Event("string", <<"a", "L2">>),
   Event("number", <<"1", "2">>)}

MCSetup(m, c, i, sep) == [mode |-> m, capacity |-> c, indent |-> i, mvSeparator |-> sep]
MCSetups ==
  {MCSetup("fixed", 16, 1, <<NL>>), MCSetup("string", 0, 0, <<NL>>), MCSetup("string", 0, 1, <<>>),
   MCSetup("stream", 7, 0, <<NL>>)}
=============================================================================
