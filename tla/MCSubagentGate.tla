--------------------------- MODULE MCSubagentGate ---------------------------
(* Instances of SubagentGate for TLC: two users' sessions a and b.         *)
EXTENDS SubagentGate

\* three calls of a, of which x calls again, and one of b
SomeCalls == {<<"a", "x">>, <<"a", "y">>, <<"a", "z">>, <<"a", "x", "u">>, <<"b", "x">>}
=============================================================================
