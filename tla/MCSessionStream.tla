-------------------------- MODULE MCSessionStream --------------------------
(* Instances of SessionStream for TLC.                                     *)
EXTENDS SessionStream

\* four events of the first registry entry, two of the one after a restart
SomeEvents == [e \in 0 .. 1 |-> IF e = 0 THEN 4 ELSE 2]
=============================================================================
