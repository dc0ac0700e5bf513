----------------------------- MODULE MCTaskLease -----------------------------
(* TaskLease for TLC: the two processes of the free schedule are alike. *)
EXTENDS TaskLease, TLC

Processes == Permutations(Proc)
=============================================================================
