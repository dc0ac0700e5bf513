---------------------------- MODULE TaskExclusion ----------------------------
(***************************************************************************)
(* What the execution lease of a task promises ("防双跑"): a server process  *)
(* runs the task only while it holds the lease; it takes the lease only from*)
(* nobody, keeps it as long as it runs, and leaves it behind when it dies.  *)
(* Hence at most one process runs the task.  TaskLease implements it when   *)
(* its schedule is serial, punctual and free of re-entry.                   *)
(***************************************************************************)
CONSTANTS Proc, Nobody, Dead

VARIABLES
  holder,     \* who holds an unexpired lease
  running     \* the processes that run the task

Init == holder = Nobody /\ running = {}

\* To take the lease or to renew it.
Take(p) ==
  /\ holder \in {Nobody, p}
  /\ holder' = p
  /\ UNCHANGED running

Enter(p) ==
  /\ holder \in {Nobody, p}
  /\ holder' = p
  /\ running' = {p}

Leave(p) ==
  /\ p \in running
  /\ running' = running \ {p}
  /\ UNCHANGED holder

Release(p) ==
  /\ holder = p /\ p \notin running
  /\ holder' = Nobody
  /\ UNCHANGED running

\* The lease of a process that dies stays, in the name of nobody alive.
Die(p) ==
  /\ holder' = IF holder = p THEN Dead ELSE holder
  /\ running' = running \ {p}

Expire ==
  /\ holder \notin running
  /\ holder' = Nobody
  /\ UNCHANGED running

Next ==
  \/ \E p \in Proc : Take(p) \/ Enter(p) \/ Leave(p) \/ Release(p) \/ Die(p)
  \/ Expire

Spec == Init /\ [][Next]_<<holder, running>>
=============================================================================
