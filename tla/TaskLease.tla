------------------------------ MODULE TaskLease ------------------------------
(***************************************************************************)
(* The execution lease of one task row (SQLite) shared by server processes.*)
(*                                                                         *)
(* Every access of TaskService is a read of the whole record followed by a *)
(* save of the whole record, guarded by `WHERE revision = expected'.  User *)
(* edits and step changes bump the revision; lease, heartbeat and          *)
(* in-flight writes ("keepRevision") do not.  A process runs one           *)
(* synchronous stretch of calls at a time (its block); another process may *)
(* touch the row between any two accesses of it.                           *)
(*                                                                         *)
(* Lease expiry is a countdown in row.left.  A restarted process has a new *)
(* owner name (pid + bootId), so a crash renames the owner to Dead.        *)
(***************************************************************************)
EXTENDS Naturals, Sequences, FiniteSets

CONSTANTS
  Proc,       \* server processes that share the database
  Call,       \* concurrent start/resume requests inside one process
  Edit,       \* user edits (PATCH of the task or of its steps)
  Nobody,     \* row.owner when the row has no lease
  Dead,       \* row.owner when the owner is a process that no longer exists
  None,       \* no call
  TTL,        \* lease time to live, in renew intervals
  MaxRev,     \* bound on the revision counter
  MaxTries,   \* attempts of TaskService.mutate
  MaxKeepers, \* bound on the timers of one process
  Interleave, \* may another process act inside a synchronous stretch?
  Stall,      \* may timers and session opening be late by a TTL?
  Reenter     \* may a process start the task while it already runs it?

ASSUME LeaseAssumption ==
  /\ Nobody \notin Proc /\ Dead \notin Proc /\ Nobody # Dead
  /\ None \notin Call
  /\ TTL \in Nat \ {0}
  /\ MaxRev \in Nat
  /\ MaxTries \in Nat \ {0}
  /\ MaxKeepers \in Nat
  /\ Interleave \in BOOLEAN /\ Stall \in BOOLEAN /\ Reenter \in BOOLEAN

VARIABLES
  row,      \* the task row in the database
  live,     \* processes that are up
  call,     \* call[p][c]: where the start/resume request c of p is
  active,   \* active[p]: the call whose ActiveRun is in TaskRunner.active
  keepers,  \* keepers[p]: the TaskLeaseKeeper timers of p that are armed
  agent,    \* agent[p]: is the session of the task running a prompt in p?
  block,    \* block[p]: rest of the synchronous stretch p is in
  pend      \* pend[p]: the read-change-save p is in the middle of

vars == <<row, live, call, active, keepers, agent, block, pend>>

-----------------------------------------------------------------------------
Owner == Proc \cup {Nobody, Dead}

Row == [rev : Nat, edits : SUBSET Edit, owner : Owner, left : 0..TTL]

CallState == {"idle", "acquiring", "opening", "prompting"}

KeepOps == {"acquire", "renew", "release", "touch"}   \* keepRevision: true
BumpOps == {"edit", "step", "mark"}
Ops     == KeepOps \cup BumpOps \cup {"exit"}

\* ops: calls still to make; call, then: whose request this is and the state
\* it is in when all of them succeed; edit: what a user edit adds.
Block == [ops : Seq(Ops), call : Call \cup {None}, then : CallState, edit : SUBSET Edit]

Pending == [loaded : BOOLEAN, tries : Nat, rev : Nat, row : Row]

EmptyRow == [rev |-> 1, edits |-> {}, owner |-> Nobody, left |-> 0]
NoBlock  == [ops |-> <<>>, call |-> None, then |-> "idle", edit |-> {}]
Unread   == [loaded |-> FALSE, tries |-> 0, rev |-> 1, row |-> EmptyRow]

\* Faults (operators named ...Fault) are mistakes of the kind a change of the
\* code could introduce; the specification does not use them.
\* A lease is taken as expired one interval early.
EarlyExpiryFault(r, p) == r.owner \notin {Nobody, p} /\ r.left > 1

\* A lease never expires.
NoExpiryFault(r, p) == r.owner \notin {Nobody, p}

HeldByOther(r, p) == r.owner \notin {Nobody, p} /\ r.left > 0

NoLease(r) == [r EXCEPT !.owner = Nobody, !.left = 0]

\* The record the callback of mutate returns, per operation of TaskService.
Change(op, r, p, e) ==
  CASE op \in {"acquire", "renew"} -> [r EXCEPT !.owner = p, !.left = TTL]
    [] op = "release"              -> NoLease(r)
    [] op = "mark" /\ r.owner = p  -> NoLease(r)
    [] op = "edit"                 -> [r EXCEPT !.edits = @ \cup e]
    [] OTHER                       -> r

Denied(op, r, p)  == op \in {"acquire", "renew"} /\ HeldByOther(r, p)  \* 409 task_leased
NoWrite(op, r, p) == op = "release" /\ r.owner \notin {Nobody, p}

Tries(op) == IF op = "edit" THEN 1 ELSE MaxTries
\* User edits keep the revision, as heartbeats do.
KeepRevisionFault(op) == IF op \in {"step", "mark"} THEN 1 ELSE 0

Bump(op)  == IF op \in BumpOps THEN 1 ELSE 0

-----------------------------------------------------------------------------
InBlock(p) == block[p].ops # <<>>

\* The hand-over of the prompt follows in the same microtasks: registry.command
\* finds the session open and does not wait for the prompt.
Prompting(p) == \E c \in Call : call[p][c] = "prompting"

Busy(p) == InBlock(p) \/ Prompting(p)

\* A serial schedule leaves the database alone while another process is inside
\* a synchronous stretch.
MyTurn(p) == Interleave \/ \A q \in Proc \ {p} : ~Busy(q)

\* p may handle its next request, timer or event.
Ready(p) == p \in live /\ ~Busy(p) /\ MyTurn(p)

\* A request past its lease, or a run that TaskRunner.active lists.
Underway(p) == \E c \in Call : call[p][c] \in {"opening", "prompting"}
Running(p) == active[p] # None \/ Underway(p)

\* The one timer a stop, a settled run or an exit would disarm.
Listed(p) == IF active[p] = None THEN 0 ELSE 1

\* Bound: revisions the pending blocks may still consume.
Bumpers == {p \in Proc : \E i \in DOMAIN block[p].ops : block[p].ops[i] \in BumpOps}
RevLeft == row.rev + Cardinality(Bumpers) < MaxRev

Begin(p, ops, c, then, e) ==
  /\ (\E i \in DOMAIN ops : ops[i] \in BumpOps) => RevLeft
  /\ block' = [block EXCEPT ![p] = [ops |-> ops, call |-> c, then |-> then, edit |-> e]]
  /\ pend' = [pend EXCEPT ![p] = Unread]

\* The rest of the stretch is `rest'; when nothing is left the request of the
\* block is in state st.  "prompting" is reached by arming the keeper and
\* entering the run into TaskRunner.active, in place of what was there.
Continue(p, rest, st) ==
  LET c == block[p].call
      arrives == rest = <<>> /\ c # None
  IN /\ block' = [block EXCEPT ![p] = IF rest = <<>> THEN NoBlock ELSE [@ EXCEPT !.ops = rest]]
     /\ pend' = [pend EXCEPT ![p] = Unread]
     /\ call' = IF arrives THEN [call EXCEPT ![p][c] = st] ELSE call
     /\ keepers' = IF arrives /\ st = "prompting"
                   THEN [keepers EXCEPT ![p] = @ + 1] ELSE keepers
     /\ active' = IF arrives /\ st = "prompting"
                  THEN [active EXCEPT ![p] = c] ELSE active

Succeed(p) == Continue(p, Tail(block[p].ops), block[p].then)

\* A failed call leaves its request unanswered.
UnansweredFault(p) == Continue(p, <<>>, "acquiring")

\* An exception: in-flight notes are guarded and shutdown ignores errors,
\* anything else unwinds the rest of the stretch.
Throw(p) ==
  LET ops == block[p].ops
      caught == Head(ops) = "touch" \/ "exit" \in {ops[i] : i \in DOMAIN ops}
  IN Continue(p, IF caught THEN Tail(ops) ELSE <<>>, "idle")

-----------------------------------------------------------------------------
(* TaskService.mutate and commit: get, change, save. *)

Read(p) ==
  LET op == Head(block[p].ops)
  IN /\ p \in live /\ InBlock(p) /\ MyTurn(p)
     /\ op # "exit" /\ ~pend[p].loaded
     /\ \/ /\ Denied(op, row, p)
           /\ Throw(p)
        \/ /\ NoWrite(op, row, p)
           /\ Succeed(p)
        \/ /\ ~Denied(op, row, p) /\ ~NoWrite(op, row, p)
           /\ pend' = [pend EXCEPT ![p] =
                         [loaded |-> TRUE, tries |-> @.tries + 1, rev |-> row.rev,
                          row |-> Change(op, row, p, block[p].edit)]]
           /\ UNCHANGED <<block, call, keepers, active>>
     /\ UNCHANGED <<row, live, agent>>

Save(p) ==
  LET op == Head(block[p].ops)
  IN /\ p \in live /\ InBlock(p) /\ MyTurn(p)
     /\ pend[p].loaded
     /\ \/ /\ pend[p].rev = row.rev
           /\ row' = [pend[p].row EXCEPT !.rev = row.rev + Bump(op)]
           /\ Succeed(p)
        \/ /\ pend[p].rev # row.rev
           /\ pend[p].tries < Tries(op)
           /\ pend' = [pend EXCEPT ![p].loaded = FALSE]
           /\ UNCHANGED <<row, block, call, keepers, active>>
        \/ /\ pend[p].rev # row.rev
           /\ pend[p].tries >= Tries(op)                \* 409 task_conflict
           /\ Throw(p)
           /\ UNCHANGED row
     /\ UNCHANGED <<live, agent>>

-----------------------------------------------------------------------------
(* TaskRunner *)

\* start, or resume with nothing to verify; resume with a verified artifact
\* (the step is completed); resume with an artifact that is missing.
Start(p, c) ==
  /\ Ready(p) /\ call[p][c] = "idle" /\ keepers[p] < MaxKeepers
  /\ Reenter \/ (active[p] = None /\ \A d \in Call : call[p][d] = "idle")
  /\ \/ Begin(p, <<"acquire">>, c, "opening", {})
     \/ Begin(p, <<"acquire", "step">>, c, "opening", {})
     \/ Begin(p, <<"acquire", "release", "mark">>, c, "idle", {})
  /\ call' = [call EXCEPT ![p][c] = "acquiring"]
  /\ UNCHANGED <<row, live, active, keepers, agent>>

\* The keeper of the run is made and listed, and its timer is never started.
UnarmedFault(p, c) ==
  /\ Ready(p) /\ call[p][c] = "opening"
  /\ call' = [call EXCEPT ![p][c] = "prompting"]
  /\ active' = [active EXCEPT ![p] = c]
  /\ UNCHANGED <<row, live, keepers, agent, block, pend>>

\* registry.open resolved: track the session, arm the keeper, send the prompt.
Opened(p, c) ==
  /\ Ready(p) /\ call[p][c] = "opening"
  /\ call' = [call EXCEPT ![p][c] = "prompting"]
  /\ keepers' = [keepers EXCEPT ![p] = @ + 1]
  /\ active' = [active EXCEPT ![p] = c]
  /\ UNCHANGED <<row, live, agent, block, pend>>

\* The same after retry_step or replan, which change the task first.
OpenedReset(p, c) ==
  /\ Ready(p) /\ call[p][c] = "opening"
  /\ Begin(p, <<"step">>, c, "prompting", {})
  /\ UNCHANGED <<row, live, call, active, keepers, agent>>

\* Requests that wait for the same session share one open and fail together.
OpenFailed(p, c) ==
  /\ Ready(p) /\ call[p][c] = "opening" /\ ~agent[p]
  /\ \/ Begin(p, <<"release">>, None, "idle", {})          \* start
     \/ Begin(p, <<"release", "mark">>, None, "idle", {})  \* resume
  /\ call' = [call EXCEPT ![p] = [d \in Call |-> IF @[d] = "opening" THEN "idle" ELSE @[d]]]
  /\ UNCHANGED <<row, live, active, keepers, agent>>

\* registry.command resolves before the prompt has run; a prompt the session
\* rejects (busy, no model) only leaves a ledger entry.
Prompted(p, c) ==
  /\ p \in live /\ ~InBlock(p) /\ call[p][c] = "prompting"
  /\ call' = [call EXCEPT ![p][c] = "idle"]
  /\ \E started \in {TRUE, agent[p]} : agent' = [agent EXCEPT ![p] = started]
  /\ UNCHANGED <<row, live, active, keepers, block, pend>>

\* The error path deletes the entry and forgets the timer.
KeptTimerFault(p, c) ==
  /\ p \in live /\ ~InBlock(p) /\ call[p][c] = "prompting"
  /\ call' = [call EXCEPT ![p][c] = "idle"]
  /\ active' = [active EXCEPT ![p] = None]
  /\ Begin(p, <<"release">>, None, "idle", {})
  /\ UNCHANGED <<row, live, keepers, agent>>

PromptFailed(p, c) ==
  /\ p \in live /\ ~InBlock(p) /\ call[p][c] = "prompting"
  /\ call' = [call EXCEPT ![p][c] = "idle"]
  /\ keepers' = [keepers EXCEPT ![p] = @ - 1]
  /\ active' = [active EXCEPT ![p] = None]
  /\ Begin(p, <<"release">>, None, "idle", {})
  /\ UNCHANGED <<row, live, agent>>

\* The run is forgotten with its timer armed.
KeeperLeakFault(p) ==
  /\ keepers' = keepers
  /\ active' = [active EXCEPT ![p] = None]

\* The active run ends: its keeper is disposed and its entry deleted.
DropActive(p) ==
  /\ keepers' = [keepers EXCEPT ![p] = @ - Listed(p)]
  /\ active' = [active EXCEPT ![p] = None]

Stop(p) ==
  /\ Ready(p) /\ active[p] # None
  /\ DropActive(p)
  /\ Begin(p, <<"release">>, None, "idle", {})
  /\ UNCHANGED <<row, live, call, agent>>

\* agent_settled: clear the in-flight note, then handleSettled.
Settle(p) ==
  /\ Ready(p) /\ agent[p]
  /\ agent' = [agent EXCEPT ![p] = FALSE]
  /\ DropActive(p)
  /\ Begin(p, IF active[p] = None THEN <<"touch">> ELSE <<"touch", "release">>, None, "idle", {})
  /\ UNCHANGED <<row, live, call>>

\* The interval of a TaskLeaseKeeper fires; a failure is only logged.
Beat(p) ==
  /\ Ready(p) /\ keepers[p] > 0
  /\ Begin(p, <<"renew">>, None, "idle", {})
  /\ UNCHANGED <<row, live, call, active, keepers, agent>>

\* turn_start, tool_execution_start, tool_execution_end while the agent runs.
Note(p) ==
  /\ Ready(p) /\ agent[p]
  /\ Begin(p, <<"touch">>, None, "idle", {})
  /\ UNCHANGED <<row, live, call, active, keepers, agent>>

\* A user edit with ifRevision = the current revision.
UserEdit(p, e) ==
  /\ Ready(p) /\ e \notin row.edits
  /\ \A q \in Proc : e \notin block[q].edit
  /\ Begin(p, <<"edit">>, None, "idle", {e})
  /\ UNCHANGED <<row, live, call, active, keepers, agent>>

\* Graceful exit: TaskRunner.dispose releases what is active.
Shutdown(p) ==
  /\ Ready(p)
  /\ DropActive(p)
  /\ Begin(p, IF active[p] = None THEN <<"exit">> ELSE <<"release", "exit">>, None, "idle", {})
  /\ UNCHANGED <<row, live, call, agent>>

-----------------------------------------------------------------------------
(* Processes and time *)

Bury(r, p) == IF r.owner = p THEN [r EXCEPT !.owner = Dead] ELSE r

Vanish(p) ==
  /\ live' = live \ {p}
  /\ row' = Bury(row, p)
  /\ pend' = [q \in Proc |-> IF q = p THEN Unread ELSE [pend[q] EXCEPT !.row = Bury(@, p)]]
  /\ block' = [block EXCEPT ![p] = NoBlock]
  /\ call' = [call EXCEPT ![p] = [c \in Call |-> "idle"]]
  /\ keepers' = [keepers EXCEPT ![p] = 0]
  /\ active' = [active EXCEPT ![p] = None]
  /\ agent' = [agent EXCEPT ![p] = FALSE]

Crash(p) == p \in live /\ Vanish(p)

Exit(p) ==
  /\ p \in live /\ InBlock(p) /\ Head(block[p].ops) = "exit"
  /\ Vanish(p)

Restart(p) ==
  /\ p \notin live
  /\ live' = live \cup {p}
  /\ UNCHANGED <<row, call, active, keepers, agent, block, pend>>

Age(r) == [r EXCEPT !.left = IF @ = 0 THEN 0 ELSE @ - 1]

\* One renew interval passes.  Unless Stall, a synchronous stretch takes no
\* time, and before the lease runs out an armed timer of its owner fires and a
\* session that its owner opens is open.
Tick ==
  /\ row.left > 0
  /\ Stall \/ /\ \A p \in Proc : ~Busy(p)
              /\ row.left = 1 /\ row.owner \in Proc =>
                   keepers[row.owner] = 0 /\ ~Underway(row.owner)
  /\ row' = Age(row)
  /\ pend' = [p \in Proc |-> [pend[p] EXCEPT !.row = Age(@)]]
  /\ UNCHANGED <<live, call, active, keepers, agent, block>>

-----------------------------------------------------------------------------
Init ==
  /\ row = EmptyRow
  /\ live = Proc
  /\ call = [p \in Proc |-> [c \in Call |-> "idle"]]
  /\ active = [p \in Proc |-> None]
  /\ keepers = [p \in Proc |-> 0]
  /\ agent = [p \in Proc |-> FALSE]
  /\ block = [p \in Proc |-> NoBlock]
  /\ pend = [p \in Proc |-> Unread]

Request(p, c) ==
  \/ Start(p, c) \/ Opened(p, c) \/ OpenedReset(p, c) \/ OpenFailed(p, c)
  \/ Prompted(p, c) \/ PromptFailed(p, c)

Event(p) ==
  \/ Stop(p) \/ Settle(p) \/ Beat(p) \/ Note(p) \/ Shutdown(p)
  \/ \E e \in Edit : UserEdit(p, e)

Access(p) == Read(p) \/ Save(p) \/ Exit(p)

Next ==
  \/ \E p \in Proc : \E c \in Call : Request(p, c)
  \/ \E p \in Proc : Event(p) \/ Access(p) \/ Crash(p) \/ Restart(p)
  \/ Tick

Spec == Init /\ [][Next]_vars

\* The event loop runs what it has begun; opening a session and handing over a
\* prompt end one way or the other; timers fire; time passes.
Proceed(p, c) ==
  Opened(p, c) \/ OpenFailed(p, c) \/ Prompted(p, c) \/ PromptFailed(p, c)

Fairness ==
  /\ \A p \in Proc : SF_vars(Access(p))
  /\ \A p \in Proc, c \in Call : SF_vars(Proceed(p, c))
  /\ SF_vars(Tick)

FairSpec == Spec /\ Fairness

-----------------------------------------------------------------------------
TypeOK ==
  /\ row \in Row
  /\ live \in SUBSET Proc
  /\ call \in [Proc -> [Call -> CallState]]
  /\ active \in [Proc -> Call \cup {None}]
  /\ keepers \in [Proc -> Nat]
  /\ agent \in [Proc -> BOOLEAN]
  /\ block \in [Proc -> Block]
  /\ pend \in [Proc -> Pending]

\* The lease does what it is for: no two processes run the task.
MutualExclusion ==
  \A p, q \in Proc : Running(p) /\ Running(q) => p = q

\* TaskLease implements the promise of TaskExclusion: whoever runs the task holds an
\* unexpired lease all the while, so that only its own end, its failure or its death
\* gives the lease up, and a process takes it over from nobody who still holds it,
\* a process that died included.
Exclusion == INSTANCE TaskExclusion WITH
  holder  <- IF row.left > 0 THEN row.owner ELSE Nobody,
  running <- {p \in Proc : Running(p)}
ImplementsExclusion == Exclusion!Spec

\* The schedule under which the lease can do it.
Orderly == ~Interleave /\ ~Stall /\ ~Reenter

Owned(p) == row.owner = p /\ row.left > 0

\* A process has one request at a time; its run is active while the prompt is
\* handed over and not before.
OneRequest(p) ==
  /\ \A c, d \in Call : call[p][c] # "idle" /\ call[p][d] # "idle" => c = d
  /\ \A c \in Call : /\ call[p][c] \in {"acquiring", "opening"} => active[p] = None
                     /\ call[p][c] = "prompting" => active[p] = c

\* A stretch that leads to a run has the lease from its acquire on; one that
\* gives the lease up belongs to a process that does not run the task.
BlockInv(p) ==
  LET b == block[p]
  IN InBlock(p) =>
       /\ b.call # None =>
            active[p] = None /\ \A d \in Call \ {b.call} : call[p][d] = "idle"
       /\ b.then # "idle" =>
            \/ b.ops \in {<<"acquire">>, <<"acquire", "step">>}
            \/ b.ops = <<"step">> /\ Owned(p)
       /\ (\E i \in DOMAIN b.ops : b.ops[i] \in {"release", "mark"}) => ~Running(p)

\* What a process is about to save is a change of the row as it still is.
PendInv(p) ==
  LET op == Head(block[p].ops)
  IN pend[p].loaded =>
       /\ InBlock(p)
       /\ ~Denied(op, row, p) /\ ~NoWrite(op, row, p)
       /\ pend[p].rev = row.rev
       /\ pend[p].row = Change(op, row, p, block[p].edit)

\* Whoever runs the task holds an unexpired lease, and only the active run
\* renews it.
LeaseAt(p) ==
  /\ Running(p) => Owned(p)
  /\ OneRequest(p) /\ BlockInv(p) /\ PendInv(p)
  /\ keepers[p] = Listed(p)

\* One process at a time is inside a synchronous stretch.
Alone == \A p, q \in Proc : Busy(p) /\ Busy(q) => p = q

\* What makes the lease exclusive in an orderly schedule.
LeaseInv == Alone /\ \A p \in Proc : LeaseAt(p)

\* Optimistic concurrency: whatever interleaving of heartbeats, lease writes,
\* step changes and edits by any process, an edit that was saved is never
\* overwritten by a record read before it.
NoLostEdit == [][row.edits \subseteq row'.edits]_row

\* Edits are numbered by the revision: content changes only with it.
RevisionNamesContent ==
  [][row'.rev >= row.rev /\ (row'.edits # row.edits => row'.rev > row.rev)]_row

\* Only the run that TaskRunner.active lists keeps renewing the lease.
NoOrphanKeeper == \A p \in Proc : keepers[p] <= Listed(p)

\* A timer that TaskRunner.active does not list is left behind by one thing only: a
\* request that arms its own while the process already runs the task.  A rejected
\* prompt, a failed open, a stop, a settled run leave none, in whatever order they
\* meet, and none of them gets rid of one: that takes the end of the process.
OrphansByReentry ==
  [][\A p \in Proc : LET orphans == keepers[p] - Listed(p)
                     IN orphans' # orphans =>
        \/ /\ orphans' = orphans + 1 /\ active[p] # None
           /\ \E c \in Call : call[p][c] # "prompting" /\ call'[p][c] = "prompting"
        \/ p \notin live']_vars

\* A crashed holder does not keep the task from the others forever.
DeadHolderYields ==
  \A p \in Proc : (row.owner = Dead /\ HeldByOther(row, p)) ~> ~HeldByOther(row, p)

\* A start or resume request ends.
RequestsEnd ==
  \A p \in Proc, c \in Call : call[p][c] # "idle" ~> call[p][c] = "idle"
=============================================================================
