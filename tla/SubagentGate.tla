---------------------------- MODULE SubagentGate ----------------------------
(***************************************************************************)
(* SubagentService: a delegation (a call of the subagent tool) gets a slot *)
(* at once or waits in a FIFO queue, runs a child session of its own under *)
(* a time limit, and gives the slot back.  A session is named by its path: *)
(* <<"a">> is a session of a user, <<"a", "x">> the child session of its   *)
(* delegation x, <<"a", "x", "y">> a child of that child.  A delegation    *)
(* bears the name of the child session it runs.                            *)
(* Init, Next and Spec are GateInit, GateNext and GateSpec, so that this   *)
(* module can be extended beside another specification.                   *)
(***************************************************************************)
EXTENDS Naturals, FiniteSets, SequencesExt

CONSTANTS Calls,          \* the delegations that are ever made, each once
          MaxDepth,       \* limits.maxDepth
          MaxConcurrent,  \* limits.maxConcurrent
          MaxPerParent    \* limits.maxPerParent

Parent(c) == Front(c)
Sessions  == {Parent(c) : c \in Calls}
Depth(c)  == Len(c) - 1

\* of each session: the delegations made in it and, in turn, in their children
Beneath == [p \in Sessions \cup Calls |-> {c \in Calls : IsStrictPrefix(p, c)}]

ASSUME GateAssumption ==
    /\ IsFiniteSet(Calls)
    /\ \A c \in Calls : Len(c) >= 2 /\ (Len(c) > 2 => Parent(c) \in Calls)
    /\ MaxDepth \in Nat /\ MaxConcurrent \in Nat \ {0} /\ MaxPerParent \in Nat \ {0}

VARIABLES
    phase,     \* of each call: idle, resolving (its model), queued, granted (creates the
               \* child session), running (the child's prompt), closing, done
    ahead,     \* of each queued call: the calls before it in waiters
    unseen,    \* the waiters a drain still has to look at; {} when none is under way
    active,    \* active
    byParent,  \* activeByParent
    stopped,   \* the calls whose outcome.status is set (aborted, timeout or over budget)
    signal     \* the calls whose AbortSignal is aborted

gateVars == <<phase, ahead, unseen, active, byParent, stopped, signal>>

Phases   == {"idle", "resolving", "queued", "granted", "running", "closing", "done"}

In(st)  == {c \in Calls : phase[c] = st}
Queued  == In("queued")
Holding == In("granted") \cup In("running")
Live(c) == phase[c] \in Phases \ {"idle", "done"}
Nested(c) == {d \in Calls : Parent(d) = c /\ Live(d)}
-----------------------------------------------------------------------------
(* The slots.  JavaScript runs a drain without a pause: no other action    *)
(* happens while unseen is not empty.                                      *)
CanStart(p) == active < MaxConcurrent /\ byParent[p] < MaxPerParent

TakeSlot(c) ==
    /\ active' = active + 1
    /\ byParent' = [byParent EXCEPT ![Parent(c)] = @ + 1]

\* Fault: the release does not wake the queue.
SilentReleaseFault(c) ==
    /\ active' = active - 1
    /\ byParent' = [byParent EXCEPT ![Parent(c)] = IF @ <= 1 THEN 0 ELSE @ - 1]
    /\ UNCHANGED unseen

ReleaseSlot(c) ==
    /\ active' = active - 1
    /\ byParent' = [byParent EXCEPT ![Parent(c)] = IF @ <= 1 THEN 0 ELSE @ - 1]
    /\ unseen' = Queued

Leave(c, st) ==
    /\ phase' = [phase EXCEPT ![c] = st]
    /\ ahead' = [d \in Calls |-> IF d = c THEN {} ELSE ahead[d] \ {c}]

\* Fault: the scan ends at the first waiter that cannot start.
HeadOfLineFault(w) ==
    /\ w \in unseen /\ ahead[w] \cap unseen = {}
    /\ IF CanStart(Parent(w)) THEN Leave(w, "granted") /\ TakeSlot(w) /\ unseen' = unseen \ {w}
       ELSE unseen' = {} /\ UNCHANGED <<phase, ahead, active, byParent>>
    /\ UNCHANGED <<stopped, signal>>

\* Fault: the scan begins at the end of the queue.
LastFirstFault(w) ==
    /\ w \in unseen /\ \A d \in unseen : w \notin ahead[d]
    /\ unseen' = unseen \ {w}
    /\ IF CanStart(Parent(w)) THEN Leave(w, "granted") /\ TakeSlot(w)
       ELSE UNCHANGED <<phase, ahead, active, byParent>>
    /\ UNCHANGED <<stopped, signal>>

\* drain: the next waiter of the scan
Look(w) ==
    /\ w \in unseen /\ ahead[w] \cap unseen = {}
    /\ unseen' = unseen \ {w}
    /\ IF CanStart(Parent(w)) THEN Leave(w, "granted") /\ TakeSlot(w)
       ELSE UNCHANGED <<phase, ahead, active, byParent>>
    /\ UNCHANGED <<stopped, signal>>

\* acquireSlot, once the model of the preset is known
Acquire(c) ==
    /\ phase[c] = "resolving"
    /\ IF CanStart(Parent(c))
       THEN phase' = [phase EXCEPT ![c] = "granted"] /\ TakeSlot(c) /\ UNCHANGED ahead
       ELSE /\ UNCHANGED <<active, byParent>>
            /\ IF c \in signal THEN phase' = [phase EXCEPT ![c] = "done"] /\ UNCHANGED ahead
               ELSE phase' = [phase EXCEPT ![c] = "queued"] /\ ahead' = [ahead EXCEPT ![c] = Queued]
    /\ UNCHANGED <<unseen, stopped, signal>>
-----------------------------------------------------------------------------
(* A call (SubagentService.run).                                           *)

\* The session that may call the subagent tool: a user's whose turn is not
\* aborted, or a child that runs and is above the depth limit.
MayCall(p) == IF Len(p) = 1 THEN Nested(p) \cap signal = {}
              ELSE phase[p] = "running" /\ p \notin stopped

Ask(c) ==
    /\ phase[c] = "idle" /\ Depth(c) <= MaxDepth /\ MayCall(Parent(c))
    /\ phase' = [phase EXCEPT ![c] = "resolving"]
    /\ UNCHANGED <<ahead, unseen, active, byParent, stopped, signal>>

\* an unknown preset, or a model that cannot be resolved
Refuse(c) ==
    /\ phase[c] = "resolving"
    /\ phase' = [phase EXCEPT ![c] = "done"]
    /\ UNCHANGED <<ahead, unseen, active, byParent, stopped, signal>>

\* createChild succeeds: running.set, timer, listeners, prompt
Created(c) ==
    /\ phase[c] = "granted"
    /\ phase' = [phase EXCEPT ![c] = "running"]
    /\ UNCHANGED <<ahead, unseen, active, byParent, stopped, signal>>

\* Fault: a child that cannot be created keeps its slot.
LeakFault(c) ==
    /\ phase[c] = "granted"
    /\ phase' = [phase EXCEPT ![c] = "done"]
    /\ UNCHANGED <<ahead, unseen, active, byParent, stopped, signal>>

CreateFailed(c) ==
    /\ phase[c] = "granted"
    /\ phase' = [phase EXCEPT ![c] = "done"]
    /\ ReleaseSlot(c)
    /\ UNCHANGED <<ahead, stopped, signal>>

\* the prompt returns, in success or failure, after the child's own tools
Return(c) ==
    /\ phase[c] = "running" /\ Nested(c) = {}
    /\ phase' = [phase EXCEPT ![c] = "closing"]
    /\ ReleaseSlot(c)
    /\ UNCHANGED <<ahead, stopped, signal>>

\* registry.remove(child) is over and run answers
Close(c) ==
    /\ phase[c] = "closing"
    /\ phase' = [phase EXCEPT ![c] = "done"]
    /\ UNCHANGED <<ahead, unseen, active, byParent, stopped, signal>>
-----------------------------------------------------------------------------
(* Stopping.                                                               *)

\* the calls whose signal fires when the turn of session p is aborted
Below(p) ==
    {c \in Calls \ signal : /\ Live(c) /\ c \in Beneath[p]
                            /\ ~\E q \in signal : q \in Beneath[p] /\ c \in Beneath[q]}

\* The running children among direct are stopped and those whose signal fires
\* (reached); the waiters among dropped and reached leave the queue.
Cancel(direct, reached, dropped) ==
    LET gone == Queued \cap (reached \cup dropped)
    IN  /\ signal' = signal \cup reached
        /\ stopped' = stopped \cup (In("running") \cap (direct \cup reached))
        /\ phase' = [c \in Calls |-> IF c \in gone THEN "done" ELSE phase[c]]
        /\ ahead' = [c \in Calls |-> IF c \in gone THEN {} ELSE ahead[c] \ gone]
        /\ UNCHANGED <<unseen, active, byParent>>

Stoppable == In("running") \ stopped

\* the timer of the call fires, or the child's turns, tokens or cost pass the budget
Stop(c) == c \in Stoppable /\ Cancel({c}, Below(c), {})

\* the user aborts the turn of a session
AbortTurn(p) == Len(p) = 1 /\ Below(p) # {} /\ Cancel({}, Below(p), {})

AbortAll(p) ==
    LET direct == {c \in Stoppable : Parent(c) = p}
    IN  Cancel(direct, UNION {Below(c) : c \in direct}, {c \in Queued : Parent(c) = p})

AbortAllSessions == Cancel(Stoppable, UNION {Below(c) : c \in Stoppable}, Queued)
-----------------------------------------------------------------------------
GateInit ==
    /\ phase = [c \in Calls |-> "idle"]
    /\ ahead = [c \in Calls |-> {}]
    /\ unseen = {}
    /\ active = 0 /\ byParent = [p \in Sessions |-> 0]
    /\ stopped = {} /\ signal = {}

Drain == \E w \in Calls : Look(w)

\* what a call does by itself
Proceed(c) ==
    /\ unseen = {}
    /\ \/ Acquire(c) \/ Refuse(c) \/ Created(c) \/ CreateFailed(c) \/ Close(c)
       \/ Stop(c)
       \/ c \in stopped /\ Return(c)

\* what the child, the model and the user may do
Happen ==
    /\ unseen = {}
    /\ \/ \E c \in Calls : Ask(c) \/ Return(c)
       \/ \E p \in Sessions : AbortTurn(p) \/ AbortAll(p)
       \/ AbortAllSessions

GateNext == Drain \/ Happen \/ \E c \in Calls : Proceed(c)
GateSpec == GateInit /\ [][GateNext]_gateVars
FairSpec == GateSpec /\ WF_gateVars(Drain) /\ \A c \in Calls : WF_gateVars(Proceed(c))
-----------------------------------------------------------------------------
GateTypeOK ==
    /\ phase \in [Calls -> Phases] /\ stopped \subseteq Calls
    /\ ahead \in [Calls -> SUBSET Queued] /\ unseen \subseteq Queued /\ signal \subseteq Calls
    /\ active \in Nat /\ byParent \in [Sessions -> Nat]
    /\ \A c \in Calls : c \notin ahead[c] /\ (phase[c] # "queued" => ahead[c] = {})
    /\ \A c, d \in Queued : c # d => (c \in ahead[d] <=> d \notin ahead[c])

\* The counters of the gate are the calls that hold a slot, whichever way each
\* call ends (takeSlot, releaseSlot), so no slot leaks and none is given twice,
\* and the limits bound the calls themselves.
SlotsCounted ==
    /\ active = Cardinality(Holding)
    /\ \A p \in Sessions : byParent[p] = Cardinality({c \in Holding : Parent(c) = p})
    /\ active <= MaxConcurrent /\ \A p \in Sessions : byParent[p] <= MaxPerParent

\* No waiter that a drain has passed could start: a slot never stays unused
\* while a call waits for it (acquireSlot, drain).
NobodyWaitsInVain == \A c \in Queued \ unseen : ~CanStart(Parent(c))

\* A call that is granted a slot overtakes only calls of other parents, each
\* held back by the limit of its parent (drain: "skip the parents that miss
\* out, so that they starve nobody").
OvertakesOnlyTheBlocked ==
    [][\A c \in Calls : phase[c] # "granted" /\ phase'[c] = "granted" =>
          \A d \in (IF phase[c] = "queued" THEN ahead[c] ELSE Queued) :
             Parent(d) # Parent(c) /\ byParent[Parent(d)] >= MaxPerParent]_gateVars

\* Every call answers in the end: a timer bounds each child, a stopped child
\* takes its nested calls along, and each end wakes the queue (run, drain).
\* Each delegation is made at most once, so all that were made have answered
\* when none is live any more.
EveryCallAnswers == <>[](\A c \in Calls : ~Live(c))
=============================================================================
