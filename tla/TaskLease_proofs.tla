--------------------------- MODULE TaskLease_proofs ---------------------------
(***************************************************************************)
(* Proofs about TaskLease for every set of processes, requests and edits.  *)
(***************************************************************************)
EXTENDS TaskLease, SequenceTheorems, TLAPS

-----------------------------------------------------------------------------
(* Type correctness.  It rests on what the timers owe to TaskRunner.active:  *)
(* the listed run has one, so that disarming it is possible, and a run whose *)
(* prompt is handed over is the listed one, outside any synchronous stretch. *)

TimerAt(p) ==
  /\ Listed(p) <= keepers[p]
  /\ \A c \in Call : call[p][c] = "prompting" => active[p] = c /\ ~InBlock(p)

TimerInv == \A p \in Proc : TimerAt(p)

\* Every stretch that begins is well typed, and nothing of it has been read.
LEMMA BeginType ==
  ASSUME TypeOK, NEW p \in Proc, NEW ops \in Seq(Ops), NEW c \in Call \cup {None},
         NEW then \in CallState, NEW e \in SUBSET Edit, Begin(p, ops, c, then, e)
  PROVE  block' \in [Proc -> Block] /\ pend' \in [Proc -> Pending]
<1>1. [ops |-> ops, call |-> c, then |-> then, edit |-> e] \in Block
  BY DEF Block
<1>2. Unread \in Pending
  BY LeaseAssumption DEF Unread, Pending, EmptyRow, Row, Owner
<1>3. QED
  BY <1>1, <1>2 DEF Begin, TypeOK

\* Stretches that add no user edit.
LEMMA BeginPlainType ==
  ASSUME TypeOK, NEW p \in Proc, NEW ops \in Seq(Ops), NEW c \in Call \cup {None},
         NEW then \in CallState, Begin(p, ops, c, then, {})
  PROVE  block' \in [Proc -> Block] /\ pend' \in [Proc -> Pending]
<1>1. {} \in SUBSET Edit
  OBVIOUS
<1>2. QED
  BY <1>1, BeginType

\* The stretches the actions begin are sequences of operations.
LEMMA OpsType ==
  /\ <<"acquire">> \in Seq(Ops) /\ <<"acquire", "step">> \in Seq(Ops)
  /\ <<"acquire", "release", "mark">> \in Seq(Ops)
  /\ <<"step">> \in Seq(Ops) /\ <<"release">> \in Seq(Ops)
  /\ <<"release", "mark">> \in Seq(Ops) /\ <<"touch">> \in Seq(Ops)
  /\ <<"touch", "release">> \in Seq(Ops) /\ <<"renew">> \in Seq(Ops)
  /\ <<"edit">> \in Seq(Ops) /\ <<"exit">> \in Seq(Ops)
  /\ <<"release", "exit">> \in Seq(Ops)
  BY DEF Ops, KeepOps, BumpOps

LEMMA ContinueType ==
  ASSUME TypeOK, NEW p \in Proc, NEW rest \in Seq(Ops), NEW st \in CallState,
         Continue(p, rest, st)
  PROVE  /\ block' \in [Proc -> Block] /\ pend' \in [Proc -> Pending]
         /\ call' \in [Proc -> [Call -> CallState]]
         /\ keepers' \in [Proc -> Nat]
         /\ active' \in [Proc -> Call \cup {None}]
<1>1. NoBlock \in Block /\ Unread \in Pending
  BY LeaseAssumption DEF NoBlock, Block, CallState, Unread, Pending, EmptyRow, Row, Owner
<1>2. block[p] \in Block /\ [block[p] EXCEPT !.ops = rest] \in Block
  BY DEF TypeOK, Block
<1>3. block' \in [Proc -> Block]
  BY <1>1, <1>2 DEF Continue, TypeOK
<1>4. pend' \in [Proc -> Pending]
  BY <1>1 DEF Continue, TypeOK
<1>5. block[p].call \in Call \cup {None}
  BY <1>2 DEF Block
<1>6. call' \in [Proc -> [Call -> CallState]]
  BY <1>5 DEF Continue, TypeOK
<1>7. keepers' \in [Proc -> Nat] /\ active' \in [Proc -> Call \cup {None}]
  BY <1>5 DEF Continue, TypeOK
<1>8. QED
  BY <1>3, <1>4, <1>6, <1>7

\* What is left of a stretch after its first call.
LEMMA RestType ==
  ASSUME TypeOK, NEW p \in Proc, InBlock(p)
  PROVE  /\ Head(block[p].ops) \in Ops
         /\ Tail(block[p].ops) \in Seq(Ops)
         /\ block[p].then \in CallState
         /\ block[p].edit \in SUBSET Edit
  BY HeadTailProperties DEF TypeOK, Block, InBlock

LEMMA SucceedType ==
  ASSUME TypeOK, NEW p \in Proc, InBlock(p), Succeed(p) \/ Throw(p)
  PROVE  /\ block' \in [Proc -> Block] /\ pend' \in [Proc -> Pending]
         /\ call' \in [Proc -> [Call -> CallState]]
         /\ keepers' \in [Proc -> Nat]
         /\ active' \in [Proc -> Call \cup {None}]
<1>1. CASE Succeed(p)
  BY <1>1, RestType, ContinueType DEF Succeed
<1>2. CASE Throw(p)
  <2>1. PICK rest \in Seq(Ops) : Continue(p, rest, "idle")
    <3>1. <<>> \in Seq(Ops)
      OBVIOUS
    <3>2. QED
      BY <1>2, <3>1, RestType DEF Throw
  <2>2. "idle" \in CallState
    BY DEF CallState
  <2>3. QED
    BY <2>1, <2>2, ContinueType
<1>3. QED
  BY <1>1, <1>2

\* The callback of mutate keeps the record well formed and its revision.
LEMMA ChangeType ==
  ASSUME NEW r \in Row, NEW p \in Proc, NEW op \in Ops, NEW e \in SUBSET Edit
  PROVE  /\ Change(op, r, p, e) \in Row
         /\ Change(op, r, p, e).rev = r.rev
         /\ r.edits \subseteq Change(op, r, p, e).edits
         /\ op # "edit" => Change(op, r, p, e).edits = r.edits
<1>1. TTL \in 0..TTL /\ 0 \in 0..TTL
  BY LeaseAssumption
<1>2. CASE op \in {"acquire", "renew"}
  <2>1. Change(op, r, p, e) = [r EXCEPT !.owner = p, !.left = TTL]
    BY <1>2 DEF Change
  <2>2. QED
    BY <1>1, <1>2, <2>1 DEF Row, Owner
<1>3. CASE op = "release" \/ (op = "mark" /\ r.owner = p)
  <2>1. Change(op, r, p, e) = [r EXCEPT !.owner = Nobody, !.left = 0]
    BY <1>3 DEF Change, NoLease
  <2>2. QED
    BY <1>1, <1>3, <2>1 DEF Row, Owner
<1>4. CASE op = "edit"
  <2>1. Change(op, r, p, e) = [r EXCEPT !.edits = @ \cup e]
    BY <1>4 DEF Change
  <2>2. QED
    BY <1>4, <2>1 DEF Row
<1>5. CASE op \notin {"acquire", "renew", "release", "edit"} /\ ~(op = "mark" /\ r.owner = p)
  <2>1. Change(op, r, p, e) = r
    BY <1>5 DEF Change
  <2>2. QED
    BY <1>5, <2>1
<1>6. QED
  BY <1>2, <1>3, <1>4, <1>5

LEMMA AgeType ==
  ASSUME NEW r \in Row
  PROVE  /\ Age(r) \in Row /\ Age(r).rev = r.rev /\ Age(r).edits = r.edits
         /\ Age(r).owner = r.owner
<1>1. r.left \in 0..TTL /\ (r.left # 0 => r.left - 1 \in 0..TTL) /\ 0 \in 0..TTL
  BY LeaseAssumption DEF Row
<1>2. QED
  BY <1>1 DEF Age, Row

LEMMA BuryType ==
  ASSUME NEW r \in Row, NEW p \in Proc
  PROVE  /\ Bury(r, p) \in Row /\ Bury(r, p).rev = r.rev /\ Bury(r, p).edits = r.edits
         /\ Bury(r, p).left = r.left
  BY DEF Bury, Row, Owner

LEMMA ReadType ==
  ASSUME TypeOK, NEW p \in Proc, Read(p)
  PROVE  TypeOK'
<1> DEFINE op == Head(block[p].ops)
<1>1. InBlock(p) /\ UNCHANGED <<row, live, agent>>
  BY DEF Read
<1>2. CASE Throw(p) \/ Succeed(p)
  BY <1>1, <1>2, SucceedType DEF TypeOK
<1>3. CASE /\ pend' = [pend EXCEPT ![p] =
                         [loaded |-> TRUE, tries |-> @.tries + 1, rev |-> row.rev,
                          row |-> Change(op, row, p, block[p].edit)]]
           /\ UNCHANGED <<block, call, keepers, active>>
  <2>1. Change(op, row, p, block[p].edit) \in Row
    BY <1>1, RestType, ChangeType DEF TypeOK
  <2>2. pend[p].tries + 1 \in Nat /\ row.rev \in Nat
    BY DEF TypeOK, Pending, Row
  <2>3. QED
    BY <1>1, <1>3, <2>1, <2>2 DEF TypeOK, Pending
<1>4. QED
  BY <1>1, <1>2, <1>3 DEF Read

LEMMA SaveType ==
  ASSUME TypeOK, NEW p \in Proc, Save(p)
  PROVE  TypeOK'
<1> DEFINE op == Head(block[p].ops)
<1>1. InBlock(p) /\ UNCHANGED <<live, agent>>
  BY DEF Save
<1>2. CASE row' = [pend[p].row EXCEPT !.rev = row.rev + Bump(op)] /\ Succeed(p)
  <2>1. row' \in Row
    <3>1. pend[p].row \in Row /\ row.rev + Bump(op) \in Nat
      BY DEF TypeOK, Pending, Row, Bump
    <3>2. QED
      BY <1>2, <3>1 DEF Row
  <2>2. QED
    BY <1>1, <1>2, <2>1, SucceedType DEF TypeOK
<1>3. CASE /\ pend' = [pend EXCEPT ![p].loaded = FALSE]
           /\ UNCHANGED <<row, block, call, keepers, active>>
  BY <1>1, <1>3 DEF TypeOK, Pending
<1>4. CASE Throw(p) /\ UNCHANGED row
  BY <1>1, <1>4, SucceedType DEF TypeOK
<1>5. QED
  BY <1>2, <1>3, <1>4 DEF Save

LEMMA VanishType ==
  ASSUME TypeOK, NEW p \in Proc, Vanish(p)
  PROVE  TypeOK'
<1>1. NoBlock \in Block /\ Unread \in Pending
  BY LeaseAssumption DEF NoBlock, Block, CallState, Unread, Pending, EmptyRow, Row, Owner
<1>2. row' \in Row
  BY BuryType DEF Vanish, TypeOK
<1>3. ASSUME NEW q \in Proc
      PROVE  [pend[q] EXCEPT !.row = Bury(@, p)] \in Pending
  <2>1. pend[q] \in Pending /\ Bury(pend[q].row, p) \in Row
    BY BuryType DEF TypeOK, Pending
  <2>2. QED
    BY <2>1 DEF Pending
<1>4. pend' \in [Proc -> Pending]
  BY <1>1, <1>3 DEF Vanish
<1>5. block' \in [Proc -> Block] /\ call' \in [Proc -> [Call -> CallState]]
  BY <1>1 DEF Vanish, TypeOK, CallState
<1>6. QED
  BY <1>2, <1>4, <1>5 DEF Vanish, TypeOK

LEMMA TickType ==
  ASSUME TypeOK, Tick
  PROVE  TypeOK'
<1>1. row' \in Row
  BY AgeType DEF Tick, TypeOK
<1>2. ASSUME NEW q \in Proc
      PROVE  [pend[q] EXCEPT !.row = Age(@)] \in Pending
  <2>1. pend[q] \in Pending /\ Age(pend[q].row) \in Row
    BY AgeType DEF TypeOK, Pending
  <2>2. QED
    BY <2>1 DEF Pending
<1>3. QED
  BY <1>1, <1>2 DEF Tick, TypeOK

LEMMA RequestType ==
  ASSUME TypeOK, TimerInv, NEW p \in Proc, NEW c \in Call, Request(p, c)
  PROVE  TypeOK'
<1>1. /\ {"idle", "acquiring", "opening", "prompting"} = CallState
      /\ c \in Call \cup {None} /\ None \in Call \cup {None}
  BY DEF CallState
<1>2. CASE Start(p, c)
  <2>1. block' \in [Proc -> Block] /\ pend' \in [Proc -> Pending]
    BY <1>1, <1>2, BeginPlainType, OpsType DEF Start
  <2>2. QED
    BY <1>1, <1>2, <2>1 DEF Start, TypeOK
<1>3. CASE Opened(p, c)
  BY <1>1, <1>3 DEF Opened, TypeOK
<1>4. CASE OpenedReset(p, c)
  <2>1. block' \in [Proc -> Block] /\ pend' \in [Proc -> Pending]
    BY <1>1, <1>4, BeginPlainType, OpsType DEF OpenedReset
  <2>2. QED
    BY <1>1, <1>4, <2>1 DEF OpenedReset, TypeOK
<1>5. CASE OpenFailed(p, c)
  <2>1. block' \in [Proc -> Block] /\ pend' \in [Proc -> Pending]
    BY <1>1, <1>5, BeginPlainType, OpsType DEF OpenFailed
  <2>2. call' \in [Proc -> [Call -> CallState]]
    BY <1>1, <1>5 DEF OpenFailed, TypeOK
  <2>3. QED
    BY <1>5, <2>1, <2>2 DEF OpenFailed, TypeOK
<1>6. CASE Prompted(p, c)
  BY <1>1, <1>6 DEF Prompted, TypeOK
<1>7. CASE PromptFailed(p, c)
  <2>1. block' \in [Proc -> Block] /\ pend' \in [Proc -> Pending]
    BY <1>1, <1>7, BeginPlainType, OpsType DEF PromptFailed
  <2>2. keepers[p] - 1 \in Nat
    BY <1>7, LeaseAssumption DEF PromptFailed, TimerInv, TimerAt, Listed, TypeOK
  <2>3. QED
    BY <1>1, <1>7, <2>1, <2>2 DEF PromptFailed, TypeOK
<1>8. QED
  BY <1>2, <1>3, <1>4, <1>5, <1>6, <1>7 DEF Request

LEMMA EventType ==
  ASSUME TypeOK, TimerInv, NEW p \in Proc, Event(p)
  PROVE  TypeOK'
<1>1. "idle" \in CallState /\ None \in Call \cup {None} /\ keepers[p] - Listed(p) \in Nat
  BY DEF CallState, TimerInv, TimerAt, Listed, TypeOK
<1>2. CASE Stop(p)
  <2>1. block' \in [Proc -> Block] /\ pend' \in [Proc -> Pending]
    BY <1>1, <1>2, BeginPlainType, OpsType DEF Stop
  <2>2. QED
    BY <1>1, <1>2, <2>1 DEF Stop, DropActive, TypeOK
<1>3. CASE Settle(p)
  <2>1. block' \in [Proc -> Block] /\ pend' \in [Proc -> Pending]
    BY <1>1, <1>3, BeginPlainType, OpsType DEF Settle
  <2>2. QED
    BY <1>1, <1>3, <2>1 DEF Settle, DropActive, TypeOK
<1>4. CASE Note(p)
  <2>1. block' \in [Proc -> Block] /\ pend' \in [Proc -> Pending]
    BY <1>1, <1>4, BeginPlainType, OpsType DEF Note
  <2>2. QED
    BY <1>1, <1>4, <2>1 DEF Note, TypeOK
<1>5. CASE Shutdown(p)
  <2>1. block' \in [Proc -> Block] /\ pend' \in [Proc -> Pending]
    BY <1>1, <1>5, BeginPlainType, OpsType DEF Shutdown
  <2>2. QED
    BY <1>1, <1>5, <2>1 DEF Shutdown, DropActive, TypeOK
<1>6. ASSUME NEW e \in Edit, UserEdit(p, e)
      PROVE  TypeOK'
  <2>1. {e} \in SUBSET Edit
    BY <1>6
  <2>2. block' \in [Proc -> Block] /\ pend' \in [Proc -> Pending]
    BY <1>1, <1>6, <2>1, BeginType, OpsType DEF UserEdit
  <2>3. QED
    BY <1>6, <2>2 DEF UserEdit, TypeOK
<1>7. CASE Beat(p)
  <2>1. block' \in [Proc -> Block] /\ pend' \in [Proc -> Pending]
    BY <1>1, <1>7, BeginPlainType, OpsType DEF Beat
  <2>2. QED
    BY <1>1, <1>7, <2>1 DEF Beat, TypeOK
<1>8. QED
  BY <1>2, <1>3, <1>4, <1>5, <1>6, <1>7 DEF Event

LEMMA TypeInit == Init => TypeOK
<1>1. NoBlock \in Block /\ Unread \in Pending /\ EmptyRow \in Row
  BY LeaseAssumption DEF NoBlock, Block, CallState, Unread, Pending, EmptyRow, Row, Owner
<1>2. QED
  BY <1>1 DEF Init, TypeOK, CallState

LEMMA TypeStep == TypeOK /\ TimerInv /\ [Next]_vars => TypeOK'
<1> SUFFICES ASSUME TypeOK, TimerInv, [Next]_vars PROVE TypeOK'
  OBVIOUS
<1>1. CASE \E p \in Proc : \E c \in Call : Request(p, c)
  BY <1>1, RequestType
<1>2. CASE \E p \in Proc : Event(p)
  BY <1>2, EventType
<1>3. CASE \E p \in Proc : Access(p) \/ Crash(p)
  BY <1>3, ReadType, SaveType, VanishType DEF Access, Exit, Crash
<1>4. CASE \E p \in Proc : Restart(p)
  BY <1>4 DEF Restart, TypeOK
<1>5. CASE Tick
  BY <1>5, TickType
<1>6. CASE UNCHANGED vars
  BY <1>6 DEF vars, TypeOK
<1>7. QED
  BY <1>1, <1>2, <1>3, <1>4, <1>5, <1>6 DEF Next

-----------------------------------------------------------------------------
(* The timers *)

Orphans(p) == keepers[p] - Listed(p)

\* What the timers of a process may do in a step.
TimerStep(p) ==
  Orphans(p)' # Orphans(p) =>
    \/ /\ Orphans(p)' = Orphans(p) + 1 /\ active[p] # None
       /\ \E c \in Call : call[p][c] # "prompting" /\ call'[p][c] = "prompting"
    \/ p \notin live'

\* A step that leaves the timers of q alone.
LEMMA TimerSame ==
  ASSUME NEW q \in Proc, TimerAt(q), active'[q] = active[q], keepers'[q] = keepers[q],
         \A c \in Call : call'[q][c] = "prompting" => call[q][c] = "prompting" /\ ~InBlock(q)'
  PROVE  TimerAt(q)' /\ TimerStep(q)
  BY DEF TimerAt, TimerStep, Orphans, Listed

\* The same of a step of p that begins a stretch or none.
LEMMA TimerOther ==
  ASSUME NEW q \in Proc, TimerAt(q), active'[q] = active[q], keepers'[q] = keepers[q],
         call'[q] = call[q], block'[q] = block[q]
  PROVE  TimerAt(q)' /\ TimerStep(q)
  BY TimerSame DEF TimerAt, InBlock

\* A run enters TaskRunner.active in place of what was there, and its timer is armed.
LEMMA TimerEnter ==
  ASSUME TypeOK, NEW p \in Proc, TimerAt(p), NEW c \in Call,
         \A d \in Call : call[p][d] # "prompting",
         active'[p] = c, keepers'[p] = keepers[p] + 1,
         call'[p] = [call[p] EXCEPT ![c] = "prompting"], ~InBlock(p)'
  PROVE  TimerAt(p)' /\ TimerStep(p)
<1>1. c # None /\ keepers[p] \in Nat /\ call[p] \in [Call -> CallState]
  BY LeaseAssumption DEF TypeOK
<1>2. TimerAt(p)'
  BY <1>1 DEF TimerAt, Listed
<1>3. Orphans(p)' = keepers[p] /\ call[p][c] # "prompting" /\ call'[p][c] = "prompting"
  BY <1>1 DEF Orphans, Listed
<1>4. TimerStep(p)
  BY <1>1, <1>3 DEF TimerStep, Orphans, Listed
<1>5. QED
  BY <1>2, <1>4

\* The listed run leaves TaskRunner.active and its timer is disarmed.
LEMMA TimerLeave ==
  ASSUME TypeOK, NEW p \in Proc, TimerAt(p),
         active'[p] = None, keepers'[p] = keepers[p] - Listed(p),
         \A c \in Call : call'[p][c] # "prompting"
  PROVE  TimerAt(p)' /\ TimerStep(p)
<1>1. keepers[p] \in Nat /\ Listed(p) \in {0, 1}
  BY DEF TypeOK, Listed
<1>2. Listed(p)' = 0 /\ keepers'[p] >= 0
  BY <1>1 DEF TimerAt, Listed
<1>3. Orphans(p)' = Orphans(p)
  BY <1>1, <1>2 DEF Orphans
<1>4. QED
  BY <1>1, <1>2, <1>3 DEF TimerAt, TimerStep

LEMMA TimerContinue ==
  ASSUME TypeOK, NEW p \in Proc, NEW rest, NEW st, InBlock(p), Continue(p, rest, st),
         \A q \in Proc : TimerAt(q)
  PROVE  \A q \in Proc : TimerAt(q)' /\ TimerStep(q)
<1> DEFINE c == block[p].call
<1>1. \A q \in Proc \ {p} : TimerAt(q)' /\ TimerStep(q)
  BY TimerOther DEF Continue, TypeOK
<1>2. /\ \A d \in Call : call[p][d] # "prompting"
      /\ call[p] \in [Call -> CallState] /\ c \in Call \cup {None}
  BY DEF TimerAt, TypeOK, Block
<1>3. CASE rest = <<>> /\ c # None /\ st = "prompting"
  <2>1. /\ active'[p] = c /\ keepers'[p] = keepers[p] + 1
        /\ call'[p] = [call[p] EXCEPT ![c] = "prompting"] /\ block'[p] = NoBlock
    BY <1>2, <1>3 DEF Continue, TypeOK
  <2>2. ~InBlock(p)'
    BY <2>1 DEF InBlock, NoBlock
  <2>3. QED
    BY <1>1, <1>2, <1>3, <2>1, <2>2, TimerEnter
<1>4. CASE ~(rest = <<>> /\ c # None /\ st = "prompting")
  <2>1. /\ active'[p] = active[p] /\ keepers'[p] = keepers[p]
        /\ \A d \in Call : call'[p][d] # "prompting"
    BY <1>2, <1>4 DEF Continue, TypeOK
  <2>2. QED
    BY <1>1, <2>1, TimerSame
<1>5. QED
  BY <1>3, <1>4

LEMMA TimerAct ==
  ASSUME TypeOK, NEW p \in Proc, TimerAt(p),
         \/ \E c \in Call : Request(p, c)
         \/ Event(p)
  PROVE  TimerAt(p)' /\ TimerStep(p)
<1>1. /\ call[p] \in [Call -> CallState] /\ keepers[p] \in Nat
      /\ Ready(p) => (\A d \in Call : call[p][d] # "prompting") /\ ~InBlock(p)
  BY DEF TypeOK, Ready, Busy, Prompting
<1>2. ASSUME NEW c \in Call, Start(p, c) \/ OpenedReset(p, c) \/ OpenFailed(p, c)
      PROVE  TimerAt(p)' /\ TimerStep(p)
  <2>1. active'[p] = active[p] /\ keepers'[p] = keepers[p]
    BY <1>2 DEF Start, OpenedReset, OpenFailed
  <2>2. \A d \in Call : call'[p][d] # "prompting"
    BY <1>1, <1>2 DEF Start, OpenedReset, OpenFailed, TypeOK
  <2>3. QED
    BY <2>1, <2>2, TimerSame
<1>3. ASSUME NEW c \in Call, Opened(p, c)
      PROVE  TimerAt(p)' /\ TimerStep(p)
  <2>1. /\ active'[p] = c /\ keepers'[p] = keepers[p] + 1
        /\ call'[p] = [call[p] EXCEPT ![c] = "prompting"] /\ ~InBlock(p)'
        /\ \A d \in Call : call[p][d] # "prompting"
    BY <1>1, <1>3 DEF Opened, TypeOK, InBlock
  <2>2. QED
    BY <2>1, TimerEnter
<1>4. ASSUME NEW c \in Call, Prompted(p, c)
      PROVE  TimerAt(p)' /\ TimerStep(p)
  <2>1. /\ active'[p] = active[p] /\ keepers'[p] = keepers[p] /\ ~InBlock(p)'
        /\ call'[p] = [call[p] EXCEPT ![c] = "idle"]
    BY <1>1, <1>4 DEF Prompted, TypeOK, InBlock
  <2>2. \A d \in Call : call'[p][d] = "prompting" => call[p][d] = "prompting"
    BY <1>1, <2>1
  <2>3. QED
    BY <2>1, <2>2, TimerSame
<1>5. ASSUME NEW c \in Call, PromptFailed(p, c)
      PROVE  TimerAt(p)' /\ TimerStep(p)
  <2>1. active[p] = c /\ \A d \in Call \ {c} : call[p][d] # "prompting"
    BY <1>5 DEF PromptFailed, TimerAt
  <2>2. /\ active'[p] = None /\ keepers'[p] = keepers[p] - Listed(p)
        /\ \A d \in Call : call'[p][d] # "prompting"
    BY <1>1, <1>5, <2>1, LeaseAssumption DEF PromptFailed, Listed, TypeOK
  <2>3. QED
    BY <2>2, TimerLeave
<1>6. CASE Stop(p) \/ Settle(p) \/ Shutdown(p)
  <2>1. /\ active'[p] = None /\ keepers'[p] = keepers[p] - Listed(p) /\ call' = call
        /\ Ready(p)
    BY <1>6 DEF Stop, Settle, Shutdown, DropActive, TypeOK
  <2>2. QED
    BY <1>1, <2>1, TimerLeave
<1>7. CASE Beat(p) \/ Note(p) \/ \E e \in Edit : UserEdit(p, e)
  <2>1. active' = active /\ keepers' = keepers /\ call' = call /\ Ready(p)
    BY <1>7 DEF Beat, Note, UserEdit
  <2>2. QED
    BY <1>1, <2>1, TimerSame
<1>8. QED
  BY <1>2, <1>3, <1>4, <1>5, <1>6, <1>7 DEF Request, Event

LEMMA TimerNext ==
  TypeOK /\ TimerInv /\ [Next]_vars => TimerInv' /\ \A p \in Proc : TimerStep(p)
<1> SUFFICES ASSUME TypeOK, \A q \in Proc : TimerAt(q), [Next]_vars
             PROVE  \A q \in Proc : TimerAt(q)' /\ TimerStep(q)
  BY DEF TimerInv
<1>1. ASSUME NEW p \in Proc, (\E c \in Call : Request(p, c)) \/ Event(p)
      PROVE  \A q \in Proc : TimerAt(q)' /\ TimerStep(q)
  <2>1. \A q \in Proc \ {p} : /\ active'[q] = active[q] /\ keepers'[q] = keepers[q]
                              /\ call'[q] = call[q] /\ block'[q] = block[q]
    <3>1. ASSUME NEW ops, NEW c, NEW then, NEW e, Begin(p, ops, c, then, e)
          PROVE  \A q \in Proc \ {p} : block'[q] = block[q]
      BY <3>1 DEF Begin, TypeOK
    <3>2. CASE \E c \in Call : Request(p, c)
      BY <3>1, <3>2
      DEF Request, Start, Opened, OpenedReset, OpenFailed, Prompted, PromptFailed, TypeOK
    <3>3. CASE Event(p)
      BY <3>1, <3>3
      DEF Event, Stop, Settle, Beat, Note, Shutdown, UserEdit, DropActive, TypeOK
    <3>4. QED
      BY <1>1, <3>2, <3>3
  <2>2. QED
    BY <1>1, <2>1, TimerAct, TimerOther
<1>2. ASSUME NEW p \in Proc, Read(p) \/ Save(p)
      PROVE  \A q \in Proc : TimerAt(q)' /\ TimerStep(q)
  <2>1. InBlock(p)
    BY <1>2 DEF Read, Save
  <2>2. CASE \E rest, st : Continue(p, rest, st)
    BY <2>1, <2>2, TimerContinue
  <2>3. CASE UNCHANGED <<block, call, keepers, active>>
    BY <2>3, TimerOther
  <2>4. QED
    BY <1>2, <2>2, <2>3 DEF Read, Save, Succeed, Throw
<1>3. ASSUME NEW p \in Proc, Vanish(p)
      PROVE  \A q \in Proc : TimerAt(q)' /\ TimerStep(q)
  <2>1. /\ active'[p] = None /\ keepers'[p] = 0 /\ p \notin live'
        /\ \A c \in Call : call'[p][c] = "idle"
        /\ \A q \in Proc \ {p} : /\ active'[q] = active[q] /\ keepers'[q] = keepers[q]
                                 /\ call'[q] = call[q] /\ block'[q] = block[q]
    BY <1>3 DEF Vanish, TypeOK
  <2>2. TimerAt(p)' /\ TimerStep(p)
    BY <2>1 DEF TimerAt, TimerStep, Listed
  <2>3. QED
    BY <2>1, <2>2, TimerOther
<1>4. CASE (\E p \in Proc : Restart(p)) \/ Tick \/ UNCHANGED vars
  BY <1>4, TimerOther DEF Restart, Tick, vars
<1>5. QED
  BY <1>1, <1>2, <1>3, <1>4 DEF Next, Access, Exit, Crash

LEMMA TimerInit == Init => TimerInv
  BY DEF Init, TimerInv, TimerAt, Listed

\* The row, the requests, the timers and the pending accesses of TaskLease are
\* always well formed.
THEOREM TypeCorrect == Spec => []TypeOK
  BY TypeInit, TypeStep, TimerInit, TimerNext, PTL DEF Spec

\* Whatever interleaves, however late timers and opens are and whoever crashes: a timer
\* that TaskRunner.active does not list comes from a request that armed its own while its
\* process already ran the task, and goes only when its process does.
THEOREM OrphansComeByReentry == Spec => OrphansByReentry
<1>1. TypeOK /\ TimerInv /\ [Next]_vars =>
        [\A p \in Proc : LET orphans == keepers[p] - Listed(p)
                          IN orphans' # orphans =>
            \/ /\ orphans' = orphans + 1 /\ active[p] # None
               /\ \E c \in Call : call[p][c] # "prompting" /\ call'[p][c] = "prompting"
            \/ p \notin live']_vars
  BY TimerNext DEF TimerStep, Orphans
<1>2. QED
  BY <1>1, TypeInit, TypeStep, TimerInit, TimerNext, PTL DEF Spec, OrphansByReentry

-----------------------------------------------------------------------------
(* Optimistic concurrency keeps every saved edit *)

\* A record read at the current revision has the content of the row, plus at
\* most the edit the reader is about to save: content changes only together
\* with the revision, although heartbeats rewrite the whole record.
Fresh(p) ==
  pend[p].loaded =>
    /\ pend[p].rev <= row.rev
    /\ pend[p].rev = row.rev =>
         /\ row.edits \subseteq pend[p].row.edits
         /\ Head(block[p].ops) # "edit" => pend[p].row.edits = row.edits

EditInv == \A p \in Proc : Fresh(p)

KeepsEdits == /\ row.edits \subseteq row'.edits
              /\ row'.rev >= row.rev
              /\ row'.edits # row.edits => row'.rev > row.rev

\* Requests, timers and events only begin a stretch of their own process.
LEMMA StepFrame ==
  ASSUME TypeOK, NEW p \in Proc,
         \/ \E c \in Call : Request(p, c)
         \/ Event(p)
  PROVE  /\ row' = row
         /\ \/ pend' = pend /\ block' = block
            \/ /\ pend' = [pend EXCEPT ![p] = Unread]
               /\ \A q \in Proc \ {p} : block'[q] = block[q]
<1>1. ASSUME NEW ops, NEW c, NEW then, NEW e, Begin(p, ops, c, then, e)
      PROVE  /\ pend' = [pend EXCEPT ![p] = Unread]
             /\ \A q \in Proc \ {p} : block'[q] = block[q]
  BY <1>1 DEF Begin, TypeOK
<1>2. CASE \E c \in Call : Request(p, c)
  BY <1>1, <1>2 DEF Request, Start, Opened, OpenedReset, OpenFailed, Prompted, PromptFailed
<1>3. CASE Event(p)
  BY <1>1, <1>3 DEF Event, Stop, Settle, Beat, Note, Shutdown, UserEdit
<1>4. QED
  BY <1>2, <1>3

\* A stretch that goes on has nothing pending and leaves the others alone.
LEMMA ContinueFrame ==
  ASSUME TypeOK, NEW p \in Proc, Succeed(p) \/ Throw(p)
  PROVE  /\ pend' = [pend EXCEPT ![p] = Unread]
         /\ \A q \in Proc \ {p} : block'[q] = block[q]
  BY DEF Succeed, Throw, Continue, TypeOK

LEMMA EditRead ==
  ASSUME TypeOK, EditInv, NEW p \in Proc, Read(p)
  PROVE  EditInv' /\ KeepsEdits
<1>1. row' = row /\ InBlock(p)
  BY DEF Read
<1>2. KeepsEdits
  BY <1>1 DEF KeepsEdits, TypeOK, Row
<1>3. CASE Throw(p) \/ Succeed(p)
  BY <1>1, <1>2, <1>3, ContinueFrame DEF EditInv, Fresh, Unread, TypeOK
<1>4. CASE /\ pend' = [pend EXCEPT ![p] =
                         [loaded |-> TRUE, tries |-> @.tries + 1, rev |-> row.rev,
                          row |-> Change(Head(block[p].ops), row, p, block[p].edit)]]
           /\ UNCHANGED <<block, call, keepers, active>>
  <2>1. /\ row.edits \subseteq Change(Head(block[p].ops), row, p, block[p].edit).edits
        /\ Head(block[p].ops) # "edit" =>
             Change(Head(block[p].ops), row, p, block[p].edit).edits = row.edits
    BY <1>1, RestType, ChangeType DEF TypeOK
  <2>2. row.rev \in Nat
    BY DEF TypeOK, Row
  <2>3. Fresh(p)'
    BY <1>1, <1>4, <2>1, <2>2 DEF Fresh, TypeOK
  <2>4. ASSUME NEW q \in Proc \ {p} PROVE Fresh(q)'
    BY <1>1, <1>4, <2>4 DEF EditInv, Fresh, TypeOK
  <2>5. QED
    BY <1>2, <2>3, <2>4 DEF EditInv
<1>5. QED
  BY <1>3, <1>4 DEF Read

LEMMA EditSave ==
  ASSUME TypeOK, EditInv, NEW p \in Proc, Save(p)
  PROVE  EditInv' /\ KeepsEdits
<1> DEFINE op == Head(block[p].ops)
<1>1. /\ pend[p].loaded /\ pend[p].row \in Row /\ row.rev \in Nat
      /\ \A q \in Proc : pend[q].rev \in Nat
  BY DEF Save, TypeOK, Pending, Row
<1>2. CASE /\ pend[p].rev = row.rev
           /\ row' = [pend[p].row EXCEPT !.rev = row.rev + Bump(op)]
           /\ Succeed(p)
  <2>1. row'.edits = pend[p].row.edits /\ row'.rev = row.rev + Bump(op)
    BY <1>1, <1>2 DEF Row
  <2>2. /\ row.edits \subseteq row'.edits
        /\ Bump(op) \in {0, 1}
        /\ Bump(op) = 0 => row'.edits = row.edits
    BY <1>1, <1>2, <2>1 DEF EditInv, Fresh, Bump, BumpOps
  <2>3. KeepsEdits
    BY <1>1, <2>1, <2>2 DEF KeepsEdits
  <2>4. ASSUME NEW q \in Proc PROVE Fresh(q)'
    <3>1. CASE q = p
      BY <1>2, <3>1, ContinueFrame DEF Fresh, Unread, TypeOK
    <3>2. CASE q # p
      <4>1. pend'[q] = pend[q] /\ block'[q] = block[q]
        BY <1>2, <3>2, ContinueFrame DEF TypeOK
      <4>2. pend[q].loaded => pend[q].rev <= row.rev
        BY DEF EditInv, Fresh
      <4>3. CASE Bump(op) = 1
        BY <1>1, <2>1, <4>1, <4>2, <4>3 DEF Fresh
      <4>4. CASE Bump(op) = 0
        BY <1>1, <2>1, <2>2, <4>1, <4>4 DEF EditInv, Fresh
      <4>5. QED
        BY <2>2, <4>3, <4>4
    <3>3. QED
      BY <3>1, <3>2
  <2>5. QED
    BY <2>3, <2>4 DEF EditInv
<1>3. CASE pend' = [pend EXCEPT ![p].loaded = FALSE] /\ UNCHANGED <<row, block>>
  <2>1. ~pend'[p].loaded /\ \A q \in Proc \ {p} : pend'[q] = pend[q]
    BY <1>3 DEF TypeOK, Pending
  <2>2. ASSUME NEW q \in Proc PROVE Fresh(q)'
    BY <1>3, <2>1 DEF EditInv, Fresh
  <2>3. QED
    BY <1>1, <1>3, <2>2 DEF EditInv, KeepsEdits
<1>4. CASE Throw(p) /\ UNCHANGED row
  <2>1. ~pend'[p].loaded
    BY <1>4, ContinueFrame DEF Unread, TypeOK
  <2>2. \A q \in Proc \ {p} : pend'[q] = pend[q] /\ block'[q] = block[q]
    BY <1>4, ContinueFrame DEF TypeOK
  <2>3. ASSUME NEW q \in Proc PROVE Fresh(q)'
    BY <1>4, <2>1, <2>2 DEF EditInv, Fresh
  <2>4. QED
    BY <1>1, <1>4, <2>3 DEF EditInv, KeepsEdits
<1>5. QED
  BY <1>2, <1>3, <1>4 DEF Save

LEMMA EditVanish ==
  ASSUME TypeOK, EditInv, NEW p \in Proc, Vanish(p)
  PROVE  EditInv' /\ KeepsEdits
<1>1. row'.rev = row.rev /\ row'.edits = row.edits /\ row.rev \in Nat
  BY BuryType DEF Vanish, TypeOK, Row
<1>2. ASSUME NEW q \in Proc PROVE Fresh(q)'
  <2>1. CASE q = p
    BY <2>1 DEF Vanish, Fresh, Unread, TypeOK
  <2>2. CASE q # p
    <3>1. pend[q] \in Pending /\ pend[q].row \in Row
      BY DEF TypeOK, Pending
    <3>2. /\ pend'[q].loaded = pend[q].loaded /\ pend'[q].rev = pend[q].rev
          /\ pend'[q].row.edits = pend[q].row.edits /\ block'[q] = block[q]
      BY <2>2, <3>1, BuryType DEF Vanish, TypeOK, Pending
    <3>3. QED
      BY <1>1, <3>2 DEF EditInv, Fresh
  <2>3. QED
    BY <2>1, <2>2
<1>3. QED
  BY <1>1, <1>2 DEF EditInv, KeepsEdits

LEMMA EditTick ==
  ASSUME TypeOK, EditInv, Tick
  PROVE  EditInv' /\ KeepsEdits
<1>1. row'.rev = row.rev /\ row'.edits = row.edits /\ row.rev \in Nat
  BY AgeType DEF Tick, TypeOK, Row
<1>2. ASSUME NEW q \in Proc PROVE Fresh(q)'
  <2>1. pend[q] \in Pending /\ pend[q].row \in Row
    BY DEF TypeOK, Pending
  <2>2. /\ pend'[q].loaded = pend[q].loaded /\ pend'[q].rev = pend[q].rev
        /\ pend'[q].row.edits = pend[q].row.edits /\ block'[q] = block[q]
    BY <2>1, AgeType DEF Tick, TypeOK, Pending
  <2>3. QED
    BY <1>1, <2>2 DEF EditInv, Fresh
<1>3. QED
  BY <1>1, <1>2 DEF EditInv, KeepsEdits

LEMMA EditStep == TypeOK /\ EditInv /\ [Next]_vars => EditInv' /\ KeepsEdits
<1> SUFFICES ASSUME TypeOK, EditInv, [Next]_vars PROVE EditInv' /\ KeepsEdits
  OBVIOUS
<1>1. row.rev \in Nat
  BY DEF TypeOK, Row
<1>2. ASSUME NEW p \in Proc, (\E c \in Call : Request(p, c)) \/ Event(p)
      PROVE  EditInv' /\ KeepsEdits
  <2>1. row' = row
    BY <1>2, StepFrame
  <2>2. CASE pend' = pend /\ block' = block
    BY <1>1, <2>1, <2>2 DEF EditInv, Fresh, KeepsEdits
  <2>3. CASE /\ pend' = [pend EXCEPT ![p] = Unread]
             /\ \A q \in Proc \ {p} : block'[q] = block[q]
    <3>1. ~pend'[p].loaded /\ \A q \in Proc \ {p} : pend'[q] = pend[q]
      BY <2>3 DEF TypeOK, Unread
    <3>2. ASSUME NEW q \in Proc PROVE Fresh(q)'
      BY <2>1, <2>3, <3>1 DEF EditInv, Fresh
    <3>3. QED
      BY <1>1, <2>1, <3>2 DEF EditInv, KeepsEdits
  <2>4. QED
    BY <1>2, <2>2, <2>3, StepFrame
<1>3. ASSUME NEW p \in Proc, Access(p) \/ Crash(p)
      PROVE  EditInv' /\ KeepsEdits
  BY <1>3, EditRead, EditSave, EditVanish DEF Access, Exit, Crash
<1>4. CASE Tick
  BY <1>4, EditTick
<1>5. CASE (\E p \in Proc : Restart(p)) \/ UNCHANGED vars
  BY <1>1, <1>5 DEF Restart, vars, EditInv, Fresh, KeepsEdits
<1>6. QED
  BY <1>2, <1>3, <1>4, <1>5 DEF Next

LEMMA EditInit == Init => EditInv
  BY DEF Init, EditInv, Fresh, Unread

\* An edit that TaskService has saved is never overwritten, by any number of
\* processes whose heartbeats, lease writes, step changes and edits interleave
\* at every access of the row.
THEOREM SavedEditsSurvive == Spec => NoLostEdit
<1>1. TypeOK /\ EditInv /\ [Next]_vars => [row.edits \subseteq row'.edits]_row
  BY EditStep DEF KeepsEdits
<1>2. QED
  BY <1>1, TypeInit, TypeStep, TimerInit, TimerNext, EditInit, EditStep, PTL DEF Spec, NoLostEdit

\* The revision never goes back and grows with every change of content, so a
\* client that holds the current revision holds the current content.
THEOREM RevisionOrdersContent == Spec => RevisionNamesContent
<1>1. TypeOK /\ EditInv /\ [Next]_vars =>
        [row'.rev >= row.rev /\ (row'.edits # row.edits => row'.rev > row.rev)]_row
  BY EditStep DEF KeepsEdits
<1>2. QED
  BY <1>1, TypeInit, TypeStep, TimerInit, TimerNext, EditInit, EditStep, PTL DEF Spec, RevisionNamesContent

-----------------------------------------------------------------------------
(* The lease excludes.  In an orderly schedule (no other process acts inside *)
(* a synchronous stretch, timers and session opening are punctual, a process *)
(* does not start the task twice) TaskLease implements TaskExclusion.        *)

\* What a process other than p sees of a step of p, but for the row.
Untouched(q) ==
  /\ call'[q] = call[q] /\ active'[q] = active[q] /\ keepers'[q] = keepers[q]
  /\ block'[q] = block[q]

-----------------------------------------------------------------------------
(* What a step of a process leaves alone *)

\* A request, timer or event of p begins at most a stretch of p, and only when
\* nobody else is inside one.
LEMMA EventFrame ==
  ASSUME Orderly, TypeOK, NEW p \in Proc,
         (\E c \in Call : Request(p, c)) \/ Event(p)
  PROVE  /\ row' = row
         /\ \A q \in Proc \ {p} : Untouched(q) /\ pend'[q] = pend[q] /\ (Busy(p) \/ ~Busy(q))
<1>1. ASSUME NEW ops, NEW c, NEW then, NEW e, Begin(p, ops, c, then, e)
      PROVE  \A q \in Proc \ {p} : pend'[q] = pend[q] /\ block'[q] = block[q]
  BY <1>1 DEF Begin, TypeOK
<1>2. Ready(p) => \A q \in Proc \ {p} : ~Busy(q)
  BY DEF Ready, MyTurn, Orderly
<1>3. ASSUME NEW c \in Call, call[p][c] = "prompting"
      PROVE  Busy(p)
  BY <1>3 DEF Busy, Prompting
<1>4. CASE \E c \in Call : Request(p, c)
  BY <1>1, <1>2, <1>3, <1>4
  DEF Request, Start, Opened, OpenedReset, OpenFailed, Prompted, PromptFailed,
      Untouched, TypeOK
<1>5. CASE Event(p)
  BY <1>1, <1>2, <1>5
  DEF Event, Stop, Settle, Beat, Note, Shutdown, UserEdit, DropActive, Untouched, TypeOK
<1>6. QED
  BY <1>4, <1>5

LEMMA ContinueLeaves ==
  ASSUME TypeOK, NEW p \in Proc, NEW rest, NEW st, Continue(p, rest, st)
  PROVE  \A q \in Proc \ {p} : Untouched(q) /\ pend'[q] = pend[q]
  BY DEF Continue, Untouched, TypeOK

\* An access of p happens while nobody else is inside a stretch.
LEMMA AccessFrame ==
  ASSUME Orderly, TypeOK, NEW p \in Proc, Read(p) \/ Save(p)
  PROVE  /\ Busy(p)
         /\ \A q \in Proc \ {p} : Untouched(q) /\ pend'[q] = pend[q] /\ ~Busy(q)
<1>1. Busy(p) /\ \A q \in Proc \ {p} : ~Busy(q)
  BY DEF Read, Save, Busy, MyTurn, Orderly
<1>2. Succeed(p) \/ Throw(p) => \A q \in Proc \ {p} : Untouched(q) /\ pend'[q] = pend[q]
  BY ContinueLeaves DEF Succeed, Throw
<1>3. (\E r : pend' = [pend EXCEPT ![p] = r]) /\ UNCHANGED <<block, call, keepers, active>> =>
        \A q \in Proc \ {p} : Untouched(q) /\ pend'[q] = pend[q]
  BY DEF Untouched, TypeOK
<1>4. CASE Read(p)
  BY <1>1, <1>2, <1>3, <1>4 DEF Read
<1>5. CASE Save(p)
  BY <1>1, <1>2, <1>3, <1>5 DEF Save
<1>6. QED
  BY <1>4, <1>5

-----------------------------------------------------------------------------
(* One process at a time is inside a synchronous stretch *)

LEMMA BusyLocal ==
  ASSUME NEW q \in Proc, call'[q] = call[q], block'[q] = block[q]
  PROVE  /\ Busy(q)' = Busy(q)
         /\ InBlock(q)' = InBlock(q)
         /\ active'[q] = active[q] => Running(q)' = Running(q)
  BY DEF Busy, InBlock, Prompting, Running, Underway

LEMMA VanishIdle ==
  ASSUME TypeOK, NEW p \in Proc, Vanish(p)
  PROVE  /\ ~InBlock(p)' /\ ~Busy(p)' /\ ~Running(p)'
         /\ \A q \in Proc \ {p} : Untouched(q)
<1>1. /\ call'[p] = [c \in Call |-> "idle"] /\ block'[p] = NoBlock /\ active'[p] = None
      /\ \A q \in Proc \ {p} : Untouched(q)
  BY DEF Vanish, Untouched, TypeOK
<1>2. QED
  BY <1>1 DEF InBlock, Busy, Prompting, Running, Underway, Listed, NoBlock

LEMMA AloneStep ==
  ASSUME Orderly, TypeOK, Alone, [Next]_vars
  PROVE  Alone'
<1>1. ASSUME NEW p \in Proc,
             \A q \in Proc \ {p} : Untouched(q) /\ (Busy(p) \/ ~Busy(q) \/ ~Busy(p)')
      PROVE  Alone'
  <2>1. \A q \in Proc \ {p} : Busy(q)' = Busy(q)
    BY <1>1, BusyLocal DEF Untouched
  <2>2. QED
    BY <1>1, <2>1 DEF Alone
<1>2. ASSUME NEW p \in Proc, (\E c \in Call : Request(p, c)) \/ Event(p)
      PROVE  Alone'
  BY <1>1, <1>2, EventFrame
<1>3. ASSUME NEW p \in Proc, Read(p) \/ Save(p)
      PROVE  Alone'
  BY <1>1, <1>3, AccessFrame
<1>4. ASSUME NEW p \in Proc, Vanish(p)
      PROVE  Alone'
  BY <1>1, <1>4, VanishIdle
<1>5. CASE (\E p \in Proc : Restart(p)) \/ Tick \/ UNCHANGED vars
  BY <1>5 DEF Restart, Tick, vars, Alone, Busy, InBlock, Prompting
<1>6. QED
  BY <1>2, <1>3, <1>4, <1>5 DEF Next, Access, Exit, Crash

-----------------------------------------------------------------------------
(* The processes that do not act *)

\* A step that leaves the row and all of q alone.
LEMMA SameLease ==
  ASSUME NEW q \in Proc, LeaseAt(q), Untouched(q), pend'[q] = pend[q], row' = row
  PROVE  LeaseAt(q)'
<1>1. Running(q)' = Running(q) /\ InBlock(q)' = InBlock(q)
  BY BusyLocal DEF Untouched
<1>2. OneRequest(q)' /\ (keepers[q] = Listed(q))'
  BY DEF LeaseAt, OneRequest, Untouched, Listed
<1>3. BlockInv(q)'
  BY <1>1 DEF LeaseAt, BlockInv, Owned, Untouched
<1>4. PendInv(q)'
  BY <1>1 DEF LeaseAt, PendInv, Untouched, Denied, NoWrite, HeldByOther
<1>5. QED
  BY <1>1, <1>2, <1>3, <1>4 DEF LeaseAt, Owned

\* What a save of p makes of the lease.
LEMMA SaveRow ==
  ASSUME TypeOK, NEW p \in Proc, PendInv(p), pend[p].loaded,
         row' = [pend[p].row EXCEPT !.rev = row.rev + Bump(Head(block[p].ops))]
  PROVE  LET op == Head(block[p].ops) IN
         /\ op \in {"acquire", "renew"} => ~HeldByOther(row, p) /\ Owned(p)'
         /\ op = "release" => row.owner \in {Nobody, p}
         /\ op = "mark" /\ row.owner # p => row'.owner = row.owner /\ row'.left = row.left
         /\ op \in {"touch", "edit", "step", "exit"} =>
              row'.owner = row.owner /\ row'.left = row.left
<1> DEFINE op == Head(block[p].ops)
<1>1. /\ row \in Row /\ pend[p].row \in Row /\ TTL > 0
      /\ pend[p].row = Change(op, row, p, block[p].edit)
      /\ ~Denied(op, row, p) /\ ~NoWrite(op, row, p)
  BY LeaseAssumption DEF PendInv, TypeOK, Pending
<1>2. row'.owner = pend[p].row.owner /\ row'.left = pend[p].row.left
  BY <1>1 DEF Row
<1>3. op \in {"acquire", "renew"} => pend[p].row.owner = p /\ pend[p].row.left = TTL
  BY <1>1 DEF Change, Row
<1>4. (op = "mark" /\ row.owner # p) \/ op \in {"touch", "edit", "step", "exit"} =>
        pend[p].row.owner = row.owner /\ pend[p].row.left = row.left
  BY <1>1 DEF Change, Row
<1>5. QED
  BY <1>1, <1>2, <1>3, <1>4 DEF Denied, NoWrite, Owned

\* A save of p does not take the lease from a process that runs the task.
LEMMA SaveOther ==
  ASSUME TypeOK, NEW p \in Proc, NEW q \in Proc \ {p},
         LeaseAt(p), LeaseAt(q), ~Busy(q), Untouched(q), pend'[q] = pend[q],
         pend[p].loaded,
         row' = [pend[p].row EXCEPT !.rev = row.rev + Bump(Head(block[p].ops))]
  PROVE  LeaseAt(q)'
<1>1. Running(q)' = Running(q) /\ ~InBlock(q) /\ ~InBlock(q)'
  BY BusyLocal DEF Untouched, Busy
<1>2. OneRequest(q)' /\ (keepers[q] = Listed(q))'
  BY DEF LeaseAt, OneRequest, Untouched, Listed
<1>3. BlockInv(q)' /\ PendInv(q)'
  BY <1>1 DEF LeaseAt, BlockInv, PendInv
<1>4. Running(q) => Owned(q)'
  <2> SUFFICES ASSUME Running(q) PROVE Owned(q)'
    OBVIOUS
  <2>1. Owned(q) /\ PendInv(p)
    BY DEF LeaseAt
  <2>2. Head(block[p].ops) \in Ops
    BY RestType, <2>1 DEF PendInv
  <2>3. q # Nobody
    BY LeaseAssumption
  <2>4. HeldByOther(row, p) /\ row.owner \notin {Nobody, p} /\ row.owner # p
    BY <2>1, <2>3 DEF Owned, HeldByOther
  <2>5. row'.owner = row.owner /\ row'.left = row.left
    BY <2>1, <2>2, <2>4, SaveRow DEF Ops, KeepOps, BumpOps
  <2>6. QED
    BY <2>1, <2>5 DEF Owned
<1>5. QED
  BY <1>1, <1>2, <1>3, <1>4 DEF LeaseAt

\* A process that vanishes is renamed wherever it is written as the owner.
LEMMA VanishOther ==
  ASSUME TypeOK, NEW p \in Proc, NEW q \in Proc \ {p}, LeaseAt(q), Vanish(p)
  PROVE  LeaseAt(q)'
<1>1. /\ Untouched(q) /\ row' = Bury(row, p) /\ row \in Row
      /\ pend'[q] = [pend[q] EXCEPT !.row = Bury(@, p)]
      /\ pend[q] \in Pending /\ block'[q] = block[q]
  BY VanishIdle DEF Vanish, TypeOK, Untouched
<1>2. Running(q)' = Running(q) /\ InBlock(q)' = InBlock(q)
  BY <1>1, BusyLocal DEF Untouched
<1>3. Owned(q)' = Owned(q)
  <2>1. Dead # q
    BY LeaseAssumption
  <2>2. QED
    BY <1>1, <2>1 DEF Owned, Bury, Row
<1>4. OneRequest(q)' /\ (keepers[q] = Listed(q))'
  BY <1>1 DEF LeaseAt, OneRequest, Untouched, Listed
<1>5. BlockInv(q)'
  BY <1>1, <1>2, <1>3 DEF LeaseAt, BlockInv, Untouched
<1>6. PendInv(q)'
  <2> DEFINE op == Head(block[q].ops)
  <2> SUFFICES ASSUME pend[q].loaded
               PROVE  /\ InBlock(q)
                      /\ ~Denied(op, Bury(row, p), q) /\ ~NoWrite(op, Bury(row, p), q)
                      /\ pend'[q].rev = Bury(row, p).rev
                      /\ pend'[q].row = Change(op, Bury(row, p), q, block[q].edit)
    BY <1>1, <1>2 DEF PendInv, Pending
  <2>1. /\ InBlock(q) /\ ~Denied(op, row, q) /\ ~NoWrite(op, row, q)
        /\ pend[q].rev = row.rev /\ pend[q].row = Change(op, row, q, block[q].edit)
    BY DEF LeaseAt, PendInv
  <2>2. Dead \notin {Nobody, q} /\ p \notin {Nobody, q}
    BY LeaseAssumption
  <2>3. Bury(row, p).left = row.left /\ Bury(row, p).rev = row.rev
    BY <1>1 DEF Bury, Row
  <2>4. row.owner = p => Bury(row, p).owner = Dead
    BY <1>1 DEF Bury, Row
  <2>5. row.owner # p => Bury(row, p) = row
    BY DEF Bury
  <2>6. ~Denied(op, Bury(row, p), q) /\ ~NoWrite(op, Bury(row, p), q)
    BY <2>1, <2>2, <2>3, <2>4, <2>5 DEF Denied, NoWrite, HeldByOther
  <2>7. Bury(Change(op, row, q, block[q].edit), p) = Change(op, Bury(row, p), q, block[q].edit)
    <3>1. CASE row.owner # p
      <4>1. Change(op, row, q, block[q].edit).owner # p
        BY <1>1, <2>2, <3>1 DEF Change, NoLease, Row
      <4>2. QED
        BY <2>5, <3>1, <4>1 DEF Bury
    <3>2. CASE row.owner = p
      BY <1>1, <2>2, <3>2 DEF Change, NoLease, Row, Bury
    <3>3. QED
      BY <3>1, <3>2
  <2>8. pend'[q].rev = pend[q].rev /\ pend'[q].row = Bury(pend[q].row, p)
    BY <1>1 DEF Pending
  <2>9. QED
    BY <2>1, <2>3, <2>6, <2>7, <2>8
<1>7. QED
  BY <1>2, <1>3, <1>4, <1>5, <1>6 DEF LeaseAt

\* Time passes only between stretches, and never over a run's last interval.
LEMMA TickLease ==
  ASSUME Orderly, TypeOK, NEW p \in Proc, LeaseAt(p), Tick
  PROVE  LeaseAt(p)'
<1>1. /\ ~Busy(p) /\ Untouched(p) /\ row' = Age(row) /\ row \in Row
      /\ pend'[p] = [pend[p] EXCEPT !.row = Age(@)] /\ pend[p] \in Pending
      /\ row.left = 1 /\ row.owner = p => keepers[p] = 0 /\ ~Underway(p)
  BY DEF Tick, Orderly, Untouched, TypeOK
<1>2. Running(p)' = Running(p) /\ ~InBlock(p) /\ ~InBlock(p)'
  BY <1>1, BusyLocal DEF Untouched, Busy
<1>3. Running(p) => Owned(p)'
  <2>1. keepers[p] = 0 /\ ~Underway(p) => ~Running(p)
    BY DEF LeaseAt, Listed, Running, Underway
  <2>2. Running(p) => row.owner = p /\ row.left > 0 /\ row.left # 1
    BY <1>1, <2>1 DEF LeaseAt, Owned
  <2>3. QED
    BY <1>1, <2>2 DEF Owned, Age, Row
<1>4. BlockInv(p)' /\ PendInv(p)'
  BY <1>1, <1>2 DEF BlockInv, PendInv, LeaseAt, Pending
<1>5. OneRequest(p)' /\ (keepers[p] = Listed(p))'
  BY <1>1 DEF LeaseAt, OneRequest, Untouched, Listed
<1>6. QED
  BY <1>2, <1>3, <1>4, <1>5 DEF LeaseAt

-----------------------------------------------------------------------------
(* The process that acts *)

\* A stretch that begins has read nothing.
LEMMA BeginAt ==
  ASSUME TypeOK, NEW p \in Proc, NEW ops, NEW c, NEW then, NEW e, Begin(p, ops, c, then, e)
  PROVE  /\ block'[p] = [ops |-> ops, call |-> c, then |-> then, edit |-> e]
         /\ PendInv(p)'
  BY DEF Begin, PendInv, Unread, TypeOK

\* Stretches of a process that neither lead to a run nor give up its lease.
LEMMA PlainBlock ==
  ASSUME NEW p \in Proc, NEW ops, NEW e,
         block'[p] = [ops |-> ops, call |-> None, then |-> "idle", edit |-> e],
         (\E i \in DOMAIN ops : ops[i] \in {"release", "mark"}) => ~Running(p)'
  PROVE  BlockInv(p)'
  BY DEF BlockInv

\* The actions that only begin a stretch without release.
LEMMA PlainAt ==
  ASSUME TypeOK, NEW p \in Proc, LeaseAt(p), row' = row,
         call' = call, active' = active, keepers' = keepers,
         NEW op \in {"renew", "touch", "edit"}, NEW e,
         Begin(p, <<op>>, None, "idle", e)
  PROVE  LeaseAt(p)'
<1>1. Running(p)' = Running(p) /\ PendInv(p)'
  BY BeginAt DEF Running, Underway
<1>2. BlockInv(p)'
  <2>1. block'[p] = [ops |-> <<op>>, call |-> None, then |-> "idle", edit |-> e]
    BY BeginAt
  <2>2. QED
    BY <2>1, PlainBlock
<1>3. QED
  BY <1>1, <1>2 DEF LeaseAt, OneRequest, Owned, Listed

LEMMA StartAt ==
  ASSUME Orderly, TypeOK, NEW p \in Proc, NEW c \in Call, LeaseAt(p), Start(p, c)
  PROVE  LeaseAt(p)'
<1>1. /\ call'[p] = [d \in Call |-> IF d = c THEN "acquiring" ELSE "idle"]
      /\ active'[p] = None /\ active[p] = None /\ keepers'[p] = keepers[p]
  BY DEF Start, Orderly, TypeOK
<1>2. ~Running(p)' /\ OneRequest(p)'
  BY <1>1 DEF Running, Underway, OneRequest
<1>3. BlockInv(p)' /\ PendInv(p)'
  <2>1. \/ block'[p] = [ops |-> <<"acquire">>, call |-> c, then |-> "opening", edit |-> {}]
        \/ block'[p] = [ops |-> <<"acquire", "step">>, call |-> c, then |-> "opening", edit |-> {}]
        \/ block'[p] = [ops |-> <<"acquire", "release", "mark">>, call |-> c, then |-> "idle", edit |-> {}]
    <3>1. \/ Begin(p, <<"acquire">>, c, "opening", {})
          \/ Begin(p, <<"acquire", "step">>, c, "opening", {})
          \/ Begin(p, <<"acquire", "release", "mark">>, c, "idle", {})
      BY DEF Start
    <3>2. QED
      BY <3>1, BeginAt, SMTT(30)
  <2>2. PendInv(p)'
    BY BeginAt DEF Start
  <2>3. QED
    BY <1>1, <1>2, <2>1, <2>2 DEF BlockInv
<1>4. QED
  BY <1>1, <1>2, <1>3 DEF LeaseAt, Listed

LEMMA OpenedAt ==
  ASSUME TypeOK, NEW p \in Proc, NEW c \in Call, LeaseAt(p), Opened(p, c)
  PROVE  LeaseAt(p)'
<1>1. /\ call'[p] = [call[p] EXCEPT ![c] = "prompting"] /\ call[p][c] = "opening"
      /\ active'[p] = c /\ keepers'[p] = keepers[p] + 1 /\ active[p] = None
      /\ \A d \in Call \ {c} : call[p][d] = "idle"
      /\ call[p] \in [Call -> CallState]
  BY DEF Opened, LeaseAt, OneRequest, TypeOK
<1>2. (keepers[p] = Listed(p))'
  BY <1>1, LeaseAssumption DEF LeaseAt, Listed
<1>3. ~InBlock(p) /\ block'[p] = block[p] /\ pend'[p] = pend[p] /\ row' = row
  BY DEF Opened, Ready, Busy
<1>4. OneRequest(p)'
  BY <1>1 DEF OneRequest
<1>5. Owned(p)'
  BY <1>1, <1>3 DEF LeaseAt, Running, Underway, Owned
<1>6. BlockInv(p)' /\ PendInv(p)'
  BY <1>3 DEF LeaseAt, BlockInv, PendInv, InBlock
<1>7. QED
  BY <1>2, <1>4, <1>5, <1>6 DEF LeaseAt

LEMMA OpenedResetAt ==
  ASSUME TypeOK, NEW p \in Proc, NEW c \in Call, LeaseAt(p), OpenedReset(p, c)
  PROVE  LeaseAt(p)'
<1>1. /\ call' = call /\ active' = active /\ keepers' = keepers /\ row' = row
      /\ call[p][c] = "opening"
      /\ block'[p] = [ops |-> <<"step">>, call |-> c, then |-> "prompting", edit |-> {}]
      /\ PendInv(p)'
  BY BeginAt DEF OpenedReset
<1>2. Owned(p) /\ active[p] = None /\ \A d \in Call \ {c} : call[p][d] = "idle"
  BY <1>1 DEF LeaseAt, Running, Underway, OneRequest
<1>3. BlockInv(p)'
  BY <1>1, <1>2 DEF BlockInv, Owned
<1>4. QED
  BY <1>1, <1>2, <1>3 DEF LeaseAt, OneRequest, Owned, Listed

LEMMA OpenFailedAt ==
  ASSUME TypeOK, NEW p \in Proc, NEW c \in Call, LeaseAt(p), OpenFailed(p, c)
  PROVE  LeaseAt(p)'
<1>1. /\ active[p] = None /\ active'[p] = None /\ keepers'[p] = keepers[p] /\ row' = row
      /\ call[p][c] = "opening" /\ \A d \in Call \ {c} : call[p][d] = "idle"
  BY DEF OpenFailed, LeaseAt, OneRequest
<1>2. \A d \in Call : call'[p][d] = "idle"
  BY <1>1 DEF OpenFailed, TypeOK
<1>3. ~Running(p)' /\ OneRequest(p)'
  BY <1>1, <1>2 DEF Running, Underway, OneRequest
<1>4. BlockInv(p)' /\ PendInv(p)'
  <2>1. \/ block'[p] = [ops |-> <<"release">>, call |-> None, then |-> "idle", edit |-> {}]
        \/ block'[p] = [ops |-> <<"release", "mark">>, call |-> None, then |-> "idle", edit |-> {}]
    BY BeginAt, SMTT(30) DEF OpenFailed
  <2>2. PendInv(p)'
    BY BeginAt DEF OpenFailed
  <2>3. QED
    BY <1>3, <2>1, <2>2, PlainBlock
<1>5. QED
  BY <1>1, <1>3, <1>4 DEF LeaseAt, Listed

\* Whatever the prompt does, its run stays active and keeps the lease.
LEMMA PromptedAt ==
  ASSUME TypeOK, NEW p \in Proc, NEW c \in Call, LeaseAt(p), Prompted(p, c)
  PROVE  LeaseAt(p)'
<1>1. /\ call[p][c] = "prompting" /\ call'[p] = [call[p] EXCEPT ![c] = "idle"]
      /\ call[p] \in [Call -> CallState]
      /\ active'[p] = active[p] /\ keepers'[p] = keepers[p] /\ row' = row
      /\ ~InBlock(p) /\ block'[p] = block[p] /\ pend'[p] = pend[p]
  BY DEF Prompted, TypeOK
<1>2. OneRequest(p)'
  BY <1>1 DEF LeaseAt, OneRequest
<1>3. Owned(p)'
  BY <1>1 DEF LeaseAt, Running, Underway, Owned
<1>4. BlockInv(p)' /\ PendInv(p)'
  BY <1>1 DEF LeaseAt, BlockInv, PendInv, InBlock
<1>5. QED
  BY <1>1, <1>2, <1>3, <1>4 DEF LeaseAt, Listed

LEMMA PromptFailedAt ==
  ASSUME TypeOK, NEW p \in Proc, NEW c \in Call, LeaseAt(p), PromptFailed(p, c)
  PROVE  LeaseAt(p)'
<1>1. /\ call[p][c] = "prompting" /\ active[p] = c
      /\ \A d \in Call \ {c} : call[p][d] = "idle"
  BY DEF PromptFailed, LeaseAt, OneRequest
<1>2. /\ \A d \in Call : call'[p][d] = "idle"
      /\ active'[p] = None /\ keepers'[p] = keepers[p] - 1 /\ row' = row
  BY <1>1 DEF PromptFailed, TypeOK
<1>3. ~Running(p)' /\ OneRequest(p)'
  BY <1>2 DEF Running, Underway, OneRequest
<1>4. BlockInv(p)' /\ PendInv(p)'
  <2>1. /\ block'[p] = [ops |-> <<"release">>, call |-> None, then |-> "idle", edit |-> {}]
        /\ PendInv(p)'
    BY BeginAt DEF PromptFailed
  <2>2. QED
    BY <1>3, <2>1, PlainBlock
<1>5. QED
  BY <1>1, <1>2, <1>3, <1>4, LeaseAssumption DEF LeaseAt, Listed

\* Ending the active run: nothing is left that runs the task.
LEMMA DropAt ==
  ASSUME TypeOK, NEW p \in Proc, LeaseAt(p), ~Busy(p), DropActive(p), call' = call
  PROVE  /\ active'[p] = None /\ (keepers[p] = Listed(p))' /\ OneRequest(p)'
         /\ active[p] # None => ~Running(p)'
         /\ active[p] = None => Running(p)' = Running(p)
<1>1. active'[p] = None /\ (keepers[p] = Listed(p))'
  BY DEF DropActive, LeaseAt, Listed, TypeOK
<1>2. \A c \in Call : call[p][c] # "prompting"
  BY DEF Busy, Prompting
<1>3. active[p] # None => \A c \in Call : call[p][c] # "opening"
  BY DEF LeaseAt, OneRequest
<1>4. OneRequest(p)'
  BY <1>1, <1>2 DEF LeaseAt, OneRequest
<1>5. QED
  BY <1>1, <1>2, <1>3, <1>4 DEF Running, Underway

LEMMA EventAt ==
  ASSUME TypeOK, NEW p \in Proc, LeaseAt(p), Event(p)
  PROVE  LeaseAt(p)'
<1>1. ~Busy(p) /\ row' = row
  BY DEF Event, Stop, Settle, Beat, Note, Shutdown, UserEdit, Ready
<1>2. ASSUME DropActive(p), call' = call,
             NEW ops, Begin(p, ops, None, "idle", {}),
             (\E i \in DOMAIN ops : ops[i] \in {"release", "mark"}) => active[p] # None
      PROVE  LeaseAt(p)'
  <2>1. /\ block'[p] = [ops |-> ops, call |-> None, then |-> "idle", edit |-> {}]
        /\ PendInv(p)'
    BY <1>2, BeginAt
  <2>2. (\E i \in DOMAIN ops : ops[i] \in {"release", "mark"}) => ~Running(p)'
    BY <1>1, <1>2, DropAt
  <2>3. BlockInv(p)'
    BY <2>1, <2>2, PlainBlock
  <2>4. QED
    BY <1>1, <1>2, <2>1, <2>3, DropAt DEF LeaseAt, Owned
<1>3. CASE Stop(p)
  BY <1>2, <1>3 DEF Stop
<1>4. CASE Settle(p)
  <2>1. CASE active[p] = None
    BY <1>2, <1>4, <2>1 DEF Settle
  <2>2. CASE active[p] # None
    BY <1>2, <1>4, <2>2 DEF Settle
  <2>3. QED
    BY <2>1, <2>2
<1>5. CASE Shutdown(p)
  <2>1. CASE active[p] = None
    BY <1>2, <1>5, <2>1 DEF Shutdown
  <2>2. CASE active[p] # None
    BY <1>2, <1>5, <2>2 DEF Shutdown
  <2>3. QED
    BY <2>1, <2>2
<1>6. CASE Note(p)
  BY <1>6, PlainAt DEF Note
<1>7. CASE \E e \in Edit : UserEdit(p, e)
  BY <1>7, PlainAt DEF UserEdit
<1>8. CASE Beat(p)
  BY <1>8, PlainAt DEF Beat
<1>9. QED
  BY <1>3, <1>4, <1>5, <1>6, <1>7, <1>8 DEF Event

LEMMA RequestAt ==
  ASSUME Orderly, TypeOK, NEW p \in Proc, NEW c \in Call, LeaseAt(p), Request(p, c)
  PROVE  LeaseAt(p)'
  BY StartAt, OpenedAt, OpenedResetAt, OpenFailedAt, PromptedAt, PromptFailedAt
  DEF Request

-----------------------------------------------------------------------------
(* A stretch that goes on *)

\* After an exception, or when the stretch has nothing left to do for a
\* request, p runs the task only if it did before.
LEMMA IdleAt ==
  ASSUME TypeOK, NEW p \in Proc, OneRequest(p), BlockInv(p), InBlock(p),
         keepers[p] = Listed(p),
         NEW rest, Continue(p, rest, "idle")
  PROVE  /\ OneRequest(p)' /\ (keepers[p] = Listed(p))' /\ PendInv(p)'
         /\ active'[p] = active[p]
         /\ Running(p)' => Running(p)
         /\ rest # <<>> => Running(p)' = Running(p) /\ call'[p] = call[p]
<1> DEFINE c == block[p].call
<1>1. /\ active'[p] = active[p] /\ keepers'[p] = keepers[p]
      /\ call[p] \in [Call -> CallState] /\ c \in Call \cup {None}
      /\ IF rest = <<>> /\ c # None THEN call'[p] = [call[p] EXCEPT ![c] = "idle"]
                                     ELSE call'[p] = call[p]
  BY DEF Continue, TypeOK, Block
<1>2. PendInv(p)'
  BY DEF Continue, PendInv, Unread, TypeOK
<1>3. OneRequest(p)'
  BY <1>1 DEF OneRequest
<1>4. Running(p)' => Running(p)
  BY <1>1 DEF Running, Underway
<1>5. rest # <<>> => Running(p)' = Running(p)
  BY <1>1 DEF Running, Underway
<1>6. QED
  BY <1>1, <1>2, <1>3, <1>4, <1>5 DEF Listed

\* What is left of a stretch after its first call.
LEMMA RestShape ==
  ASSUME TypeOK, NEW p \in Proc, InBlock(p), NEW rest,
         rest \in {<<>>, Tail(block[p].ops)}, NEW st, Continue(p, rest, st)
  PROVE  /\ rest = <<>> => ~InBlock(p)' /\ block'[p] = NoBlock
         /\ rest # <<>> => /\ block'[p] = [block[p] EXCEPT !.ops = rest]
                          /\ \A i \in DOMAIN rest : \E j \in DOMAIN block[p].ops :
                                rest[i] = block[p].ops[j]
<1>1. block[p] \in Block /\ block[p].ops \in Seq(Ops) /\ block[p].ops # <<>>
  BY DEF TypeOK, Block, InBlock
<1>2. block'[p] = IF rest = <<>> THEN NoBlock ELSE [block[p] EXCEPT !.ops = rest]
  BY DEF Continue, TypeOK
<1>3. \A i \in DOMAIN Tail(block[p].ops) :
        i + 1 \in DOMAIN block[p].ops /\ Tail(block[p].ops)[i] = block[p].ops[i + 1]
  BY <1>1
<1>4. QED
  BY <1>2, <1>3 DEF InBlock, NoBlock

LEMMA ThrowAt ==
  ASSUME TypeOK, NEW p \in Proc, LeaseAt(p), InBlock(p), Throw(p), row' = row
  PROVE  LeaseAt(p)'
<1> DEFINE b == block[p]
<1>1. PICK rest \in {<<>>, Tail(b.ops)} :
        /\ Continue(p, rest, "idle")
        /\ rest # <<>> => Head(b.ops) = "touch" \/ \E i \in DOMAIN b.ops : b.ops[i] = "exit"
  BY DEF Throw
<1>2. /\ OneRequest(p)' /\ (keepers[p] = Listed(p))' /\ PendInv(p)'
      /\ active'[p] = active[p]
      /\ Running(p)' => Running(p)
      /\ rest # <<>> => Running(p)' = Running(p) /\ call'[p] = call[p]
  BY <1>1, IdleAt DEF LeaseAt
<1>3. BlockInv(p)'
  <2>1. CASE rest = <<>>
    BY <1>1, <2>1, RestShape DEF BlockInv
  <2>2. CASE rest # <<>>
    <3>1. b \in Block /\ BlockInv(p)
      BY DEF TypeOK, LeaseAt
    <3>2. b.then = "idle"
      BY <1>1, <2>2, <3>1 DEF BlockInv
    <3>3. Tail(b.ops) # <<>> /\ rest = Tail(b.ops) /\ Continue(p, Tail(b.ops), "idle")
      BY <1>1, <2>2
    <3>4. /\ block'[p].call = b.call /\ block'[p].then = b.then /\ block'[p].ops = rest
      BY <3>1, <3>3, RestShape DEF Block
    <3>5. \A i \in DOMAIN Tail(b.ops) : \E j \in DOMAIN b.ops : Tail(b.ops)[i] = b.ops[j]
      BY <3>3, RestShape
    <3>6. \A i \in DOMAIN rest : \E j \in DOMAIN b.ops : rest[i] = b.ops[j]
      BY <3>3, <3>5
    <3>7. QED
      BY <1>2, <2>2, <3>1, <3>2, <3>4, <3>6 DEF BlockInv
  <2>3. QED
    BY <2>1, <2>2
<1>4. QED
  BY <1>2, <1>3 DEF LeaseAt, Owned

\* A call that succeeds.  `Kept' is what the call did to the lease: a process
\* that runs the task, or is about to, holds it afterwards.
LEMMA SucceedAt ==
  ASSUME TypeOK, NEW p \in Proc, LeaseAt(p), InBlock(p), Succeed(p),
         Running(p) => Owned(p)',
         block[p].then # "idle" => Owned(p)'
  PROVE  LeaseAt(p)'
<1> DEFINE b == block[p]
           rest == Tail(b.ops)
           c == b.call
<1>1. /\ b \in Block /\ BlockInv(p) /\ OneRequest(p) /\ Continue(p, rest, b.then)
      /\ b.then \in CallState /\ c \in Call \cup {None}
      /\ call[p] \in [Call -> CallState] /\ keepers[p] = Listed(p)
  BY DEF LeaseAt, Succeed, TypeOK, Block
<1>2. CASE b.then = "idle"
  <2>1. /\ OneRequest(p)' /\ (keepers[p] = Listed(p))' /\ PendInv(p)'
        /\ active'[p] = active[p]
        /\ Running(p)' => Running(p)
        /\ rest # <<>> => Running(p)' = Running(p) /\ call'[p] = call[p]
    BY <1>1, <1>2, IdleAt
  <2>2. CASE rest = <<>>
    BY <1>1, <2>1, <2>2, RestShape DEF BlockInv, LeaseAt
  <2>3. CASE rest # <<>>
    <3>1. /\ block'[p].call = c /\ block'[p].then = "idle" /\ block'[p].ops = rest
      BY <1>1, <1>2, <2>3, RestShape DEF Block
    <3>2. \A i \in DOMAIN rest : \E j \in DOMAIN b.ops : rest[i] = b.ops[j]
      BY <1>1, <2>3, RestShape
    <3>3. BlockInv(p)'
      BY <1>1, <2>1, <2>3, <3>1, <3>2 DEF BlockInv
    <3>4. QED
      BY <2>1, <3>3 DEF LeaseAt
  <2>4. QED
    BY <2>2, <2>3
<1>3. CASE b.then # "idle"
  <2>1. b.ops \in {<<"acquire">>, <<"acquire", "step">>, <<"step">>} /\ Owned(p)'
    BY <1>1, <1>3 DEF BlockInv, InBlock
  <2>2. rest = <<>> \/ rest = <<"step">>
    <3>1. CASE b.ops = <<"acquire", "step">>
      BY <3>1
    <3>2. CASE b.ops = <<"acquire">> \/ b.ops = <<"step">>
      <4>1. Len(b.ops) = 1 /\ b.ops \in Seq(Ops)
        BY <1>1, <3>2 DEF Block
      <4>2. b.ops # <<>>
        BY <4>1
      <4>3. Len(rest) = 0 /\ rest \in Seq(Ops)
        BY <4>1, <4>2, HeadTailProperties
      <4>4. QED
        BY <4>3, EmptySeq, ZenonT(30)
    <3>3. QED
      BY <2>1, <3>1, <3>2
  <2>3. PendInv(p)'
    BY <1>1 DEF Continue, PendInv, Unread, TypeOK
  <2>4. CASE rest = <<"step">>
    <3>1. /\ block'[p] = [b EXCEPT !.ops = rest] /\ call'[p] = call[p]
          /\ active'[p] = active[p] /\ keepers'[p] = keepers[p]
      <4>1. rest # <<>>
        BY <2>4
      <4>2. QED
        BY <1>1, <4>1 DEF Continue, TypeOK
    <3>2. block'[p].ops = <<"step">> /\ block'[p].call = c /\ block'[p].then = b.then
      BY <1>1, <2>4, <3>1 DEF Block
    <3>3. BlockInv(p)'
      BY <1>1, <2>1, <3>1, <3>2, SMTT(30) DEF BlockInv
    <3>4. QED
      BY <1>1, <2>1, <2>3, <3>1, <3>3 DEF LeaseAt, OneRequest, Listed
  <2>5. CASE rest = <<>>
    <3>1. /\ ~InBlock(p)'
          /\ IF c # None THEN call'[p] = [call[p] EXCEPT ![c] = b.then]
                         ELSE call'[p] = call[p]
          /\ IF c # None /\ b.then = "prompting"
             THEN active'[p] = c /\ keepers'[p] = keepers[p] + 1
             ELSE active'[p] = active[p] /\ keepers'[p] = keepers[p]
      BY <1>1, <2>5, RestShape DEF Continue, TypeOK
    <3>2. c # None => active[p] = None /\ \A d \in Call \ {c} : call[p][d] = "idle"
      BY <1>1 DEF BlockInv
    <3>3. OneRequest(p)'
      BY <1>1, <3>1, <3>2 DEF OneRequest
    <3>4. (keepers[p] = Listed(p))'
      BY <1>1, <3>1, <3>2, LeaseAssumption DEF Listed
    <3>5. QED
      BY <2>1, <2>3, <3>1, <3>3, <3>4 DEF LeaseAt, BlockInv
  <2>6. QED
    BY <2>2, <2>4, <2>5
<1>4. QED
  BY <1>2, <1>3

LEMMA ReadAt ==
  ASSUME TypeOK, NEW p \in Proc, LeaseAt(p), Read(p)
  PROVE  LeaseAt(p)'
<1> DEFINE op == Head(block[p].ops)
<1>1. InBlock(p) /\ row' = row /\ row \in Row
  BY DEF Read, TypeOK
<1>2. CASE Throw(p)
  BY <1>1, <1>2, ThrowAt
<1>3. CASE NoWrite(op, row, p) /\ Succeed(p)
  <2>1. block[p].then = "idle"
    BY <1>1, <1>3 DEF LeaseAt, BlockInv, NoWrite
  <2>2. QED
    BY <1>1, <1>3, <2>1, SucceedAt DEF LeaseAt, Owned
<1>4. CASE /\ ~Denied(op, row, p) /\ ~NoWrite(op, row, p)
           /\ pend' = [pend EXCEPT ![p] =
                         [loaded |-> TRUE, tries |-> @.tries + 1, rev |-> row.rev,
                          row |-> Change(op, row, p, block[p].edit)]]
           /\ UNCHANGED <<block, call, keepers, active>>
  <2>1. Running(p)' = Running(p) /\ InBlock(p)'
    BY <1>1, <1>4 DEF Running, Underway, InBlock
  <2>2. PendInv(p)'
    BY <1>1, <1>4, <2>1 DEF PendInv, TypeOK, Denied, NoWrite, HeldByOther
  <2>3. BlockInv(p)' /\ OneRequest(p)'
    BY <1>1, <1>4, <2>1 DEF LeaseAt, BlockInv, OneRequest, Owned
  <2>4. QED
    BY <1>1, <1>4, <2>1, <2>2, <2>3 DEF LeaseAt, Owned, Listed
<1>5. QED
  BY <1>2, <1>3, <1>4 DEF Read

\* No other process has written the row since p read it, so the save succeeds
\* at the first attempt and leaves p the lease that its run relies on.
LEMMA SaveAt ==
  ASSUME TypeOK, NEW p \in Proc, LeaseAt(p), Save(p)
  PROVE  LeaseAt(p)'
<1> DEFINE op == Head(block[p].ops)
<1>1. InBlock(p) /\ pend[p].loaded /\ PendInv(p) /\ BlockInv(p) /\ op \in Ops
  BY RestType DEF Save, LeaseAt
<1>2. /\ row' = [pend[p].row EXCEPT !.rev = row.rev + Bump(op)]
      /\ Succeed(p)
  BY <1>1 DEF Save, PendInv
<1>3. 1 \in DOMAIN block[p].ops /\ op = block[p].ops[1]
  BY <1>1 DEF InBlock, TypeOK, Block
<1>4. Running(p) => Owned(p)'
  <2> SUFFICES ASSUME Running(p) PROVE Owned(p)'
    OBVIOUS
  <2>1. op \notin {"release", "mark"} /\ Owned(p)
    BY <1>1, <1>3 DEF BlockInv, LeaseAt
  <2>2. op \in {"acquire", "renew", "touch", "edit", "step", "exit"}
    BY <1>1, <2>1 DEF Ops, KeepOps, BumpOps
  <2>3. QED
    BY <1>1, <1>2, <2>1, <2>2, SaveRow DEF Owned
<1>5. block[p].then # "idle" => Owned(p)'
  <2>1. block[p].then # "idle" => op = "acquire" \/ (op = "step" /\ Owned(p))
    BY <1>1, <1>3 DEF BlockInv
  <2>2. QED
    BY <1>1, <1>2, <2>1, SaveRow DEF Owned
<1>6. QED
  BY <1>1, <1>2, <1>4, <1>5, SucceedAt

LEMMA VanishAt ==
  ASSUME TypeOK, NEW p \in Proc, Vanish(p)
  PROVE  LeaseAt(p)'
<1>1. /\ call'[p] = [c \in Call |-> "idle"] /\ pend'[p] = Unread /\ keepers'[p] = 0
      /\ active'[p] = None
      /\ ~Running(p)' /\ ~InBlock(p)'
  BY VanishIdle DEF Vanish, TypeOK
<1>2. QED
  BY <1>1 DEF LeaseAt, OneRequest, BlockInv, PendInv, Unread, Listed

-----------------------------------------------------------------------------
LEMMA LeaseInit == Init => LeaseInv
  BY DEF Init, LeaseInv, Alone, LeaseAt, OneRequest, BlockInv, PendInv, Busy, InBlock,
         Prompting, Running, Underway, Listed, NoBlock, Unread

LEMMA LeaseStep ==
  ASSUME Orderly, TypeOK, LeaseInv, [Next]_vars
  PROVE  LeaseInv'
<1>1. Alone'
  BY AloneStep DEF LeaseInv
<1>2. ASSUME NEW p \in Proc, (\E c \in Call : Request(p, c)) \/ Event(p), NEW q \in Proc
      PROVE  LeaseAt(q)'
  <2>1. LeaseAt(p)'
    BY <1>2, RequestAt, EventAt DEF LeaseInv
  <2>2. q # p => LeaseAt(q)'
    BY <1>2, EventFrame, SameLease DEF LeaseInv
  <2>3. QED
    BY <2>1, <2>2
<1>3. ASSUME NEW p \in Proc, Read(p), NEW q \in Proc
      PROVE  LeaseAt(q)'
  <2>1. LeaseAt(p)' /\ row' = row
    BY <1>3, ReadAt DEF LeaseInv, Read
  <2>2. q # p => LeaseAt(q)'
    BY <1>3, <2>1, AccessFrame, SameLease DEF LeaseInv
  <2>3. QED
    BY <2>1, <2>2
<1>4. ASSUME NEW p \in Proc, Save(p), NEW q \in Proc
      PROVE  LeaseAt(q)'
  <2>1. LeaseAt(p)' /\ LeaseAt(p)
    BY <1>4, SaveAt DEF LeaseInv
  <2>2. /\ pend[p].loaded
        /\ row' = [pend[p].row EXCEPT !.rev = row.rev + Bump(Head(block[p].ops))]
    BY <1>4, <2>1 DEF Save, LeaseAt, PendInv
  <2>3. q # p => LeaseAt(q)'
    BY <1>4, <2>1, <2>2, AccessFrame, SaveOther DEF LeaseInv
  <2>4. QED
    BY <2>1, <2>3
<1>5. ASSUME NEW p \in Proc, Vanish(p), NEW q \in Proc
      PROVE  LeaseAt(q)'
  BY <1>5, VanishAt, VanishOther DEF LeaseInv
<1>6. CASE Tick
  BY <1>1, <1>6, TickLease DEF LeaseInv
<1>7. ASSUME (\E p \in Proc : Restart(p)) \/ UNCHANGED vars, NEW q \in Proc
      PROVE  LeaseAt(q)'
  BY <1>7, SameLease DEF Restart, vars, LeaseInv, Untouched
<1>8. QED
  BY <1>1, <1>2, <1>3, <1>4, <1>5, <1>6, <1>7 DEF LeaseInv, Next, Access, Exit, Crash

LEMMA LeaseExcludes == LeaseInv => MutualExclusion
  BY LeaseAssumption DEF LeaseInv, LeaseAt, Owned, MutualExclusion

\* In an orderly schedule no two processes run the task: crashes, restarts, rejected
\* prompts, failed opens and user edits included.
THEOREM LeaseExclusive == Orderly => (Spec => []MutualExclusion)
<1> SUFFICES ASSUME Orderly PROVE Spec => []MutualExclusion
  OBVIOUS
<1>1. TypeOK /\ LeaseInv /\ [Next]_vars => LeaseInv'
  BY LeaseStep
<1>2. QED
  BY <1>1, TypeInit, TypeStep, TimerInit, TimerNext, LeaseInit, LeaseExcludes, PTL DEF Spec

-----------------------------------------------------------------------------
(* The lease keeps the promise of TaskExclusion *)

Holder == IF row.left > 0 THEN row.owner ELSE Nobody
Runners == {p \in Proc : Running(p)}

Promise == [Exclusion!Next]_<<Holder, Runners>>

\* The abstract step that p takes, from what its step does to the lease.
LEMMA PromiseBy ==
  ASSUME NEW p \in Proc, LeaseInv, LeaseInv',
         \A q \in Proc \ {p} : Running(q)' = Running(q),
         \/ Holder' = Holder
         \/ Holder \in {Nobody, p} /\ Holder' = p
         \/ Holder = p /\ Holder' = Nobody /\ ~Running(p)
  PROVE  Promise
<1>1. /\ \A q \in Proc : Running(q) => Holder = q
      /\ \A q \in Proc : Running(q)' => Holder' = q
      /\ p # Nobody
  BY LeaseAssumption DEF LeaseInv, LeaseAt, Owned, Holder
<1>2. CASE ~Running(p) /\ Running(p)'
  <2>1. Runners' = {p}
    BY <1>1, <1>2 DEF Runners
  <2>2. Holder \in {Nobody, p} /\ Holder' = p
    BY <1>1, <1>2
  <2>3. Exclusion!Enter(p)
    BY <2>1, <2>2 DEF Exclusion!Enter, Holder, Runners
  <2>4. QED
    BY <2>3 DEF Promise, Exclusion!Next
<1>3. CASE Running(p) /\ ~Running(p)'
  <2>1. Runners' = Runners \ {p} /\ p \in Runners
    BY <1>3 DEF Runners
  <2>2. Holder' = Holder
    BY <1>1, <1>3
  <2>3. Exclusion!Leave(p)
    BY <2>1, <2>2 DEF Exclusion!Leave, Holder, Runners
  <2>4. QED
    BY <2>3 DEF Promise, Exclusion!Next
<1>4. CASE Running(p)' = Running(p)
  <2>1. Runners' = Runners /\ (~Running(p) => p \notin Runners)
    BY <1>4 DEF Runners
  <2>2. CASE Holder' = Holder
    BY <2>1, <2>2 DEF Promise
  <2>3. CASE Holder \in {Nobody, p} /\ Holder' = p
    <3>1. Exclusion!Take(p)
      BY <2>1, <2>3 DEF Exclusion!Take, Holder, Runners
    <3>2. QED
      BY <3>1 DEF Promise, Exclusion!Next
  <2>4. CASE Holder = p /\ Holder' = Nobody /\ ~Running(p)
    <3>1. Exclusion!Release(p)
      BY <2>1, <2>4 DEF Exclusion!Release, Holder, Runners
    <3>2. QED
      BY <3>1 DEF Promise, Exclusion!Next
  <2>5. QED
    BY <2>2, <2>3, <2>4
<1>5. QED
  BY <1>2, <1>3, <1>4 DEF Running, Underway

\* What a save of p does to the lease.
LEMMA SavePromise ==
  ASSUME TypeOK, NEW p \in Proc, LeaseAt(p), Save(p)
  PROVE  \/ Holder' = Holder
         \/ Holder \in {Nobody, p} /\ Holder' = p
         \/ Holder = p /\ Holder' = Nobody /\ ~Running(p)
<1> DEFINE op == Head(block[p].ops)
<1>1. /\ InBlock(p) /\ pend[p].loaded /\ PendInv(p) /\ BlockInv(p) /\ op \in Ops
      /\ row \in Row /\ pend[p].row \in Row
      /\ 1 \in DOMAIN block[p].ops /\ op = block[p].ops[1]
  BY RestType DEF Save, LeaseAt, TypeOK, Pending, InBlock, Block
<1>2. row' = [pend[p].row EXCEPT !.rev = row.rev + Bump(op)]
  BY <1>1 DEF Save, PendInv
<1>3. CASE op \in {"acquire", "renew"}
  <2>1. ~HeldByOther(row, p) /\ Owned(p)'
    BY <1>1, <1>2, <1>3, SaveRow
  <2>2. QED
    BY <1>1, <2>1 DEF HeldByOther, Owned, Holder, Row
<1>4. CASE op = "release" \/ (op = "mark" /\ row.owner = p)
  <2>1. ~Running(p) /\ row.owner \in {Nobody, p}
    BY <1>1, <1>2, <1>4, SaveRow DEF BlockInv
  <2>2. pend[p].row = NoLease(row)
    BY <1>1, <1>4 DEF PendInv, Change
  <2>3. row'.left = 0
    BY <1>1, <1>2, <2>2 DEF NoLease, Row
  <2>4. QED
    BY <2>1, <2>3 DEF Holder
<1>5. CASE op \in {"touch", "edit", "step", "exit"} \/ (op = "mark" /\ row.owner # p)
  <2>1. row'.owner = row.owner /\ row'.left = row.left
    BY <1>1, <1>2, <1>5, SaveRow
  <2>2. QED
    BY <2>1 DEF Holder
<1>6. QED
  BY <1>1, <1>3, <1>4, <1>5 DEF Ops, KeepOps, BumpOps

LEMMA VanishPromise ==
  ASSUME TypeOK, NEW p \in Proc, Vanish(p)
  PROVE  Promise
<1>1. ~Running(p)' /\ \A q \in Proc \ {p} : Running(q)' = Running(q)
  BY VanishIdle, BusyLocal DEF Untouched
<1>2. Runners' = Runners \ {p}
  BY <1>1 DEF Runners
<1>3. row' = Bury(row, p) /\ row \in Row /\ p # Nobody
  BY LeaseAssumption DEF Vanish, TypeOK
<1>4. Holder' = IF Holder = p THEN Dead ELSE Holder
  BY <1>3, LeaseAssumption DEF Holder, Bury, Row
<1>5. Exclusion!Die(p)
  BY <1>2, <1>4 DEF Exclusion!Die, Holder, Runners
<1>6. QED
  BY <1>5 DEF Promise, Exclusion!Next

LEMMA TickPromise ==
  ASSUME TypeOK, LeaseInv, LeaseInv', Tick
  PROVE  Promise
<1>1. \A p \in Proc : Running(p)' = Running(p)
  BY DEF Tick, Running, Underway
<1>2. Runners' = Runners
  BY <1>1 DEF Runners
<1>3. row' = Age(row) /\ row \in Row /\ row.left > 0
  BY DEF Tick, TypeOK
<1>4. CASE row.left = 1
  <2>1. Holder' = Nobody
    BY <1>3, <1>4 DEF Age, Row, Holder
  <2>2. \A p \in Proc : ~Running(p)
    BY <1>1, <2>1, LeaseAssumption DEF LeaseInv, LeaseAt, Owned, Holder
  <2>3. Holder \notin Runners
    BY <2>2 DEF Runners
  <2>4. Exclusion!Expire
    BY <1>2, <2>1, <2>3 DEF Exclusion!Expire, Holder, Runners
  <2>5. QED
    BY <2>4 DEF Promise, Exclusion!Next
<1>5. CASE row.left # 1
  <2>1. Holder' = Holder
    BY <1>3, <1>5 DEF Age, Row, Holder
  <2>2. QED
    BY <1>2, <2>1 DEF Promise
<1>6. QED
  BY <1>4, <1>5

\* In an orderly schedule every step of the processes is a step of the promise, or none.
LEMMA PromiseStep ==
  ASSUME Orderly, TypeOK, LeaseInv, LeaseInv', [Next]_vars
  PROVE  Promise
<1>1. ASSUME NEW p \in Proc, (\E c \in Call : Request(p, c)) \/ Event(p) \/ Read(p)
      PROVE  Promise
  <2>1. row' = row /\ \A q \in Proc \ {p} : Untouched(q)
    BY <1>1, EventFrame, AccessFrame DEF Read
  <2>2. \A q \in Proc \ {p} : Running(q)' = Running(q)
    BY <2>1, BusyLocal DEF Untouched
  <2>3. Holder' = Holder
    BY <2>1 DEF Holder
  <2>4. QED
    BY <2>2, <2>3, PromiseBy
<1>2. ASSUME NEW p \in Proc, Save(p)
      PROVE  Promise
  <2>1. \A q \in Proc \ {p} : Running(q)' = Running(q)
    BY <1>2, AccessFrame, BusyLocal DEF Untouched
  <2>2. LeaseAt(p)
    BY DEF LeaseInv
  <2>3. QED
    BY <1>2, <2>1, <2>2, SavePromise, PromiseBy
<1>3. CASE (\E p \in Proc : Restart(p)) \/ UNCHANGED vars
  <2>1. row' = row /\ \A p \in Proc : Running(p)' = Running(p)
    BY <1>3 DEF Restart, vars, Running, Underway
  <2>2. Holder' = Holder /\ Runners' = Runners
    BY <2>1 DEF Holder, Runners
  <2>3. QED
    BY <2>2 DEF Promise
<1>4. QED
  BY <1>1, <1>2, <1>3, VanishPromise, TickPromise DEF Next, Access, Exit, Crash

\* In an orderly schedule TaskLease implements the promise of TaskExclusion: whoever runs
\* the task holds an unexpired lease until it ends or dies, and a process takes the lease
\* only from nobody.
THEOREM LeaseImplements == Orderly => (Spec => ImplementsExclusion)
<1> SUFFICES ASSUME Orderly PROVE Spec => ImplementsExclusion
  OBVIOUS
<1>1. Init => Exclusion!Init
  BY DEF Init, Exclusion!Init, EmptyRow, Running, Underway
<1>2. TypeOK /\ LeaseInv /\ [Next]_vars => LeaseInv'
  BY LeaseStep
<1>3. TypeOK /\ LeaseInv /\ LeaseInv' /\ [Next]_vars =>
        [Exclusion!Next]_<<IF row.left > 0 THEN row.owner ELSE Nobody,
                           {p \in Proc : Running(p)}>>
  BY PromiseStep DEF Promise, Holder, Runners
<1>4. QED
  BY <1>1, <1>2, <1>3, TypeInit, TypeStep, TimerInit, TimerNext, LeaseInit, PTL
  DEF Spec, ImplementsExclusion, Exclusion!Spec
=============================================================================
