------------------------- MODULE NodeTasks_proofs --------------------------
(***************************************************************************)
(* Two small components of the Node service, each with variables of its    *)
(* own.  TaskRecovery, for any number of steps, any set of file artifacts  *)
(* and any bound on parallel tools: the types hold, the mark of the latest *)
(* side effect is seen (LatestSeen), and so is a run cut off inside a tool *)
(* (CutShortIsSeen).                                                       *)
(*                                                                         *)
(* SubagentGate, for any finite set of delegations, any tree of sessions   *)
(* and any limits: its three invariants are inductive together.  The       *)
(* counters show that a slot is free exactly when a call may start, and    *)
(* that no waiter may start shows that a grant overtakes only waiters held *)
(* back by their own parent.                                               *)
(***************************************************************************)
EXTENDS TaskRecovery, SubagentGate, FiniteSetTheorems, WellFoundedInduction, TLAPS

\* A non-empty set of naturals has a least element.
LEMMA LeastNat ==
    ASSUME NEW S \in SUBSET Nat, S # {}
    PROVE  \E m \in S : \A n \in S : m <= n
<1> DEFINE R == OpToRel(<, Nat)
<1>1. \A ss \in Nat \X Nat : ss \in R <=> ss[1] < ss[2]
  BY DEF OpToRel
<1>2. IsWellFoundedOn(R, Nat)
  BY NatLessThanWellFounded, Zenon
<1> HIDE DEF R
<1>3. PICK m \in S : \A n \in S : <<n, m>> \notin R
  BY <1>2, WFMin
<1>4. ASSUME NEW n \in S PROVE m <= n
  <2>1. <<n, m>> \in Nat \X Nat
    OBVIOUS
  <2>2. ~(n < m)
    BY <1>1, <1>3, <2>1
  <2> QED
    BY <2>2
<1> QED
  BY <1>4

\* FirstAt finds a step with the status, and 0 only if there is none.
LEMMA FirstAtFinds ==
    ASSUME NEW list, DOMAIN list \subseteq Nat, NEW st
    PROVE  \/ FirstAt(list, st) = 0
           \/ FirstAt(list, st) \in DOMAIN list /\ list[FirstAt(list, st)].st = st
<1>1. CASE ~\E i \in DOMAIN list : list[i].st = st
  BY <1>1 DEF FirstAt
<1>2. CASE \E i \in DOMAIN list : list[i].st = st
  <2> DEFINE S == {i \in DOMAIN list : list[i].st = st}
  <2>1. S \in SUBSET Nat /\ S # {}
    BY <1>2
  <2>2. PICK m \in S : \A n \in S : m <= n
    BY <2>1, LeastNat
  <2>3. \A j \in DOMAIN list : j < m => list[j].st # st
    <3> TAKE j \in DOMAIN list
    <3> HAVE j < m
    <3>1. j \in Nat /\ m \in Nat
      BY <2>1
    <3>2. j \notin S
      BY <2>2, <3>1
    <3> QED
      BY <3>2
  <2>4. \E i \in DOMAIN list :
            list[i].st = st /\ \A j \in DOMAIN list : j < i => list[j].st # st
    BY <2>2, <2>3
  <2> HIDE DEF S
  <2> QED
    BY <1>2, <2>4 DEF FirstAt
<1> QED
  BY <1>1, <1>2

\* Current is 0 or the index of a step.
LEMMA CurrentIsStep ==
    ASSUME NEW list, DOMAIN list \subseteq Nat
    PROVE  Current(list) = 0 \/ Current(list) \in DOMAIN list
BY FirstAtFinds DEF Current

\* The mark of the latest side effect is the one the row shows.
Marked ==
    newest # 0 => last.step = newest /\ last.kind \in {"write", "unknown"} /\ newest \notin late

\* A tool cut off keeps its mark in inFlight; while its session is noted it runs.
Cut == cut # "none" => inFlight \in {"write", "unknown"}
Ran == tracked => cut \in tools \cup {"none"}

Step == [st : StepStatuses, started : BOOLEAN, done : BOOLEAN]

USE RecoveryAssumption
-----------------------------------------------------------------------------
\* The current step is 0 or one of the steps.
LEMMA CurType ==
    ASSUME TypeOK
    PROVE  Cur \in 0..NSteps /\ (Cur # 0 => Cur \in Steps)
<1>1. DOMAIN steps = Steps /\ Steps \subseteq Nat
  BY DEF TypeOK, Steps
<1>2. Cur = 0 \/ Cur \in Steps
  BY <1>1, CurrentIsStep DEF Cur
<1> QED
  BY <1>2 DEF Steps

\* A status change keeps the shape of a step.
LEMMA WithStatusType ==
    ASSUME NEW s \in Step, NEW st \in StepStatuses
    PROVE  WithStatus(s, st) \in Step
BY DEF WithStatus, Step

\* ... and of the list of steps.
LEMMA ExceptType ==
    ASSUME NEW f \in [Steps -> Step], NEW i, NEW st \in StepStatuses
    PROVE  [f EXCEPT ![i] = WithStatus(@, st)] \in [Steps -> Step]
<1> DEFINE g == [f EXCEPT ![i] = WithStatus(@, st)]
<1>1. \A k \in Steps : g[k] \in Step
  <2> TAKE k \in Steps
  <2>1. f[k] \in Step
    OBVIOUS
  <2>2. WithStatus(f[k], st) \in Step
    BY <2>1, WithStatusType
  <2> QED
    BY <2>1, <2>2
<1> QED
  BY <1>1

\* A tool note keeps the types of the fields it writes.
LEMMA NoteType ==
    ASSUME TypeOK, NEW effect \in Effects \cup {"absent"}, Note(effect)
    PROVE  /\ inFlight' \in Effects \cup {"absent"}
           /\ last' \in [step : 0..NSteps, kind : Effects]
           /\ late' \subseteq Steps
<1>1. Cur \in 0..NSteps
  BY CurType
<1>2. CASE ~Noting
  BY <1>2 DEF Note, TypeOK
<1>3. CASE Noting
  BY <1>1, <1>3 DEF Note, TypeOK, Effects
<1> QED
  BY <1>2, <1>3

\* New steps of the right shape keep the types of what NewSteps writes.
LEMMA NewStepsType ==
    ASSUME TypeOK, NEW new \in [Steps -> Step], NewSteps(new)
    PROVE  steps' \in [Steps -> Step] /\ held' \in BOOLEAN /\ late' \subseteq Steps
BY DEF NewSteps

LEMMA ClassifyType ==
    ASSUME NEW t \in Tools
    PROVE  /\ Classify(t) \in Effects
           /\ t # "read" => Classify(t) \in {"write", "unknown"}
BY DEF Classify, Tools, Effects
-----------------------------------------------------------------------------
\* A status change by the user or by complete_step keeps the types.
LEMMA SetStepType ==
    ASSUME TypeOK, NEW i \in Steps, NEW st \in StepStatuses, SetStep(i, st)
    PROVE  /\ steps' \in [Steps -> Step] /\ held' \in BOOLEAN /\ late' \subseteq Steps
           /\ newest' \in 0..NSteps
<1>1. steps \in [Steps -> Step]
  BY DEF TypeOK, Step
<1>2. [steps EXCEPT ![i] = WithStatus(@, st)] \in [Steps -> Step]
  BY <1>1, ExceptType
<1>3. steps' \in [Steps -> Step] /\ held' \in BOOLEAN /\ late' \subseteq Steps
  BY <1>2, NewStepsType DEF SetStep
<1>4. newest' \in 0..NSteps
  BY DEF SetStep, TypeOK
<1> QED
  BY <1>3, <1>4

\* The steps that a resume leaves have the right shape.
LEMMA ResumeType ==
    ASSUME TypeOK, NEW mode, NEW confirm, Resume(mode, confirm)
    PROVE  /\ steps' \in [Steps -> Step] /\ held' \in BOOLEAN /\ late' \subseteq Steps
           /\ newest' \in 0..NSteps
<1> DEFINE proven == IF Verified THEN [steps EXCEPT ![Cur] = WithStatus(@, "completed")] ELSE steps
           nxt    == Current(proven)
           reset  == IF mode = "retry_step" /\ nxt # 0
                     THEN [proven EXCEPT ![nxt] = WithStatus(@, "pending")] ELSE proven
<1>1. steps \in [Steps -> Step] /\ "completed" \in StepStatuses /\ "pending" \in StepStatuses
  BY DEF TypeOK, Step, StepStatuses
<1>2. proven \in [Steps -> Step]
  BY <1>1, ExceptType
<1>3. reset \in [Steps -> Step]
  <2> HIDE DEF proven, nxt
  <2>1. [proven EXCEPT ![nxt] = WithStatus(@, "pending")] \in [Steps -> Step]
    BY <1>1, <1>2, ExceptType
  <2> QED
    BY <1>2, <2>1
<1>4. /\ IF Verified \/ mode = "retry_step" THEN NewSteps(reset) ELSE UNCHANGED <<steps, held, late>>
      /\ newest' = IF newest # 0 /\ reset[newest] # steps[newest] THEN 0 ELSE newest
  BY DEF Resume
<1> HIDE DEF reset
<1>5. steps' \in [Steps -> Step] /\ held' \in BOOLEAN /\ late' \subseteq Steps
  <2>1. CASE Verified \/ mode = "retry_step"
    BY <1>3, <1>4, <2>1, NewStepsType
  <2>2. CASE ~(Verified \/ mode = "retry_step")
    BY <1>1, <1>4, <2>2 DEF TypeOK
  <2> QED
    BY <2>1, <2>2
<1>6. newest' \in 0..NSteps
  BY <1>4 DEF TypeOK
<1> QED
  BY <1>5, <1>6
-----------------------------------------------------------------------------
LEMMA TypeInit == Init => TypeOK
<1> SUFFICES ASSUME Init PROVE TypeOK
  OBVIOUS
<1>1. steps \in [Steps -> [st : StepStatuses, started : BOOLEAN, done : BOOLEAN]]
  BY DEF Init, StepStatuses
<1>2. last \in [step : 0..NSteps, kind : Effects] /\ newest \in 0..NSteps
  BY DEF Init, Effects
<1> QED
  BY <1>1, <1>2 DEF Init, TypeOK

LEMMA TypeNext == TypeOK /\ [Next]_vars => TypeOK'
<1> SUFFICES ASSUME TypeOK, [Next]_vars PROVE TypeOK'
  OBVIOUS
<1> USE DEF Step
<1>0. CASE UNCHANGED vars
  BY <1>0 DEF TypeOK, vars, row, agent, ghost
<1>1. CASE TurnStart
  <2>1. Note("none") /\ "none" \in Effects
    BY <1>1 DEF TurnStart, Effects
  <2>2. /\ inFlight' \in Effects \cup {"absent"}
        /\ last' \in [step : 0..NSteps, kind : Effects] /\ late' \subseteq Steps
    BY <2>1, NoteType
  <2> QED
    BY <1>1, <2>2 DEF TurnStart, TypeOK, ghost
<1>2. CASE Settle
  <2>1. Note("absent")
    BY <1>2 DEF Settle, NoteNone
  <2>2. /\ inFlight' \in Effects \cup {"absent"}
        /\ last' \in [step : 0..NSteps, kind : Effects] /\ late' \subseteq Steps
    BY <2>1, NoteType
  <2> QED
    BY <1>2, <2>2 DEF Settle, TypeOK, ghost
<1>3. ASSUME NEW t \in Tools, ToolStart(t) PROVE TypeOK'
  <2>1. Note(Classify(t)) /\ Classify(t) \in Effects
    BY <1>3, ClassifyType DEF ToolStart
  <2>2. /\ inFlight' \in Effects \cup {"absent"}
        /\ last' \in [step : 0..NSteps, kind : Effects] /\ late' \subseteq Steps
    BY <2>1, NoteType
  <2>3. newest' \in 0..NSteps
    BY <1>3, CurType DEF ToolStart, TypeOK
  <2>4. cut' \in Changing \cup {"none"} /\ tools' \subseteq Tools
    BY <1>3 DEF ToolStart, TypeOK
  <2> QED
    BY <1>3, <2>2, <2>3, <2>4 DEF ToolStart, TypeOK
<1>4. ASSUME NEW t \in Tools, ToolEnd(t) PROVE TypeOK'
  <2>1. Note("absent")
    BY <1>4 DEF ToolEnd, NoteNone
  <2>2. /\ inFlight' \in Effects \cup {"absent"}
        /\ last' \in [step : 0..NSteps, kind : Effects] /\ late' \subseteq Steps
    BY <2>1, NoteType
  <2>3. cut' \in Changing \cup {"none"} /\ tools' \subseteq tools
    BY <1>4 DEF ToolEnd, TypeOK
  <2> QED
    BY <1>4, <2>2, <2>3 DEF ToolEnd, TypeOK
<1>5. ASSUME NEW i \in Files, Produce(i) PROVE TypeOK'
  BY <1>5 DEF Produce, TypeOK, row, agent, ghost
<1>6. ASSUME NEW i \in Steps, CompleteStep(i) PROVE TypeOK'
  <2>1. SetStep(i, "completed") /\ "completed" \in StepStatuses
    BY <1>6 DEF CompleteStep, StepStatuses
  <2>2. /\ steps' \in [Steps -> Step] /\ held' \in BOOLEAN /\ late' \subseteq Steps
        /\ newest' \in 0..NSteps
    BY <2>1, SetStepType
  <2> QED
    BY <1>6, <2>2 DEF CompleteStep, TypeOK, agent
<1>7. CASE Start
  BY <1>7 DEF Start, Begin, TypeOK
<1>8. CASE ChatPrompt
  BY <1>8 DEF ChatPrompt, TypeOK, row, ghost
<1>9. ASSUME NEW mode \in {"continue", "retry_step"}, NEW confirm \in BOOLEAN, Resume(mode, confirm)
      PROVE TypeOK'
  <2>1. /\ steps' \in [Steps -> Step] /\ held' \in BOOLEAN /\ late' \subseteq Steps
        /\ newest' \in 0..NSteps
    BY <1>9, ResumeType
  <2>2. Begin /\ alive /\ run = "idle"
    BY <1>9 DEF Resume, Resumable
  <2> QED
    BY <2>1, <2>2 DEF Begin, TypeOK
<1>10. ASSUME NEW confirm \in BOOLEAN, Unverified(confirm) PROVE TypeOK'
  BY <1>10 DEF Unverified, Resumable, TypeOK, agent, Changing
<1>11. ASSUME NEW i \in Steps, NEW st \in {"pending", "in_progress", "completed"}, UserSet(i, st)
       PROVE TypeOK'
  <2>1. SetStep(i, st) /\ st \in StepStatuses
    BY <1>11 DEF UserSet, StepStatuses
  <2>2. /\ steps' \in [Steps -> Step] /\ held' \in BOOLEAN /\ late' \subseteq Steps
        /\ newest' \in 0..NSteps
    BY <2>1, SetStepType
  <2> QED
    BY <1>11, <2>2 DEF UserSet, TypeOK, agent
<1>12. CASE Crash
  BY <1>12 DEF Crash, Die, Orphaned, TypeOK, ghost
<1>13. CASE Exit
  BY <1>13 DEF Exit, Die, TypeOK, ghost
<1>14. CASE Restart
  BY <1>14 DEF Restart, TypeOK, row, agent, ghost
<1>15. CASE Lapse
  BY <1>15 DEF Lapse, TypeOK, agent, ghost
<1> QED
  BY <1>0, <1>1, <1>2, <1>3, <1>4, <1>5, <1>6, <1>7, <1>8, <1>9, <1>10, <1>11, <1>12, <1>13, <1>14,
     <1>15 DEF Next, Agent, User, Host

\* The row, the agent and the ghosts have their types, a lease of the live
\* server means a run of the task and the reverse, and only a live server runs.
THEOREM RecoveryTypeCorrect == Spec => []TypeOK
<1> QED
  BY TypeInit, TypeNext, PTL DEF Spec
-----------------------------------------------------------------------------
(* LatestSeen, for any number of parallel tools.                           *)

\* A status change leaves the mark of any other step alone.
LEMMA NewStepsMarked ==
    ASSUME TypeOK, Marked, NEW new, NewSteps(new), last' = last,
           newest' # 0 => newest' = newest /\ new[newest] = steps[newest]
    PROVE  Marked'
<1> SUFFICES ASSUME newest' # 0
             PROVE  last'.step = newest' /\ last'.kind \in {"write", "unknown"} /\ newest' \notin late'
  BY DEF Marked
<1>1. newest' = newest /\ newest # 0 /\ new[newest] = steps[newest]
  OBVIOUS
<1>2. newest \notin late'
  BY <1>1 DEF NewSteps, Marked
<1> QED
  BY <1>1, <1>2 DEF Marked

LEMMA SetStepMarked ==
    ASSUME TypeOK, Marked, NEW i \in Steps, NEW st, SetStep(i, st), last' = last
    PROVE  Marked'
<1> DEFINE new == [steps EXCEPT ![i] = WithStatus(@, st)]
<1>1. NewSteps(new) /\ newest' = IF newest = i THEN 0 ELSE newest
  BY DEF SetStep
<1>2. newest' # 0 => newest' = newest /\ new[newest] = steps[newest]
  <2> HAVE newest' # 0
  <2>1. newest # i /\ newest' = newest /\ newest \in Steps
    BY <1>1 DEF TypeOK, Steps
  <2>2. newest \in DOMAIN steps
    BY <2>1 DEF TypeOK
  <2> QED
    BY <2>1, <2>2
<1> HIDE DEF new
<1> QED
  BY <1>1, <1>2, NewStepsMarked

LEMMA MarkedNext == TypeOK /\ Marked /\ [Next]_vars => Marked'
<1> SUFFICES ASSUME TypeOK, Marked, [Next]_vars PROVE Marked'
  OBVIOUS
<1>0. ASSUME UNCHANGED <<last, late, newest>> PROVE Marked'
  BY <1>0 DEF Marked
<1>1. ASSUME NEW effect \in {"none", "absent"}, Note(effect), newest' = newest PROVE Marked'
  <2>1. UNCHANGED <<last, late, newest>>
    BY <1>1 DEF Note
  <2> QED
    BY <1>0, <2>1
<1>2. ASSUME NEW t \in Tools, ToolStart(t) PROVE Marked'
  <2>0. Note(Classify(t))
    BY <1>2 DEF ToolStart
  <2>1. CASE ~Noting
    <3>1. UNCHANGED <<last, late, newest>>
      BY <1>2, <2>0, <2>1 DEF ToolStart, Note
    <3> QED
      BY <1>0, <3>1
  <2>2. CASE t = "read"
    <3>1. Note("none") /\ newest' = newest
      BY <1>2, <2>0, <2>2 DEF ToolStart, Classify
    <3> QED
      BY <1>1, <3>1
  <2>3. CASE Noting /\ t # "read"
    <3>1. Classify(t) \in {"write", "unknown"}
      BY <2>3, ClassifyType
    <3>2. last' = [step |-> Cur, kind |-> Classify(t)] /\ late' = {}
      BY <2>0, <2>3, <3>1 DEF Note
    <3>3. newest' \in {Cur, 0}
      BY <1>2, <2>3 DEF ToolStart
    <3> QED
      BY <3>1, <3>2, <3>3 DEF Marked
  <2> QED
    BY <2>1, <2>2, <2>3
<1>3. ASSUME NEW i \in Steps, CompleteStep(i) PROVE Marked'
  BY <1>3, SetStepMarked DEF CompleteStep
<1>4. ASSUME NEW i \in Steps, NEW st, UserSet(i, st) PROVE Marked'
  BY <1>4, SetStepMarked DEF UserSet
<1>5. ASSUME NEW mode, NEW confirm, Resume(mode, confirm) PROVE Marked'
  <2> DEFINE proven == IF Verified THEN [steps EXCEPT ![Cur] = WithStatus(@, "completed")] ELSE steps
             nxt    == Current(proven)
             reset  == IF mode = "retry_step" /\ nxt # 0
                       THEN [proven EXCEPT ![nxt] = WithStatus(@, "pending")] ELSE proven
  <2>1. /\ IF Verified \/ mode = "retry_step" THEN NewSteps(reset) ELSE UNCHANGED <<steps, held, late>>
        /\ newest' = IF newest # 0 /\ reset[newest] # steps[newest] THEN 0 ELSE newest
        /\ last' = last
    BY <1>5 DEF Resume, Begin
  <2> HIDE DEF reset
  <2>2. CASE Verified \/ mode = "retry_step"
    <3>1. NewSteps(reset)
      BY <2>1, <2>2
    <3>2. newest' # 0 => newest' = newest /\ reset[newest] = steps[newest]
      BY <2>1
    <3> QED
      BY <2>1, <3>1, <3>2, NewStepsMarked
  <2>3. CASE ~(Verified \/ mode = "retry_step")
    BY <2>1, <2>3 DEF Marked
  <2> QED
    BY <2>2, <2>3
<1>6. ASSUME TurnStart \/ Settle \/ \E t \in Tools : ToolEnd(t) PROVE Marked'
  BY <1>1, <1>6 DEF TurnStart, Settle, ToolEnd, NoteNone, ghost
<1>7. ASSUME \/ UNCHANGED vars \/ \E i \in Files : Produce(i)
             \/ Start \/ ChatPrompt \/ Restart \/ Crash \/ Exit \/ Lapse
             \/ \E confirm \in BOOLEAN : Unverified(confirm)
      PROVE  Marked'
  <2>1. UNCHANGED <<last, late, newest>>
    BY <1>7 DEF vars, row, ghost, Produce, Start, Begin, ChatPrompt, Restart, Crash, Exit, Die, Lapse,
       Unverified
  <2> QED
    BY <1>0, <2>1
<1> QED
  BY <1>2, <1>3, <1>4, <1>5, <1>6, <1>7 DEF Next, Agent, User, Host

LEMMA MarkedSeen == TypeOK /\ Marked => LatestSeen
BY DEF Marked, LatestSeen, Action, SideEffect, TypeOK, Effects

\* The latest side effect of the present attempt of the current step forbids a
\* resume without a check or a confirmation, unless inFlight says "none".
THEOREM LatestSideEffectSeen == Spec => []LatestSeen
<1>1. Init => Marked
  BY DEF Init, Marked
<1> QED
  BY <1>1, TypeInit, TypeNext, MarkedNext, MarkedSeen, PTL DEF Spec
-----------------------------------------------------------------------------
(* CutShortIsSeen, for any number of parallel tools.                       *)
LEMMA CutNext == TypeOK /\ Cut /\ Ran /\ [Next]_vars => Cut' /\ Ran'
<1> SUFFICES ASSUME TypeOK, Cut, Ran, [Next]_vars PROVE Cut' /\ Ran'
  OBVIOUS
<1>0. ASSUME UNCHANGED <<inFlight, cut, tools, tracked>> PROVE Cut' /\ Ran'
  BY <1>0 DEF Cut, Ran
<1>1. CASE TurnStart \/ Settle
  <2>1. tools = {} /\ UNCHANGED <<cut, tools, tracked>> /\ (Note("none") \/ Note("absent"))
    BY <1>1 DEF TurnStart, Settle, NoteNone, ghost
  <2>2. CASE tracked
    BY <2>1, <2>2 DEF Cut, Ran
  <2>3. CASE ~tracked
    BY <2>1, <2>3 DEF Cut, Ran, Note, Noting
  <2> QED
    BY <2>2, <2>3
<1>2. ASSUME NEW t \in Tools, ToolStart(t) PROVE Cut' /\ Ran'
  <2>1. /\ tools' = tools \cup {t} /\ tracked' = tracked /\ Note(Classify(t))
        /\ cut' = IF ~tracked THEN cut ELSE IF Noting /\ t \in Changing THEN t ELSE "none"
    BY <1>2 DEF ToolStart
  <2>2. CASE Noting /\ t \in Changing
    <3>1. Classify(t) \in {"write", "unknown"}
      BY <2>2, ClassifyType DEF Changing
    <3>2. inFlight' = Classify(t) /\ cut' = t
      BY <2>1, <2>2 DEF Note, Noting
    <3> QED
      BY <2>1, <3>1, <3>2 DEF Cut, Ran
  <2>3. CASE tracked /\ ~(Noting /\ t \in Changing)
    BY <2>1, <2>3 DEF Cut, Ran
  <2>4. CASE ~tracked
    BY <2>1, <2>4 DEF Cut, Ran, Note, Noting
  <2> QED
    BY <2>2, <2>3, <2>4
<1>3. ASSUME NEW t \in Tools, ToolEnd(t) PROVE Cut' /\ Ran'
  <2>1. tracked' = tracked /\ Note("absent") /\ cut' = IF tracked THEN "none" ELSE cut
    BY <1>3 DEF ToolEnd, NoteNone
  <2> QED
    BY <2>1 DEF Cut, Ran, Note, Noting
<1>4. ASSUME NEW i \in Files, Produce(i) PROVE Cut' /\ Ran'
  BY <1>0, <1>4 DEF Produce, row, agent, ghost
<1>5. ASSUME NEW i \in Steps, CompleteStep(i) PROVE Cut' /\ Ran'
  BY <1>0, <1>5 DEF CompleteStep, agent
<1>6. ASSUME NEW i \in Steps, NEW st, UserSet(i, st) PROVE Cut' /\ Ran'
  BY <1>0, <1>6 DEF UserSet, agent
<1>7. ASSUME cut' = "none" PROVE Cut' /\ Ran'
  BY <1>7 DEF Cut, Ran
<1>8. CASE Start \/ (\E mode, confirm : Resume(mode, confirm)) \/ (\E confirm : Unverified(confirm))
  BY <1>7, <1>8 DEF Start, Resume, Unverified, Begin
<1>9. CASE ChatPrompt \/ Restart \/ Lapse \/ UNCHANGED vars
  BY <1>0, <1>9 DEF vars, row, agent, ghost, ChatPrompt, Restart, Lapse
<1>10. CASE Crash \/ Exit
  BY <1>10 DEF Crash, Exit, Die, Cut, Ran, ghost
<1> QED
  BY <1>1, <1>2, <1>3, <1>4, <1>5, <1>6, <1>8, <1>9, <1>10 DEF Next, Agent, User, Host

LEMMA CutSeen == TypeOK /\ Cut => CutShortIsSeen
BY DEF Cut, CutShortIsSeen, Action, SideEffect, TypeOK

\* A run cut off inside the tool that was noted last, one that may have changed
\* the workspace, is never resumed without a check or a confirmation.
THEOREM CutShortSeen == Spec => []CutShortIsSeen
<1>1. Init => Cut /\ Ran
  BY DEF Init, Cut, Ran
<1> QED
  BY <1>1, TypeInit, TypeNext, CutNext, CutSeen, PTL DEF Spec
-----------------------------------------------------------------------------
(* SubagentGate *)

HeldBy(p) == {c \in Holding : Parent(c) = p}

IInv == GateTypeOK /\ SlotsCounted /\ NobodyWaitsInVain
-----------------------------------------------------------------------------
LEMMA ParentIsSession == \A c \in Calls : Parent(c) \in Sessions
  BY DEF Sessions

LEMMA HoldingFinite == IsFiniteSet(Holding) /\ \A p \in Sessions : IsFiniteSet(HeldBy(p))
<1>1. Holding \subseteq Calls /\ \A p \in Sessions : HeldBy(p) \subseteq Calls
  BY DEF Holding, HeldBy, In
<1> QED BY <1>1, GateAssumption, FS_Subset

LEMMA BelowAreCalls == \A p : Below(p) \subseteq Calls
  BY DEF Below

\* What takeSlot does to the counters.
LEMMA GrantCounted ==
  ASSUME GateTypeOK, SlotsCounted, NEW c \in Calls, phase[c] \in {"resolving", "queued"},
         CanStart(Parent(c)), TakeSlot(c), phase' = [phase EXCEPT ![c] = "granted"]
  PROVE  SlotsCounted'
<1>1. Parent(c) \in Sessions
  BY ParentIsSession
<1>2. Holding' = Holding \cup {c} /\ c \notin Holding
  BY DEF Holding, In, GateTypeOK
<1>3. active' = Cardinality(Holding')
  BY <1>2, HoldingFinite, FS_AddElement, FS_CardinalityType DEF SlotsCounted, TakeSlot, GateTypeOK
<1>4. ASSUME NEW p \in Sessions PROVE byParent'[p] = Cardinality(HeldBy(p)')
  <2>1. CASE p = Parent(c)
    <3>1. HeldBy(p)' = HeldBy(p) \cup {c} /\ c \notin HeldBy(p)
      BY <2>1, <1>2 DEF HeldBy
    <3>2. Cardinality(HeldBy(p)') = Cardinality(HeldBy(p)) + 1
      BY <3>1, HoldingFinite, FS_AddElement
    <3>3. byParent'[p] = byParent[p] + 1
      BY <2>1, <1>1 DEF TakeSlot, GateTypeOK
    <3> QED BY <3>2, <3>3 DEF SlotsCounted, HeldBy
  <2>2. CASE p # Parent(c)
    <3>1. HeldBy(p)' = HeldBy(p)
      BY <2>2, <1>2 DEF HeldBy
    <3>2. byParent'[p] = byParent[p]
      BY <2>2, <1>1 DEF TakeSlot, GateTypeOK
    <3> QED BY <3>1, <3>2 DEF SlotsCounted, HeldBy
  <2> QED BY <2>1, <2>2
<1>5. active' <= MaxConcurrent /\ \A p \in Sessions : byParent'[p] <= MaxPerParent
  BY <1>1, GateAssumption DEF SlotsCounted, TakeSlot, CanStart, GateTypeOK
<1> QED BY <1>3, <1>4, <1>5 DEF SlotsCounted, HeldBy

\* What releaseSlot does to the counters.
LEMMA FreeCounted ==
  ASSUME GateTypeOK, SlotsCounted, NEW c \in Holding, ReleaseSlot(c),
         NEW st \in {"closing", "done"}, phase' = [phase EXCEPT ![c] = st]
  PROVE  SlotsCounted' /\ active' \in Nat /\ byParent' \in [Sessions -> Nat]
<1>0. c \in Calls /\ Parent(c) \in Sessions
  BY ParentIsSession DEF Holding, In
<1>2. Holding' = Holding \ {c}
  BY <1>0 DEF Holding, In, GateTypeOK
<1>3. Cardinality(Holding') = Cardinality(Holding) - 1 /\ Cardinality(Holding') \in Nat
  <2>1. IsFiniteSet(Holding) /\ IsFiniteSet(Holding')
    BY <1>2, HoldingFinite, FS_RemoveElement
  <2> QED BY <1>2, <2>1, FS_RemoveElement, FS_CardinalityType
<1>4. active' = Cardinality(Holding') /\ active' \in Nat /\ active' <= MaxConcurrent
  BY <1>3, GateAssumption DEF SlotsCounted, ReleaseSlot, GateTypeOK
<1>5. byParent' \in [Sessions -> Nat]
  BY <1>0 DEF ReleaseSlot, GateTypeOK
<1>6. ASSUME NEW p \in Sessions
      PROVE  byParent'[p] = Cardinality(HeldBy(p)') /\ byParent'[p] <= MaxPerParent
  <2>1. CASE p = Parent(c)
    <3>1. HeldBy(p)' = HeldBy(p) \ {c} /\ c \in HeldBy(p) /\ IsFiniteSet(HeldBy(p))
      BY <2>1, <1>2, HoldingFinite DEF HeldBy
    <3>2. Cardinality(HeldBy(p)') = Cardinality(HeldBy(p)) - 1
      BY <3>1, FS_RemoveElement
    <3>3. Cardinality(HeldBy(p)') \in Nat
      BY <3>1, FS_RemoveElement, FS_CardinalityType
    <3>4. byParent[p] = Cardinality(HeldBy(p)) /\ byParent[p] \in Nat /\ byParent[p] <= MaxPerParent
      BY DEF SlotsCounted, HeldBy, GateTypeOK
    <3>5. byParent'[p] = IF byParent[p] <= 1 THEN 0 ELSE byParent[p] - 1
      BY <2>1, <1>0 DEF ReleaseSlot, GateTypeOK
    <3> QED BY <3>2, <3>3, <3>4, <3>5, GateAssumption
  <2>2. CASE p # Parent(c)
    <3>1. HeldBy(p)' = HeldBy(p)
      BY <2>2, <1>2 DEF HeldBy
    <3>2. byParent'[p] = byParent[p]
      BY <2>2, <1>0 DEF ReleaseSlot, GateTypeOK
    <3> QED BY <3>1, <3>2 DEF SlotsCounted, HeldBy
  <2> QED BY <2>1, <2>2
<1> QED BY <1>4, <1>5, <1>6 DEF SlotsCounted, HeldBy

LEMMA SameCounted ==
  ASSUME SlotsCounted, Holding' = Holding, UNCHANGED <<active, byParent>>
  PROVE  SlotsCounted'
  BY DEF SlotsCounted
-----------------------------------------------------------------------------
(* One lemma per kind of step.                                             *)

LEMMA InitOk == GateInit => IInv
<1> SUFFICES ASSUME GateInit PROVE IInv
  OBVIOUS
<1>1. Queued = {} /\ Holding = {} /\ \A p \in Sessions : HeldBy(p) = {}
  BY DEF GateInit, Queued, Holding, HeldBy, In
<1>2. GateTypeOK
  BY <1>1 DEF GateInit, GateTypeOK, Phases
<1>3. SlotsCounted
  BY <1>1, FS_EmptySet, GateAssumption DEF GateInit, SlotsCounted, HeldBy
<1>4. NobodyWaitsInVain
  BY <1>1 DEF NobodyWaitsInVain
<1> QED BY <1>2, <1>3, <1>4 DEF IInv

LEMMA LookOk ==
  ASSUME IInv, NEW w \in Calls, Look(w)
  PROVE  IInv'
<1> USE DEF IInv
<1>1. w \in Queued /\ phase[w] = "queued" /\ Parent(w) \in Sessions
  BY ParentIsSession DEF Look, GateTypeOK, Queued, In
<1>2. CASE CanStart(Parent(w))
  <2>1. phase' = [phase EXCEPT ![w] = "granted"] /\ TakeSlot(w)
        /\ ahead' = [d \in Calls |-> IF d = w THEN {} ELSE ahead[d] \ {w}]
        /\ unseen' = unseen \ {w} /\ UNCHANGED <<stopped, signal>>
    BY <1>2 DEF Look, Leave
  <2>2. Queued' = Queued \ {w}
    BY <2>1 DEF Queued, In, GateTypeOK
  <2>3. active' = active + 1 /\ active' \in Nat /\ byParent' \in [Sessions -> Nat]
        /\ \A p \in Sessions : byParent'[p] >= byParent[p]
    BY <2>1, <1>1 DEF TakeSlot, GateTypeOK
  <2>4. GateTypeOK'
    <3>1. phase' \in [Calls -> Phases] /\ unseen' \subseteq Queued'
      BY <2>1, <2>2 DEF GateTypeOK, Phases
    <3>2. ahead' \in [Calls -> SUBSET Queued']
      BY <2>1, <2>2 DEF GateTypeOK
    <3>3. \A d \in Calls : d \notin ahead'[d] /\ (phase'[d] # "queued" => ahead'[d] = {})
      BY <2>1 DEF GateTypeOK
    <3>4. \A d, e \in Queued' : d # e => (d \in ahead'[e] <=> e \notin ahead'[d])
      BY <2>1, <2>2 DEF GateTypeOK, Queued, In
    <3> QED BY <2>1, <2>3, <3>1, <3>2, <3>3, <3>4 DEF GateTypeOK
  <2>5. SlotsCounted'
    BY <2>1, <1>1, <1>2, GrantCounted
  <2>6. NobodyWaitsInVain'
    BY <2>1, <2>2, <2>3, ParentIsSession, GateAssumption DEF NobodyWaitsInVain, CanStart, GateTypeOK, Queued, In
  <2> QED BY <2>4, <2>5, <2>6
<1>3. CASE ~CanStart(Parent(w))
  <2>1. UNCHANGED <<phase, ahead, active, byParent, stopped, signal>> /\ unseen' = unseen \ {w}
    BY <1>3 DEF Look
  <2>2. Queued' = Queued /\ Holding' = Holding
    BY <2>1 DEF Queued, Holding, In
  <2>3. GateTypeOK'
    BY <2>1, <2>2 DEF GateTypeOK
  <2>4. SlotsCounted'
    BY <2>1, <2>2, SameCounted
  <2>5. NobodyWaitsInVain'
    BY <2>1, <2>2, <1>3 DEF NobodyWaitsInVain, CanStart
  <2> QED BY <2>3, <2>4, <2>5
<1> QED BY <1>2, <1>3

LEMMA AcquireOk ==
  ASSUME IInv, unseen = {}, NEW c \in Calls, Acquire(c)
  PROVE  IInv'
<1> USE DEF IInv
<1>1. phase[c] = "resolving" /\ c \notin Queued /\ Parent(c) \in Sessions
      /\ UNCHANGED <<unseen, stopped, signal>>
  BY ParentIsSession DEF Acquire, Queued, In
<1>2. CASE CanStart(Parent(c))
  <2>1. phase' = [phase EXCEPT ![c] = "granted"] /\ TakeSlot(c) /\ UNCHANGED ahead
    BY <1>2 DEF Acquire
  <2>2. Queued' = Queued
    BY <2>1, <1>1 DEF Queued, In, GateTypeOK
  <2>3. active' = active + 1 /\ active' \in Nat /\ byParent' \in [Sessions -> Nat]
        /\ \A p \in Sessions : byParent'[p] >= byParent[p]
    BY <2>1, <1>1 DEF TakeSlot, GateTypeOK
  <2>4. GateTypeOK'
    BY <2>1, <2>2, <2>3, <1>1 DEF GateTypeOK, Phases
  <2>5. SlotsCounted'
    BY <2>1, <1>1, <1>2, GrantCounted
  <2>6. NobodyWaitsInVain'
    BY <2>1, <2>2, <2>3, <1>1, ParentIsSession, GateAssumption DEF NobodyWaitsInVain, CanStart, GateTypeOK, Queued, In
  <2> QED BY <2>4, <2>5, <2>6
<1>3. CASE ~CanStart(Parent(c)) /\ c \in signal
  <2>1. phase' = [phase EXCEPT ![c] = "done"] /\ UNCHANGED <<ahead, active, byParent>>
    BY <1>3 DEF Acquire
  <2>2. Queued' = Queued /\ Holding' = Holding
    BY <2>1, <1>1 DEF Queued, Holding, In, GateTypeOK
  <2>3. GateTypeOK'
    BY <2>1, <2>2, <1>1 DEF GateTypeOK, Phases
  <2>4. SlotsCounted'
    BY <2>1, <2>2, SameCounted
  <2>5. NobodyWaitsInVain'
    BY <2>1, <2>2, <1>1 DEF NobodyWaitsInVain, CanStart
  <2> QED BY <2>3, <2>4, <2>5
<1>4. CASE ~CanStart(Parent(c)) /\ c \notin signal
  <2>1. phase' = [phase EXCEPT ![c] = "queued"] /\ ahead' = [ahead EXCEPT ![c] = Queued]
        /\ UNCHANGED <<active, byParent>>
    BY <1>4 DEF Acquire
  <2>2. Queued' = Queued \cup {c} /\ Holding' = Holding
    BY <2>1, <1>1 DEF Queued, Holding, In, GateTypeOK
  <2>3. GateTypeOK'
    <3>1. \A d \in Calls : c \notin ahead[d]
      BY <1>1 DEF GateTypeOK
    <3>2. ahead' \in [Calls -> SUBSET Queued']
      BY <2>1, <2>2 DEF GateTypeOK
    <3>3. phase' \in [Calls -> Phases]
      BY <2>1 DEF GateTypeOK, Phases
    <3>4. \A d \in Calls : d \notin ahead'[d] /\ (phase'[d] # "queued" => ahead'[d] = {})
      BY <2>1, <1>1 DEF GateTypeOK
    <3>5. \A d, e \in Queued' : d # e => (d \in ahead'[e] <=> e \notin ahead'[d])
      <4> SUFFICES ASSUME NEW d \in Queued', NEW e \in Queued', d # e
                   PROVE  d \in ahead'[e] <=> e \notin ahead'[d]
        OBVIOUS
      <4>0. d \in Calls /\ e \in Calls
        BY DEF Queued, In
      <4>1. CASE d = c
        BY <4>0, <4>1, <3>1, <2>1, <2>2 DEF GateTypeOK
      <4>2. CASE e = c
        BY <4>0, <4>2, <3>1, <2>1, <2>2 DEF GateTypeOK
      <4>3. CASE d # c /\ e # c
        BY <4>0, <4>3, <2>1, <2>2 DEF GateTypeOK
      <4> QED BY <4>1, <4>2, <4>3
    <3> QED BY <1>1, <2>1, <2>2, <3>2, <3>3, <3>4, <3>5 DEF GateTypeOK
  <2>4. SlotsCounted'
    BY <2>1, <2>2, SameCounted
  <2>5. NobodyWaitsInVain'
    BY <2>1, <2>2, <1>1, <1>4 DEF NobodyWaitsInVain, CanStart
  <2> QED BY <2>3, <2>4, <2>5
<1> QED BY <1>2, <1>3, <1>4

\* A call moves on without touching the queue or the slots.
LEMMA MoveOk ==
  ASSUME IInv, NEW c \in Calls, NEW st \in Phases \ {"queued"}, phase[c] # "queued",
         phase[c] \in {"granted", "running"} <=> st \in {"granted", "running"},
         phase' = [phase EXCEPT ![c] = st],
         UNCHANGED <<ahead, unseen, active, byParent, stopped, signal>>
  PROVE  IInv'
<1> USE DEF IInv
<1>2. Queued' = Queued /\ Holding' = Holding
  BY DEF Queued, Holding, In, GateTypeOK
<1>3. GateTypeOK'
  BY <1>2 DEF GateTypeOK
<1>4. SlotsCounted'
  BY <1>2, SameCounted
<1>5. NobodyWaitsInVain'
  BY <1>2 DEF NobodyWaitsInVain, CanStart
<1> QED BY <1>3, <1>4, <1>5

\* A call gives its slot back.
LEMMA FreeOk ==
  ASSUME IInv, unseen = {}, NEW c \in Calls, phase[c] \in {"granted", "running"},
         NEW st \in {"closing", "done"}, phase' = [phase EXCEPT ![c] = st],
         ReleaseSlot(c), UNCHANGED <<ahead, stopped, signal>>
  PROVE  IInv'
<1> USE DEF IInv
<1>1. c \in Holding
  BY DEF Holding, In
<1>2. Queued' = Queued
  BY DEF Queued, In, GateTypeOK
<1>3. SlotsCounted' /\ active' \in Nat /\ byParent' \in [Sessions -> Nat]
  BY <1>1, FreeCounted
<1>4. GateTypeOK'
  BY <1>2, <1>3 DEF GateTypeOK, Phases, ReleaseSlot
<1>5. NobodyWaitsInVain'
  BY <1>2 DEF NobodyWaitsInVain, ReleaseSlot
<1> QED BY <1>3, <1>4, <1>5

LEMMA CancelOk ==
  ASSUME IInv, unseen = {}, NEW direct, NEW reached, reached \subseteq Calls, NEW dropped,
         Cancel(direct, reached, dropped)
  PROVE  IInv'
<1> USE DEF IInv
<1> DEFINE gone == Queued \cap (reached \cup dropped)
<1>1. /\ signal' = signal \cup reached
      /\ stopped' = stopped \cup (In("running") \cap (direct \cup reached))
      /\ phase' = [c \in Calls |-> IF c \in gone THEN "done" ELSE phase[c]]
      /\ ahead' = [c \in Calls |-> IF c \in gone THEN {} ELSE ahead[c] \ gone]
      /\ UNCHANGED <<unseen, active, byParent>>
  BY DEF Cancel
<1>2. gone \subseteq Queued /\ gone \subseteq Calls
  BY DEF Queued, In
<1> HIDE DEF gone
<1>3. Queued' = Queued \ gone
  BY <1>1, <1>2 DEF Queued, In
<1>4. Holding' = Holding
  BY <1>1, <1>2 DEF Queued, Holding, In
<1>5. GateTypeOK'
  <2>1. phase' \in [Calls -> Phases] /\ stopped' \subseteq Calls /\ signal' \subseteq Calls
    BY <1>1 DEF GateTypeOK, Phases, In
  <2>2. ahead' \in [Calls -> SUBSET Queued']
    BY <1>1, <1>3 DEF GateTypeOK
  <2>3. \A d \in Calls : d \notin ahead'[d] /\ (phase'[d] # "queued" => ahead'[d] = {})
    <3> SUFFICES ASSUME NEW d \in Calls
                 PROVE  d \notin ahead'[d] /\ (phase'[d] # "queued" => ahead'[d] = {})
      OBVIOUS
    <3>1. CASE d \in gone
      BY <3>1, <1>1
    <3>2. CASE d \notin gone
      BY <3>2, <1>1 DEF GateTypeOK
    <3> QED BY <3>1, <3>2
  <2>4. \A d, e \in Queued' : d # e => (d \in ahead'[e] <=> e \notin ahead'[d])
    <3> SUFFICES ASSUME NEW d \in Queued', NEW e \in Queued', d # e
                 PROVE  d \in ahead'[e] <=> e \notin ahead'[d]
      OBVIOUS
    <3>1. d \in Queued \ gone /\ e \in Queued \ gone /\ d \in Calls /\ e \in Calls
      BY <1>3 DEF Queued, In
    <3>2. ahead'[e] = ahead[e] \ gone /\ ahead'[d] = ahead[d] \ gone
      BY <3>1, <1>1
    <3> QED BY <3>1, <3>2 DEF GateTypeOK
  <2> QED BY <1>1, <1>3, <2>1, <2>2, <2>3, <2>4 DEF GateTypeOK
<1>6. SlotsCounted'
  BY <1>1, <1>4, SameCounted
<1>7. NobodyWaitsInVain'
  BY <1>1, <1>3 DEF NobodyWaitsInVain, CanStart
<1> QED BY <1>5, <1>6, <1>7
-----------------------------------------------------------------------------
LEMMA NextOk == IInv /\ [GateNext]_gateVars => IInv'
<1> SUFFICES ASSUME IInv, [GateNext]_gateVars PROVE IInv'
  OBVIOUS
<1>1. CASE Drain
  BY <1>1, LookOk DEF Drain
<1>2. ASSUME NEW c \in Calls, Return(c), unseen = {} PROVE IInv'
  BY <1>2, FreeOk DEF Return
<1>3. ASSUME NEW c \in Calls, Stop(c), unseen = {} PROVE IInv'
  BY <1>3, CancelOk, BelowAreCalls DEF Stop
<1>4. CASE Happen
  <2>0. unseen = {}
    BY <1>4 DEF Happen
  <2>1. ASSUME NEW c \in Calls, Ask(c) PROVE IInv'
    BY <2>1, MoveOk DEF Ask, Phases
  <2>2. ASSUME NEW p \in Sessions, AbortTurn(p) PROVE IInv'
    BY <2>0, <2>2, CancelOk, BelowAreCalls DEF AbortTurn
  <2>3. ASSUME NEW p \in Sessions, AbortAll(p) PROVE IInv'
    BY <2>0, <2>3, CancelOk, BelowAreCalls DEF AbortAll
  <2>4. CASE AbortAllSessions
    BY <2>0, <2>4, CancelOk, BelowAreCalls DEF AbortAllSessions
  <2> QED BY <1>4, <2>0, <1>2, <2>1, <2>2, <2>3, <2>4 DEF Happen
<1>5. ASSUME NEW c \in Calls, Proceed(c) PROVE IInv'
  <2>0. unseen = {}
    BY <1>5 DEF Proceed
  <2>1. CASE Acquire(c)
    BY <2>0, <2>1, AcquireOk
  <2>2. CASE Refuse(c)
    BY <2>2, MoveOk DEF Refuse, Phases
  <2>3. CASE Created(c)
    BY <2>3, MoveOk DEF Created, Phases
  <2>4. CASE CreateFailed(c)
    BY <2>0, <2>4, FreeOk DEF CreateFailed
  <2>5. CASE Close(c)
    BY <2>5, MoveOk DEF Close, Phases
  <2> QED BY <1>5, <1>2, <1>3, <2>0, <2>1, <2>2, <2>3, <2>4, <2>5 DEF Proceed
<1>6. CASE UNCHANGED gateVars
  <2>1. Queued' = Queued /\ Holding' = Holding
    BY <1>6 DEF gateVars, Queued, Holding, In
  <2> QED BY <1>6, <2>1 DEF gateVars, IInv, GateTypeOK, SlotsCounted, NobodyWaitsInVain, CanStart
<1> QED BY <1>1, <1>4, <1>5, <1>6 DEF GateNext

LEMMA GateInvariant == GateSpec => []IInv
  BY InitOk, NextOk, PTL DEF GateSpec

\* The state of the gate is well formed: the queue is a strict order of the
\* waiting calls (acquireSlot, drain, the abort listener).
THEOREM GateTypeCorrect == GateSpec => []GateTypeOK
  BY GateInvariant, PTL DEF IInv

\* The counters are the calls that hold a slot, and stay within the limits
\* (takeSlot, releaseSlot), for any number of calls and any limits.
THEOREM SlotsAreCounted == GateSpec => []SlotsCounted
  BY GateInvariant, PTL DEF IInv

\* No waiter that a drain has passed could start (drain).
THEOREM NoIdleSlot == GateSpec => []NobodyWaitsInVain
  BY GateInvariant, PTL DEF IInv
-----------------------------------------------------------------------------
(* Fairness of the queue: who may be overtaken by a call that is granted.  *)
Overtakes(c) ==
    phase[c] # "granted" /\ phase'[c] = "granted" =>
      \A d \in (IF phase[c] = "queued" THEN ahead[c] ELSE Queued) :
         Parent(d) # Parent(c) /\ byParent[Parent(d)] >= MaxPerParent

\* A grant finds a slot, and every waiter before it was passed.
LEMMA GrantIsFair ==
  ASSUME IInv, NEW c \in Calls, CanStart(Parent(c)),
         NEW d \in Queued, d \notin unseen
  PROVE  Parent(d) # Parent(c) /\ byParent[Parent(d)] >= MaxPerParent
<1>1. ~CanStart(Parent(d)) /\ Parent(d) \in Sessions
  BY ParentIsSession DEF IInv, NobodyWaitsInVain, Queued, In
<1> QED BY <1>1, GateAssumption DEF CanStart, IInv, GateTypeOK

LEMMA StepIsFair == IInv /\ [GateNext]_gateVars => \A c \in Calls : Overtakes(c)
<1> SUFFICES ASSUME IInv, [GateNext]_gateVars, NEW c \in Calls,
                    phase[c] # "granted", phase'[c] = "granted",
                    NEW d \in (IF phase[c] = "queued" THEN ahead[c] ELSE Queued)
             PROVE  Parent(d) # Parent(c) /\ byParent[Parent(d)] >= MaxPerParent
  BY DEF Overtakes
<1>0. d \in Queued /\ phase \in [Calls -> Phases]
  BY DEF IInv, GateTypeOK
<1>1. ASSUME NEW w \in Calls, Look(w) PROVE d \notin unseen /\ CanStart(Parent(c))
  <2>1. CanStart(Parent(w)) /\ w = c /\ phase[c] = "queued" /\ ahead[c] \cap unseen = {}
    BY <1>0, <1>1 DEF Look, Leave, IInv, GateTypeOK, Queued, In
  <2> QED BY <2>1
<1>2. ASSUME NEW e \in Calls, unseen = {}, Acquire(e) PROVE d \notin unseen /\ CanStart(Parent(c))
  BY <1>0, <1>2 DEF Acquire
<1>3. ASSUME NEW e \in Calls, NEW st \in Phases \ {"granted"}, phase' = [phase EXCEPT ![e] = st]
      PROVE  FALSE
  BY <1>0, <1>3
<1>4. ASSUME NEW direct, NEW reached, NEW dropped, Cancel(direct, reached, dropped) PROVE FALSE
  BY <1>4 DEF Cancel
<1>5. CASE Drain
  BY <1>5, <1>1, <1>0, GrantIsFair DEF Drain
<1>6. CASE Happen
  <2>1. ASSUME NEW e \in Calls, Ask(e) PROVE FALSE
    BY <2>1, <1>3 DEF Ask, Phases
  <2>2. ASSUME NEW e \in Calls, Return(e) PROVE FALSE
    BY <2>2, <1>3 DEF Return, Phases
  <2>3. ASSUME NEW p \in Sessions, AbortTurn(p) \/ AbortAll(p) PROVE FALSE
    BY <2>3, <1>4 DEF AbortTurn, AbortAll
  <2>4. CASE AbortAllSessions
    BY <2>4, <1>4 DEF AbortAllSessions
  <2> QED BY <1>6, <2>1, <2>2, <2>3, <2>4 DEF Happen
<1>7. ASSUME NEW e \in Calls, Proceed(e)
      PROVE  Parent(d) # Parent(c) /\ byParent[Parent(d)] >= MaxPerParent
  <2>1. CASE unseen = {} /\ Acquire(e)
    BY <2>1, <1>2, <1>0, GrantIsFair
  <2>2. CASE Refuse(e)
    BY <2>2, <1>3 DEF Refuse, Phases
  <2>3. CASE Created(e)
    BY <2>3, <1>3 DEF Created, Phases
  <2>4. CASE CreateFailed(e)
    BY <2>4, <1>3 DEF CreateFailed, Phases
  <2>5. CASE Close(e)
    BY <2>5, <1>3 DEF Close, Phases
  <2>6. CASE Return(e)
    BY <2>6, <1>3 DEF Return, Phases
  <2>7. CASE Stop(e)
    BY <2>7, <1>4 DEF Stop
  <2> QED BY <1>7, <2>1, <2>2, <2>3, <2>4, <2>5, <2>6, <2>7 DEF Proceed
<1>8. CASE UNCHANGED gateVars
  BY <1>8 DEF gateVars
<1> QED BY <1>5, <1>6, <1>7, <1>8 DEF GateNext

\* A call that is granted a slot overtakes only calls held back by the limit
\* of another parent (acquireSlot's immediate start, drain), for any number
\* of calls and any limits.
THEOREM QueueIsFair == GateSpec => OvertakesOnlyTheBlocked
<1>1. IInv /\ [GateNext]_gateVars => [\A c \in Calls : Overtakes(c)]_gateVars
  BY StepIsFair
<1>2. GateSpec => [][\A c \in Calls : Overtakes(c)]_gateVars
  BY <1>1, GateInvariant, PTL DEF GateSpec
<1> QED BY <1>2 DEF OvertakesOnlyTheBlocked, Overtakes
=============================================================================
