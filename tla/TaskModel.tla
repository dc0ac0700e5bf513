------------------------------ MODULE TaskModel ------------------------------
(***************************************************************************)
(* platform/task-model.ts and platform/plan-model.ts: the pure rules over  *)
(* the steps of a task.  Every operation of TaskService leaves the steps   *)
(* sorted with positions 0 .. n-1, so steps are a sequence and a position  *)
(* is an index less one.  A step keeps its id (the number of "s<n>"), its  *)
(* title, its status and whether it has startedAt and completedAt; details, *)
(* verification, evidence and the reason of a block are left out.          *)
(***************************************************************************)
EXTENDS Naturals, FiniteSets, SequencesExt

StepStatuses == {"pending", "in_progress", "blocked", "completed", "skipped"}
TaskStatuses == {"pending", "in_progress", "blocked", "completed", "cancelled"}
StoredPlans  == {"drafting", "proposed", "executing", "paused"}
Terminal     == {"completed", "cancelled"}

Statuses(steps) == {steps[i].st : i \in DOMAIN steps}
IdsOf(steps)    == {steps[i].id : i \in DOMAIN steps}

\* deriveTaskStatus: the task status that the steps stand for
Derive(steps) ==
    LET S == Statuses(steps) IN
    IF S \subseteq {"pending"} THEN "pending"
    ELSE IF S \subseteq {"completed", "skipped"} THEN "completed"
    ELSE IF "blocked" \in S THEN "blocked"
    ELSE "in_progress"

\* nextStepId: one more than the greatest id that is still there
NextId(steps) ==
    CHOOSE n \in {1} \cup {id + 1 : id \in IdsOf(steps)} : \A id \in IdsOf(steps) : id < n

\* currentStep: the first step in progress, else the first pending one; 0 if there is none
FirstAt(steps, st) ==
    IF \E i \in DOMAIN steps : steps[i].st = st
    THEN CHOOSE i \in DOMAIN steps :
            steps[i].st = st /\ \A j \in DOMAIN steps : j < i => steps[j].st # st
    ELSE 0
Current(steps) ==
    IF FirstAt(steps, "in_progress") # 0 THEN FirstAt(steps, "in_progress")
    ELSE FirstAt(steps, "pending")

\* applyStepStatus: the status with startedAt and completedAt
WithStatus(s, st) ==
    [s EXCEPT !.st = st,
              !.started = (@ \/ st \in {"in_progress", "completed", "blocked"}) /\ st # "pending",
              !.done    = (@ /\ st = "skipped") \/ st = "completed"]

NewStep(id, title) ==
    [id |-> id, title |-> title, st |-> "pending", started |-> FALSE, done |-> FALSE]

\* the clamp of moveStep and the sort of addStep, for a position given by the caller
Clamp(p, n) == IF p < n THEN p ELSE n

\* moveStep: take the step at i out and put it at position p
Move(steps, i, p) ==
    InsertAt(RemoveAt(steps, i), Clamp(p, Len(steps) - 1) + 1, steps[i])

\* addStep: the position is not checked, so a negative one means the very front; sortSteps
\* breaks the tie of two equal positions by id and the new id is the greater (ids below
\* s10).  Here n is the number of steps whose position is not above the one asked for
Insert(steps, step, n) == InsertAt(steps, Clamp(n, Len(steps)) + 1, step)

\* derivePlanStatus, for a task that has a plan
PlanStatus(t) ==
    IF t.status = "cancelled" THEN "abandoned"
    ELSE IF t.status = "completed" THEN "completed"
    ELSE IF t.plan = "paused" \/ t.status = "blocked" THEN "paused"
    ELSE t.plan
IsActivePlan(s) == s \notin {"completed", "abandoned"}

\* TaskService.refreshStatus: only a cancelled task keeps its status
Refresh(t) == IF t.status = "cancelled" THEN t ELSE [t EXCEPT !.status = Derive(t.steps)]

\* TaskService.replacePlanSteps: the first step with a title of the list is
\* reused, every other entry becomes a new step
FirstTitled(steps, title) ==
    CHOOSE i \in DOMAIN steps :
        steps[i].title = title /\ \A j \in DOMAIN steps : j < i => steps[j].title # title
HasTitle(steps, title) == \E i \in DOMAIN steps : steps[i].title = title

\* Fault: the steps added earlier in the list are not counted in the next number.
SameNumberFault(steps, titles) ==
    [k \in DOMAIN titles |->
        IF HasTitle(steps, titles[k]) THEN steps[FirstTitled(steps, titles[k])]
        ELSE NewStep(NextId(steps), titles[k])]
\* Fault: every entry of the list becomes a new step.
RebuildFault(steps, titles) ==
    [k \in DOMAIN titles |-> NewStep(NextId(steps) + k - 1, titles[k])]

Replace(steps, titles) ==
    [k \in DOMAIN titles |->
        IF HasTitle(steps, titles[k]) THEN steps[FirstTitled(steps, titles[k])]
        ELSE NewStep(NextId(steps)
                       + Cardinality({j \in 1..(k - 1) : ~HasTitle(steps, titles[j])}),
                     titles[k])]
=============================================================================
