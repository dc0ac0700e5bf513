------------------------------ MODULE TaskSteps ------------------------------
(***************************************************************************)
(* One task of task-service.ts: its status, its steps and its plan state,  *)
(* changed by the task routes, by the plan tools of the model, by the plan *)
(* commands of the user and by TaskRunner.resume, whose session open lets  *)
(* every other operation in between.  Each operation is one transaction on *)
(* the row (TaskLease models the access itself); a request that fails a    *)
(* check changes nothing and is not a step.                                *)
(***************************************************************************)
EXTENDS TaskModel

CONSTANTS Titles,    \* step titles
          MaxId,     \* bound: ids are s1 .. s<MaxId>, below s10
          MaxSteps   \* bound: steps of the task

ASSUME BoundsAssumption == MaxId \in 1..9 /\ MaxSteps \in Nat

VARIABLES
    task,      \* [status, plan, steps]; plan is "none" for origin 'user'
    opening,   \* the resume waiting for registry.open: none or its mode (bound: one)
    explicit   \* ghost: the status was set by hand since the steps last derived it

vars == <<task, opening, explicit>>

Modes == {"continue", "retry_step", "replan"}
Step  == [id : 1..MaxId, title : Titles, st : StepStatuses,
          started : BOOLEAN, done : BOOLEAN]
Task  == [status : TaskStatuses, plan : StoredPlans \cup {"none"}, steps : Seq(Step)]

Bounded(t) == Len(t.steps) <= MaxSteps /\ IdsOf(t.steps) \subseteq 1..MaxId
Mutable    == task.status # "cancelled"

\* commit of a change that aggregates the status anew (withDerivedStatus)
Derived(t) ==
    /\ Bounded(t)
    /\ task' = Refresh(t)
    /\ explicit' = (explicit /\ ~Mutable)

WithSteps(steps) == [task EXCEPT !.steps = steps]
SetStep(i, s)    == [task.steps EXCEPT ![i] = s]
-----------------------------------------------------------------------------
\* PATCH /api/tasks/:id with a status (blocked comes with its reason)
Update(status) ==
    /\ Mutable
    /\ task' = [task EXCEPT !.status = status]
    /\ explicit' = TRUE
    /\ UNCHANGED opening

\* POST .../cancel and the abandon command: the terminal, idempotent cancel
CancelTask ==
    /\ Mutable
    /\ task' = [task EXCEPT !.status = "cancelled"]
    /\ explicit' = TRUE
    /\ UNCHANGED opening

AddStep(title, n) ==
    /\ Mutable
    /\ Derived(WithSteps(Insert(task.steps, NewStep(NextId(task.steps), title), n)))
    /\ UNCHANGED opening

\* PATCH .../steps/:id -- title, status and position, each kept or given
UpdateStep(i, title, st, p) ==
    LET s       == [task.steps[i] EXCEPT !.title = title]
        changed == IF st = "keep" THEN s ELSE WithStatus(s, st)
    IN /\ Mutable
       /\ Derived(WithSteps(Move(SetStep(i, changed), i, p)))
       /\ UNCHANGED opening

\* Fault: the steps of a cancelled task can still be removed.
FrozenTooFault(i, force) ==
    /\ task.steps[i].st = "completed" => force
    /\ Derived(WithSteps(RemoveAt(task.steps, i)))
    /\ UNCHANGED opening

RemoveStep(i, force) ==
    /\ Mutable
    /\ task.steps[i].st = "completed" => force
    /\ Derived(WithSteps(RemoveAt(task.steps, i)))
    /\ UNCHANGED opening
-----------------------------------------------------------------------------
(* Plan tools (plan-tools.ts) and plan commands (plan-mode-service.ts).    *)
HasPlan == task.plan # "none"
Unique(titles) == titles # <<>> /\ \A j, k \in DOMAIN titles : titles[j] = titles[k] => j = k

SubmitPlan(titles) ==
    /\ HasPlan /\ Mutable
    /\ PlanStatus(task) \in {"drafting", "proposed", "paused"}
    /\ Derived([WithSteps(Replace(task.steps, titles)) EXCEPT !.plan = "proposed"])
    /\ UNCHANGED opening

UpdatePlan(titles) ==
    LET next == Refresh(WithSteps(Replace(task.steps, titles))) IN
    /\ HasPlan /\ Mutable
    /\ IsActivePlan(PlanStatus(task))
    /\ \A i \in DOMAIN task.steps :
          task.steps[i].st # "pending" => \E k \in DOMAIN titles : titles[k] = task.steps[i].title
    /\ Derived([next EXCEPT !.plan = IF PlanStatus(next) = "drafting" THEN "proposed" ELSE @])
    /\ UNCHANGED opening

\* completeStep, with evidence that evaluateStepEvidence accepts
CompleteStep(i) ==
    /\ HasPlan /\ Mutable
    /\ PlanStatus(task) = "executing"
    /\ Derived(WithSteps(SetStep(i, WithStatus(task.steps[i], "completed"))))
    /\ UNCHANGED opening

BlockStep(i) ==
    /\ HasPlan /\ Mutable
    /\ Derived(WithSteps(SetStep(i, WithStatus(task.steps[i], "blocked"))))
    /\ UNCHANGED opening

\* setPlanState of the commands: refine and start go to drafting, resume and
\* execute to executing, pause to paused (refine, resume and pause check only
\* that there is a plan)
PlanCommand(to) ==
    /\ HasPlan /\ task.plan # to
    /\ task' = [task EXCEPT !.plan = to]
    /\ UNCHANGED <<opening, explicit>>
-----------------------------------------------------------------------------
(* POST .../resume (TaskRunner.resume).  evidence says what the recovery   *)
(* item asks for: nothing or a confirmation the caller gave (clean), or a  *)
(* file that verification finds (found) or does not find (missing).        *)
Resumable(mode) ==
    /\ opening = "none"
    /\ mode = "replan" => HasPlan
    /\ task.status \notin Terminal
    /\ Current(task.steps) # 0

Resume(mode, evidence) ==
    /\ Resumable(mode)
    /\ evidence = "missing" => mode = "retry_step"
    /\ opening' = mode
    /\ IF evidence = "found"
       THEN Derived(WithSteps(SetStep(Current(task.steps),
                              WithStatus(task.steps[Current(task.steps)], "completed"))))
       ELSE UNCHANGED <<task, explicit>>

\* TaskService.markInterrupted
Interrupted ==
    /\ task' = [task EXCEPT !.status = "blocked"]
    /\ explicit' = TRUE

Unverified(mode) ==
    /\ Resumable(mode) /\ mode # "retry_step"
    /\ Interrupted
    /\ UNCHANGED opening

\* registry.open failed: the session file is gone
OpenFailed ==
    /\ opening # "none"
    /\ opening' = "none"
    /\ Interrupted

\* resetCurrentStep
Reset(steps) ==
    LET i == Current(steps) IN
    IF i = 0 THEN steps
    ELSE [steps EXCEPT ![i] = [@ EXCEPT !.st = "pending", !.started = FALSE, !.done = FALSE]]
Opened ==
    /\ opening # "none"
    /\ opening' = "none"
    /\ CASE opening = "retry_step" /\ Current(task.steps) # 0 -> Derived(WithSteps(Reset(task.steps)))
         [] opening = "replan"   -> task' = [task EXCEPT !.plan = "drafting"] /\ UNCHANGED explicit
         [] OTHER                -> UNCHANGED <<task, explicit>>
-----------------------------------------------------------------------------
\* The steps a task is created with: each has an id, given or taken from its place
\* in the list, that no other has; the positions given may put them in any order
\* (stepIdFor, normalizeSteps)
DistinctIds(steps) == \A i, j \in DOMAIN steps : steps[i].id = steps[j].id => i = j
FreshSteps == {NewStep(id, title) : id \in 1..MaxId, title \in Titles}
GivenSteps == {steps \in UNION {[1..n -> FreshSteps] : n \in 0..MaxSteps} : DistinctIds(steps)}

\* create of a user's task, and createPlan
Init ==
    /\ \/ \E steps \in GivenSteps : task = [status |-> "pending", plan |-> "none", steps |-> steps]
       \/ task = [status |-> "pending", plan |-> "drafting", steps |-> <<>>]
    /\ opening = "none"
    /\ explicit = FALSE

TitleLists == {titles \in UNION {[1..n -> Titles] : n \in 1..MaxSteps} : Unique(titles)}

UserStep ==
    \/ \E status \in TaskStatuses : Update(status)
    \/ CancelTask
    \/ \E title \in Titles, n \in 0..MaxSteps : AddStep(title, n)
    \/ \E i \in DOMAIN task.steps :
        \/ \E title \in Titles, st \in StepStatuses \cup {"keep"}, p \in 0..(MaxSteps - 1) :
              UpdateStep(i, title, st, p)
        \/ \E force \in BOOLEAN : RemoveStep(i, force)
PlanTool ==
    \/ \E titles \in TitleLists : SubmitPlan(titles) \/ UpdatePlan(titles)
    \/ \E i \in DOMAIN task.steps : CompleteStep(i) \/ BlockStep(i)
Command == \E to \in {"drafting", "executing", "paused"} : PlanCommand(to)
Run ==
    \/ \E mode \in Modes, evidence \in {"clean", "found", "missing"} : Resume(mode, evidence)
    \/ \E mode \in Modes : Unverified(mode)
    \/ OpenFailed
    \/ Opened

Next == UserStep \/ PlanTool \/ Command \/ Run
Spec == Init /\ [][Next]_vars
-----------------------------------------------------------------------------
TypeOK ==
    /\ task \in Task
    /\ opening \in Modes \cup {"none"}
    /\ explicit \in BOOLEAN

\* Whatever route, tool or recovery changed the steps, the status a task shows
\* is the one its steps stand for, unless it was last set by hand.
StatusFollowsSteps == explicit \/ task.status = Derive(task.steps)

\* No two steps of a task have the same id, through removal, reuse by title and
\* numbering of several new steps at once.
IdsDistinct == DistinctIds(task.steps)

\* startedAt and completedAt tell the status: every path that sets a status, the
\* reset of retry_step included, leaves them as this status needs them.
Timed(s) ==
    /\ s.st \in {"in_progress", "blocked", "completed"} => s.started
    /\ s.st = "completed" => s.done
    /\ s.st \in {"pending", "in_progress", "blocked"} => ~s.done
    /\ s.st = "pending" => ~s.started
TimesMatch == \A i \in DOMAIN task.steps : Timed(task.steps[i])

\* Whatever mixture of routes, plan tools and recovery produced it, the stored
\* record is coherent: status, step ids and step times agree with one another.
StepsSound == StatusFollowsSteps /\ IdsDistinct /\ TimesMatch

\* A cancelled task stays cancelled with the steps it had, while no resume is
\* waiting for its session.
FrozenUnlessResuming ==
    [][task.status = "cancelled" /\ opening = "none"
         => task'.status = "cancelled" /\ task'.steps = task.steps]_vars

\* update_plan loses no step that has begun, if no other step has its title.
Alike(i) == {j \in DOMAIN task.steps : task.steps[j].title = task.steps[i].title}
Kept(i)  == \E k \in DOMAIN task'.steps : task'.steps[k] = task.steps[i]
ProgressKept ==
    [][(\E titles \in TitleLists : UpdatePlan(titles))
         => \A i \in DOMAIN task.steps :
               task.steps[i].st # "pending" /\ Alike(i) = {i} => Kept(i)]_vars
=============================================================================
