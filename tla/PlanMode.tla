------------------------------ MODULE PlanMode ------------------------------
(***************************************************************************)
(* plan-mode-service.ts: the plans of one session, the PlanSession that is *)
(* bound to one of them while the session is open, the gate it puts before *)
(* every tool call, the contexts it injects, and TaskRunner, which runs a  *)
(* plan under a lease.  A plan is a task of TaskModel.  The model of the   *)
(* session acts through the plan tools, the user through plan commands,    *)
(* messages and the task routes, and the process may go down at any time.  *)
(* JavaScript runs each handler up to its await in one piece; registry.open *)
(* finds the session open and does not wait, so a command is one action up *)
(* to the abort of pause and abandon, which ends when the run settles.     *)
(* Titles, evidence and texts are left out; TaskSteps has the steps in     *)
(* full and TaskLease the lease between processes.                         *)
(***************************************************************************)
EXTENDS TaskModel

CONSTANTS
    MaxPlans,     \* bound: plans of the session
    MaxSteps,     \* bound: steps of a plan
    MaxRevision,  \* bound: revisions of the plans, added up
    Policy        \* [bash, mcp, delegate]: the PlanPolicy of the service

ASSUME PlanAssumption ==
    /\ MaxPlans \in Nat /\ MaxSteps \in Nat /\ MaxRevision \in Nat
    /\ Policy \in [bash : {"none", "verify", "all"}, mcp : BOOLEAN, delegate : BOOLEAN]

VARIABLES
    plans,      \* tasks of origin 'plan' of this session, by creation
    recent,     \* their ids, the last updated first (the order of list)
    session,    \* [open, bound]: is the PlanSession attached, its planTaskId or 0
    active,     \* TaskRunner.active: the plans this process runs
    run,        \* the agent of the session: idle or running
    call,       \* the tool call under way: none, a tool, or a propose_plan that waits
    stopping,   \* plan whose pause or abandon awaits session.abort, or 0
    injected,   \* the last context of each type in the session file
    messages,   \* the contexts the model is shown, the last of each type, in order
    shown,      \* the view published last
    confirmed   \* ghost: the plans the user asked to execute, since they last left that state

vars == <<plans, recent, session, active, run, call, stopping, injected, messages, shown, confirmed>>

Ids      == 1..MaxPlans
Planning == {"drafting", "proposed"}
Types    == {"planning", "executing", "ended"}
Step     == [st : {"pending", "blocked", "completed"}]
Plan     == [status : TaskStatuses, plan : StoredPlans, steps : Seq(Step),
             revision : Nat, lease : {"none", "mine", "dead"}]
Contexts == [type : Types \cup {"none"}, plan : Nat, revision : Nat]
NoContext == [type |-> "none", plan |-> 0, revision |-> 0]
NoView    == [plan |-> 0, status |-> "abandoned", revision |-> 0]

Status(ps, t)  == IF t = 0 THEN "abandoned" ELSE PlanStatus(ps[t])
Finished(t)    == t = 0 \/ ~IsActivePlan(Status(plans, t))
Unfinished     == {t \in DOMAIN plans : plans[t].status \notin Terminal}
bound          == session.bound
status         == Status(plans, bound)
-----------------------------------------------------------------------------
(* The gate (evaluateToolCall) and the policy for bash.  A command is the  *)
(* set of the classes of its segments, "danger" for one an approval rule   *)
(* names; a preset is read-only or not.                                    *)
Classes == {"read", "verify", "write", "unknown", "danger"}
Calls   == [tool : {"bash"}, classes : SUBSET Classes \ {{}}]
           \cup [tool : {"edit", "mcp", "read"}] \cup [tool : {"subagent"}, readOnly : BOOLEAN]

\* Fault: one segment that is allowed lets the whole command pass.
EvaluatePlanBashFault(classes) ==
    /\ "danger" \notin classes
    /\ Policy.bash # "none"
    /\ Policy.bash = "all" \/ classes \cap {"read", "verify"} # {}

EvaluatePlanBash(classes) ==
    /\ "danger" \notin classes
    /\ Policy.bash # "none"
    /\ Policy.bash = "all" \/ classes \subseteq {"read", "verify"}

PlanningAllows(c) ==
    CASE c.tool = "edit"     -> FALSE
      [] c.tool = "mcp"      -> Policy.mcp
      [] c.tool = "subagent" -> Policy.delegate /\ c.readOnly
      [] c.tool = "bash"     -> EvaluatePlanBash(c.classes)
      [] OTHER               -> TRUE
GateOpen(c) == status \in Planning => PlanningAllows(c)
Changes(c)  == CASE c.tool = "bash"     -> ~(c.classes \subseteq {"read", "verify"})
                 [] c.tool = "subagent" -> ~c.readOnly
                 [] OTHER               -> c.tool \in {"edit", "mcp"}
-----------------------------------------------------------------------------
(* Records of TaskService: each changes a task, and Change saves it, tells *)
(* the listener of app.ts and so publishes the view of the bound plan.     *)
Bump(p)       == [p EXCEPT !.revision = @ + 1]
\* setPlanState: nothing is written when the state is the same
Stated(p, st) == IF p.plan = st THEN p ELSE Bump([p EXCEPT !.plan = st])
WithSteps(p, steps) == Bump(Refresh([p EXCEPT !.steps = steps]))
Cancelled(p)  == IF p.status = "cancelled" THEN p ELSE Bump([p EXCEPT !.status = "cancelled"])
Leased(p)     == [p EXCEPT !.lease = "mine"]
\* releaseLease of this process
Freed(p)      == [p EXCEPT !.lease = IF @ = "mine" THEN "none" ELSE @]

View(ps, t) ==
    IF t = 0 THEN NoView ELSE [plan |-> t, status |-> PlanStatus(ps[t]), revision |-> ps[t].revision]
\* publish: the page is sent the view of the bound plan, while the session is open
Published(ps, t) == IF session.open THEN View(ps, t) ELSE shown
Revisions(ps) == FoldLeft(LAMBDA n, p : n + p.revision, 0, ps)
\* the list when the plans ts are updated: they come first, the rest in the order it had
Touched(ts) ==
    {list \in [DOMAIN recent -> DOMAIN plans] :
        /\ \A t \in DOMAIN plans : \E i \in DOMAIN list : list[i] = t
        /\ \A i, j \in DOMAIN list :
               /\ list[i] \in ts /\ list[j] \notin ts => i < j
               /\ i < j /\ list[i] \notin ts /\ list[j] \notin ts =>
                     \E k, l \in DOMAIN recent : k < l /\ recent[k] = list[i] /\ recent[l] = list[j]}
Change(t, p) ==
    /\ plans' = [plans EXCEPT ![t] = p]
    /\ Revisions(plans') <= MaxRevision /\ Len(p.steps) <= MaxSteps
    /\ recent' \in IF p = plans[t] THEN {recent} ELSE Touched({t})
    /\ shown' = Published(plans', bound)

\* Fault: the new plan is announced before the session is bound to it.
CreatePlanFault ==
    /\ Len(plans) < MaxPlans /\ Revisions(plans) < MaxRevision
    /\ plans' = Append(plans, [status |-> "pending", plan |-> "drafting", steps |-> <<>>,
                               revision |-> 1, lease |-> "none"])
    /\ recent' = <<Len(plans')>> \o recent
    /\ session' = [session EXCEPT !.bound = Len(plans')]
    /\ shown' = Published(plans', bound)

\* TaskService.createPlan, bindPlan and publish
CreatePlan ==
    /\ Len(plans) < MaxPlans /\ Revisions(plans) < MaxRevision
    /\ plans' = Append(plans, [status |-> "pending", plan |-> "drafting", steps |-> <<>>,
                               revision |-> 1, lease |-> "none"])
    /\ recent' = <<Len(plans')>> \o recent
    /\ session' = [session EXCEPT !.bound = Len(plans')]
    /\ shown' = Published(plans', Len(plans'))
-----------------------------------------------------------------------------
(* Contexts: before_agent_start adds one at the end when the last of its   *)
(* type says something else; the context hook shows the last of each type  *)
(* that the state keeps.                                                   *)
TypeOf(st) == CASE st \in Planning   -> "planning"
                [] st = "executing" -> "executing"
                [] OTHER            -> "ended"
Context(ps, t) == [type |-> TypeOf(Status(ps, t)), plan |-> t, revision |-> ps[t].revision]

\* onContext
KeptTypes(ps, t) ==
    CASE t = 0                          -> {}
      [] TypeOf(Status(ps, t)) # "ended" -> {TypeOf(Status(ps, t)), "ended"}
      [] OTHER                          -> Types
\* the places of the contexts that are shown
Told(ms, ps, t) == {i \in DOMAIN ms : ms[i].type \in KeptTypes(ps, t)}

\* what stays of the contexts when one of the type is added
Without(ms, type) ==
    IF \E i \in DOMAIN ms : ms[i].type = type
    THEN RemoveAt(ms, CHOOSE i \in DOMAIN ms : ms[i].type = type)
    ELSE ms

\* Fault: a context of a type that is in the session already is not added again.
BeginFault(ps, t) ==
    /\ run' = "running"
    /\ IF t = 0 \/ injected[TypeOf(Status(ps, t))] # NoContext THEN UNCHANGED <<injected, messages>>
       ELSE LET c == Context(ps, t) IN
            /\ injected' = [injected EXCEPT ![c.type] = c]
            /\ messages' = Append(Without(messages, c.type), c)

\* a prompt the session accepts: beforeAgentStart and the run
Begin(ps, t) ==
    /\ run' = "running"
    /\ IF t = 0 \/ injected[TypeOf(Status(ps, t))] = Context(ps, t) THEN UNCHANGED <<injected, messages>>
       ELSE LET c == Context(ps, t) IN
            /\ injected' = [injected EXCEPT ![c.type] = c]
            /\ messages' = Append(Without(messages, c.type), c)
NoPrompt == UNCHANGED <<run, injected, messages>>
\* registry.start does not wait: a prompt that is refused, as one is while the
\* agent runs, is refused in silence
Prompted(ps, t) == (run = "idle" /\ Begin(ps, t)) \/ NoPrompt
-----------------------------------------------------------------------------
(* Messages and commands of the user; each opens the session first.        *)
Commands == session.open /\ UNCHANGED call

\* a plain message
Prompt ==
    /\ Commands /\ run = "idle" /\ Begin(plans, bound)
    /\ UNCHANGED <<plans, recent, session, active, stopping, shown, confirmed>>

\* startPlanning: an unfinished plan goes back to drafting, unless it is executing:
\* then a second one is made
Adopts == bound # 0 /\ status \in {"paused", "proposed", "drafting"}
StartPlanning ==
    /\ IF Adopts
       THEN /\ Change(bound, Stated(plans[bound], "drafting"))
            /\ confirmed' = confirmed \ {bound}
            /\ UNCHANGED session
       ELSE CreatePlan /\ UNCHANGED confirmed
    /\ UNCHANGED <<active, stopping>>

\* plan_start, or a message with mode 'plan', which starts a run as well
Start(withMessage) ==
    /\ Commands /\ StartPlanning
    /\ IF withMessage THEN Prompted(plans', session'.bound) ELSE NoPrompt

Refine ==
    /\ Commands /\ bound # 0
    /\ Change(bound, Stated(plans[bound], "drafting"))
    /\ confirmed' = confirmed \ {bound}
    /\ NoPrompt /\ UNCHANGED <<session, active, stopping>>

\* startExecution, TaskRunner.start: the state is stored first; the lease of a
\* dead process refuses the rest
Go ==
    LET p == Stated(plans[bound], "executing") IN
    /\ confirmed' = confirmed \cup {bound}
    /\ IF p.lease = "dead"
       THEN Change(bound, p) /\ NoPrompt /\ UNCHANGED active
       ELSE /\ Change(bound, Leased(p))
            /\ active' = active \cup {bound}
            /\ Prompted(plans', bound)
    /\ UNCHANGED <<session, stopping>>
Execute ==
    /\ Commands /\ bound # 0 /\ status \in {"proposed", "paused"}
    /\ plans[bound].steps # <<>>
    /\ Go
Resume == Commands /\ bound # 0 /\ Go

\* TaskRunner.stop of the bound plan, then the abort of the session
Halt(p) ==
    /\ Change(bound, IF bound \in active THEN Freed(p) ELSE p)
    /\ active' = active \ {bound}
    /\ stopping' = IF run = "running" THEN bound ELSE 0
Pause ==
    /\ Commands /\ bound # 0 /\ stopping = 0
    /\ Halt(Stated(plans[bound], "paused"))
    /\ confirmed' = confirmed \ {bound}
    /\ NoPrompt /\ UNCHANGED session
Abandon ==
    /\ Commands /\ bound # 0 /\ stopping = 0
    /\ Halt(Cancelled(plans[bound]))
    /\ NoPrompt /\ UNCHANGED <<session, confirmed>>
-----------------------------------------------------------------------------
(* The tools of the model, one call at a time, until the run is told to stop. *)
Tools == run = "running" /\ call = "none" /\ stopping = 0 /\ NoPrompt
PlanTool ==
    /\ Tools /\ bound # 0
    /\ confirmed' = {t \in confirmed : plans'[t].plan = "executing"}
    /\ UNCHANGED <<session, active, call, stopping>>

\* the steps handed over: n of them, the first ones those that are kept by title
Handed(n, kept) == [i \in 1..n |-> IF i <= kept THEN plans[bound].steps[i] ELSE [st |-> "pending"]]

SubmitPlan(n, kept) ==
    /\ status \in Planning \cup {"paused"}
    /\ Change(bound, Stated(WithSteps(plans[bound], Handed(n, kept)), "proposed"))
    /\ PlanTool

UpdatePlan(n, kept) ==
    LET next == WithSteps(plans[bound], Handed(n, kept)) IN
    /\ ~Finished(bound)
    /\ \A i \in DOMAIN plans[bound].steps : plans[bound].steps[i].st # "pending" => i <= kept
    /\ Change(bound, IF PlanStatus(next) = "drafting" THEN Stated(next, "proposed") ELSE next)
    /\ PlanTool

SetStep(p, i, st) == WithSteps(p, [p.steps EXCEPT ![i].st = st])
CompleteStep(i) ==
    /\ status = "executing"
    /\ Change(bound, SetStep(plans[bound], i, "completed"))
    /\ PlanTool
BlockStep(i) ==
    /\ plans[bound].status # "cancelled"
    /\ Change(bound, SetStep(plans[bound], i, "blocked"))
    /\ PlanTool

\* propose_plan asks the user, and startPlanning runs if and when he agrees
Propose ==
    /\ Tools /\ Finished(bound)
    /\ call' = "propose"
    /\ UNCHANGED <<plans, recent, session, active, stopping, shown, confirmed>>
Agree ==
    /\ run = "running" /\ call = "propose"
    /\ call' = "none"
    /\ StartPlanning /\ NoPrompt
Decline ==
    /\ run = "running" /\ call \in {"propose", "tool"}
    /\ call' = "none"
    /\ NoPrompt /\ UNCHANGED <<plans, recent, session, active, stopping, shown, confirmed>>

\* the tool propose_plan, from the question to its result
ProposePlan == Propose \/ Agree \/ Decline

\* any other tool, once it has passed the gate
Use(c) ==
    /\ Tools /\ GateOpen(c)
    /\ call' = "tool"
    /\ UNCHANGED <<plans, recent, session, active, stopping, shown, confirmed>>
-----------------------------------------------------------------------------
(* The run and the runner.                                                 *)
\* Fault: the runner frees the plan the session is bound to.
FreesFault(ts) == [t \in DOMAIN plans |-> IF t \in ts \cap {bound} THEN Freed(plans[t]) ELSE plans[t]]

Frees(ts) == [t \in DOMAIN plans |-> IF t \in ts THEN Freed(plans[t]) ELSE plans[t]]

\* agent_settled, on its own or by an abort: handleSettled
Settle ==
    /\ run = "running"
    /\ run' = "idle" /\ call' = "none" /\ stopping' = 0 /\ active' = {}
    /\ plans' = Frees(active)
    /\ recent' \in Touched(active)
    /\ shown' = Published(plans', bound)
    /\ UNCHANGED <<session, injected, messages, confirmed>>

\* TaskRunner.resume of a recovery item, in this session
RecoverPlan(t, mode) ==
    LET p == Leased(IF mode = "replan" THEN Stated(plans[t], "drafting") ELSE plans[t]) IN
    /\ Commands /\ t \in Unfinished /\ Current(plans[t].steps) # 0
    /\ plans[t].lease = "none"
    /\ Change(t, p)
    /\ active' = active \cup {t}
    /\ confirmed' = IF mode = "replan" THEN confirmed \ {t} ELSE confirmed
    /\ Prompted(plans', bound)
    /\ UNCHANGED <<session, stopping>>

\* the keeper renews the lease, which touches the row
Beat(t) ==
    /\ t \in active
    /\ recent' \in Touched({t})
    /\ UNCHANGED <<plans, session, active, run, call, stopping, injected, messages, shown, confirmed>>

\* compaction drops the oldest messages; the session file keeps its entries
Compact(n) ==
    /\ session.open
    /\ messages' = SubSeq(messages, n + 1, Len(messages))
    /\ UNCHANGED <<plans, recent, session, active, run, call, stopping, injected, shown, confirmed>>
-----------------------------------------------------------------------------
(* The task routes, which know nothing of plans.                           *)
Route(t, p) ==
    /\ Change(t, p)
    /\ UNCHANGED <<session, active, run, call, stopping, injected, messages, confirmed>>
Open(t) == plans[t].status # "cancelled"
PatchStep(t, i, st) == Open(t) /\ Route(t, SetStep(plans[t], i, st))
AddStep(t)       == Open(t) /\ Route(t, WithSteps(plans[t], Append(plans[t].steps, [st |-> "pending"])))
RemoveStep(t, i) == Open(t) /\ Route(t, WithSteps(plans[t], RemoveAt(plans[t].steps, i)))
\* update sets the status by hand, until the steps change
PatchTask(t, st) == Open(t) /\ Route(t, Bump([plans[t] EXCEPT !.status = st]))
CancelTask(t)    == Open(t) /\ Route(t, Cancelled(plans[t]))
\* the state "in_progress" is to a plan what "pending" is
Routes(t) ==
    \/ \E i \in DOMAIN plans[t].steps :
          RemoveStep(t, i) \/ \E st \in {"pending", "blocked", "completed"} : PatchStep(t, i, st)
    \/ \E st \in {"pending", "blocked", "completed"} : PatchTask(t, st)
    \/ AddStep(t) \/ CancelTask(t)
-----------------------------------------------------------------------------
(* Opening and losing the session.                                         *)
\* Fault: the plan that was updated last.
AdoptedFault == IF recent = <<>> THEN 0 ELSE recent[1]

\* activePlanForSession: the first unfinished plan of the list, or the first
Adopted ==
    IF Unfinished # {}
    THEN recent[CHOOSE i \in DOMAIN recent :
                   recent[i] \in Unfinished /\ \A j \in 1..i - 1 : recent[j] \notin Unfinished]
    ELSE IF recent = <<>> THEN 0 ELSE recent[1]

\* session_start: attach
Attach ==
    /\ ~session.open
    /\ session' = [open |-> TRUE, bound |-> Adopted]
    /\ shown' = View(plans, Adopted)
    /\ UNCHANGED <<plans, recent, active, run, call, stopping, injected, messages, confirmed>>

\* the leases a process leaves: TaskRunner.dispose frees them, a crash does not
Left(graceful) ==
    [t \in DOMAIN plans |-> [plans[t] EXCEPT !.lease =
        IF @ # "mine" THEN @ ELSE IF graceful THEN "none" ELSE "dead"]]

\* the process ends, closed or killed, and comes up again
Down(graceful) ==
    /\ session.open
    /\ session' = [open |-> FALSE, bound |-> 0]
    /\ plans' = Left(graceful)
    /\ active' = {} /\ run' = "idle" /\ call' = "none" /\ stopping' = 0
    /\ UNCHANGED <<recent, injected, messages, shown, confirmed>>

\* the lease of a dead process runs out
Expire(t) ==
    /\ plans[t].lease = "dead"
    /\ plans' = [plans EXCEPT ![t].lease = "none"]
    /\ UNCHANGED <<recent, session, active, run, call, stopping, injected, messages, shown, confirmed>>
-----------------------------------------------------------------------------
Init ==
    /\ plans = <<>> /\ recent = <<>>
    /\ session = [open |-> FALSE, bound |-> 0]
    /\ active = {} /\ run = "idle" /\ call = "none" /\ stopping = 0
    /\ injected = [type \in Types |-> NoContext] /\ messages = <<>>
    /\ shown = NoView
    /\ confirmed = {}

\* the commands plan_*, which open the session first; plan_enable and plan_disable
\* of older pages are a start and an abandon
PlanCommand ==
    \/ Refine \/ Execute \/ Resume \/ Pause \/ Abandon
    \/ \E withMessage \in BOOLEAN : Start(withMessage)

User ==
    \/ Prompt \/ PlanCommand
    \/ \E t \in DOMAIN plans :
        \/ \E mode \in {"continue", "replan"} : RecoverPlan(t, mode)
        \/ Routes(t)
Model ==
    \/ /\ bound # 0
       /\ \/ \E n \in 1..MaxSteps, kept \in 0..MaxSteps :
              /\ kept <= n /\ kept <= Len(plans[bound].steps)
              /\ SubmitPlan(n, kept) \/ UpdatePlan(n, kept)
          \/ \E i \in DOMAIN plans[bound].steps : CompleteStep(i) \/ BlockStep(i)
    \/ ProposePlan
    \/ \E c \in Calls : Use(c)
    \/ Settle
System ==
    \/ \E t \in DOMAIN plans : Beat(t) \/ Expire(t)
    \/ \E n \in 1..Len(messages) : Compact(n)
    \/ Attach
    \/ \E graceful \in BOOLEAN : Down(graceful)

Next == User \/ Model \/ System
Spec == Init /\ [][Next]_vars
-----------------------------------------------------------------------------
TypeOK ==
    /\ plans \in Seq(Plan) /\ Len(plans) <= MaxPlans
    /\ recent \in Seq(DOMAIN plans) /\ Len(recent) = Len(plans)
    /\ session \in [open : BOOLEAN, bound : 0..Len(plans)]
    /\ active \subseteq DOMAIN plans /\ confirmed \subseteq 0..Len(plans)
    /\ run \in {"idle", "running"} /\ call \in {"none", "tool", "propose"}
    /\ stopping \in 0..Len(plans)
    /\ injected \in [Types -> Contexts] /\ messages \in Seq(Contexts)

\* Whatever command, tool, route, settled run or reopening came last, the view
\* the page was sent is that of the plan the session is bound to.
PanelShowsPlan == session.open => shown = View(plans, bound)

\* While the bound plan is unfinished and the user has not asked to execute it
\* since it was last in another state, the gate lets a call that changes the
\* workspace pass only if the user has paused the plan, or if the plan is blocked:
\* by block_step of the model, which needs no word of the user, or by a route.
\* No other tool, no agreed proposal, no recovery and no reopening opens it, under
\* a policy that lets planning run no more than commands that read or verify, and
\* no MCP tool.
ChangesAreConfirmed ==
    ~Finished(bound) /\ (\E c \in Calls : GateOpen(c) /\ Changes(c))
        => \/ bound \in confirmed
           \/ plans[bound].plan = "paused"
           \/ plans[bound].status = "blocked"

\* This process holds the lease of a plan exactly while its runner has it, so that
\* no lease is left behind and none is lost while its run goes on, over plans that
\* run at once, recoveries, stops and settled runs; and only a plan the user asked
\* for is stored as executing.
PlanInv ==
    /\ TypeOK
    /\ \A t \in DOMAIN plans : plans[t].plan = "executing" => t \in confirmed
    /\ \A t \in DOMAIN plans : plans[t].lease = "mine" <=> t \in active

\* the unfinished plans that the commands of the open session do not reach
Strays == {t \in Unfinished : session.open /\ t # bound}

\* An unfinished plan gets out of the reach of its session in three ways only: a
\* task route takes up a finished plan that is not bound, planning is begun over
\* the bound plan while that is executing, or the session is opened on another
\* unfinished plan.  No late answer to a proposal over a finished plan, no cancel,
\* heartbeat or recovery, and no restart hides the only one there is.
NoPlanStrays ==
    [][\A t \in Strays' \ Strays :
        \/ t \in DOMAIN plans \ Unfinished /\ Routes(t)
        \/ t = bound /\ status = "executing" /\ session'.bound \notin DOMAIN plans
        \/ Attach /\ session'.bound \in Unfinished]_vars

\* When a run begins under an unfinished plan, the last context the model is shown
\* is that of the state the plan is in; or a compaction has dropped them all; or it
\* is of another plan of the session, and the right one, which was said before
\* that, was not said again.  An earlier state of the same plan never stands last.
NothingStaleIsLast ==
    [][run = "idle" /\ run' = "running" =>
         LET b    == session'.bound
             told == Told(messages', plans', b)
             now  == Context(plans', b) IN
         IsActivePlan(Status(plans', b)) =>
             \A i \in told : (\A j \in told : j <= i) =>
                 \/ messages'[i] = now
                 \/ messages'[i].plan # b /\ injected[now.type] = now]_vars

=============================================================================
