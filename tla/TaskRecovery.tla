----------------------------- MODULE TaskRecovery -----------------------------
(***************************************************************************)
(* Resuming a task after its process died: what TaskInFlightTracker writes *)
(* to the row while a run goes on, what a crash leaves there, and what     *)
(* TaskRecoveryService makes of it (auto_resume, verify_then_resume or     *)
(* manual_only).  One task with a fixed list of steps, one server at a     *)
(* time; TaskLease models two servers, TaskSteps the other operations.     *)
(***************************************************************************)
EXTENDS TaskModel

CONSTANTS NSteps,    \* bound: steps of the task
          Files,     \* the steps whose verification is a file
          Parallel,  \* bound: tool calls of one turn that run at a time
          Chat       \* whether the user also prompts the session outside a run of the task

ASSUME RecoveryAssumption ==
    /\ NSteps \in Nat \ {0} /\ Files \subseteq 1..NSteps
    /\ Parallel \in Nat \ {0} /\ Chat \in BOOLEAN

VARIABLES
    steps,     \* row: [st, started, done] of each step
    held,      \* row: markInterrupted set the task to blocked and no step changed since
    lease,     \* row: none, mine (of the live server) or dead (of a server that died)
    inFlight,  \* row: absent, or the side effect none, write or unknown
    last,      \* row: lastSideEffect [step, kind]; step 0 if there was none, kind none if absent
    late,      \* row: the steps whose startedAt is later than lastSideEffect.at
    alive,     \* a server is up
    run,       \* the agent: idle, task (runs the task) or chat (answers the user)
    turn,      \* a turn has started in this run
    tools,     \* the kinds of tools that run now
    tracked,   \* TaskInFlightTracker.bound has the session
    files,     \* the artifacts that exist
    newest,    \* ghost: the step of the latest tool with a real side effect; 0 once the
               \* step's attempt is over or another step's tool took the place of lastSideEffect
    cut        \* ghost: the noted tool with a real side effect that began and did not end,
               \* none once another tool began or ended

row   == <<steps, held, lease, inFlight, last, late>>
agent == <<run, turn, tools, tracked>>
ghost == <<newest, cut>>
vars  == <<row, alive, agent, files, ghost>>

Steps    == 1..NSteps
Effects  == {"none", "write", "unknown"}
Tools    == {"read", "write", "bash", "complete_step"}
Changing == {"write", "bash"}     \* what may change the workspace
Cur      == Current(steps)
Status   == IF held THEN "blocked" ELSE Derive(steps)
Noting   == tracked /\ Status \notin Terminal
-----------------------------------------------------------------------------
\* Fault: a shell command that no approval rule matches counts as read-only.
TrustShellFault(t) == IF t = "write" THEN "write" ELSE IF t = "complete_step" THEN "unknown" ELSE "none"

\* classifySideEffect; "write" stands for the writing tools and for a shell
\* command that an approval rule matches, "bash" for any other command
Classify(t) == CASE t = "read"  -> "none"
                 [] t = "write" -> "write"
                 [] OTHER       -> "unknown"

\* TaskService.setInFlight, which leaves a terminal task alone
Note(effect) ==
    IF ~Noting THEN UNCHANGED <<inFlight, last, late>>
    ELSE /\ inFlight' = effect
         /\ IF effect \in {"write", "unknown"}
            THEN last' = [step |-> Cur, kind |-> effect] /\ late' = {}
            ELSE UNCHANGED <<last, late>>

\* Fault: the end of a tool clears lastSideEffect too.
ForgetFault ==
    IF ~Noting THEN UNCHANGED <<inFlight, last, late>>
    ELSE inFlight' = "absent" /\ last' = [step |-> 0, kind |-> "none"] /\ late' = {}

NoteNone == Note("absent")

\* the row's times when the steps become new: a startedAt that is set now is
\* later than lastSideEffect.at
NewSteps(new) ==
    /\ steps' = new
    /\ held' = FALSE
    /\ late' = {i \in Steps : new[i].started /\ (i \in late \/ ~steps[i].started)}

SetStep(i, st) ==
    /\ NewSteps([steps EXCEPT ![i] = WithStatus(@, st)])
    /\ newest' = IF newest = i THEN 0 ELSE newest
-----------------------------------------------------------------------------
(* The agent and the hooks of buildTaskRecoveryExtension.                  *)
TurnStart ==
    /\ run # "idle" /\ tools = {}
    /\ turn' = TRUE
    /\ Note("none")
    /\ UNCHANGED <<steps, held, lease, alive, run, tools, tracked, files, ghost>>

ToolStart(t) ==
    /\ turn /\ t \notin tools /\ Cardinality(tools) < Parallel
    /\ tools' = tools \cup {t}
    /\ Note(Classify(t))
    /\ newest' = IF ~Noting \/ t = "read" THEN newest
                 ELSE IF t \in Changing \/ newest = Cur THEN Cur ELSE 0
    /\ cut' = IF ~tracked THEN cut ELSE IF Noting /\ t \in Changing THEN t ELSE "none"
    /\ UNCHANGED <<steps, held, lease, alive, run, turn, tracked, files>>

ToolEnd(t) ==
    /\ t \in tools
    /\ tools' = tools \ {t}
    /\ NoteNone
    /\ cut' = IF tracked THEN "none" ELSE cut
    /\ UNCHANGED <<steps, held, lease, alive, run, turn, tracked, files, newest>>

\* what a tool does between its start and its end
Produce(i) ==
    /\ tools \cap Changing # {}
    /\ files' = files \cup {i}
    /\ UNCHANGED <<row, alive, agent, ghost>>

\* evaluateStepEvidence; what the model reports of a command or of its own judgement
\* is as the model likes, only a file is looked for
Evident(i) == i \in Files => i \in files

CompleteStep(i) ==
    /\ "complete_step" \in tools /\ Evident(i)
    /\ SetStep(i, "completed")
    /\ UNCHANGED <<lease, inFlight, last, alive, agent, files, cut>>

\* agent_settled: the runner, if it started the run, releases the lease
Settle ==
    /\ run # "idle" /\ tools = {}
    /\ run' = "idle" /\ turn' = FALSE
    /\ lease' = IF run = "task" THEN "none" ELSE lease
    /\ NoteNone
    /\ UNCHANGED <<steps, held, alive, tools, tracked, files, ghost>>
-----------------------------------------------------------------------------
(* The recovery item (TaskRecoveryService.describe).                       *)
SideEffect ==
    IF inFlight # "absent" THEN inFlight
    ELSE IF last.kind = "none" \/ (Cur # 0 /\ last.step \notin {0, Cur}) \/ Cur \in late THEN "none"
    ELSE last.kind

Action ==
    IF SideEffect = "none" THEN "auto_resume"
    ELSE IF SideEffect = "write" /\ Cur \in Files THEN "verify_then_resume"
    ELSE "manual_only"

\* the run begins: lease, TaskInFlightTracker.track, prompt
Begin ==
    /\ lease' = "mine"
    /\ run' = "task" /\ turn' = FALSE /\ tracked' = TRUE
    /\ cut' = "none"
    /\ UNCHANGED <<tools, inFlight, last, alive, files>>

\* TaskRunner.start, of the plan commands execute and resume: no recovery check
Start ==
    /\ alive /\ run = "idle" /\ lease # "dead"
    /\ Begin
    /\ UNCHANGED <<steps, held, late, newest>>

\* TaskRunner.resume with a session that opens at once
Resumable(confirm) ==
    /\ alive /\ run = "idle" /\ lease # "dead"
    /\ Status \notin Terminal /\ Cur # 0
    /\ Action = "manual_only" => confirm
Verified == Action = "verify_then_resume" /\ Cur \in files
Missing  == Action = "verify_then_resume" /\ Cur \notin files

Resume(mode, confirm) ==
    LET proven == IF Verified THEN [steps EXCEPT ![Cur] = WithStatus(@, "completed")] ELSE steps
        next   == Current(proven)
        reset  == IF mode = "retry_step" /\ next # 0
                  THEN [proven EXCEPT ![next] = WithStatus(@, "pending")] ELSE proven
    IN  /\ Resumable(confirm)
        /\ Missing => mode = "retry_step"
        /\ Begin
        /\ IF Verified \/ mode = "retry_step" THEN NewSteps(reset) ELSE UNCHANGED <<steps, held, late>>
        /\ newest' = IF newest # 0 /\ reset[newest] # steps[newest] THEN 0 ELSE newest

Unverified(confirm) ==
    /\ Resumable(confirm) /\ Missing
    /\ held' = TRUE /\ inFlight' = "absent" /\ lease' = "none" /\ cut' = "none"
    /\ UNCHANGED <<steps, last, late, alive, agent, files, newest>>

\* a prompt of the user to the same session
ChatPrompt ==
    /\ Chat /\ alive /\ run = "idle"
    /\ run' = "chat" /\ turn' = FALSE
    /\ UNCHANGED <<row, alive, tools, tracked, files, ghost>>

\* PATCH of a step's status by the user
UserSet(i, st) ==
    /\ alive /\ steps[i].st # st
    /\ SetStep(i, st)
    /\ UNCHANGED <<lease, inFlight, last, alive, agent, files, cut>>
-----------------------------------------------------------------------------
\* what becomes of the lease when its server dies: createLeaseOwner names the
\* next server anew
Orphaned(old) == IF old = "mine" THEN "dead" ELSE old

Die ==
    /\ alive
    /\ alive' = FALSE
    /\ run' = "idle" /\ turn' = FALSE /\ tools' = {} /\ tracked' = FALSE
    /\ UNCHANGED <<steps, held, inFlight, last, late, files, ghost>>
Crash == Die /\ lease' = Orphaned(lease)
Exit  == Die /\ lease' = IF lease = "mine" THEN "none" ELSE lease   \* onClose: runner.dispose

Restart ==
    /\ ~alive
    /\ alive' = TRUE
    /\ UNCHANGED <<row, agent, files, ghost>>

Lapse ==
    /\ lease = "dead"
    /\ lease' = "none"
    /\ UNCHANGED <<steps, held, inFlight, last, late, alive, agent, files, ghost>>
-----------------------------------------------------------------------------
Init ==
    /\ steps = [i \in Steps |-> [st |-> "pending", started |-> FALSE, done |-> FALSE]]
    /\ held = FALSE /\ lease = "none" /\ inFlight = "absent"
    /\ last = [step |-> 0, kind |-> "none"] /\ late = {}
    /\ alive = TRUE /\ run = "idle" /\ turn = FALSE /\ tools = {} /\ tracked = FALSE
    /\ files \in SUBSET Files
    /\ newest = 0 /\ cut = "none"

Agent == \/ TurnStart \/ Settle
         \/ \E t \in Tools : ToolStart(t) \/ ToolEnd(t)
         \/ \E i \in Files : Produce(i)
         \/ \E i \in Steps : CompleteStep(i)
User  == \/ Start \/ ChatPrompt
         \/ \E mode \in {"continue", "retry_step"}, confirm \in BOOLEAN : Resume(mode, confirm)
         \/ \E confirm \in BOOLEAN : Unverified(confirm)
         \/ \E i \in Steps, st \in {"pending", "in_progress", "completed"} : UserSet(i, st)
Host  == Crash \/ Exit \/ Restart \/ Lapse

Next == Agent \/ User \/ Host
Spec == Init /\ [][Next]_vars
-----------------------------------------------------------------------------
TypeOK ==
    /\ steps \in [Steps -> [st : StepStatuses, started : BOOLEAN, done : BOOLEAN]]
    /\ held \in BOOLEAN /\ alive \in BOOLEAN /\ turn \in BOOLEAN /\ tracked \in BOOLEAN
    /\ lease \in {"none", "mine", "dead"} /\ inFlight \in Effects \cup {"absent"}
    /\ last \in [step : 0..NSteps, kind : Effects] /\ late \subseteq Steps
    /\ run \in {"idle", "task", "chat"} /\ tools \subseteq Tools
    /\ files \subseteq Files /\ newest \in 0..NSteps /\ cut \in Changing \cup {"none"}
    /\ (turn => run # "idle") /\ (tools # {} => turn)
    /\ (lease = "mine" <=> run = "task") /\ (run # "idle" => alive)

\* A task whose run was cut off inside a tool that may have changed the
\* workspace, with no other tool begun or ended since that one began, is not
\* resumed without a check or a confirmation, whatever the user did to its
\* steps in between (noteToolStart, describe).
CutShortIsSeen == cut # "none" /\ run = "idle" => Action # "auto_resume"

\* The latest side effect of the present attempt of the current step is seen
\* after its tool ended, unless the row shows a later action without one
\* (setInFlight, effectiveSideEffect).
LatestSeen ==
    newest # 0 /\ newest = Cur /\ run = "idle" /\ inFlight # "none" => Action # "auto_resume"
===============================================================================
