------------------------------ MODULE TaskPanel ------------------------------
(***************************************************************************)
(* The plan and task panel of a page (ChatWindow.vue, TaskPlanPanel.vue,   *)
(* TaskStepList.vue, useAgentSession.ts) beside everybody else who changes *)
(* the task.  The page holds one copy of the record and offers what that   *)
(* copy allows.  A click sends a request with the revision of the copy; a  *)
(* request refused for its revision is sent once more after a reading.     *)
(* Copies come by readings, by the stream and by answers, each on its own  *)
(* way, while the user goes from session to session: "here" is the session *)
(* of the task, "there" one with a task of its own that is not followed.   *)
(* Revisions only grow, so of a copy only this is kept: whether the record *)
(* was saved since (current).  What a stale copy shows is left open: a     *)
(* click on it is a click whose copy went stale on its way.                *)
(***************************************************************************)
EXTENDS TaskSteps

CONSTANT MaxChanges   \* bound: savings of the task while a page looks on

ASSUME ChangesAssumption == MaxChanges \in Nat

VARIABLES
    shown,     \* the session the page shows; "none": there is no page
    held,      \* the copy the panel renders
    popped,    \* the panel has opened by itself for the plan (autoOpenedPlanId)
    click,     \* the click that is being carried out (taskBusy, planBusy)
    reads,     \* the readings under way, by who asked
    stream,    \* the event stream of the session shown: off, connecting or on
    pushed,    \* events written to it and not handled
    changes    \* how often the task was saved

pageVars  == <<shown, held, popped, click, reads, stream, pushed, changes>>
panelVars == <<task, opening, explicit, pageVars>>

Sessions  == {"here", "there"}
Readers   == {"click", "load"}
Copy      == [of : Sessions \cup {"none"}, as : {"plan", "task", "none"}, current : BOOLEAN]
NoCopy    == [of |-> "none", as |-> "none", current |-> FALSE]
There     == [of |-> "there", as |-> "task", current |-> TRUE]
\* what GET /plan, GET /tasks and the events carry: a plan is rendered as a plan
Here      == [of |-> "here", as |-> IF HasPlan THEN "plan" ELSE "task", current |-> TRUE]

NoStep    == NewStep(0, "none")
NoClick   == [stage |-> "none", as |-> "none", kind |-> "none", seen |-> NoStep, arg |-> "none",
              on |-> "none", current |-> FALSE, tries |-> 0, landed |-> FALSE]
Idle      == [of |-> "none", what |-> "none", got |-> NoCopy]
Ask(what) == [of |-> shown, what |-> what, got |-> NoCopy]
Busy      == click.stage # "none"
-----------------------------------------------------------------------------
\* What the panel shows for a copy: a plan that waits for the user opens it, once
Proposed == PlanStatus(task) = "proposed"
Pops(c)  == {pops \in BOOLEAN : IF c.as # "plan" THEN ~pops ELSE c.current => pops = Proposed}
Show(c) ==
    /\ held' = c
    /\ \E pops \in Pops(c) : popped' = (popped \/ pops)

Stale(c) == IF c.of = "here" THEN [c EXCEPT !.current = FALSE] ELSE c
\* Fault: the listener is told the record that the change began with.
BeforeFault == IF shown = "here" /\ stream = "on" THEN <<Stale(Here)>> ELSE <<>>
Notified    == IF shown = "here" /\ stream = "on" THEN <<Here'>> ELSE <<>>

\* commit and mutate: the revision grows and the listener tells the session
StaleReads == [r \in Readers |-> [reads[r] EXCEPT !.got = Stale(@)]]
Saved ==
    /\ changes < MaxChanges /\ changes' = changes + 1
    /\ held' = Stale(held)
    /\ pushed' = [i \in DOMAIN pushed |-> Stale(pushed[i])] \o Notified
    /\ UNCHANGED <<shown, popped, stream>>

\* Everybody else: the plan tools of the model, another page
SavedByOthers == Saved /\ reads' = StaleReads /\ click' = [click EXCEPT !.current = FALSE]
Foreign ==
    \/ \E i \in DOMAIN task.steps : CompleteStep(i) \/ RemoveStep(i, TRUE)
    \/ \E title \in Titles : SubmitPlan(<<title>>)
    \/ CancelTask
Others == shown # "none" /\ Foreign /\ task' # task /\ SavedByOthers
Unwatched == shown = "none" /\ Next /\ UNCHANGED pageVars
-----------------------------------------------------------------------------
(* The buttons: what the copy allows, and the request built from it.        *)
Offered(step) ==
    CASE step.st \in {"completed", "blocked"} -> {"pending"}
      [] step.st = "in_progress"              -> {"completed", "blocked"}
      [] OTHER                                -> {"in_progress", "completed", "blocked"}

TaskClicks ==
    IF held.as # "task" \/ task.status \in Terminal THEN {}
    ELSE {<<"add", NoStep, title>> : title \in Titles}
         \cup {<<"cancel", NoStep, "none">>}
         \cup UNION {{<<"status", step, st>> : st \in Offered(step)} \cup {<<"remove", step, "none">>}
                        : step \in Range(task.steps)}

PlanStepClicks(step) ==
    {<<"title", step, title>> : title \in Titles \ {step.title}}
    \cup {<<"status", step, IF step.st = "skipped" THEN "pending" ELSE "skipped">>,
          <<"remove", step, "none">>}
PlanClicks ==
    IF held.as # "plan" \/ ~IsActivePlan(PlanStatus(task)) THEN {}
    ELSE UNION {PlanStepClicks(step) : step \in Range(task.steps)}

Commands ==
    IF held.as # "plan" \/ ~IsActivePlan(PlanStatus(task)) THEN {}
    ELSE {"refine", "abandon"}
         \cup (CASE Proposed /\ task.steps # <<>>      -> {"execute"}
                 [] PlanStatus(task) = "paused"        -> {"resume"}
                 [] PlanStatus(task) = "executing"     -> {"pause"}
                 [] OTHER                              -> {})

\* build: the request carries the id and the revision of the copy
Send(c) == [click EXCEPT !.stage = "sent", !.on = c.of, !.current = c.current, !.tries = @ + 1]
Press ==
    /\ ~Busy /\ held.of = "here" /\ held.current /\ changes < MaxChanges
    /\ \/ \E what \in TaskClicks \cup PlanClicks :
            click' = [Send(held) EXCEPT !.as = held.as, !.kind = what[1],
                                        !.seen = what[2], !.arg = what[3]]
       \/ \E to \in Commands :
            click' = [Send(held) EXCEPT !.on = shown, !.as = "plan", !.kind = "command", !.arg = to]
    /\ UNCHANGED <<vars, shown, held, popped, reads, stream, pushed, changes>>
-----------------------------------------------------------------------------
(* The server's part of a click.                                            *)
Place     == {i \in DOMAIN task.steps : task.steps[i].id = click.seen.id}
OnStep    == click.kind \in {"status", "title", "remove"}
IsCommand == click.kind = "command"
Forced     == click.seen.st = "completed"
Refused ==
    \/ click.kind \notin {"cancel", "command"} /\ ~Mutable
    \/ OnStep /\ Place = {}
    \/ click.kind = "remove" /\ ~Forced /\ \E i \in Place : task.steps[i].st = "completed"
    \/ IsCommand /\ click.arg = "execute"
         /\ (PlanStatus(task) \notin {"proposed", "executing", "paused"} \/ task.steps = <<>>)

\* requiredRevision and the WHERE revision = ? of the saving
Conflicts == ~IsCommand /\ ~click.current

PlanTarget == [execute |-> "executing", resume |-> "executing", refine |-> "drafting", pause |-> "paused"]
Applied ==
    \/ click.kind = "add" /\ AddStep(click.arg, Len(task.steps))
    \/ click.kind = "cancel" /\ CancelTask
    \/ IsCommand /\ IF click.arg = "abandon" THEN CancelTask ELSE PlanCommand(PlanTarget[click.arg])
    \/ \E i \in Place :
        \/ click.kind = "status" /\ UpdateStep(i, task.steps[i].title, click.arg, i - 1)
        \/ click.kind = "title" /\ UpdateStep(i, click.arg, "keep", i - 1)
        \/ click.kind = "remove" /\ RemoveStep(i, Forced)

\* what is there already: the task is cancelled, the plan is in the state asked for
AlreadySo ==
    \/ click.kind = "cancel" /\ ~Mutable
    \/ IsCommand /\ click.arg = "abandon" /\ ~Mutable
    \/ IsCommand /\ click.arg # "abandon" /\ task.plan = PlanTarget[click.arg]
    \/ IsCommand /\ click.arg = "execute" /\ PlanStatus(task) = "executing"

Asked          == click.stage = "sent" /\ click.on = "here"
Answers(stage) == click' = [click EXCEPT !.stage = stage]
\* a command answers with the view, everything else is read afterwards
Answered(all, c) == IF IsCommand THEN [all EXCEPT !.click.got = c] ELSE all

Land ==
    /\ Asked /\ ~Refused /\ ~Conflicts
    /\ Applied /\ Saved
    /\ reads' = Answered(StaleReads, Here')
    /\ click' = [click EXCEPT !.stage = "done", !.landed = TRUE]

LandNothing ==
    /\ Asked /\ ~Refused /\ ~Conflicts /\ AlreadySo
    /\ Answers("done")
    /\ reads' = Answered(reads, Here)
    /\ UNCHANGED <<vars, shown, held, popped, stream, pushed, changes>>

\* a command can also fail on its own: no session, no executor, a lease held by another
Refuse ==
    /\ Asked
    /\ \/ Refused /\ Answers("failed")
       \/ ~Refused /\ Conflicts /\ Answers("conflict")
       \/ IsCommand /\ Answers("failed")
    /\ UNCHANGED <<vars, shown, held, popped, reads, stream, pushed, changes>>

\* a request that names the task, or the session, of the other page: it has no plan
HandleThere ==
    /\ click.stage = "sent" /\ click.on = "there"
    /\ \E stage \in {"done", "conflict", "failed"} : (IsCommand => stage = "failed") /\ Answers(stage)
    /\ UNCHANGED <<vars, shown, held, popped, reads, stream, pushed, changes>>

\* the request or its answer is lost on the way
Lose ==
    /\ click.stage \in {"sent", "done", "conflict"}
    /\ Answers("failed")
    /\ reads' = [reads EXCEPT !.click = Idle]
    /\ UNCHANGED <<vars, shown, held, popped, stream, pushed, changes>>
-----------------------------------------------------------------------------
(* The page's part: actTask and actPlan after the answer.                   *)
\* Fault: a request whose answer was lost is repeated like a conflict.
RetryAlwaysFault == click.stage \in {"conflict", "failed"} /\ click.tries = 1
Retried        == click.stage = "conflict" /\ click.tries = 1
Reads(r, what) == [reads EXCEPT ![r] = Ask(what)]
\* nothing is left of the click but its readings
After(stage)   == click' = [NoClick EXCEPT !.stage = stage, !.as = click.as]

\* the last answer is an error: it is shown, the panel is no longer busy
GiveUp ==
    /\ click.stage \in {"conflict", "failed"} /\ ~Retried
    /\ click' = NoClick
    /\ UNCHANGED <<vars, shown, held, popped, reads, stream, pushed, changes>>

\* 409 task_conflict: refreshTask, and the same once more
Again ==
    /\ Retried
    /\ Answers("again")
    /\ reads' = Reads("click", "task")
    /\ UNCHANGED <<vars, shown, held, popped, stream, pushed, changes>>

\* a plan step: refreshPlan, then refreshTask; a task: refreshTask
Reread ==
    /\ click.stage = "done" /\ ~IsCommand
    /\ IF click.as = "plan" THEN After("plan") /\ reads' = Reads("click", "plan")
       ELSE After("last") /\ reads' = Reads("click", "task")
    /\ UNCHANGED <<vars, shown, held, popped, stream, pushed, changes>>

\* a command: its answer is the plan, whatever session is shown by now
CommandAnswered ==
    /\ click.stage = "done" /\ IsCommand
    /\ Show(reads.click.got)
    /\ click' = NoClick
    /\ reads' = [reads EXCEPT !.click = Idle]
    /\ UNCHANGED <<vars, shown, stream, pushed, changes>>

\* what a click does once its reading is over, with the copy then held
Continue ==
    CASE click.stage = "again" ->
           IF held'.as = click.as
           THEN click' = Send(held') /\ reads' = [reads EXCEPT !.click = Idle]
           ELSE After("last") /\ reads' = Reads("click", "task")
      [] click.stage = "plan" -> After("last") /\ reads' = Reads("click", "task")
      [] OTHER                -> click' = NoClick /\ reads' = [reads EXCEPT !.click = Idle]
Ended(r) ==
    IF r = "click" THEN Continue ELSE reads' = [reads EXCEPT ![r] = Idle] /\ UNCHANGED click
-----------------------------------------------------------------------------
(* Readings, events, and the ways of the user.                              *)
Serve(r) ==
    /\ reads[r].of # "none" /\ reads[r].got = NoCopy
    /\ reads' = [reads EXCEPT ![r].got = IF reads[r].of = "here" THEN Here ELSE There]
    /\ UNCHANGED <<vars, shown, held, popped, click, stream, pushed, changes>>

\* refreshTask asks no more which session is shown; beside a plan its own task is not shown
TaskRead(got) ==
    IF held.as = "plan"
    THEN UNCHANGED <<held, popped>>
    ELSE Show([got EXCEPT !.as = "task"])
\* refreshPlan does ask; a session without a plan has an empty one
PlanRead(got) ==
    IF got.of = shown /\ got.as = "plan" THEN Show(got)
    ELSE UNCHANGED <<held, popped>>

Apply(r) ==
    LET got == reads[r].got IN
    /\ got # NoCopy /\ reads[r].what \in {"task", "plan"}
    /\ IF reads[r].what = "task" THEN TaskRead(got) ELSE PlanRead(got)
    /\ Ended(r)
    /\ UNCHANGED <<vars, shown, stream, pushed, changes>>

\* loadSession: of the session shown (Switch has replaced an older load); events
\* follow if the agent runs
Load(running) ==
    /\ reads.load.got # NoCopy
    /\ Show(reads.load.got)
    /\ Ended("load")
    /\ stream' = IF stream = "off" /\ running THEN "connecting" ELSE stream
    /\ UNCHANGED <<vars, shown, pushed, changes>>

ReadFails(r) ==
    /\ reads[r].of # "none"
    /\ UNCHANGED <<held, popped>>
    /\ Ended(r)
    /\ UNCHANGED <<vars, shown, stream, pushed, changes>>

\* getPlan and listTasks failed, the rest of the load did not
LoadsNothing ==
    /\ reads.load.of # "none"
    /\ Show(NoCopy)
    /\ Ended("load")
    /\ UNCHANGED <<vars, shown, stream, pushed, changes>>

\* subscribe with Last-Event-ID 0: what the buffer still holds is written again.  It begins
\* empty when a session is opened and drops its oldest, so there may be no copy in it; if
\* there is one, the newest is the record, since every saving was published
Replayed == IF shown = "here" THEN {<<>>, <<Here>>, <<Stale(Here), Here>>} ELSE {<<>>}
Subscribe ==
    /\ stream = "connecting"
    /\ stream' = "on"
    /\ pushed' \in Replayed
    /\ UNCHANGED <<vars, shown, held, popped, click, reads, changes>>

HandlePush ==
    /\ pushed # <<>>
    /\ Show(Head(pushed))
    /\ pushed' = Tail(pushed)
    /\ UNCHANGED <<vars, shown, click, reads, stream, changes>>

\* the watch on the session: everything of the old one goes, but what is under way
Switch(to) ==
    /\ shown \notin {"none", to}
    /\ shown' = to
    /\ held' = NoCopy /\ popped' = FALSE
    /\ stream' = "off" /\ pushed' = <<>>
    /\ reads' = [reads EXCEPT !.load = [Ask("load") EXCEPT !.of = to]]
    /\ UNCHANGED <<vars, click, changes>>

\* the end of a run; sending a prompt connects without a load
Reload ==
    /\ shown # "none" /\ stream = "on" /\ reads.load = Idle
    /\ reads' = Reads("load", "load")
    /\ UNCHANGED <<vars, shown, held, popped, click, stream, pushed, changes>>
Prompt ==
    /\ shown # "none" /\ stream = "off"
    /\ stream' = "connecting"
    /\ UNCHANGED <<vars, shown, held, popped, click, reads, pushed, changes>>
-----------------------------------------------------------------------------
\* A page looks at a task just made, or at a plan that waits for the user or is carried out
Looked ==
    {[status |-> "pending", plan |-> "none", steps |-> <<NewStep(1, title)>>] : title \in Titles}
    \cup {[status |-> "pending", plan |-> plan, steps |-> <<NewStep(1, title)>>]
            : plan \in {"proposed", "executing"}, title \in Titles}

PanelInit ==
    /\ \/ shown = "none" /\ Init
       \/ shown = "here" /\ task \in Looked /\ opening = "none" /\ explicit = FALSE
    /\ held = NoCopy /\ popped = FALSE
    /\ click = NoClick
    /\ reads = [r \in Readers |-> IF r = "load" /\ shown = "here" THEN Ask("load") ELSE Idle]
    /\ stream = "off" /\ pushed = <<>> /\ changes = 0

ServerSide == Unwatched \/ Others \/ Land \/ LandNothing \/ Refuse \/ HandleThere
ClickSide  == Press \/ Lose \/ GiveUp \/ Again \/ Reread \/ CommandAnswered
PageSide ==
    \/ \E r \in Readers : Serve(r) \/ Apply(r) \/ ReadFails(r)
    \/ \E running \in BOOLEAN : Load(running)
    \/ LoadsNothing \/ Subscribe \/ HandlePush \/ Reload \/ Prompt
    \/ \E to \in Sessions : Switch(to)

PanelNext == ServerSide \/ ClickSide \/ PageSide
PanelSpec == PanelInit /\ [][PanelNext]_panelVars
-----------------------------------------------------------------------------
\* The events are the authority.  An answer is shown whatever was shown before it and
\* refreshTask and the commands do not ask for which session it came, so a panel can show an
\* older copy, or one of another session.  But nothing else makes it do so: a connected panel
\* with no event left goes wrong only by an answer or by connecting to an empty buffer, the
\* last event puts it right whatever answers, clicks and savings crossed it, a copy of
\* another session comes only by those two answers, and a plan that waits for the user and
\* is shown as it is has opened the panel.
AtRest       == shown = "here" /\ stream = "on" /\ pushed = <<>>
AnswerShown  == CommandAnswered \/ LoadsNothing \/ (\E r \in Readers : Apply(r))
                  \/ \E running \in BOOLEAN : Load(running)
Strange(c)   == c.of \notin {"none", shown}
Unasked      == CommandAnswered \/ \E r \in Readers : reads[r].what = "task" /\ Apply(r)
PanelCorrected ==
    [][/\ AtRest' /\ held' # Here' => (AtRest /\ held # Here) \/ AnswerShown \/ Subscribe
       /\ Strange(held)' => Strange(held) \/ Unasked
       /\ held'.as = "plan" /\ held'.current /\ Proposed' => popped']_panelVars

\* A click reaches the task at most once, through conflicts, repetitions and lost
\* answers, and the first request changes the very step that the user saw.
ClicksLand ==
    [][click.stage = "sent" /\ click'.landed /\ changes' # changes
         => ~click.landed /\ (click.tries = 1 /\ OnStep => click.seen \in Range(task.steps))]_panelVars
=============================================================================
