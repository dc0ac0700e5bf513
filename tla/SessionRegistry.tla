--------------------------- MODULE SessionRegistry ---------------------------
(***************************************************************************)
(* The Node service's sessions between the file and the page: AgentRegistry*)
(* with its entries and shared openings, the requests that create, open,   *)
(* prompt, abort and delete sessions, each an async function that other    *)
(* requests overtake at its awaits, the agents' turns with the approvals   *)
(* and the question they wait for, and the page with its two dialogs.      *)
(*                                                                         *)
(* The agent itself is the library's: it prepares the calls of a turn one  *)
(* after the other (the approval is part of that), then runs them side by  *)
(* side.  A turn's calls are the scenario's script.                        *)
(***************************************************************************)
EXTENDS HumanAnswers, TLC

CONSTANTS Connected,  \* the MCP servers connected in the workspace
          Slots,      \* bound: session objects that exist at the same time
          Scenarios   \* the situations a run looks at, see Init

INSTANCE SessionSettings

VARIABLES
  bound,     \* the scenario (never changes)
  file,      \* the session files: parent, configuration line and models used
  obj,       \* the session objects, with the turn each is in
  entry,     \* AgentRegistry.entries: the object registered under an id, or 0
  opening,   \* AgentRegistry.opening: the request that opens an id, or 0
  req,       \* the requests under way
  waiting,   \* ToolApprovalBroker.waiting, in the order of the Map
  asked,     \* QuestionBroker.waiting: a session's question
  log,       \* the cached events of the watched session
  page,      \* the page: its connection, its dialogs, what it waits for
  approved,  \* the calls a user has approved, seen with their worst risk
  ran,       \* the calls that were executed
  sent,      \* the answers a user has sent, by question
  told,      \* the answers the model was given, by question
  crashes    \* restarts of the service so far

vars == <<bound, file, obj, entry, opening, req, waiting, asked, log, page,
          approved, ran, sent, told, crashes>>
talk == <<waiting, asked, log, page, approved, ran, sent, told>>
history == <<approved, ran, sent, told>>

Ids == {"u", "w", "x", "n", "kid"}
Watched == "u"                 \* the session the page shows

\* The calls that the turns of a scenario make.
CallsOf(s) == UNION {ToSet(s.script[id]) : id \in Ids}

\* What every scenario observes: a child is asked for by its parent's turn only, and a
\* session that is made gets an id that nobody can have named before it is there; and the
\* id of a call names it.
Request == [do : {"get", "prompt", "abort", "model", "create", "delete"}, id : Ids \ {"kid"}]
ASSUME RegistryAssumption ==
  /\ Null \notin Ids \union Approvals
  /\ IsFiniteSet(Slots) /\ Slots \subseteq Nat \ {0} /\ 1 \in Slots
  /\ \A s \in Scenarios :
       /\ s.requests \in Seq(Request)
       /\ \A r, q \in DOMAIN s.requests :
            s.requests[r].do = "create" =>
              /\ s.open => s.requests[r].id # Watched
              /\ (q # r /\ s.requests[q].id = s.requests[r].id) => s.serial /\ r < q
       /\ \A id \in Ids : s.script[id] \in Seq(ToSet(s.script[id]))
       /\ \A c \in CallsOf(s) :
            /\ c.matches \subseteq Rules
            /\ c.raw \in Seq(ToSet(c.raw))
            /\ \A b \in ToSet(c.raw) : Len(b) \in Nat /\ b = [n \in 1 .. Len(b) |-> b[n]]
       /\ \A c, d \in CallsOf(s) : c.call = d.call => c = d
       /\ DOMAIN s.files = Ids
       /\ \A id \in Ids :
            s.files[id] # Null => DOMAIN s.files[id] = {"parent", "config", "models", "want"}

\* Null is none of the values of a session's settings, and these are of the kinds they
\* are of in a preset, in a file and in the catalogue of models.
ASSUME SettingsAssumption ==
  /\ Null \notin Int /\ Null \notin Texts
  /\ Null \notin SessionLine /\ Null \notin [ExtensionKeys -> BOOLEAN] /\ Null \notin Compaction
  /\ \A tools \in SUBSET (BuiltinTools \union ServerTools) : tools # Null
  /\ BuiltinTools \intersect ServerTools = {}
  /\ \A s \in Scenarios :
       /\ s.window \in Windows /\ s.other \in Windows /\ s.stored \subseteq StoredPreset
       /\ \A id \in Ids : s.files[id] # Null => s.files[id].models \in Seq(Windows)

Requests == 1 .. Len(bound.requests)
Kind(r) == bound.requests[r].do
Id(r) == bound.requests[r].id

-----------------------------------------------------------------------------
(* Session objects and their turns *)

Quiet == [st |-> "idle", at |-> 1, ready |-> {}, left |-> {}, stop |-> FALSE]
Blank == [id |-> Null, state |-> "free", heard |-> FALSE, settings |-> Null, want |-> Null,
          kept |-> Null, window |-> Null, run |-> Quiet]
\* window: the one its compaction was set up for.
Made(id, settings, window, want, kept) ==
  [id |-> id, state |-> "live", heard |-> FALSE, settings |-> settings, want |-> want,
   kept |-> kept, window |-> window, run |-> Quiet]

\* What is registered under an id: the object, or nothing.
Entries == [Ids -> Slots \union {0}]

Live(i) == obj[i].state = "live"
Busy(i) == obj[i].run.st # "idle"
Streaming(i) == Live(i) /\ Busy(i)
\* An object nobody holds any more stands for a new one.
Free(i) == /\ ~Live(i) /\ ~Busy(i)
           /\ \A r \in Requests : req[r].slot # i
FreeSlots == {i \in Slots : Free(i)}
NextSlot == CHOOSE i \in FreeSlots : \A j \in FreeSlots : i <= j

Script(i) == bound.script[obj[i].id]
CallOf(i) == Script(i)[obj[i].run.at]

Event(type) == [type |-> type, call |-> Null, question |-> Null]
\* The registry's listener hears an object until it is taken off.
Emitted(l, i, events) ==
  IF bound.watched /\ obj[i].id = Watched /\ obj[i].heard THEN l \o events ELSE l
\* The brokers publish through the register instead.
Announced(l, id, event) ==
  IF bound.watched /\ id = Watched /\ entry[id] # 0 THEN Append(l, event) ELSE l

\* A prompt of a session that is at work is refused without a word.
Prompted(o, i) ==
  IF o[i].run.st = "idle" THEN [o EXCEPT ![i].run = [Quiet EXCEPT !.st = "prep"]] ELSE o
PromptedLog(i) ==
  IF Busy(i) THEN log ELSE Emitted(log, i, <<Event("agent_start"), Event("message_update")>>)

-----------------------------------------------------------------------------
(* Approvals: ToolApprovalBroker *)

Waiters == [slot : Slots, owner : Ids, parent : {Watched, Null}, deaf : BOOLEAN,
            call : {c.call : c \in CallsOf(bound)},
            asks : Approvals]

Has(owner, call) == \E w \in ToSet(waiting) : w.owner = owner /\ w.call = call
\* Without these, in the order of the others.
Without(ws) ==
  LET kept[n \in 0 .. Len(waiting)] ==
        IF n = 0 THEN <<>>
        ELSE IF waiting[n] \in ws THEN kept[n - 1] ELSE Append(kept[n - 1], waiting[n])
  IN kept[Len(waiting)]

\* settle(): the calls of these waiters are prepared now, or refused.
Answered(run, granted) ==
  [run EXCEPT !.st = "prep", !.at = @ + 1, !.ready = IF granted THEN @ \union {run.at} ELSE @]
Settled(o, ws, granted) ==
  [i \in Slots |-> IF \E w \in ws : w.slot = i
                   THEN [o[i] EXCEPT !.run = Answered(@, granted)] ELSE o[i]]
Refusals(l, ws) ==
  IF \E w \in ws : obj[w.slot].id = Watched /\ obj[w.slot].heard
  THEN Append(l, Event("tool_execution_end")) ELSE l

\* Fault: whatever the session's children wait for is taken.
ChildWaitersFault(parent, call) == {w \in ToSet(waiting) : w.parent = parent}

\* findChildWaiter and the exact key before it
ChildWaiters(parent, call) ==
  {w \in ToSet(waiting) : w.call = call /\ w.parent = parent}
Decidable(session, call) ==
  IF Has(session, call) THEN {w \in ToSet(waiting) : w.owner = session /\ w.call = call}
  ELSE LET S == ChildWaiters(session, call)
       IN IF S = {} THEN {} ELSE {CHOOSE w \in S : TRUE}

CancelSession(session) == {w \in ToSet(waiting) : w.owner = session \/ w.parent = session}

\* What an abort reaches: the waiters that listen to the signal (one that was asked
\* after the abort does not), the question, and the child's own turn.
Children(i) == IF obj[i].id = Watched
               THEN {j \in Slots : obj[j].id = "kid" /\ Streaming(j)} ELSE {}
Aborted(i) == {i} \union Children(i)
Listening(J) == {w \in ToSet(waiting) : w.slot \in J /\ ~w.deaf}
Stopped(o, J) ==
  [i \in Slots |-> IF i \in J
                   THEN [o[i] EXCEPT !.run.stop = TRUE,
                                     !.run.left = @ \ {n \in @ : /\ Script(i)[n].kind = "ask_user"
                                                                 /\ asked[o[i].id] # Null
                                                                 /\ asked[o[i].id].at = n}]
                   ELSE o[i]]
\* Everything that session.abort() does at once, after the waiters ws were refused.
Halt(i, ws) ==
  LET J == Aborted(i)
      all == ws \union Listening(J)
      question == asked[obj[i].id] # Null
  IN /\ waiting' = Without(all)
     /\ obj' = Stopped(Settled(obj, all, FALSE), J)
     /\ asked' = [asked EXCEPT ![obj[i].id] = Null]
     /\ log' = LET l == Refusals(log, all)
               IN IF question
                  THEN Emitted(Announced(l, obj[i].id, Event("question_resolved")), i,
                               <<Event("tool_execution_end")>>)
                  ELSE l
     /\ told' = IF question /\ obj[i].id = Watched THEN Null ELSE told

-----------------------------------------------------------------------------
(* Requests: an action is the code between two awaits *)

New == [pc |-> "new", slot |-> 0, snap |-> Null, todo |-> {}]
Over(r) == req[r].pc \in {"done", "failed"}
Issuable(r) ==
  /\ req[r].pc = "new"
  /\ bound.serial => \A q \in Requests : q < r => Over(q)
To(r, pc) == [req EXCEPT ![r].pc = pc]
Finished(R) == [r \in Requests |-> IF r \in R THEN [New EXCEPT !.pc = "done"] ELSE req[r]]
FailedAll(R) == [r \in Requests |-> IF r \in R THEN [New EXCEPT !.pc = "failed"] ELSE req[r]]

Opens(r) == Kind(r) \in {"get", "prompt", "abort", "model"}
\* The requests that go on when the opening by r has come to its end.
Joined(r) == {q \in Requests : q = r \/ (req[q].pc = "join" /\ Id(q) = Id(r))}
Prompts(R) == \E r \in R : Kind(r) \in {"prompt", "create"}

\* set_model leaves a line in the file, or with what will be the file (alone it makes
\* no session of a file that is gone); the compaction stays as it was set up.
Switched(r, record) == IF Kind(r) = "model" /\ record # Null
                       THEN [record EXCEPT !.models = Append(@, bound.other)] ELSE record
Models(R) == {r \in R : Kind(r) = "model"}

\* What the requests R do once they have their object: a prompt is started and not
\* awaited, and a new model is kept.
Served(R, i) ==
  LET o == IF Prompts(R) THEN Prompted(obj, i) ELSE obj
      id == obj[i].id
  IN /\ log' = IF Prompts(R) THEN PromptedLog(i) ELSE log
     /\ IF Models(R) = {} THEN obj' = o /\ UNCHANGED file
        ELSE LET r == CHOOSE r \in Models(R) : TRUE
             IN IF obj[i].kept # Null
                THEN obj' = [o EXCEPT ![i].kept = Switched(r, @)] /\ UNCHANGED file
                ELSE file' = [file EXCEPT ![id] = Switched(r, @)] /\ obj' = o
Proceed(R, i) == Served(R, i) /\ req' = Finished(R)

\* send(): the page clears its dialogs and connects when the request has gone through.
Sendable(r) == (Kind(r) = "prompt" /\ bound.watched) =>
                  page.mode \in {"idle", "live"} /\ page.load = "none" /\ ~page.running
Send(r) == page' = IF Kind(r) = "prompt" /\ bound.watched
                   THEN [page EXCEPT !.mode = "live", !.dialog = NoDialog, !.running = TRUE]
                   ELSE page

\* open() of a session that is registered
OpenActive(r) ==
  /\ Issuable(r) /\ Opens(r) /\ Sendable(r)
  /\ entry[Id(r)] # 0
  /\ ~(Kind(r) = "abort" /\ Busy(entry[Id(r)]))
  /\ Proceed({r}, entry[Id(r)])
  /\ Send(r)
  /\ UNCHANGED <<bound, entry, opening, waiting, asked, history, crashes>>

Abort(r) ==
  /\ Issuable(r) /\ Kind(r) = "abort"
  /\ entry[Id(r)] # 0 /\ Busy(entry[Id(r)])
  /\ Halt(entry[Id(r)], {})
  /\ req' = [req EXCEPT ![r].pc = "abort", ![r].slot = entry[Id(r)]]
  /\ UNCHANGED <<bound, file, entry, opening, page, approved, ran, sent, crashes>>

\* Fault: every request opens the session on its own.
JoinsFault(id) == opening[id] < 0

\* open() of a session that another request is opening: its promise is shared.
Joins(id) == opening[id] # 0

OpenJoins(r) ==
  /\ Issuable(r) /\ Opens(r)
  /\ entry[Id(r)] = 0 /\ Joins(Id(r))
  /\ req' = To(r, "join")
  /\ UNCHANGED <<bound, file, obj, entry, opening, talk, crashes>>

OpenStart(r) ==
  /\ Issuable(r) /\ Opens(r)
  /\ entry[Id(r)] = 0 /\ ~Joins(Id(r))
  /\ opening' = [opening EXCEPT ![Id(r)] = r]
  /\ req' = To(r, "list")
  /\ UNCHANGED <<bound, file, obj, entry, talk, crashes>>

\* openPersisted(): the file is looked up and the object made from it ...
OpenMissing(r) ==
  /\ req[r].pc = "list" /\ file[Id(r)] = Null
  /\ opening' = [opening EXCEPT ![Id(r)] = 0]
  /\ req' = FailedAll(Joined(r))
  /\ UNCHANGED <<bound, file, obj, entry, talk, crashes>>

OpenBuild(r) ==
  /\ req[r].pc = "list" /\ file[Id(r)] # Null /\ FreeSlots # {}
  /\ LET f == file[Id(r)]
         i == NextSlot
     IN /\ obj' = [obj EXCEPT ![i] = Made(Id(r), Opened(f.config, WindowOf(f.models)),
                                            WindowOf(f.models), f.want, Null)]
        /\ req' = [req EXCEPT ![r].pc = "built", ![r].slot = i]
  /\ UNCHANGED <<bound, file, entry, opening, talk, crashes>>

\* ... and registered, before its extensions are bound.  An object that comes too
\* late is dropped, not disposed.
Register(r) ==
  /\ req[r].pc = "built"
  /\ LET i == req[r].slot
     IN IF entry[Id(r)] # 0
        THEN /\ Kind(r) # "create"
             /\ Proceed(Joined(r), entry[Id(r)])
             /\ opening' = [opening EXCEPT ![Id(r)] = 0]
             /\ UNCHANGED entry
        ELSE /\ entry' = [entry EXCEPT ![Id(r)] = i]
             /\ obj' = [obj EXCEPT ![i].heard = TRUE]
             /\ log' = IF Id(r) = Watched THEN <<>> ELSE log
             /\ req' = To(r, "bind")
             /\ UNCHANGED <<file, opening>>
  /\ UNCHANGED <<bound, waiting, asked, page, history, crashes>>

\* bindExtensions is over: the request goes on, with all that joined it.
Bound(r) ==
  /\ req[r].pc = "bind"
  /\ opening' = IF Kind(r) = "create" THEN opening ELSE [opening EXCEPT ![Id(r)] = 0]
  /\ Proceed(IF Kind(r) = "create" THEN {r} ELSE Joined(r), req[r].slot)
  /\ UNCHANGED <<bound, entry, waiting, asked, page, history, crashes>>

\* POST /api/agent/new: the session's own line is written with its first answer.
Create(r) ==
  /\ Issuable(r) /\ Kind(r) = "create" /\ FreeSlots # {}
  /\ \E preset \in Presets(bound.stored), known \in BOOLEAN :
       \E saved \in Versions(preset) :
       LET body == Body(Restored(saved, known), bound.window)
           want == Chosen(Selected(preset, known))
       IN /\ Accepts(body)
          /\ obj' = [obj EXCEPT ![NextSlot] =
                       Made(Id(r), Created(body), body.window, want,
                            [parent |-> Null, config |-> Line(body), models |-> <<body.window>>,
                             want |-> want])]
  /\ req' = [req EXCEPT ![r].pc = "built", ![r].slot = NextSlot]
  /\ UNCHANGED <<bound, file, entry, opening, talk, crashes>>

-----------------------------------------------------------------------------
(* Removal *)

\* DELETE: the listing is taken, then remove() runs up to its await.
PersistedInfo(id) == [parent |-> file[id].parent, active |-> entry[id] # 0]
ActiveInfo == [parent |-> Null, active |-> TRUE]
OnDisk == {id \in Ids : file[id] # Null}
Listing == [id \in Ids |-> IF id \in OnDisk THEN PersistedInfo(id)
                           ELSE IF entry[id] # 0 THEN ActiveInfo ELSE Null]
Listed(id) == Listing[id] # Null
Removing(i) == [obj EXCEPT ![i].heard = FALSE]
Gone(p) == IF p.mode = "live" THEN [p EXCEPT !.mode = "lost"] ELSE p
Heirs(snap, id) == {c \in Ids : snap[c] # Null /\ snap[c].parent = id}

DeleteMissing(r) ==
  /\ Issuable(r) /\ Kind(r) = "delete" /\ ~Listed(Id(r))
  /\ req' = FailedAll({r})
  /\ UNCHANGED <<bound, file, obj, entry, opening, talk, crashes>>

DeleteIdle(r) ==
  /\ Issuable(r) /\ Kind(r) = "delete" /\ Listed(Id(r))
  /\ LET i == entry[Id(r)]
         ws == CancelSession(Id(r))
     IN /\ i # 0 => ~Streaming(i)
        /\ obj' = IF i = 0 THEN obj
                  ELSE [Settled(obj, ws, FALSE) EXCEPT ![i].heard = FALSE, ![i].state = "disposed"]
        /\ waiting' = IF i = 0 THEN waiting ELSE Without(ws)
        /\ page' = IF i # 0 /\ Id(r) = Watched THEN Gone(page) ELSE page
  /\ entry' = [entry EXCEPT ![Id(r)] = 0]
  /\ req' = [req EXCEPT ![r].pc = "heirs", ![r].snap = Listing, ![r].todo = Heirs(Listing, Id(r))]
  /\ UNCHANGED <<bound, file, opening, asked, log, history, crashes>>

DeleteBusy(r) ==
  /\ Issuable(r) /\ Kind(r) = "delete" /\ entry[Id(r)] # 0 /\ Streaming(entry[Id(r)])
  /\ LET i == entry[Id(r)]
         ws == CancelSession(Id(r))
         J == Aborted(i)
         all == ws \union Listening(J)
     IN /\ waiting' = Without(all)
        /\ obj' = [Stopped(Settled(obj, all, FALSE), J) EXCEPT ![i].heard = FALSE]
        /\ req' = [req EXCEPT ![r].pc = "remove", ![r].slot = i, ![r].snap = Listing]
        /\ asked' = [asked EXCEPT ![Id(r)] = Null]
        /\ log' = IF asked[Id(r)] # Null THEN Announced(log, Id(r), Event("question_resolved")) ELSE log
  /\ page' = IF Id(r) = Watched THEN Gone(page) ELSE page
  /\ told' = IF Id(r) = Watched /\ asked[Id(r)] # Null THEN Null ELSE told
  /\ UNCHANGED <<bound, file, entry, opening, approved, ran, sent, crashes>>

\* reparentAndDelete(): one child's header at a time, from the listing, then the file.
ParentOf(r) == req[r].snap[Id(r)].parent

\* Fault: the file goes before its children are looked after.
MayEraseFault(r) == TRUE

MayErase(r) == req[r].todo = {}

Reparent(r) ==
  /\ req[r].pc = "heirs"
  /\ \E c \in req[r].todo :
       IF file[c] = Null
       THEN /\ req' = FailedAll({r})
            /\ UNCHANGED file
       ELSE /\ file' = [file EXCEPT ![c].parent = ParentOf(r)]
            /\ req' = [req EXCEPT ![r].todo = @ \ {c}]
  /\ UNCHANGED <<bound, obj, entry, opening, talk, crashes>>

Erase(r) ==
  /\ req[r].pc = "heirs" /\ MayErase(r)
  /\ file' = [file EXCEPT ![Id(r)] = Null]
  /\ req' = IF file[Id(r)] = Null THEN FailedAll({r}) ELSE Finished({r})
  /\ UNCHANGED <<bound, obj, entry, opening, talk, crashes>>

-----------------------------------------------------------------------------
(* Turns *)

Preparing(i) == obj[i].run.st = "prep" /\ obj[i].run.at <= Len(Script(i))
Asks(i) == /\ CallOf(i).kind = "bash" /\ Classify(CallOf(i).matches) # Null
           /\ "approval" \in obj[i].settings.loaded
Parent(i) == IF obj[i].id = "kid" THEN Watched ELSE Null

\* A call that needs no approval is ready.
Prepare(i) ==
  /\ Preparing(i) /\ ~Asks(i)
  /\ obj' = [obj EXCEPT ![i].run = Answered(@, TRUE)]
  /\ log' = Emitted(log, i, <<Event("tool_execution_start")>>)
  /\ UNCHANGED <<bound, file, entry, opening, req, waiting, asked, page, history, crashes>>

\* A call that needs one waits; its dialog belongs to the parent's page.
RequestApproval(i) ==
  /\ Preparing(i) /\ Asks(i)
  /\ LET w == [slot |-> i, owner |-> obj[i].id, call |-> CallOf(i).call, parent |-> Parent(i),
               asks |-> Classify(CallOf(i).matches), deaf |-> obj[i].run.stop]
         to == IF w.parent # Null /\ entry[w.parent] # 0 THEN w.parent ELSE w.owner
     IN /\ waiting' = Append(waiting, w)
        /\ log' = Announced(Emitted(log, i, <<Event("tool_execution_start")>>), to,
                            [Event("tool_call_pending") EXCEPT
                               !.call = [call |-> w.call, asks |-> w.asks]])
  /\ obj' = [obj EXCEPT ![i].run.st = "asks"]
  /\ UNCHANGED <<bound, file, entry, opening, req, asked, page, history, crashes>>

\* After an abort the library may also refuse what is left without asking anyone.
Skip(i) ==
  /\ Preparing(i) /\ obj[i].run.stop
  /\ obj' = [obj EXCEPT ![i].run = Answered(@, FALSE)]
  /\ log' = Emitted(log, i, <<Event("tool_execution_start"), Event("tool_execution_end")>>)
  /\ UNCHANGED <<bound, file, entry, opening, req, waiting, asked, page, history, crashes>>

ApprovalTimeout(w) ==
  /\ waiting' = Without({w})
  /\ obj' = Settled(obj, {w}, FALSE)
  /\ log' = Refusals(log, {w})
  /\ UNCHANGED <<bound, file, entry, opening, req, asked, page, history, crashes>>

Launch(i) ==
  /\ obj[i].run.st = "prep" /\ obj[i].run.at > Len(Script(i))
  /\ obj' = [obj EXCEPT ![i].run.st = "exec", ![i].run.left = obj[i].run.ready]
  /\ UNCHANGED <<bound, file, entry, opening, req, talk, crashes>>

Left(i, kind) == IF obj[i].run.st = "exec"
                 THEN {n \in obj[i].run.left : Script(i)[n].kind = kind} ELSE {}
Returned(o, i, n) == [o EXCEPT ![i].run.left = @ \ {n}]

Execute(i) ==
  \E n \in Left(i, "bash") :
    /\ obj' = Returned(obj, i, n)
    /\ ran' = ran \union {Script(i)[n].call}
    /\ log' = Emitted(log, i, <<Event("tool_execution_end")>>)
    /\ UNCHANGED <<bound, file, entry, opening, req, waiting, asked, page, approved, sent, told, crashes>>

\* PendingQuestion: the call that asks, and the ids the answers will name
Pending(n, raw) == [at |-> n, ids |-> NormalizeQuestions(raw)]

\* ask_user: one question at a time, and none under an aborted signal.
AskUser(i) ==
  \E n \in Left(i, "ask_user") :
    /\ ~(asked[obj[i].id] # Null /\ asked[obj[i].id].at = n)
    /\ IF asked[obj[i].id] # Null \/ obj[i].run.stop
       THEN /\ obj' = Returned(obj, i, n)
            /\ log' = Emitted(log, i, <<Event("tool_execution_end")>>)
            /\ UNCHANGED <<asked, told>>
       ELSE LET q == Pending(n, Script(i)[n].raw)
            IN /\ asked' = [asked EXCEPT ![obj[i].id] = q]
               /\ log' = Announced(log, obj[i].id, [Event("question_pending") EXCEPT !.question = q])
               /\ told' = Null
               /\ UNCHANGED obj
    /\ UNCHANGED <<bound, file, entry, opening, req, waiting, page, approved, ran, sent, crashes>>

\* The question is over: by the user's answers, or Null by a refusal, the clock, an abort.
Answers(id, answers) ==
  \E i \in Slots :
    /\ obj[i].id = id /\ Busy(i) /\ obj[i].run.st = "exec" /\ asked[id].at \in obj[i].run.left
    /\ asked' = [asked EXCEPT ![id] = Null]
    /\ told' = answers
    /\ log' = Emitted(Announced(log, id, Event("question_resolved")), i,
                      <<Event("tool_execution_end")>>)
    /\ obj' = Returned(obj, i, asked[id].at)

QuestionTimeout(id) ==
  /\ asked[id] # Null /\ Answers(id, Null)
  /\ UNCHANGED <<bound, file, entry, opening, req, waiting, page, approved, ran, sent, crashes>>

\* subagent: the child is made, registered and prompted.
Delegate(i) ==
  \E n \in Left(i, "subagent") :
    /\ entry["kid"] = 0
    /\ IF obj[i].run.stop
       THEN /\ obj' = Returned(obj, i, n)
            /\ log' = Emitted(log, i, <<Event("tool_execution_end")>>)
            /\ UNCHANGED entry
       ELSE /\ FreeSlots # {}
            /\ entry' = [entry EXCEPT !["kid"] = NextSlot]
            /\ obj' = Prompted([obj EXCEPT ![NextSlot] =
                                  [Made("kid", obj[i].settings, obj[i].window, Null, Null)
                                     EXCEPT !.heard = TRUE]],
                               NextSlot)
            /\ UNCHANGED log
    /\ UNCHANGED <<bound, file, opening, req, waiting, asked, page, history, crashes>>

AtEnd(i) == obj[i].run.st = "exec" /\ obj[i].run.left = {}

\* The child is removed when its turn is over, and the parent's call returns.
ChildEnds(i) ==
  /\ AtEnd(i) /\ obj[i].id = "kid"
  /\ \E j \in Slots : \E n \in Left(j, "subagent") :
       /\ obj' = Returned([obj EXCEPT ![i] = Blank], j, n)
       /\ log' = Emitted(log, j, <<Event("tool_execution_end")>>)
  /\ entry' = [entry EXCEPT !["kid"] = 0]
  /\ UNCHANGED <<bound, file, opening, req, waiting, asked, page, history, crashes>>

\* The end of a turn: the file is written, aborts return, and every remove() that
\* waits for it disposes the object and takes the id out of the register.
TurnEnds(i) ==
  /\ AtEnd(i) /\ obj[i].id # "kid"
  /\ LET id == obj[i].id
         removers == {r \in Requests : req[r].pc = "remove" /\ req[r].slot = i}
     IN /\ obj' = [obj EXCEPT ![i].run = Quiet, ![i].kept = Null,
                              ![i].state = IF removers # {} THEN "disposed" ELSE @]
        /\ file' = IF obj[i].kept # Null THEN [file EXCEPT ![id] = obj[i].kept] ELSE file
        /\ entry' = IF removers # {} THEN [entry EXCEPT ![id] = 0] ELSE entry
        /\ req' = [r \in Requests |->
                     IF r \in removers
                     THEN [req[r] EXCEPT !.pc = "heirs", !.slot = 0, !.todo = Heirs(req[r].snap, id)]
                     ELSE IF req[r].pc = "abort" /\ req[r].slot = i THEN [New EXCEPT !.pc = "done"]
                     ELSE req[r]]
        /\ log' = Emitted(log, i, <<Event("agent_end")>>)
  /\ UNCHANGED <<bound, opening, waiting, asked, page, history, crashes>>

-----------------------------------------------------------------------------
(* The page *)

ReadEvent ==
  /\ page.mode = "live" /\ page.pos < Len(log)
  /\ bound.swift => page.click = Null /\ page.answer = Null
  /\ LET e == log[page.pos + 1]
     IN page' = [page EXCEPT !.pos = @ + 1, !.dialog = Reduced(@, e),
                             !.running = e.type # "agent_end",
                             !.load = IF e.type = "agent_end" THEN "asked" ELSE @]
  /\ UNCHANGED <<bound, file, obj, entry, opening, req, waiting, asked, log, history, crashes>>

\* What useAgentSession keeps: the connection and the place in its stream, the dialogs,
\* and the answers it waits for (a load, a click, the answers to a question).
FreshPage(mode) == [mode |-> mode, pos |-> 0, dialog |-> NoDialog, running |-> FALSE,
                    load |-> "none", snap |-> Null, click |-> Null, answer |-> Null, reloads |-> 0]

\* The browser's reload: a page with nothing, that loads the session.
Reload ==
  /\ bound.watched /\ page.reloads < bound.reloads /\ entry[Watched] # 0
  /\ page' = [FreshPage("idle") EXCEPT !.load = "asked", !.reloads = page.reloads + 1]
  /\ UNCHANGED <<bound, file, obj, entry, opening, req, waiting, asked, log, history, crashes>>

\* state(): the session's own call and question, not those of its children.
OwnCall == SelectInSeq(waiting, LAMBDA w : w.owner = Watched)
Snapshot ==
  [call |-> IF OwnCall = 0 THEN Null
            ELSE [call |-> waiting[OwnCall].call, asks |-> waiting[OwnCall].asks],
   question |-> asked[Watched], streaming |-> Busy(entry[Watched])]
LoadAnswered ==
  /\ page.load = "asked"
  /\ page' = IF entry[Watched] = 0 THEN [page EXCEPT !.load = "none"]
              ELSE [page EXCEPT !.load = "got", !.snap = Snapshot]
  /\ UNCHANGED <<bound, file, obj, entry, opening, req, waiting, asked, log, history, crashes>>

\* loadSession(): what the state says is shown, and the stream connected if it runs.
LoadShown ==
  /\ page.load = "got"
  /\ LET s == page.snap
     IN page' = IF s.streaming
                THEN [page EXCEPT !.load = "none", !.snap = Null, !.running = TRUE,
                                  !.mode = IF @ = "idle" THEN "live" ELSE @,
                                  !.dialog = [call |-> IF s.call = Null THEN @.call ELSE s.call,
                                              question |-> s.question]]
                ELSE [page EXCEPT !.load = "none", !.snap = Null, !.running = FALSE, !.dialog = NoDialog]
  /\ UNCHANGED <<bound, file, obj, entry, opening, req, waiting, asked, log, history, crashes>>

\* approve_tool at the server: the waiters it settles, none for a 404.
ApproveTool(call, yes) ==
  LET ws == Decidable(Watched, call)
  IN /\ waiting' = Without(ws)
     /\ obj' = Settled(obj, ws, yes)
     /\ log' = IF yes THEN log ELSE Refusals(log, ws)

\* The user's click on the approval dialog, with the server's part ...
MatchesOf(call) == (CHOOSE c \in CallsOf(bound) : c.call = call).matches
Approve(yes) ==
  /\ page.dialog.call # Null /\ page.click = Null
  /\ LET shown == page.dialog.call
     IN /\ ApproveTool(shown.call, yes)
        /\ page' = [page EXCEPT !.click = IF Decidable(Watched, shown.call) = {} THEN "refused"
                                          ELSE "accepted"]
        /\ approved' = IF yes /\ shown.asks.risk = WorstRisk(MatchesOf(shown.call))
                       THEN approved \union {shown.call} ELSE approved
  /\ UNCHANGED <<bound, file, entry, opening, req, asked, ran, sent, told, crashes>>

\* ... and its answer at the page, which takes the dialog away, whichever it is by then.
ApproveReturns ==
  /\ page.click # Null
  /\ page' = [page EXCEPT !.click = Null,
                          !.dialog.call = IF page.click = "accepted" THEN Null ELSE @]
  /\ UNCHANGED <<bound, file, obj, entry, opening, req, waiting, asked, log, history, crashes>>

\* answer_question at the server: only for the question that waits.
AnswerQuestion(q, answers) ==
  IF asked[Watched] # q THEN UNCHANGED <<obj, asked, log, told>>
  ELSE Answers(Watched, IF answers = Null THEN Null ELSE Reported(q.ids, answers))

\* The answers to the questions (or, with Null, "decide yourself").
Answer(picks) ==
  /\ page.dialog.question # Null /\ page.answer = Null
  /\ LET q == page.dialog.question
     IN /\ AnswerQuestion(q, IF picks = Null THEN Null ELSE Drafted(q.ids, picks))
        /\ sent' = IF asked[Watched] = q THEN picks ELSE sent
        /\ page' = [page EXCEPT !.answer = IF asked[Watched] = q THEN "accepted" ELSE "refused"]
  /\ UNCHANGED <<bound, file, entry, opening, req, waiting, approved, ran, crashes>>

AnswerReturns ==
  /\ page.answer # Null
  /\ page' = [page EXCEPT !.answer = Null,
                          !.dialog.question = IF page.answer = "accepted" THEN Null ELSE @]
  /\ UNCHANGED <<bound, file, obj, entry, opening, req, waiting, asked, log, history, crashes>>

Picks == IF page.dialog.question = Null THEN {}
         ELSE {Null} \union [1 .. Len(page.dialog.question.ids) -> {"a", Null}]

-----------------------------------------------------------------------------
(* The service stops and starts again *)

NobodyAsked == [id \in Ids |-> Null]
Nowhere == [id \in Ids |-> 0]
Crash ==
  /\ crashes < bound.crashes
  /\ crashes' = crashes + 1
  /\ obj' = [i \in Slots |-> Blank]
  /\ entry' = Nowhere /\ opening' = Nowhere
  /\ req' = [r \in Requests |-> IF req[r].pc = "new" \/ Over(r) THEN req[r] ELSE [New EXCEPT !.pc = "failed"]]
  /\ waiting' = <<>> /\ asked' = NobodyAsked
  /\ UNCHANGED <<bound, file, log, page, history>>

\* Nothing is under way any more.
Rest ==
  /\ \A r \in Requests : req[r].pc = "new" \/ Over(r)
  /\ \A i \in Slots : ~Busy(i)
  /\ waiting = <<>> /\ page.load = "none" /\ page.click = Null /\ page.answer = Null
  /\ UNCHANGED vars

Init ==
  /\ bound \in Scenarios
  /\ file = bound.files
  /\ obj = [i \in Slots |->
              IF i = 1 /\ bound.open
              THEN [Made(Watched, Opened(Null, bound.window), bound.window, Null, Null)
                     EXCEPT !.heard = TRUE]
              ELSE Blank]
  /\ entry = [Nowhere EXCEPT ![Watched] = IF bound.open THEN 1 ELSE 0]
  /\ opening = Nowhere
  /\ req = [r \in Requests |-> New]
  /\ waiting = <<>> /\ asked = NobodyAsked /\ log = <<>>
  /\ page = FreshPage(IF bound.watched THEN "idle" ELSE "closed")
  /\ approved = {} /\ ran = {} /\ sent = Null /\ told = Null
  /\ crashes = 0

\* The routes: /new and /:id of the agent, and DELETE of a session.
Handled(r) ==
  \/ OpenActive(r) \/ Abort(r) \/ OpenJoins(r) \/ OpenStart(r) \/ OpenMissing(r)
  \/ OpenBuild(r) \/ Register(r) \/ Bound(r) \/ Create(r)
  \/ DeleteMissing(r) \/ DeleteIdle(r) \/ DeleteBusy(r) \/ Reparent(r) \/ Erase(r)

Next ==
  \/ \E r \in Requests : Handled(r)
  \/ \E i \in Slots :
       \/ Prepare(i) \/ RequestApproval(i) \/ Skip(i) \/ Launch(i)
       \/ Execute(i) \/ AskUser(i) \/ Delegate(i) \/ ChildEnds(i) \/ TurnEnds(i)
  \/ \E w \in ToSet(waiting) : ApprovalTimeout(w)
  \/ \E id \in Ids : QuestionTimeout(id)
  \/ ReadEvent \/ Reload \/ LoadAnswered \/ LoadShown
  \/ \E yes \in BOOLEAN : Approve(yes)
  \/ ApproveReturns
  \/ \E picks \in Picks : Answer(picks)
  \/ AnswerReturns
  \/ Crash
  \/ Rest

Spec == Init /\ [][Next]_vars

-----------------------------------------------------------------------------
(* Properties *)

\* One session, one object: whatever overlaps, an id never has two objects that could
\* both write its file, the register never names one that is disposed or of another id,
\* an opening others wait for is under way, and a call that waits for an approval has
\* exactly one waiter to be settled by (open, register, remove, requestApproval).
RegistryInv ==
  /\ entry \in Entries
  /\ waiting \in Seq(Waiters)
  /\ \A i, j \in Slots : (Live(i) /\ Live(j) /\ obj[i].id = obj[j].id) => i = j
  /\ \A id \in Ids : entry[id] # 0 => Live(entry[id]) /\ obj[entry[id]].id = id
  /\ \A i \in Slots : Live(i) =>
       \/ entry[obj[i].id] = i
       \/ \E r \in Requests : req[r].pc = "built" /\ req[r].slot = i
  /\ \A id \in Ids : opening[id] # 0 =>
       Id(opening[id]) = id /\ req[opening[id]].pc \in {"list", "built", "bind"}
  /\ \A r \in Requests : req[r].pc = "join" => opening[Id(r)] # 0
  /\ \A i \in Slots : (obj[i].run.st = "asks") =
       (Cardinality({n \in 1 .. Len(waiting) : waiting[n].slot = i}) = 1)

\* A session's parent is always a session that exists: deletions, one after the other
\* and broken off at any point by a restart, leave no child without its forebear
\* (reparentAndDelete).
TreeWhole ==
  \A c \in Ids : (file[c] # Null /\ file[c].parent # Null) => file[file[c].parent] # Null

\* A command that any rule matches is executed only after a user has approved this very
\* call in a dialog that showed the worst of its risks, however approvals of a session
\* and its child, timeouts, late clicks and reloads of the page overlap; and what the
\* model is told of each question is what the user has entered there (decide, answer).
RunsAsAnswered ==
  /\ \A c \in ran : MatchesOf(c) # {} => c \in approved
  /\ told # Null => told = sent

\* Whatever waits for the user is in front of the user: once the page has read all
\* events and no answer is on its way, the dialogs show the call and the question
\* that are waiting, with the call's risk (agent-events.ts:39).  Only where the page
\* gets the answer to a click before the next event (swift): approveToolCall clears
\* whatever dialog is there when the answer comes.
AskedIsShown ==
  (bound.swift /\ page.mode = "live" /\ page.load = "none" /\ page.pos = Len(log)
     /\ page.click = Null /\ page.answer = Null) =>
  /\ \A w \in ToSet(waiting) :
       Watched \in {w.owner, w.parent} => page.dialog.call = [call |-> w.call, asks |-> w.asks]
  /\ asked[Watched] # Null => page.dialog.question = asked[Watched]

\* A session is what its preset asked for when it is made and again when it is opened
\* after a restart and a change of the model: the same abilities, servers and tools, and
\* no longer a context (sessionConfigOf, open).  Not so for a session whose line has come
\* out unreadable: where the window leaves no room, create keeps 0 recent tokens, and
\* parseSessionConfig drops a line with a 0 in it whole.
ReopenKeepsSettings ==
  \A i \in Slots : (Live(i) /\ obj[i].want # Null) =>
     \/ Fits(obj[i].settings, obj[i].want, obj[i].window)
     \/ file[obj[i].id] # Null /\ ~Readable(file[obj[i].id].config)
=============================================================================
