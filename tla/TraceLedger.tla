----------------------------- MODULE TraceLedger -----------------------------
(***************************************************************************)
(* The ledger that turns the events of the sessions into runs and steps,   *)
(* and the queue that takes them to the storage.  The ledger hears of a    *)
(* session from the registry's publish, from the approval and question     *)
(* brokers and from the plan gate; a run is everything between the first   *)
(* event of a request and agent_settled.  The queue stores batches, drops  *)
(* what it cannot store, and gives up for good after failures in a row.    *)
(***************************************************************************)
EXTENDS TraceStore

CONSTANTS BatchSize,    \* batchSize
          MaxFailures,  \* maxConsecutiveFailures
          Scenarios     \* what a behaviour may take of each thing; see Scenario

Events == {"approval", "block", "question", "compaction", "config", "context"}
\* limit is maxPending, which may be configured below batchSize; the rest are bounds
Scenario == [limit : Nat \ {0}, who : SUBSET Sessions, events : SUBSET Events, clock : Nat,
             runs : Nat, turns : Nat, writes : Nat, faults : Nat, boots : Nat]

ASSUME LedgerAssumption ==
    BatchSize \in Nat \ {0} /\ MaxFailures \in Nat \ {0} /\ Scenarios \subseteq Scenario

VARIABLES
    bound,  \* the scenario of this behaviour, never changed
    sdk,    \* what each session does, as its SDK session and its gates see it
    erred,  \* an answer of the session's current request was an error
    open,   \* SessionLedger.runs: the open run of a session, {} or one
    repo,   \* the queue and, behind it, both backends
    clock,
    service, \* up, closing (AgentRegistry.close is under way) or down; the process
    boots,  \* restarts so far
    used,   \* ids given to runs
    truth,  \* what happened, counted by what the sessions did
    cut,    \* runs whose row was pruned while they were open
    orphans \* runs that were open when the process died

session == <<sdk, erred, open, used>>
world   == <<bound, clock, service, boots>>
ghost   == <<truth, cut, orphans>>
ledgerVars == <<session, repo, world, ghost>>

\* begun: agent_start; thinking: turn_start; answered: message_end; calling: a tool
\* call is at its gates; asking: the approval waits; refused: a gate has blocked the
\* call; asked: a question waits; working: the tool runs; packing, resting: a
\* compaction in a request, or by hand; dying: remove awaits the abort
Streaming == {"begun", "thinking", "answered", "calling", "asking", "refused", "asked", "working",
              "packing"}
Phases == Streaming \cup {"gone", "idle", "resting", "dying"}

Time == 0 .. bound.clock
Ids  == 1 .. bound.runs
State == [id : Ids, at : Time, turns : Nat, waited : Nat, failed : BOOLEAN,
          aborted : BOOLEAN, llm : SUBSET Time, tool : SUBSET Time, wait : SUBSET Time,
          packed : SUBSET Time, note : SUBSET Causes]
-----------------------------------------------------------------------------
(* QueuedTraceRepository.                                                  *)

EmptyRepo(db) ==
    [pending |-> <<>>, failures |-> 0, failed |-> 0, degraded |-> FALSE, closed |-> FALSE,
     lost |-> FALSE, writes |-> 0, sqlite |-> db, memory |-> EmptyMemory]

\* flush: a batch that fails is rolled back as a whole and not tried again
Flushed(r, ok) ==
    IF r.closed \/ r.pending = <<>> THEN r
    ELSE IF ok
         THEN [r EXCEPT !.pending = <<>>, !.failures = 0,
                        !.sqlite = ApplySqlite(@, r.pending), !.memory = ApplyMemory(@, r.pending)]
         ELSE [r EXCEPT !.pending = <<>>, !.failures = @ + 1, !.failed = @ + 1,
                        !.lost = TRUE, !.degraded = @ \/ r.failures + 1 >= MaxFailures]

\* enqueue: the oldest goes when the queue is full, a full batch is stored at once
Push(r, op, ok) ==
    IF r.closed \/ r.degraded THEN [r EXCEPT !.lost = TRUE, !.writes = @ + 1]
    ELSE LET q == Append(r.pending, op)
             full == Len(q) > bound.limit
             n == [r EXCEPT !.pending = IF full THEN Tail(q) ELSE q,
                            !.lost = @ \/ full, !.writes = @ + 1]
         IN  IF Len(n.pending) >= BatchSize THEN Flushed(n, ok) ELSE n

\* how the storage may answer the next batch
Outcomes == {TRUE} \cup {b \in {FALSE} : repo.failed < bound.faults}

Write(ops) ==
    /\ repo.writes + Len(ops) <= bound.writes
    /\ \E ok \in Outcomes : repo' = FoldLeft(LAMBDA r, op : Push(r, op, ok), repo, ops)
-----------------------------------------------------------------------------
(* SessionLedger.  Each handler is given the session's open run, as a set, *)
(* and leaves it changed in open and its rows in the queue.                *)

NewState(id) == [id |-> id, at |-> clock, turns |-> 0, waited |-> 0, failed |-> FALSE,
                 aborted |-> FALSE, llm |-> {}, tool |-> {}, wait |-> {}, packed |-> {},
                 note |-> {}]

RunOp(s, st) == Started([id |-> st.id, session |-> s, model |-> ModelOf[s], at |-> st.at, status |-> "running",
                         turns |-> 0, wait |-> 0, dur |-> 0])
Since(times) == IF times = {} THEN clock ELSE CHOOSE t \in times : TRUE
\* a step that no rollup counts, of which only the place is kept
NoteOp(st, kind, since) ==
    Taken([run |-> st.id, kind |-> kind, at |-> Since(since), dur |-> 0,
           error |-> FALSE, blocked |-> "none", decision |-> "none"])

\* closeLlmStep
LlmOps(st) == IF st.llm = {} THEN <<>> ELSE <<NoteOp(st, "llm_call", st.llm)>>

\* finishRun: the wait of overlapping questions may exceed the duration, and is cut
FinishOp(st, status) ==
    LET dur == clock - st.at
    IN  Finished(st.id, [status |-> status, turns |-> st.turns, dur |-> dur,
                         wait |-> IF st.waited > dur THEN dur ELSE st.waited])

StatusOf(st) == CASE st.failed -> "error" [] st.aborted -> "aborted" [] OTHER -> "completed"

\* this.runs.get(...) ?? this.createRun(...)
Current(s, st) == \/ open[s] = {st} /\ UNCHANGED used
                  \/ open[s] = {} /\ used' = used \cup {st.id}
                                  /\ \E id \in Ids \ used : st = NewState(id)
States(s) == open[s] \cup {NewState(id) : id \in Ids \ used}
StartOps(s, st) == IF open[s] = {} THEN <<RunOp(s, st)>> ELSE <<>>

Keep(s, st)  == open' = [open EXCEPT ![s] = {st}]
Same(s)      == UNCHANGED <<open, used>>
NoWrite      == UNCHANGED repo

\* createRunIfAbsent
OnAgentStart(s) ==
    \E st \in States(s) : Current(s, st) /\ Keep(s, st) /\ Write(StartOps(s, st))

OnTurnStart(s) ==
    \E st \in States(s) :
        /\ Current(s, st)
        /\ Keep(s, [st EXCEPT !.turns = @ + 1, !.llm = {clock}])
        /\ Write(StartOps(s, st) \o LlmOps(st))

\* an error stays with the run, also when a retry succeeds
OnMessageEnd(s, stop) ==
    IF open[s] = {} THEN Same(s) /\ NoWrite
    ELSE \E st \in open[s] :
           /\ Keep(s, [st EXCEPT !.aborted = (stop = "aborted"), !.failed = @ \/ stop = "error",
                                 !.llm = {}])
           /\ UNCHANGED used /\ Write(LlmOps(st))

OnToolStart(s) ==
    \E st \in States(s) :
        Current(s, st) /\ Keep(s, [st EXCEPT !.tool = {clock}]) /\ Write(StartOps(s, st))

\* Fault: the text of the result alone tells a refusal.
CauseFault(st, error, marked) == IF error /\ marked THEN "policy" ELSE "none"

\* the cause a gate has noted, else what the text of an error result says
Cause(st, error, marked) ==
    IF st.note # {} THEN CHOOSE c \in st.note : TRUE
    ELSE IF error /\ marked THEN "policy" ELSE "none"

OnToolEnd(s, error, marked) ==
    IF open[s] = {} THEN Same(s) /\ NoWrite
    ELSE \E st \in open[s] :
           /\ Keep(s, [st EXCEPT !.tool = {}, !.note = {}])
           /\ UNCHANGED used
           /\ Write(<<Taken([run |-> st.id, kind |-> "tool_call", at |-> Since(st.tool),
                             dur |-> clock - Since(st.tool), error |-> error,
                             blocked |-> Cause(st, error, marked), decision |-> "none"])>>)

\* noteApprovalStart and noteQuestionStart
NoteWait(s) ==
    /\ open' = [open EXCEPT ![s] = {[st EXCEPT !.wait = {clock}] : st \in @}]
    /\ UNCHANGED used /\ NoWrite

Waited(st) == st.waited + (clock - Since(st.wait))

\* the rows of noteApprovalDecision, and what it leaves in the state
ApprovalOps(st, d) ==
    <<Taken([run |-> st.id, kind |-> "approval", at |-> Since(st.wait), dur |-> clock - Since(st.wait),
             error |-> d # "approved", blocked |-> "none", decision |-> d])>>
Decided(st, d) == [st EXCEPT !.waited = Waited(st), !.wait = {},
                             !.note = IF d = "approved" THEN @ ELSE {"approval"}]
NoteApprovalDecision(s, d) ==
    IF open[s] = {} THEN Same(s) /\ NoWrite
    ELSE \E st \in open[s] : Keep(s, Decided(st, d)) /\ UNCHANGED used /\ Write(ApprovalOps(st, d))

QuestionOps(st) == <<NoteOp(st, "question", st.wait)>>
NoteQuestionDecision(s) ==
    IF open[s] = {} THEN Same(s) /\ NoWrite
    ELSE \E st \in open[s] : /\ Keep(s, [st EXCEPT !.waited = Waited(st), !.wait = {}])
                             /\ UNCHANGED used /\ Write(QuestionOps(st))

\* noteToolBlock does not cover what an approval has noted
NoteToolBlock(s) ==
    /\ open' = [open EXCEPT ![s] = {[st EXCEPT !.note = IF @ = {} THEN {"plan_mode"} ELSE @] : st \in @}]
    /\ UNCHANGED used /\ NoWrite

OnCompactionStart(s) ==
    \E st \in States(s) :
        Current(s, st) /\ Keep(s, [st EXCEPT !.packed = {clock}]) /\ Write(StartOps(s, st))

OnCompactionEnd(s) ==
    IF open[s] = {} THEN Same(s) /\ NoWrite
    ELSE \E st \in open[s] :
           /\ Keep(s, [st EXCEPT !.packed = {}]) /\ UNCHANGED used
           /\ Write(<<NoteOp(st, "compaction", st.packed)>>)

\* noteModelSelect, onThinkingLevelChanged: only while a run is open
RecordConfigChange(s) ==
    \E st \in open[s] :
        Same(s) /\ Write(<<NoteOp(st, "config_change", {})>>)

\* noteContextMessages: the messages of a request hold a context that is new
NoteContextMessages(s) ==
    \E st \in open[s] : Same(s) /\ Write(<<NoteOp(st, "context_injection", {})>>)

\* finalizeSession
Finalize(s, st, ops, status) ==
    /\ open' = [open EXCEPT ![s] = {}] /\ UNCHANGED used
    /\ Write(ops \o LlmOps(st) \o <<FinishOp(st, status)>>)

OnSettled(s) ==
    IF open[s] = {} THEN Same(s) /\ NoWrite
    ELSE \E st \in open[s] : Finalize(s, st, <<>>, StatusOf(st))

\* noteCommandFailure: the prompt was refused before any event
NoteCommandFailure(s) ==
    IF open[s] # {} THEN Same(s) /\ NoWrite
    ELSE \E id \in Ids \ used :
           /\ used' = used \cup {id} /\ UNCHANGED open
           /\ Write(<<RunOp(s, NewState(id)), FinishOp(NewState(id), "error")>>)

\* Fault: the session is closed and its run is left open.
CutShortFault(s) == Same(s) /\ NoWrite

\* remove and close: what waits is settled first, then the run, as aborted
CutShort(s) ==
    IF open[s] = {} THEN Same(s) /\ NoWrite
    ELSE \E st \in open[s] :
           IF sdk[s] = "asking"
           THEN Finalize(s, Decided(st, "denied"), ApprovalOps(st, "denied"), "aborted")
           ELSE IF sdk[s] = "asked" /\ service = "closing"
           THEN Finalize(s, [st EXCEPT !.waited = Waited(st)], QuestionOps(st), "aborted")
           ELSE Finalize(s, st, <<>>, "aborted")
-----------------------------------------------------------------------------
(* The sessions: each step of a session is one event and its handler.      *)

\* what other sessions still report while the registry closes is left out
Go(s, from, to) == service = "up" /\ sdk[s] \in from /\ sdk' = [sdk EXCEPT ![s] = to]
Rest == UNCHANGED <<world, cut, orphans>>
Quiet == UNCHANGED <<erred, truth>> /\ Rest

\* what counts, unless the run's row was pruned under it
Counts(s) == \A st \in open[s] : st.id \notin cut
Happened(s, fields) == truth' = IF Counts(s) THEN [f \in DOMAIN truth |-> truth[f] + Bit(f \in fields)]
                                ELSE truth

OpenSession(s) == s \in bound.who /\ Go(s, {"gone"}, "idle") /\ Same(s) /\ NoWrite /\ Quiet
Prompt(s)   == Go(s, {"idle"}, "begun") /\ OnAgentStart(s) /\ Quiet
Continue(s) == Go(s, {"answered"}, "begun") /\ OnAgentStart(s) /\ Quiet
Turn(s)     == /\ Go(s, {"begun", "answered"}, "thinking")
               /\ bound.turns > 0 /\ \A st \in open[s] : st.turns < bound.turns
               /\ OnTurnStart(s) /\ Quiet
MessageEnds(s) ==
    /\ Go(s, {"thinking"}, "answered")
    /\ \E stop \in {"stop", "error", "aborted"} :
         OnMessageEnd(s, stop) /\ erred' = [erred EXCEPT ![s] = @ \/ stop = "error"]
    /\ UNCHANGED truth /\ Rest
\* the message never ends: the turn is aborted
Drop(s)     == Go(s, {"thinking"}, "answered") /\ Same(s) /\ NoWrite /\ Quiet

Call(s)     == Go(s, {"answered"}, "calling") /\ OnToolStart(s) /\ Quiet
Ask(s)      == "approval" \in bound.events /\ Go(s, {"calling"}, "asking") /\ NoteWait(s) /\ Quiet
Decide(s)   == /\ \E d \in Decisions \ {"none"} :
                    /\ Go(s, {"asking"}, IF d = "approved" THEN "working" ELSE "refused")
                    /\ NoteApprovalDecision(s, d)
               /\ Quiet
Block(s)    == "block" \in bound.events /\ Go(s, {"calling"}, "refused") /\ NoteToolBlock(s) /\ Quiet
AskQuestion(s) ==
    "question" \in bound.events /\ Go(s, {"calling"}, "asked") /\ NoteWait(s) /\ Quiet
Reply(s)    == Go(s, {"asked"}, "working") /\ NoteQuestionDecision(s) /\ Quiet

\* a refused call ends as an error too; an error may quote a gate's text
EndCall(s) ==
    /\ Go(s, {"calling", "working", "refused"}, "answered")
    /\ \E error, marked \in BOOLEAN :
         /\ sdk[s] = "refused" => error
         /\ marked => error
         /\ OnToolEnd(s, error, marked)
         /\ Happened(s, {"calls"} \cup (IF sdk[s] = "refused" THEN {"refused"}
                                        ELSE IF error THEN {"failed"} ELSE {}))
    /\ UNCHANGED erred /\ Rest

Pack(s)     == /\ "compaction" \in bound.events
               /\ \/ Go(s, {"answered"}, "packing") \/ Go(s, {"idle"}, "resting")
               /\ OnCompactionStart(s) /\ Quiet
Packed(s)   == /\ \/ Go(s, {"packing"}, "answered") \/ Go(s, {"resting"}, "idle")
               /\ OnCompactionEnd(s)
               /\ Quiet
Configure(s) == "config" \in bound.events /\ Go(s, {"answered"}, "answered") /\ RecordConfigChange(s) /\ Quiet

Inject(s) == "context" \in bound.events /\ Go(s, {"thinking"}, "thinking") /\ NoteContextMessages(s) /\ Quiet

SettleRequest(s) ==
    /\ Go(s, {"begun", "answered"}, "idle") /\ OnSettled(s)
    /\ Happened(s, {"runs"} \cup IF erred[s] THEN {"errors"} ELSE {})
    /\ erred' = [erred EXCEPT ![s] = FALSE] /\ Rest

Reject(s) ==
    /\ Go(s, {"idle", "dying"}, sdk[s]) /\ NoteCommandFailure(s)
    /\ Happened(s, IF open[s] = {} THEN {"runs", "errors"} ELSE {})
    /\ UNCHANGED erred /\ Rest

\* the run of a request, or of a compaction by hand, ends with the session
Ended(s) == IF sdk[s] \in Streaming \/ open[s] # {} THEN {"runs"} ELSE {}

Delete(s) ==
    /\ Go(s, Phases \ {"gone", "dying"}, IF sdk[s] \in Streaming THEN "dying" ELSE "gone")
    /\ CutShort(s) /\ Happened(s, Ended(s))
    /\ erred' = [erred EXCEPT ![s] = FALSE] /\ Rest
Disposed(s) == Go(s, {"dying"}, "gone") /\ Same(s) /\ NoWrite /\ Quiet

\* AgentRegistry.close, session by session
Close(s) ==
    /\ service = "closing" /\ sdk[s] # "gone" /\ sdk' = [sdk EXCEPT ![s] = "gone"]
    /\ CutShort(s) /\ Happened(s, Ended(s))
    /\ erred' = [erred EXCEPT ![s] = FALSE] /\ Rest
-----------------------------------------------------------------------------
(* The process, its timer and the routes.                                  *)

Tick == /\ service = "up" /\ clock < bound.clock /\ clock' = clock + 1
        /\ UNCHANGED <<session, repo, bound, service, boots, ghost>>

\* the timer, and every route before it reads
Flush == /\ service # "down" /\ \E ok \in Outcomes : repo' = Flushed(repo, ok)
         /\ UNCHANGED <<session, world, ghost>>

\* DELETE /runs?before
Prune(before) ==
    /\ service = "up"
    /\ \E ok \in Outcomes :
         LET r == Flushed(repo, ok)
         IN  /\ repo' = [r EXCEPT !.sqlite = PruneSqlite(@, before), !.memory = PruneMemory(@, before)]
             /\ cut' = cut \cup {x.id : x \in {y \in r.sqlite.runs : y.status = "running" /\ y.at < before}}
    /\ UNCHANGED <<session, world, truth, orphans>>

Shutdown == /\ service = "up" /\ service' = "closing"
            /\ UNCHANGED <<session, repo, bound, clock, boots, ghost>>

\* the sessions are gone; PlatformStore.close flushes a last time
CloseStore ==
    /\ service = "closing" /\ \A s \in Sessions : sdk[s] = "gone"
    /\ service' = "down"
    /\ \E ok \in Outcomes : repo' = [Flushed(repo, ok) EXCEPT !.closed = TRUE]
    /\ UNCHANGED <<session, bound, clock, boots, ghost>>

\* the process dies, or starts again after it was closed; a new ledger, a new queue
Boot ==
    /\ boots < bound.boots /\ boots' = boots + 1 /\ service' = "up"
    /\ repo' = [EmptyRepo(repo.sqlite) EXCEPT
                  !.failed = repo.failed, !.lost = repo.lost \/ repo.pending # <<>>, !.writes = repo.writes]
    /\ orphans' = orphans \cup {st.id : st \in UNION {open[s] : s \in Sessions}}
    /\ sdk' = [s \in Sessions |-> "gone"] /\ erred' = [s \in Sessions |-> FALSE]
    /\ open' = [s \in Sessions |-> {}] /\ UNCHANGED <<used, bound, clock, truth, cut>>

\* traceQuery: the range of a query begins no later than it ends
Queries == {q \in [from : 0 .. bound.clock + 1, to : 0 .. bound.clock + 1,
                   who : {Sessions} \cup {{s} : s \in bound.who}] : q.from <= q.to}
\* parseLimit: the rows of a page, a bound in place of 500
Limits == 1 .. 2

LedgerInit ==
    /\ sdk = [s \in Sessions |-> "gone"] /\ erred = [s \in Sessions |-> FALSE]
    /\ open = [s \in Sessions |-> {}] /\ used = {}
    /\ bound \in Scenarios /\ repo = EmptyRepo(EmptySqlite)
    /\ clock = 0 /\ service = "up" /\ boots = 0 /\ cut = {} /\ orphans = {}
    /\ truth = [f \in {"runs", "errors", "calls", "failed", "refused"} |-> 0]

LedgerNext ==
    \/ \E s \in Sessions :
         \/ OpenSession(s) \/ Prompt(s) \/ Continue(s) \/ Turn(s) \/ MessageEnds(s) \/ Drop(s)
         \/ Call(s) \/ Ask(s) \/ Decide(s) \/ Block(s) \/ AskQuestion(s) \/ Reply(s) \/ EndCall(s)
         \/ Pack(s) \/ Packed(s) \/ Configure(s) \/ Inject(s) \/ SettleRequest(s) \/ Reject(s)
         \/ Delete(s) \/ Disposed(s) \/ Close(s)
    \/ Tick \/ Flush \/ Shutdown \/ CloseStore \/ Boot
    \/ \E before \in 1 .. bound.clock : Prune(before)

LedgerSpec == LedgerInit /\ [][LedgerNext]_ledgerVars
-----------------------------------------------------------------------------
LedgerTypeOK ==
    /\ bound \in Scenarios /\ sdk \in [Sessions -> Phases] /\ erred \in [Sessions -> BOOLEAN]
    /\ open \in [Sessions -> SUBSET State] /\ used \subseteq Ids
    /\ \A s \in Sessions : Cardinality(open[s]) <= 1
    /\ \A i \in DOMAIN repo.pending : TraceOp(repo.pending[i])
    /\ repo.sqlite.runs \subseteq Run /\ repo.sqlite.steps \in Seq(Step)
    /\ Range(repo.memory.runs) \subseteq Run /\ repo.memory.steps \in Seq(Step)
    /\ Len(repo.pending) < BatchSize /\ clock \in Time /\ service \in {"up", "closing", "down"}
    /\ cut \subseteq used /\ orphans \subseteq used

Always  == [from |-> 0, to |-> bound.clock + 1, who |-> Sessions]

\* memory-trace-storage.ts: until a restart empties it, the memory backend
\* answers every query of the routes as the SQLite backend does, whatever was
\* dropped, pruned under an open run, or came for a run without a row.
BackendsAgree ==
    boots = 0 /\ repo.pending = <<>> =>
      /\ \A q \in Queries : SqliteSummary(repo.sqlite, q) = MemorySummary(repo.memory, q)
      /\ \A id \in used : SqliteRun(repo.sqlite, id) = MemoryRun(repo.memory, id)

\* Following nextCursor from the first page, each backend shows every run once,
\* newest first, ties and page sizes notwithstanding (listRuns, paginateRuns).
PagesComplete ==
    LET Chain(Page(_, _, _), limit, who) ==
          LET walk[n \in 0 .. bound.runs] ==
                IF n = 0 THEN [seen |-> <<>>, page |-> Page(who, limit, {})]
                ELSE LET w == walk[n - 1]
                     IN  IF w.page.next = {} THEN w
                         ELSE [seen |-> w.seen \o w.page.runs, page |-> Page(who, limit, w.page.next)]
          IN  walk[bound.runs].seen \o walk[bound.runs].page.runs
        All(rows) == SetToSortSeq(rows, Newer)
    IN  repo.pending = <<>> => \A limit \in Limits, who \in {q.who : q \in Queries} :
          /\ Chain(LAMBDA w, l, c : SqlitePage(repo.sqlite, w, l, c), limit, who)
               = All({r \in repo.sqlite.runs : r.session \in who})
          /\ Chain(LAMBDA w, l, c : MemoryPage(repo.memory, w, l, c), limit, who)
               = All({r \in Range(repo.memory.runs) : r.session \in who})

\* What the routes answer is right: the two backends agree, and the pages are whole.
QueriesAreRight == BackendsAgree /\ PagesComplete

\* The summary counts each request that ended once, and as an error when an
\* answer of it was one or its prompt was refused; after operations were lost it
\* counts no more than that (record, finalizeSession, flush, the rollups, prune).
RequestsCounted ==
    LET n == Summary(SqliteSummary(repo.sqlite, Always))
    IN  /\ n.runs <= truth.runs /\ n.errorRate[1] <= truth.errors
        /\ ~repo.lost /\ repo.pending = <<>> =>
             n.runs = truth.runs /\ n.errorRate[1] = truth.errors

\* docs/node-observability-m1.md: a call that a gate refused never counts as one
\* that failed, nor does it vanish; only a failure that quotes a gate's text is
\* taken for a refusal (noteToolBlock, noteApprovalDecision, onToolEnd).
RefusalsAreNotFailures ==
    LET n == SqliteSummary(repo.sqlite, Always).tools
    IN  /\ n.errors <= truth.failed /\ n.calls <= truth.calls
        /\ ~repo.lost /\ repo.pending = <<>> =>
             /\ n.calls = truth.calls /\ n.blocked >= truth.refused
             /\ n.errors + n.blocked = truth.failed + truth.refused

\* The summary says what happened, of requests and of calls.
SummaryIsRight == RequestsCounted /\ RefusalsAreNotFailures

\* No run is left over (agent_settled, AgentRegistry.remove and close): in a session
\* that is idle or gone none is open, but for one that a compaction by hand has
\* opened; and a row that still runs belongs to an open run, to one the dead process
\* had open, or to a write that was lost.
NoGhostRun ==
    /\ \A s \in Sessions : sdk[s] \in {"idle", "gone", "dying"} =>
         \A st \in open[s] : sdk[s] = "idle" /\ st.turns = 0 /\ st.llm = {} /\ ~st.failed
    /\ ~repo.lost /\ repo.pending = <<>> =>
         {r.id : r \in {x \in repo.sqlite.runs : x.status = "running"}}
           \subseteq orphans \cup {st.id : st \in UNION {open[s] : s \in Sessions}}

\* What a session closes and what a dead process leaves agree with the stored rows.
LedgerInv == LedgerTypeOK /\ NoGhostRun
=============================================================================
