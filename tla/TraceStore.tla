------------------------------ MODULE TraceStore ------------------------------
(***************************************************************************)
(* The two storage backends of the traces and what the observability       *)
(* routes read from them.  The SQLite backend keeps tables, here sets of   *)
(* rows, and adds to its rollups with an upsert; the memory backend keeps  *)
(* maps, here functions.  Both take the same operations in batches:        *)
(* a run starts, a run finishes, a step was taken.  A working directory is *)
(* stood for by its session; costs and tokens are left out.                *)
(***************************************************************************)
EXTENDS Naturals, FiniteSets, FiniteSetsExt, Functions, Sequences, SequencesExt

CONSTANTS Sessions,
          ModelOf,    \* the model a session runs its requests with
          DayLength   \* ticks of the clock in a day

ASSUME StoreAssumption == DayLength \in Nat \ {0} /\ DOMAIN ModelOf = Sessions

Terminal  == {"completed", "aborted", "error"}
Causes    == {"none", "approval", "plan_mode", "policy"}
Decisions == {"none", "approved", "denied", "timed_out"}
StepKinds == {"llm_call", "tool_call", "approval", "question", "compaction", "config_change",
              "context_injection"}

Run  == [id : Nat, session : Sessions, model : Range(ModelOf), at : Nat, status : Terminal \cup {"running"},
         turns : Nat, wait : Nat, dur : Nat]
Step == [run : Nat, kind : StepKinds, at : Nat, dur : Nat, error : BOOLEAN, blocked : Causes,
         decision : Decisions]

Started(run)        == [op |-> "run_start", run |-> run]
Finished(id, patch) == [op |-> "run_finish", id |-> id, patch |-> patch]
Taken(step)         == [op |-> "step", step |-> step]
TraceOp(o) == \/ o.op = "run_start" /\ o.run \in Run
              \/ o.op = "run_finish" /\ o.id \in Nat
              \/ o.op = "step" /\ o.step \in Step

DayOf(t)       == t \div DayLength
Bit(b)         == IF b THEN 1 ELSE 0
IsRealError(s) == s.error /\ s.blocked = "none"

\* the row of its rollup a run counts in
Key(r) == <<DayOf(r.at), r.session, r.model>>

\* what a finished run, a tool call and an approval add to their rollup
RunDelta(p)  == [runs |-> 1, errors |-> Bit(p.status = "error"), turns |-> p.turns, wait |-> p.wait]
ToolDelta(s) == [calls |-> 1, errors |-> Bit(IsRealError(s)),
                 blocked |-> Bit(s.blocked # "none"), dur |-> s.dur]
ApprovalDelta(s) == [approved |-> Bit(s.decision = "approved"),
                     denied |-> Bit(s.decision = "denied"),
                     timedOut |-> Bit(s.decision = "timed_out"), wait |-> s.dur]
Added(m, n) == [k \in DOMAIN m |-> m[k] + n[k]]
-----------------------------------------------------------------------------
(* SQLite: runs and steps are tables, steps in the order of their key, and *)
(* each rollup is a table of rows [key, n]; a key begins with day, session. *)

EmptySqlite == [runs |-> {}, steps |-> <<>>, byRun |-> {}, byTool |-> {}, byApproval |-> {}]

\* INSERT ... ON CONFLICT DO UPDATE SET x = x + excluded.x
Upsert(table, key, n) ==
    LET old == {r \in table : r.key = key}
    IN  (table \ old) \cup
        {[key |-> key, n |-> IF old = {} THEN n ELSE Added((CHOOSE r \in old : TRUE).n, n)]}

\* INSERT ... ON CONFLICT(id) DO NOTHING
InsertRun(db, run) ==
    IF \E r \in db.runs : r.id = run.id THEN db ELSE [db EXCEPT !.runs = @ \cup {run}]

\* The row takes the values of any finish; the rollup counts the first one only.
UpdateRun(db, id, p) ==
    LET old == {r \in db.runs : r.id = id}
        new == {[r EXCEPT !.status = p.status, !.turns = p.turns, !.wait = p.wait, !.dur = p.dur] :
                r \in old}
        first == {r \in old : r.status = "running"}
    IN  [db EXCEPT !.runs = (@ \ old) \cup new,
                   !.byRun = IF first = {} THEN @
                             ELSE LET r == CHOOSE r \in first : TRUE
                                  IN  Upsert(@, Key(r), RunDelta(p))]

\* Fault: a step of a run that has no row is counted all the same.
InsertStepFault(db, s) ==
    LET key == <<DayOf(s.at), CHOOSE x \in Sessions : TRUE>>
    IN  [db EXCEPT !.steps = Append(@, s),
                   !.byTool = IF s.kind = "tool_call" THEN Upsert(@, key, ToolDelta(s)) ELSE @,
                   !.byApproval = IF s.kind = "approval" THEN Upsert(@, key, ApprovalDelta(s)) ELSE @]

\* A step is stored always, and counted when its run has a row.
InsertStep(db, s) ==
    LET owner == {r \in db.runs : r.id = s.run}
        key   == <<DayOf(s.at), (CHOOSE r \in owner : TRUE).session>>
    IN  [db EXCEPT
           !.steps = Append(@, s),
           !.byTool = IF owner # {} /\ s.kind = "tool_call" THEN Upsert(@, key, ToolDelta(s)) ELSE @,
           !.byApproval = IF owner # {} /\ s.kind = "approval"
                          THEN Upsert(@, key, ApprovalDelta(s)) ELSE @]

ApplySqlite(db, ops) ==
    FoldLeft(LAMBDA d, o : CASE o.op = "run_start"  -> InsertRun(d, o.run)
                             [] o.op = "run_finish" -> UpdateRun(d, o.id, o.patch)
                             [] OTHER               -> InsertStep(d, o.step), db, ops)

\* the steps since a moment, in their order
StepsFrom(steps, before) ==
    FoldLeft(LAMBDA kept, s : IF s.at >= before THEN Append(kept, s) ELSE kept, <<>>, steps)

\* the rollups are never pruned
PruneSqlite(db, before) ==
    [db EXCEPT !.runs = {r \in @ : r.at >= before}, !.steps = StepsFrom(@, before)]

\* WHERE; an absent bound stands as the first or the last tick of the clock
InWindow(r, q)   == r.at >= q.from /\ r.at < q.to
RunFilter(r, q)  == InWindow(r, q) /\ r.session \in q.who
LastDay(q)       == DayOf(IF q.to = 0 THEN 0 ELSE q.to - 1)
InRollup(q, key) == key[1] \in DayOf(q.from) .. LastDay(q) /\ key[2] \in q.who

SumOf(table, zero, q) ==
    FoldSet(LAMBDA r, m : Added(m, r.n), zero, {r \in table : InRollup(q, r.key)})

NoRuns      == [runs |-> 0, errors |-> 0, turns |-> 0, wait |-> 0]
NoCalls     == [calls |-> 0, errors |-> 0, blocked |-> 0, dur |-> 0]
NoApprovals == [approved |-> 0, denied |-> 0, timedOut |-> 0, wait |-> 0]

\* the values of a set of <<value, name>> pairs, ascending: what percentile sorts
Sorted(pairs) == LET s == SetToSortSeq(pairs, LAMBDA a, b : a[1] < b[1] \/ (a[1] = b[1] /\ a[2] < b[2]))
                 IN  [i \in DOMAIN s |-> s[i][1]]

\* GROUP BY provider, model, with the durations of the runs of each
SqliteModels(db, q) ==
    LET of(m) == {r \in db.runs : RunFilter(r, q) /\ r.model = m /\ r.status # "running"}
    IN  {[model |-> m, runs |-> SumOf({r \in db.byRun : r.key[3] = m}, NoRuns, q).runs,
          durations |-> Sorted({<<r.dur, r.id>> : r \in of(m)})] :
         m \in {r.key[3] : r \in {x \in db.byRun : InRollup(q, x.key)}}}

SqliteSummary(db, q) ==
    LET ended   == {r \in db.runs : RunFilter(r, q) /\ r.status # "running"}
        ofWho   == {r.id : r \in {x \in db.runs : x.session \in q.who}}
        \* the subquery on runs is left out when no directory is asked for
        sampled(kind) == {i \in DOMAIN db.steps : LET s == db.steps[i] IN
                            /\ s.kind = kind /\ InWindow(s, q)
                            /\ q.who = Sessions \/ s.run \in ofWho}
    IN  [totals    |-> SumOf(db.byRun, NoRuns, q),
         durations |-> Sorted({<<r.dur, r.id>> : r \in ended}),
         waits     |-> Sorted({<<r.wait, r.id>> : r \in ended}),
         models    |-> SqliteModels(db, q),
         tools     |-> SumOf(db.byTool, NoCalls, q),
         \* an aggregate without a rollup in the range has no samples either
         toolTimes |-> IF \E r \in db.byTool : InRollup(q, r.key)
                       THEN Sorted({<<db.steps[i].dur, i>> : i \in sampled("tool_call")}) ELSE <<>>,
         approvals |-> SumOf(db.byApproval, NoApprovals, q),
         approvalTimes |-> IF \E r \in db.byApproval : InRollup(q, r.key)
                           THEN Sorted({<<db.steps[i].dur, i>> : i \in sampled("approval")}) ELSE <<>>,
         daily     |-> {<<d, SumOf({r \in db.byRun : r.key[1] = d}, NoRuns, q).runs>> :
                        d \in {r.key[1] : r \in {x \in db.byRun : InRollup(q, x.key)}}}]

Newer(a, b) == a.at > b.at \/ (a.at = b.at /\ a.id > b.id)
FirstOf(s, n) == SubSeq(s, 1, IF Len(s) < n THEN Len(s) ELSE n)

\* one row more than the page is fetched, and tells whether there is a next page;
\* a cursor is a set: empty, or the last row of the page before
SqlitePage(db, who, limit, cursor) ==
    LET rows == FirstOf(SetToSortSeq({r \in db.runs : r.session \in who
                                        /\ \A c \in cursor : \/ r.at < c.at
                                                             \/ r.at = c.at /\ r.id < c.id}, Newer),
                        limit + 1)
        page == FirstOf(rows, limit)
    IN  [runs |-> page, next |-> IF Len(rows) > Len(page) THEN {page[Len(page)]} ELSE {}]

\* ORDER BY started_at, id
Steps(sorted, steps) == LET order == SetToSortSeq(sorted, LAMBDA i, j :
                                        steps[i].at < steps[j].at \/ (steps[i].at = steps[j].at /\ i < j))
                        IN  [k \in DOMAIN order |-> steps[order[k]]]
SqliteRun(db, id) ==
    [run |-> {r \in db.runs : r.id = id},
     steps |-> IF \E r \in db.runs : r.id = id
               THEN Steps({i \in DOMAIN db.steps : db.steps[i].run = id}, db.steps) ELSE <<>>]
-----------------------------------------------------------------------------
(* Memory: runs is a map from ids, steps a list, each rollup a map.        *)

EmptyMemory == [runs |-> <<>>, steps |-> <<>>, byRun |-> <<>>, byTool |-> <<>>, byApproval |-> <<>>]

\* rollups.set(key, (rollups.get(key) ?? zero) + n)
Count(map, key, n) == [k \in DOMAIN map \cup {key} |->
                         IF k # key THEN map[k] ELSE IF k \in DOMAIN map THEN Added(map[k], n) ELSE n]

StartRun(mem, run) ==
    IF run.id \in DOMAIN mem.runs THEN mem
    ELSE [mem EXCEPT !.runs = [i \in DOMAIN @ \cup {run.id} |-> IF i = run.id THEN run ELSE @[i]]]

FinishRun(mem, id, p) ==
    IF id \notin DOMAIN mem.runs \/ mem.runs[id].status # "running" THEN mem
    ELSE [mem EXCEPT !.runs[id] = [@ EXCEPT !.status = p.status, !.turns = p.turns,
                                            !.wait = p.wait, !.dur = p.dur],
                     !.byRun = Count(@, Key(mem.runs[id]), RunDelta(p))]

AddStep(mem, s) ==
    LET known == s.run \in DOMAIN mem.runs
        key   == <<DayOf(s.at), mem.runs[s.run].session>>
    IN  [mem EXCEPT !.steps = Append(@, s),
                    !.byTool = IF known /\ s.kind = "tool_call" THEN Count(@, key, ToolDelta(s)) ELSE @,
                    !.byApproval = IF known /\ s.kind = "approval"
                                   THEN Count(@, key, ApprovalDelta(s)) ELSE @]

ApplyMemory(mem, ops) ==
    FoldLeft(LAMBDA d, o : CASE o.op = "run_start"  -> StartRun(d, o.run)
                             [] o.op = "run_finish" -> FinishRun(d, o.id, o.patch)
                             [] OTHER               -> AddStep(d, o.step), mem, ops)

PruneMemory(mem, before) ==
    [mem EXCEPT !.runs = RestrictValues(@, LAMBDA r : r.at >= before), !.steps = StepsFrom(@, before)]

MatchesRollup(q, key) == key[1] >= DayOf(q.from) /\ key[1] <= LastDay(q) /\ key[2] \in q.who
\* a step whose run is gone has no directory to compare
MatchesStep(mem, q, s) ==
    /\ InWindow(s, q)
    /\ q.who = Sessions \/ (s.run \in DOMAIN mem.runs /\ mem.runs[s.run].session \in q.who)

Matching(map, q) == {k \in DOMAIN map : MatchesRollup(q, k)}
TotalOf(map, zero, keys) == FoldFunctionOnSet(LAMBDA n, m : Added(m, n), zero, map, keys)

MemoryEnded(mem, q) == {r \in Range(mem.runs) : r.status # "running" /\ RunFilter(r, q)}
Durations(runs) == Sorted({<<r.dur, r.id>> : r \in runs})

\* the groups of the rollups, each with the runs of its model
MemoryModels(mem, q) ==
    LET group(m) == {k \in Matching(mem.byRun, q) : k[3] = m}
    IN  {[model |-> m, runs |-> TotalOf(mem.byRun, NoRuns, group(m)).runs,
          durations |-> Durations({r \in MemoryEnded(mem, q) : r.model = m})] :
         m \in {k[3] : k \in Matching(mem.byRun, q)}}

MemorySummary(mem, q) ==
    LET sampled(kind) == {i \in DOMAIN mem.steps : /\ mem.steps[i].kind = kind
                                                  /\ MatchesStep(mem, q, mem.steps[i])}
        times(kind) == Sorted({<<mem.steps[i].dur, i>> : i \in sampled(kind)})
        days == {k[1] : k \in Matching(mem.byRun, q)}
    IN  [totals    |-> TotalOf(mem.byRun, NoRuns, Matching(mem.byRun, q)),
         durations |-> Durations(MemoryEnded(mem, q)),
         waits     |-> Sorted({<<r.wait, r.id>> : r \in MemoryEnded(mem, q)}),
         models    |-> MemoryModels(mem, q),
         tools     |-> TotalOf(mem.byTool, NoCalls, Matching(mem.byTool, q)),
         toolTimes |-> IF Matching(mem.byTool, q) # {} THEN times("tool_call") ELSE <<>>,
         approvals |-> TotalOf(mem.byApproval, NoApprovals, Matching(mem.byApproval, q)),
         approvalTimes |-> IF Matching(mem.byApproval, q) # {} THEN times("approval") ELSE <<>>,
         daily     |-> {<<d, TotalOf(mem.byRun, NoRuns,
                                     {k \in Matching(mem.byRun, q) : k[1] = d}).runs>> : d \in days}]

\* the whole list is sorted, cut below the cursor and then to the page
MemoryPage(mem, who, limit, cursor) ==
    LET sorted   == SetToSortSeq({r \in Range(mem.runs) : r.session \in who}, Newer)
        filtered == SelectSeq(sorted, LAMBDA r : \A c \in cursor : Newer(c, r))
        page     == FirstOf(filtered, limit)
    IN  [runs |-> page, next |-> IF Len(filtered) > Len(page) /\ page # <<>>
                                 THEN {page[Len(page)]} ELSE {}]

MemoryRun(mem, id) ==
    [run |-> {r \in Range(mem.runs) : r.id = id},
     steps |-> IF id \in DOMAIN mem.runs
               THEN Steps({i \in DOMAIN mem.steps : mem.steps[i].run = id}, mem.steps) ELSE <<>>]
-----------------------------------------------------------------------------
(* What the routes make of it.                                             *)

\* nearest rank: the entry at ceil(p * n / 100), counted from 1
Percentile(sorted, p) ==
    IF sorted = <<>> THEN 0
    ELSE sorted[Max({1, (p * Len(sorted) + 99) \div 100})]

Summary(data) ==
    [runs |-> data.totals.runs, turns |-> data.totals.turns, humanWait |-> data.totals.wait,
     p50 |-> Percentile(data.durations, 50), p95 |-> Percentile(data.durations, 95),
     p50Wait |-> Percentile(data.waits, 50),
     models |-> {[model |-> m.model, runs |-> m.runs, p95 |-> Percentile(m.durations, 95)] : m \in data.models},
     errorRate |-> <<data.totals.errors, data.totals.runs>>,
     tools |-> data.tools, p95Tool |-> Percentile(data.toolTimes, 95),
     approvals |-> data.approvals, p50Approval |-> Percentile(data.approvalTimes, 50),
     daily |-> data.daily]
=============================================================================
