------------------------ MODULE SessionEvents_proofs ------------------------
(***************************************************************************)
(* Two readers of what the sessions publish.                               *)
(*                                                                         *)
(* The ledger (TraceLedger): its open runs, the queue and the rows fit     *)
(* together, for any batches, limits and failures.  What would still run   *)
(* when the queue is stored (Loose) is followed through every operation;   *)
(* a fold over a batch is unrolled into a chain (FoldRuns), along which    *)
(* the least place where a fact fails cannot exist (LeastNat).             *)
(*                                                                         *)
(* The page (SessionStream): it misses no event that the buffer held and   *)
(* handles none twice, for every buffer size and every bound.  The two     *)
(* facts are inductive together with the types: what is on the wire are    *)
(* ids of log above last, and log only grows while the entry lives.  From  *)
(* these: once a turn is over and its last event handled, the page shows   *)
(* the session, or a load that will is under way, or it knows of a failure.*)
(***************************************************************************)
EXTENDS SessionStream, TraceLedger, SequenceTheorems, FiniteSetTheorems, WellFoundedInduction, TLAPS

-----------------------------------------------------------------------------
(* The folds of the ledger, step by step *)

\* A non-empty set of naturals has a least element.
LEMMA LeastNat ==
  ASSUME NEW S \in SUBSET Nat, S # {}
  PROVE  \E m \in S : \A n \in S : m <= n
<1> DEFINE R == OpToRel(<, Nat)
<1>1. \A ss \in Nat \X Nat : ss \in R <=> ss[1] < ss[2]
  BY DEF OpToRel
<1>2. IsWellFoundedOn(R, Nat)
  BY NatLessThanWellFounded, Zenon
<1> HIDE DEF R
<1>3. PICK m \in S : \A n \in S : <<n, m>> \notin R
  BY <1>2, WFMin
<1>4. ASSUME NEW n \in S PROVE m <= n
  <2>1. <<n, m>> \in Nat \X Nat
    OBVIOUS
  <2>2. ~(n < m)
    BY <1>1, <1>3, <2>1
  <2> QED
    BY <2>2
<1> QED
  BY <1>4

\* What the folds do with an element o: each backend stores an operation, pruning keeps a
\* step or not, and the queue takes an operation, with a storage that works or does not.
ToSqlite(d, o) == CASE o.op = "run_start"  -> InsertRun(d, o.run)
                    [] o.op = "run_finish" -> UpdateRun(d, o.id, o.patch)
                    [] OTHER               -> InsertStep(d, o.step)
ToMemory(d, o) == CASE o.op = "run_start"  -> StartRun(d, o.run)
                    [] o.op = "run_finish" -> FinishRun(d, o.id, o.patch)
                    [] OTHER               -> AddStep(d, o.step)
Kept(before, steps, s) == IF s.at >= before THEN Append(steps, s) ELSE steps
Did(kind, x, o) == CASE kind[1] = "sqlite" -> ToSqlite(x, o)
                     [] kind[1] = "memory" -> ToMemory(x, o)
                     [] kind[1] = "from"   -> Kept(kind[2], x, o)
                     [] kind[1] = "works"  -> Push(x, o, TRUE)
                     [] OTHER              -> Push(x, o, FALSE)

MaxStep(g, kind, base, ops, S) ==
  IF S = {} THEN base ELSE Did(kind, g[S \ {Max(S)}], ops[Max(S)])

LEMMA MaxIs ==
  ASSUME NEW n \in Nat \ {0}, NEW S \in SUBSET (1 .. n)
  PROVE  /\ n \in S => Max(S) = n
         /\ S # {} => Max(S) \in S
<1>1. ASSUME n \in S PROVE Max(S) = n
  <2>1. \A x \in S : n >= x
    OBVIOUS
  <2>2. \A x \in S : (\A y \in S : x >= y) => x = n
    BY <1>1
  <2> QED BY <1>1, <2>1, <2>2 DEF Max
<1>2. ASSUME S # {} PROVE Max(S) \in S
  <2> DEFINE up == {n - x : x \in S}
  <2>1. up \in SUBSET Nat /\ up # {}
    <3>1. \A x \in S : n - x \in Nat
      OBVIOUS
    <3>2. PICK x \in S : TRUE
      BY <1>2
    <3>3. n - x \in up
      BY <3>2
    <3> QED BY <3>1, <3>3
  <2>2. PICK m \in up : \A k \in up : m <= k
    BY <2>1, LeastNat
  <2>3. PICK x \in S : m = n - x
    BY <2>2
  <2>4. ASSUME NEW y \in S PROVE x >= y
    <3>1. n - y \in up
      OBVIOUS
    <3> HIDE DEF up
    <3>2. n - x <= n - y
      BY <2>2, <2>3, <3>1
    <3>3. n \in Nat /\ x \in Nat /\ y \in Nat
      OBVIOUS
    <3> QED BY <3>2, <3>3
  <2> QED BY <2>4 DEF Max
<1> QED BY <1>1, <1>2

\* The recursion of a fold over a sequence has a solution.
LEMMA FoldExists ==
  ASSUME NEW kind, NEW base, NEW ops, NEW N \in Nat
  PROVE  \E g : g = [S \in SUBSET (1 .. N) |-> MaxStep(g, kind, base, ops, S)]
<1> DEFINE Solved(n) == \E g : g = [S \in SUBSET (1 .. n) |-> MaxStep(g, kind, base, ops, S)]
           Lacks == {n \in Nat : ~Solved(n)}
<1> SUFFICES ASSUME Lacks # {} PROVE FALSE
  OBVIOUS
<1>1. PICK m \in Lacks : \A n \in Lacks : m <= n
  BY LeastNat
<1>2. m # 0
  <2> DEFINE g == [S \in SUBSET (1 .. 0) |-> base]
  <2>1. \A S \in SUBSET (1 .. 0) : S = {}
    OBVIOUS
  <2>2. g = [S \in SUBSET (1 .. 0) |-> MaxStep(g, kind, base, ops, S)]
    BY <2>1 DEF MaxStep
  <2> QED BY <2>2
<1>3. m - 1 \in Nat /\ Solved(m - 1)
  <2> HIDE DEF Solved
  <2>1. m \in Nat /\ m - 1 \in Nat /\ ~(m <= m - 1)
    BY <1>1, <1>2
  <2>2. m - 1 \notin Lacks
    BY <1>1, <2>1
  <2> QED BY <2>1, <2>2
<1>4. PICK g : g = [S \in SUBSET (1 .. m - 1) |-> MaxStep(g, kind, base, ops, S)]
  BY <1>3
<1> DEFINE h == [S \in SUBSET (1 .. m) |-> IF m \in S THEN Did(kind, g[S \ {m}], ops[m]) ELSE g[S]]
<1>5. ASSUME NEW S \in SUBSET (1 .. m) PROVE h[S] = MaxStep(h, kind, base, ops, S)
  <2>1. CASE m \in S
    <3>1. Max(S) = m /\ S # {} /\ S \ {m} \in SUBSET (1 .. m) /\ m \notin S \ {m}
      BY <1>2, <2>1, MaxIs
    <3>2. h[S \ {m}] = g[S \ {m}]
      BY <3>1
    <3>3. h[S] = Did(kind, g[S \ {m}], ops[m])
      BY <2>1
    <3> HIDE DEF h
    <3> QED BY <3>1, <3>2, <3>3 DEF MaxStep
  <2>2. CASE m \notin S
    <3>1. S \in SUBSET (1 .. m - 1) /\ h[S] = g[S]
      BY <2>2
    <3>2. g[S] = MaxStep(g, kind, base, ops, S)
      BY <1>4, <3>1
    <3>3. CASE S = {}
      BY <3>1, <3>2, <3>3 DEF MaxStep
    <3>4. CASE S # {}
      <4>1. Max(S) \in S
        BY <1>2, <3>4, MaxIs
      <4>2. S \ {Max(S)} \in SUBSET (1 .. m) /\ m \notin S \ {Max(S)}
        BY <2>2
      <4>3. h[S \ {Max(S)}] = g[S \ {Max(S)}]
        BY <4>2
      <4> HIDE DEF h
      <4> QED BY <3>1, <3>2, <3>4, <4>3 DEF MaxStep
    <3> QED BY <3>3, <3>4
  <2> QED BY <2>1, <2>2
<1>6. h = [S \in SUBSET (1 .. m) |-> MaxStep(h, kind, base, ops, S)]
  BY <1>5
<1> QED BY <1>1, <1>6

FoldOf(kind, base, ops) ==
  (CHOOSE g : g = [S \in SUBSET (DOMAIN ops) |-> MaxStep(g, kind, base, ops, S)])[DOMAIN ops]

\* It goes through the sequence from left to right.
Runs(f, kind, base, ops) ==
  /\ f[0] = base
  /\ \A n \in 1 .. Len(ops) : f[n] = Did(kind, f[n - 1], ops[n])

LEMMA FoldRuns ==
  ASSUME NEW kind, NEW base, NEW T, NEW ops \in Seq(T)
  PROVE  \E f : Runs(f, kind, base, ops) /\ FoldOf(kind, base, ops) = f[Len(ops)]
<1> DEFINE N == Len(ops)
           g == CHOOSE g : g = [S \in SUBSET (1 .. N) |-> MaxStep(g, kind, base, ops, S)]
           f == [n \in 0 .. N |-> g[1 .. n]]
<1>1. N \in Nat /\ DOMAIN ops = 1 .. N
  OBVIOUS
<1>2. g = [S \in SUBSET (1 .. N) |-> MaxStep(g, kind, base, ops, S)]
  BY <1>1, FoldExists
<1>3. FoldOf(kind, base, ops) = g[1 .. N]
  BY <1>1 DEF FoldOf
<1> HIDE DEF g
<1>4. f[0] = base
  <2>1. 1 .. 0 = {} /\ g[1 .. 0] = MaxStep(g, kind, base, ops, 1 .. 0)
    BY <1>1, <1>2
  <2> QED BY <1>1, <2>1 DEF MaxStep
<1>5. ASSUME NEW n \in 1 .. N PROVE f[n] = Did(kind, f[n - 1], ops[n])
  <2>1. n \in Nat \ {0} /\ 1 .. n \in SUBSET (1 .. N) /\ n \in 1 .. n /\ (1 .. n) \ {n} = 1 .. n - 1
    BY <1>1
  <2>2. Max(1 .. n) = n
    BY <2>1, MaxIs
  <2>3. g[1 .. n] = Did(kind, g[1 .. n - 1], ops[n])
    BY <1>2, <2>1, <2>2 DEF MaxStep
  <2> QED BY <1>1, <2>3
<1>6. FoldOf(kind, base, ops) = f[N]
  BY <1>1, <1>3
<1> QED BY <1>4, <1>5, <1>6 DEF Runs

LEMMA WriteIs ==
  ASSUME NEW ops, Write(ops)
  PROVE  repo' = FoldOf(<<"works">>, repo, ops) \/ repo' = FoldOf(<<"fails">>, repo, ops)
<1>1. PICK ok \in Outcomes : repo' = FoldLeft(LAMBDA r, op : Push(r, op, ok), repo, ops)
  BY DEF Write
<1>0. ok \in {TRUE, FALSE}
  BY DEF Outcomes
<1>2. CASE ok = TRUE
  BY <1>1, <1>2 DEF FoldLeft, MapThenFoldSet, FoldOf, MaxStep, Did
<1>3. CASE ok = FALSE
  BY <1>1, <1>3 DEF FoldLeft, MapThenFoldSet, FoldOf, MaxStep, Did
<1> QED BY <1>0, <1>2, <1>3

LEMMA AppliedIs ==
  ASSUME NEW ops, NEW d
  PROVE  /\ ApplySqlite(d, ops) = FoldOf(<<"sqlite">>, d, ops)
         /\ ApplyMemory(d, ops) = FoldOf(<<"memory">>, d, ops)
<1>1. ApplySqlite(d, ops) = FoldOf(<<"sqlite">>, d, ops)
  BY DEF ApplySqlite, FoldLeft, MapThenFoldSet, FoldOf, MaxStep, Did, ToSqlite
<1>2. ApplyMemory(d, ops) = FoldOf(<<"memory">>, d, ops)
  BY DEF ApplyMemory, FoldLeft, MapThenFoldSet, FoldOf, MaxStep, Did, ToMemory
<1> QED BY <1>1, <1>2

LEMMA StepsFromIs ==
  ASSUME NEW steps, NEW before
  PROVE  StepsFrom(steps, before) = FoldOf(<<"from", before>>, <<>>, steps)
BY DEF StepsFrom, FoldLeft, MapThenFoldSet, FoldOf, MaxStep, Did, Kept
-----------------------------------------------------------------------------
(* The rows of the ledger *)

Rows(U) == [id : U, session : Sessions, model : Range(ModelOf), at : Nat, status : Terminal \cup {"running"},
            turns : Nat, wait : Nat, dur : Nat]
Patches == [status : Terminal, turns : Nat, wait : Nat, dur : Nat]
\* an operation of a run whose id is in U
Ops(U)  == [op : {"run_start"}, run : Rows(U)] \cup [op : {"run_finish"}, id : U, patch : Patches]
             \cup [op : {"step"}, step : Step]

Tables == {"runs", "steps", "byRun", "byTool", "byApproval"}
IsRecord(r, names) == r = [x \in names |-> r[x]]
SqliteOK(db, U) ==
  /\ IsRecord(db, Tables)
  /\ db.runs \subseteq Rows(U) /\ db.steps \in Seq(Step)
MemoryOK(mem) ==
  /\ IsRecord(mem, Tables)
  /\ mem.runs = [i \in DOMAIN mem.runs |-> mem.runs[i]]
  /\ \A i \in DOMAIN mem.runs : mem.runs[i] \in Run
  /\ mem.steps \in Seq(Step)
Fields == {"pending", "failures", "failed", "degraded", "closed", "lost", "writes", "sqlite", "memory"}
RepoOK(r, U) ==
  /\ IsRecord(r, Fields)
  /\ r.pending \in Seq(Ops(U)) /\ Len(r.pending) < BatchSize /\ r.lost \in BOOLEAN
  /\ SqliteOK(r.sqlite, U) /\ MemoryOK(r.memory)

\* A run whose row still runs, or would after the first n of the operations.
RunsIn(db, i) == \E r \in db.runs : r.id = i /\ r.status = "running"
Starts(o, i)  == o.op = "run_start" /\ o.run.id = i
Ends(o, i)    == o.op = "run_finish" /\ o.id = i
Dangling(db, ops, n, i) ==
  \/ RunsIn(db, i) /\ \A k \in 1 .. n : ~Ends(ops[k], i)
  \/ \E k \in 1 .. n : Starts(ops[k], i) /\ \A j \in k + 1 .. n : ~Ends(ops[j], i)
Loose(r, i) == Dangling(r.sqlite, r.pending, Len(r.pending), i)

\* An operation that SQLite stores: a run that runs afterwards ran before or has just started.
LEMMA SqliteStep ==
  ASSUME NEW U \in SUBSET Nat, NEW d, SqliteOK(d, U), NEW o \in Ops(U)
  PROVE  /\ SqliteOK(ToSqlite(d, o), U)
         /\ \A i : RunsIn(ToSqlite(d, o), i) => ~Ends(o, i) /\ (RunsIn(d, i) \/ Starts(o, i))
<1>1. CASE o \in [op : {"run_start"}, run : Rows(U)]
  <2>1. ToSqlite(d, o) = InsertRun(d, o.run) /\ o.op = "run_start" /\ o.run \in Rows(U)
    BY <1>1 DEF ToSqlite
  <2>2. SqliteOK(InsertRun(d, o.run), U)
    BY <2>1 DEF SqliteOK, InsertRun, IsRecord, Tables
  <2>3. InsertRun(d, o.run).runs \subseteq d.runs \cup {o.run}
    BY DEF SqliteOK, InsertRun, IsRecord, Tables
  <2> QED BY <2>1, <2>2, <2>3 DEF RunsIn, Starts, Ends
<1>2. CASE o \in [op : {"run_finish"}, id : U, patch : Patches]
  <2>1. ToSqlite(d, o) = UpdateRun(d, o.id, o.patch) /\ o.op = "run_finish" /\ o.patch \in Patches
    BY <1>2 DEF ToSqlite
  <2> DEFINE u == UpdateRun(d, o.id, o.patch)
             put(r) == [r EXCEPT !.status = o.patch.status, !.turns = o.patch.turns,
                                 !.wait = o.patch.wait, !.dur = o.patch.dur]
             old == {r \in d.runs : r.id = o.id}
  <2>2. /\ u.runs = (d.runs \ old) \cup {put(r) : r \in old} /\ u.steps = d.steps
        /\ IsRecord(u, Tables)
    BY DEF SqliteOK, UpdateRun, IsRecord, Tables
  <2>3. ASSUME NEW r \in old PROVE put(r) \in Rows(U) /\ put(r).id = o.id /\ put(r).status \in Terminal
    <3>1. r \in Rows(U) /\ r.id = o.id
      BY DEF SqliteOK
    <3> QED BY <2>1, <3>1 DEF Rows, Patches
  <2> HIDE DEF u, put
  <2>4. SqliteOK(u, U)
    BY <2>2, <2>3 DEF SqliteOK
  <2>5. ASSUME NEW i, RunsIn(u, i) PROVE RunsIn(d, i) /\ i # o.id
    <3>1. PICK r \in u.runs : r.id = i /\ r.status = "running"
      BY <2>5 DEF RunsIn
    <3>2. r \in d.runs \ old
      BY <2>2, <2>3, <3>1 DEF Terminal
    <3> QED BY <3>1, <3>2 DEF RunsIn
  <2> QED BY <2>1, <2>4, <2>5 DEF u, Ends
<1>3. CASE o \in [op : {"step"}, step : Step]
  <2>1. ToSqlite(d, o) = InsertStep(d, o.step) /\ o.op = "step" /\ o.step \in Step
    BY <1>3 DEF ToSqlite
  <2> DEFINE u == InsertStep(d, o.step)
  <2>2. /\ u.runs = d.runs /\ u.steps = Append(d.steps, o.step)
        /\ IsRecord(u, Tables)
    BY DEF SqliteOK, InsertStep, IsRecord, Tables
  <2>3. d.steps \in Seq(Step)
    BY DEF SqliteOK
  <2> HIDE DEF u
  <2>4. SqliteOK(u, U)
    BY <2>1, <2>2, <2>3 DEF SqliteOK
  <2> QED BY <2>1, <2>2, <2>4 DEF u, RunsIn, Ends
<1> QED BY <1>1, <1>2, <1>3 DEF Ops

\* The memory backend keeps runs and steps as well.
LEMMA MemoryStep ==
  ASSUME NEW U \in SUBSET Nat, NEW d, MemoryOK(d), NEW o \in Ops(U)
  PROVE  MemoryOK(ToMemory(d, o))
<1>0. Rows(U) \subseteq Run
  BY DEF Rows, Run
<1>1. CASE o \in [op : {"run_start"}, run : Rows(U)]
  <2>1. ToMemory(d, o) = StartRun(d, o.run) /\ o.run \in Run
    BY <1>0, <1>1 DEF ToMemory
  <2> QED BY <2>1 DEF MemoryOK, StartRun, IsRecord, Tables
<1>2. CASE o \in [op : {"run_finish"}, id : U, patch : Patches]
  <2>1. ToMemory(d, o) = FinishRun(d, o.id, o.patch) /\ o.patch \in Patches
    BY <1>2 DEF ToMemory
  <2> DEFINE m == FinishRun(d, o.id, o.patch)
             new == [d.runs[o.id] EXCEPT !.status = o.patch.status, !.turns = o.patch.turns,
                                         !.wait = o.patch.wait, !.dur = o.patch.dur]
  <2>2. CASE o.id \notin DOMAIN d.runs \/ d.runs[o.id].status # "running"
    BY <2>1, <2>2 DEF FinishRun
  <2>3. CASE ~(o.id \notin DOMAIN d.runs \/ d.runs[o.id].status # "running")
    <3>1. d.runs[o.id] \in Run
      BY <2>3 DEF MemoryOK
    <3>2. new \in Run
      BY <2>1, <3>1 DEF Run, Patches
    <3>3. /\ m.runs = [d.runs EXCEPT ![o.id] = new] /\ m.steps = d.steps
          /\ IsRecord(m, Tables)
      BY <2>3 DEF MemoryOK, FinishRun, IsRecord, Tables
    <3> HIDE DEF m, new
    <3>4. m.runs = [i \in DOMAIN m.runs |-> m.runs[i]] /\ \A i \in DOMAIN m.runs : m.runs[i] \in Run
      BY <3>2, <3>3 DEF MemoryOK
    <3>5. MemoryOK(m)
      BY <3>3, <3>4 DEF MemoryOK
    <3> QED BY <2>1, <3>5 DEF m
  <2> QED BY <2>2, <2>3
<1>3. CASE o \in [op : {"step"}, step : Step]
  <2>1. ToMemory(d, o) = AddStep(d, o.step) /\ o.step \in Step
    BY <1>3 DEF ToMemory
  <2> DEFINE m == AddStep(d, o.step)
  <2>2. /\ m.runs = d.runs /\ m.steps = Append(d.steps, o.step)
        /\ IsRecord(m, Tables)
    BY DEF MemoryOK, AddStep, IsRecord, Tables
  <2> HIDE DEF m
  <2>3. m.steps \in Seq(Step)
    BY <2>1, <2>2 DEF MemoryOK
  <2>4. MemoryOK(m)
    BY <2>2, <2>3 DEF MemoryOK
  <2> QED BY <2>1, <2>4 DEF m
<1> QED BY <1>1, <1>2, <1>3 DEF Ops

\* A batch stored: what runs afterwards is dangling in what was there with the batch.
LEMMA BatchStored ==
  ASSUME NEW U \in SUBSET Nat, NEW db, SqliteOK(db, U), NEW mem, MemoryOK(mem), NEW ops \in Seq(Ops(U))
  PROVE  /\ SqliteOK(ApplySqlite(db, ops), U) /\ MemoryOK(ApplyMemory(mem, ops))
         /\ \A i : RunsIn(ApplySqlite(db, ops), i) => Dangling(db, ops, Len(ops), i)
<1>1. PICK f : Runs(f, <<"sqlite">>, db, ops) /\ ApplySqlite(db, ops) = f[Len(ops)]
  BY FoldRuns, AppliedIs
<1>2. PICK g : Runs(g, <<"memory">>, mem, ops) /\ ApplyMemory(mem, ops) = g[Len(ops)]
  BY FoldRuns, AppliedIs
<1> DEFINE Good(n) == /\ SqliteOK(f[n], U) /\ MemoryOK(g[n])
                      /\ \A i : RunsIn(f[n], i) => Dangling(db, ops, n, i)
           Bad == {n \in 0 .. Len(ops) : ~Good(n)}
<1> SUFFICES Bad = {}
  <2>1. Len(ops) \in 0 .. Len(ops)
    OBVIOUS
  <2>2. Bad = {} => Good(Len(ops))
    BY <2>1
  <2> QED BY <1>1, <1>2, <2>2
<1> SUFFICES ASSUME Bad # {} PROVE FALSE
  OBVIOUS
<1>0. Bad \in SUBSET Nat
  OBVIOUS
<1>3. PICK m \in Bad : \A n \in Bad : m <= n
  <2> HIDE DEF Bad
  <2> QED BY <1>0, LeastNat
<1>4. m # 0
  <2>1. f[0] = db /\ g[0] = mem
    BY <1>1, <1>2 DEF Runs
  <2>2. ASSUME NEW i, RunsIn(db, i) PROVE Dangling(db, ops, 0, i)
    BY <2>2 DEF Dangling
  <2>3. Good(0)
    BY <2>1, <2>2
  <2> QED BY <2>3
<1>5. m \in 1 .. Len(ops) /\ m - 1 \in 0 .. Len(ops) /\ ~(m <= m - 1)
  BY <1>4
<1>6. Good(m - 1)
  <2> HIDE DEF Good
  <2> QED BY <1>3, <1>5
<1>7. f[m] = ToSqlite(f[m - 1], ops[m]) /\ g[m] = ToMemory(g[m - 1], ops[m]) /\ ops[m] \in Ops(U)
  BY <1>1, <1>2, <1>5 DEF Runs, Did
<1>8. SqliteOK(f[m], U) /\ MemoryOK(g[m])
  BY <1>6, <1>7, SqliteStep, MemoryStep
<1>9. ASSUME NEW i, RunsIn(f[m], i) PROVE Dangling(db, ops, m, i)
  <2>1. ~Ends(ops[m], i) /\ (RunsIn(f[m - 1], i) \/ Starts(ops[m], i))
    BY <1>6, <1>7, <1>9, SqliteStep
  <2>2. CASE Starts(ops[m], i)
    BY <1>5, <2>2 DEF Dangling
  <2>3. CASE RunsIn(f[m - 1], i)
    <3>1. Dangling(db, ops, m - 1, i)
      BY <1>6, <2>3
    <3>2. \A k \in 1 .. m : k \in 1 .. m - 1 \/ k = m
      BY <1>5
    <3>3. CASE \A k \in 1 .. m - 1 : ~Ends(ops[k], i) /\ RunsIn(db, i)
      BY <2>1, <3>2, <3>3, <3>1 DEF Dangling
    <3>4. CASE \E k \in 1 .. m - 1 : Starts(ops[k], i) /\ \A j \in k + 1 .. m - 1 : ~Ends(ops[j], i)
      <4>1. PICK k \in 1 .. m - 1 : Starts(ops[k], i) /\ \A j \in k + 1 .. m - 1 : ~Ends(ops[j], i)
        BY <3>4
      <4>2. k \in 1 .. m /\ \A j \in k + 1 .. m : j \in k + 1 .. m - 1 \/ j = m
        BY <1>5
      <4>3. \A j \in k + 1 .. m : ~Ends(ops[j], i)
        BY <2>1, <4>1, <4>2
      <4> QED BY <4>1, <4>2, <4>3 DEF Dangling
    <3> QED BY <3>1, <3>3, <3>4 DEF Dangling
  <2> QED BY <2>1, <2>2, <2>3
<1> QED BY <1>3, <1>8, <1>9

LEMMA StepsFromTyped ==
  ASSUME NEW steps \in Seq(Step), NEW before
  PROVE  StepsFrom(steps, before) \in Seq(Step)
<1>1. PICK f : Runs(f, <<"from", before>>, <<>>, steps) /\ StepsFrom(steps, before) = f[Len(steps)]
  BY FoldRuns, StepsFromIs
<1> DEFINE Bad == {n \in 0 .. Len(steps) : f[n] \notin Seq(Step)}
<1> SUFFICES ASSUME Bad # {} PROVE FALSE
  BY <1>1
<1>0. Bad \in SUBSET Nat
  OBVIOUS
<1>2. PICK m \in Bad : \A n \in Bad : m <= n
  <2> HIDE DEF Bad
  <2> QED BY <1>0, LeastNat
<1>3. m # 0
  <2>1. f[0] = <<>> /\ <<>> \in Seq(Step)
    BY <1>1 DEF Runs
  <2> QED BY <2>1
<1>4. m \in 1 .. Len(steps) /\ f[m - 1] \in Seq(Step)
  <2>1. m \in 1 .. Len(steps) /\ m - 1 \in 0 .. Len(steps) /\ ~(m <= m - 1)
    BY <1>3
  <2> QED BY <1>2, <2>1
<1>5. f[m] = Kept(before, f[m - 1], steps[m]) /\ steps[m] \in Step
  BY <1>1, <1>4 DEF Runs, Did
<1>6. f[m] \in Seq(Step)
  BY <1>4, <1>5 DEF Kept
<1> QED BY <1>2, <1>6

-----------------------------------------------------------------------------
(* The queue *)

LEMMA FlushedSound ==
  ASSUME LedgerAssumption, NEW U \in SUBSET Nat, NEW r, RepoOK(r, U), NEW ok \in BOOLEAN
  PROVE  /\ RepoOK(Flushed(r, ok), U) /\ (r.lost => Flushed(r, ok).lost)
         /\ ~Flushed(r, ok).lost => \A i : Loose(Flushed(r, ok), i) => Loose(r, i)
<1> DEFINE n == Flushed(r, ok)
<1>1. CASE r.closed \/ r.pending = <<>>
  BY <1>1 DEF Flushed
<1>2. CASE ~(r.closed \/ r.pending = <<>>) /\ ok
  <2>1. /\ IsRecord(n, Fields) /\ n.pending = <<>> /\ n.lost = r.lost
        /\ n.sqlite = ApplySqlite(r.sqlite, r.pending) /\ n.memory = ApplyMemory(r.memory, r.pending)
    BY <1>2 DEF Flushed, RepoOK, IsRecord, Fields
  <2> HIDE DEF n
  <2>2. /\ SqliteOK(n.sqlite, U) /\ MemoryOK(n.memory)
        /\ \A i : RunsIn(n.sqlite, i) => Dangling(r.sqlite, r.pending, Len(r.pending), i)
    BY <2>1, BatchStored DEF RepoOK
  <2>3. RepoOK(n, U)
    BY <2>1, <2>2 DEF RepoOK, LedgerAssumption
  <2>4. \A i : Loose(n, i) => RunsIn(n.sqlite, i)
    BY <2>1 DEF Loose, Dangling
  <2> QED BY <2>1, <2>2, <2>3, <2>4 DEF n, Loose
<1>3. CASE ~(r.closed \/ r.pending = <<>>) /\ ~ok
  <2>1. /\ IsRecord(n, Fields) /\ n.pending = <<>> /\ n.lost
        /\ n.sqlite = r.sqlite /\ n.memory = r.memory /\ n.lost = TRUE
    BY <1>3 DEF Flushed, RepoOK, IsRecord, Fields
  <2> HIDE DEF n
  <2>2. RepoOK(n, U)
    BY <2>1 DEF RepoOK, LedgerAssumption
  <2> QED BY <2>1, <2>2 DEF n
<1> QED BY <1>1, <1>2, <1>3

\* One operation into the queue: it may start a run or end one.
LEMMA PushSound ==
  ASSUME LedgerAssumption, NEW U \in SUBSET Nat, NEW r, RepoOK(r, U), NEW op \in Ops(U), NEW ok \in BOOLEAN
  PROVE  /\ RepoOK(Push(r, op, ok), U) /\ (r.lost => Push(r, op, ok).lost)
         /\ ~Push(r, op, ok).lost => \A i : Loose(Push(r, op, ok), i) =>
                                            ~Ends(op, i) /\ (Loose(r, i) \/ Starts(op, i))
<1> DEFINE q == Append(r.pending, op)
           full == Len(q) > bound.limit
           n == [r EXCEPT !.pending = IF full THEN Tail(q) ELSE q,
                          !.lost = @ \/ full, !.writes = @ + 1]
<1>1. CASE r.closed \/ r.degraded
  <2> DEFINE p == Push(r, op, ok)
  <2>1. /\ IsRecord(p, Fields) /\ p.lost = TRUE
        /\ p.pending = r.pending /\ p.sqlite = r.sqlite /\ p.memory = r.memory
    BY <1>1 DEF Push, RepoOK, IsRecord, Fields
  <2> HIDE DEF p
  <2>2. RepoOK(p, U)
    BY <2>1 DEF RepoOK
  <2> QED BY <2>1, <2>2 DEF p
<1>2. CASE ~(r.closed \/ r.degraded)
  <2>1. /\ IsRecord(n, Fields) /\ n.sqlite = r.sqlite /\ n.memory = r.memory
        /\ n.pending = (IF full THEN Tail(q) ELSE q) /\ n.lost = (r.lost \/ full)
        /\ n.closed = r.closed
    BY DEF RepoOK, IsRecord, Fields
  <2>2. q \in Seq(Ops(U)) /\ Len(q) = Len(r.pending) + 1 /\ q # <<>>
    BY DEF RepoOK
  <2>3. n.pending \in Seq(Ops(U)) /\ n.lost \in BOOLEAN
    BY <2>1, <2>2 DEF RepoOK
  <2>4. Push(r, op, ok) = IF Len(n.pending) >= BatchSize THEN Flushed(n, ok) ELSE n
    BY <1>2 DEF Push
  <2>5. ASSUME ~n.lost, NEW i, Dangling(n.sqlite, n.pending, Len(n.pending), i)
        PROVE  ~Ends(op, i) /\ (Loose(r, i) \/ Starts(op, i))
    <3> DEFINE l == Len(r.pending)
    <3>1. n.pending = q /\ Len(q) = l + 1 /\ q[l + 1] = op /\ \A k \in 1 .. l : q[k] = r.pending[k]
      <4>1. r.pending \in Seq(Ops(U))
        BY DEF RepoOK
      <4>2. Len(q) = l + 1 /\ q[l + 1] = op /\ \A k \in 1 .. l : q[k] = r.pending[k]
        BY <4>1
      <4>3. ~full
        BY <2>1, <2>5
      <4> QED BY <2>1, <4>2, <4>3
    <3>2. Dangling(r.sqlite, q, l + 1, i) /\ l \in Nat
      BY <2>1, <2>5, <3>1 DEF RepoOK
    <3> HIDE DEF q, l, n
    <3>3. CASE RunsIn(r.sqlite, i) /\ \A k \in 1 .. l + 1 : ~Ends(q[k], i)
      <4>1. \A k \in 1 .. l : ~Ends(r.pending[k], i)
        BY <3>1, <3>2, <3>3
      <4>2. ~Ends(op, i)
        BY <3>1, <3>2, <3>3
      <4> QED BY <3>3, <4>1, <4>2 DEF Loose, Dangling, l
    <3>4. CASE \E k \in 1 .. l + 1 : Starts(q[k], i) /\ \A j \in k + 1 .. l + 1 : ~Ends(q[j], i)
      <4>1. PICK k \in 1 .. l + 1 : Starts(q[k], i) /\ \A j \in k + 1 .. l + 1 : ~Ends(q[j], i)
        BY <3>4
      <4>2. CASE k = l + 1
        BY <3>1, <4>1, <4>2 DEF Starts, Ends
      <4>3. CASE k \in 1 .. l
        <5>1. ~Ends(op, i)
          BY <3>1, <3>2, <4>1, <4>3
        <5>2. Starts(r.pending[k], i) /\ \A j \in k + 1 .. l : ~Ends(r.pending[j], i)
          BY <3>1, <3>2, <4>1, <4>3
        <5> QED BY <4>3, <5>1, <5>2 DEF Loose, Dangling, l
      <4> QED BY <3>2, <4>1, <4>2, <4>3
    <3> QED BY <3>2, <3>3, <3>4 DEF Dangling
  <2> HIDE DEF n, full, q
  <2>6. CASE Len(n.pending) < BatchSize
    <3>1. ~(Len(n.pending) >= BatchSize)
      BY <2>3, <2>6 DEF LedgerAssumption
    <3>2. RepoOK(n, U)
      BY <2>1, <2>3, <2>6 DEF RepoOK
    <3> QED BY <2>1, <2>4, <2>5, <3>1, <3>2 DEF Loose
  <2>7. CASE Len(n.pending) >= BatchSize
    <3>0. n.pending # <<>>
      BY <2>3, <2>7 DEF LedgerAssumption
    <3>1. ~n.closed /\ n.pending # <<>>
      BY <1>2, <2>1, <3>0
    <3> DEFINE p == Flushed(n, ok)
    <3>2. CASE ok
      <4>1. /\ IsRecord(p, Fields) /\ p.pending = <<>> /\ p.lost = n.lost
            /\ p.sqlite = ApplySqlite(n.sqlite, n.pending) /\ p.memory = ApplyMemory(n.memory, n.pending)
        BY <2>1, <3>1, <3>2 DEF Flushed, RepoOK, IsRecord, Fields
      <4> HIDE DEF p
      <4>2. /\ SqliteOK(p.sqlite, U) /\ MemoryOK(p.memory)
            /\ \A i : RunsIn(p.sqlite, i) => Dangling(n.sqlite, n.pending, Len(n.pending), i)
        <5>1. SqliteOK(n.sqlite, U) /\ MemoryOK(n.memory)
          BY <2>1 DEF RepoOK
        <5> QED BY <2>3, <4>1, <5>1, BatchStored
      <4>3. RepoOK(p, U)
        BY <2>1, <2>3, <4>1, <4>2 DEF RepoOK, LedgerAssumption
      <4>4. \A i : Loose(p, i) => RunsIn(p.sqlite, i)
        BY <4>1 DEF Loose, Dangling
      <4> QED BY <2>1, <2>4, <2>5, <2>7, <4>1, <4>2, <4>3, <4>4 DEF p
    <3>3. CASE ~ok
      <4>1. /\ IsRecord(p, Fields) /\ p.pending = <<>> /\ p.lost = TRUE
            /\ p.sqlite = n.sqlite /\ p.memory = n.memory
        BY <2>1, <3>1, <3>3 DEF Flushed, RepoOK, IsRecord, Fields
      <4> HIDE DEF p
      <4>2. SqliteOK(p.sqlite, U) /\ MemoryOK(p.memory)
        BY <2>1, <4>1 DEF RepoOK
      <4>3. p.pending \in Seq(Ops(U)) /\ Len(p.pending) < BatchSize
        BY <4>1 DEF LedgerAssumption
      <4>4. p.lost \in BOOLEAN
        BY <4>1
      <4>5. RepoOK(p, U)
        BY <4>1, <4>2, <4>3, <4>4 DEF RepoOK
      <4> QED BY <2>4, <2>7, <4>1, <4>5 DEF p
    <3> QED BY <3>2, <3>3
  <2>8. Len(n.pending) < BatchSize \/ Len(n.pending) >= BatchSize
    BY <2>3 DEF LedgerAssumption
  <2> QED BY <2>6, <2>7, <2>8
<1> QED BY <1>1, <1>2
\* A batch of a handler: what is loose afterwards was loose, or the batch has started it, and
\* its last operation does not end it.
LEMMA Written ==
  ASSUME LedgerAssumption, NEW U \in SUBSET Nat, RepoOK(repo, U), NEW ops \in Seq(Ops(U)), Write(ops)
  PROVE  /\ RepoOK(repo', U) /\ (repo.lost => repo'.lost)
         /\ ~repo'.lost => \A i : Loose(repo', i) =>
              /\ Loose(repo, i) \/ \E k \in 1 .. Len(ops) : Starts(ops[k], i)
              /\ Len(ops) # 0 => ~Ends(ops[Len(ops)], i)
<1>1. PICK ok \in BOOLEAN : repo' = FoldOf(IF ok THEN <<"works">> ELSE <<"fails">>, repo, ops)
  <2>1. CASE repo' = FoldOf(<<"works">>, repo, ops)
    <3>1. repo' = FoldOf(IF TRUE THEN <<"works">> ELSE <<"fails">>, repo, ops)
      BY <2>1
    <3> QED BY <3>1
  <2>2. CASE repo' = FoldOf(<<"fails">>, repo, ops)
    <3>1. repo' = FoldOf(IF FALSE THEN <<"works">> ELSE <<"fails">>, repo, ops)
      BY <2>2
    <3> QED BY <3>1
  <2> QED BY <2>1, <2>2, WriteIs
<1> DEFINE kind == IF ok THEN <<"works">> ELSE <<"fails">>
<1>2. PICK f : Runs(f, kind, repo, ops) /\ repo' = f[Len(ops)]
  <2>1. \E f : Runs(f, kind, repo, ops) /\ FoldOf(kind, repo, ops) = f[Len(ops)]
    BY FoldRuns
  <2> QED BY <1>1, <2>1
<1>3. ASSUME NEW n \in 1 .. Len(ops) PROVE f[n] = Push(f[n - 1], ops[n], ok) /\ ops[n] \in Ops(U)
  <2>1. f[n] = Did(kind, f[n - 1], ops[n])
    BY <1>2 DEF Runs
  <2>2. CASE ok
    <3>1. kind = <<"works">> /\ ok = TRUE
      BY <2>2
    <3> HIDE DEF kind
    <3> QED BY <2>1, <3>1 DEF Did
  <2>3. CASE ~ok
    <3>1. kind = <<"fails">> /\ ok = FALSE /\ ops[n] \in Ops(U)
      BY <2>3
    <3>2. kind[1] = "fails"
      BY <3>1
    <3> HIDE DEF kind
    <3>3. Did(kind, f[n - 1], ops[n]) = Push(f[n - 1], ops[n], FALSE)
      BY <3>2 DEF Did
    <3> QED BY <2>1, <3>1, <3>3
  <2> QED BY <2>2, <2>3
<1> DEFINE Good(n) == /\ RepoOK(f[n], U) /\ (repo.lost => f[n].lost)
                      /\ ~f[n].lost => \A i : Loose(f[n], i) =>
                           /\ Loose(repo, i) \/ \E k \in 1 .. n : Starts(ops[k], i)
                           /\ n # 0 => ~Ends(ops[n], i)
           Bad == {n \in 0 .. Len(ops) : ~Good(n)}
<1> SUFFICES Bad = {}
  <2>1. Len(ops) \in 0 .. Len(ops)
    OBVIOUS
  <2>2. Bad = {} => Good(Len(ops))
    BY <2>1
  <2> QED BY <1>2, <2>2
<1> SUFFICES ASSUME Bad # {} PROVE FALSE
  OBVIOUS
<1>4. Bad \in SUBSET Nat
  OBVIOUS
<1>5. PICK m \in Bad : \A n \in Bad : m <= n
  <2> HIDE DEF Bad
  <2> QED BY <1>4, LeastNat
<1>6. m # 0
  <2>1. f[0] = repo
    BY <1>2 DEF Runs
  <2>2. Good(0)
    BY <2>1
  <2> QED BY <2>2
<1>7. m \in 1 .. Len(ops) /\ m - 1 \in 0 .. Len(ops) /\ ~(m <= m - 1)
  BY <1>6
<1>8. Good(m - 1)
  <2> HIDE DEF Good
  <2> QED BY <1>5, <1>7
<1>9. /\ RepoOK(f[m], U) /\ (f[m - 1].lost => f[m].lost)
      /\ ~f[m].lost => \A i : Loose(f[m], i) => ~Ends(ops[m], i) /\ (Loose(f[m - 1], i) \/ Starts(ops[m], i))
  BY <1>3, <1>7, <1>8, PushSound
<1>10. \A k \in 1 .. m - 1 : k \in 1 .. m
  BY <1>7
<1>11. m \in 1 .. m
  BY <1>7
<1>12. ASSUME ~f[m].lost, NEW i, Loose(f[m], i)
       PROVE  ~Ends(ops[m], i) /\ (Loose(repo, i) \/ \E k \in 1 .. m : Starts(ops[k], i))
  <2>1. ~Ends(ops[m], i) /\ (Loose(f[m - 1], i) \/ Starts(ops[m], i)) /\ ~f[m - 1].lost
    BY <1>9, <1>12
  <2>2. Loose(f[m - 1], i) => Loose(repo, i) \/ \E k \in 1 .. m - 1 : Starts(ops[k], i)
    BY <1>8, <2>1
  <2> QED BY <1>10, <1>11, <2>1, <2>2
<1>13. Good(m)
  BY <1>8, <1>9, <1>12
<1> QED BY <1>5, <1>13
-----------------------------------------------------------------------------
(* The invariant *)

\* the states of open runs whose ids are in U, with no time after now
StatesOf(U, now) ==
  [id : U, at : 0 .. now, turns : Nat, waited : Nat, failed : BOOLEAN, aborted : BOOLEAN,
   llm : SUBSET (0 .. now), tool : SUBSET (0 .. now), wait : SUBSET (0 .. now),
   packed : SUBSET (0 .. now), note : SUBSET Causes]

OpenOK(s) == /\ open[s] \subseteq StatesOf(used, clock)
             /\ \A x, y \in open[s] : x = y

\* In a session at rest only a compaction by hand has a run, and in one that is gone none is.
Untouched(st) == st.turns = 0 /\ st.llm = {} /\ ~st.failed
Rested(s) == /\ sdk[s] \in {"gone", "dying"} => open[s] = {}
             /\ sdk[s] \in {"idle", "resting"} => \A st \in open[s] : Untouched(st)

OpenIds(runs) == UNION {{st.id : st \in runs[s]} : s \in Sessions}

\* A run that runs in the storage, or will when the queue is stored, is open or an orphan.
NothingLoose == ~repo.lost => \A i \in used : Loose(repo, i) => i \in orphans \cup OpenIds(open)

LInv ==
  /\ bound \in Scenarios /\ sdk \in [Sessions -> Phases] /\ erred \in [Sessions -> BOOLEAN]
  /\ clock \in Time /\ service \in {"up", "closing", "down"}
  /\ used \subseteq Ids /\ cut \subseteq used /\ orphans \subseteq used
  /\ open = [s \in Sessions |-> open[s]]
  /\ \A s \in Sessions : OpenOK(s) /\ Rested(s)
  /\ RepoOK(repo, used) /\ NothingLoose
-----------------------------------------------------------------------------
(* The operations the handlers write *)

\* ops starts no run but that of id
Only(ops, id) == \A k \in 1 .. Len(ops) : ops[k].op = "run_start" => ops[k].run.id = id

\* a sequence of operations that a handler may write for the run of st
OpsFor(U, id) == {ops \in Seq(Ops(U)) : Only(ops, id)}

LEMMA OpsJoin ==
  ASSUME NEW U, NEW id, NEW x \in OpsFor(U, id), NEW y \in OpsFor(U, id)
  PROVE  x \o y \in OpsFor(U, id)
<1>1. x \in Seq(Ops(U)) /\ y \in Seq(Ops(U)) /\ Only(x, id) /\ Only(y, id)
  BY DEF OpsFor
<1>2. x \o y \in Seq(Ops(U)) /\ Len(x \o y) = Len(x) + Len(y)
  BY <1>1
<1>3. ASSUME NEW k \in 1 .. Len(x \o y), (x \o y)[k].op = "run_start" PROVE (x \o y)[k].run.id = id
  <2>1. CASE k \in 1 .. Len(x)
    <3>1. (x \o y)[k] = x[k]
      BY <1>1, <2>1
    <3> QED BY <1>1, <1>3, <2>1, <3>1 DEF Only
  <2>2. CASE k \notin 1 .. Len(x)
    <3>1. (x \o y)[k] = y[k - Len(x)] /\ k - Len(x) \in 1 .. Len(y)
      BY <1>1, <1>2, <2>2
    <3> QED BY <1>1, <1>3, <3>1 DEF Only
  <2> QED BY <2>1, <2>2
<1> QED BY <1>2, <1>3 DEF OpsFor, Only

\* One operation, or none.
LEMMA OpsOne ==
  ASSUME NEW U, NEW id
  PROVE  /\ <<>> \in OpsFor(U, id)
         /\ \A o \in Ops(U) : (o.op = "run_start" => o.run.id = id) => <<o>> \in OpsFor(U, id)
<1>1. <<>> \in OpsFor(U, id)
  BY DEF OpsFor, Only
<1>2. ASSUME NEW o \in Ops(U), o.op = "run_start" => o.run.id = id PROVE <<o>> \in OpsFor(U, id)
  <2>1. <<o>> \in Seq(Ops(U)) /\ Len(<<o>>) = 1 /\ <<o>>[1] = o
    OBVIOUS
  <2>2. \A k \in 1 .. Len(<<o>>) : <<o>>[k] = o
    BY <2>1
  <2> QED BY <1>2, <2>1, <2>2 DEF OpsFor, Only
<1> QED BY <1>1, <1>2

\* A step is an operation that starts and ends nothing.
LEMMA StepOps ==
  ASSUME NEW U, NEW id, NEW s \in Step
  PROVE  /\ <<Taken(s)>> \in OpsFor(U, id)
<1>1. Taken(s) \in Ops(U) /\ Taken(s).op # "run_start"
  BY DEF Taken, Ops
<1> QED BY <1>1, OpsOne

LEMMA SinceTyped ==
  ASSUME clock \in Nat, NEW times \in SUBSET (0 .. clock)
  PROVE  Since(times) \in 0 .. clock
<1>1. CASE times = {}
  BY <1>1 DEF Since
<1>2. CASE times # {}
  <2>1. (CHOOSE t \in times : TRUE) \in times
    BY <1>2
  <2> QED BY <1>2, <2>1 DEF Since
<1> QED BY <1>1, <1>2

LEMMA NoteOps ==
  ASSUME clock \in Nat, NEW U \in SUBSET Nat, NEW st \in StatesOf(U, clock),
         NEW times \in SUBSET (0 .. clock), NEW kind \in StepKinds
  PROVE  /\ <<NoteOp(st, kind, times)>> \in OpsFor(U, st.id)
         /\ LlmOps(st) \in OpsFor(U, st.id)
<1>1. ASSUME NEW k \in StepKinds, NEW ts \in SUBSET (0 .. clock)
      PROVE  <<NoteOp(st, k, ts)>> \in OpsFor(U, st.id)
  <2> DEFINE step == [run |-> st.id, kind |-> k, at |-> Since(ts), dur |-> 0,
                      error |-> FALSE, blocked |-> "none", decision |-> "none"]
  <2>1. st.id \in Nat /\ Since(ts) \in 0 .. clock
    BY SinceTyped DEF StatesOf
  <2>2. step \in Step
    BY <2>1 DEF Step, Causes, Decisions
  <2>3. NoteOp(st, k, ts) = Taken(step)
    BY DEF NoteOp
  <2> HIDE DEF step
  <2> QED BY <2>2, <2>3, StepOps
<1>2. st.llm \in SUBSET (0 .. clock) /\ "llm_call" \in StepKinds
  BY DEF StatesOf, StepKinds
<1>3. LlmOps(st) \in OpsFor(U, st.id)
  BY <1>1, <1>2, OpsOne DEF LlmOps
<1> QED BY <1>1, <1>3

LEMMA WaitedTyped ==
  ASSUME clock \in Nat, NEW U, NEW st \in StatesOf(U, clock)
  PROVE  Waited(st) \in Nat /\ clock - Since(st.wait) \in Nat /\ Since(st.wait) \in Nat
<1>1. st.wait \in SUBSET (0 .. clock) /\ st.waited \in Nat
  BY DEF StatesOf
<1>2. Since(st.wait) \in 0 .. clock
  BY <1>1, SinceTyped
<1> QED BY <1>1, <1>2 DEF Waited

\* The run of a session begins in the storage under its own id.
LEMMA RunOps ==
  ASSUME StoreAssumption, clock \in Nat, NEW U \in SUBSET Nat, NEW st \in StatesOf(U, clock), NEW s \in Sessions
  PROVE  /\ RunOp(s, st) \in Ops(U) /\ RunOp(s, st).op = "run_start" /\ RunOp(s, st).run.id = st.id
         /\ <<RunOp(s, st)>> \in OpsFor(U, st.id)
<1>1. st.id \in U /\ st.at \in Nat /\ ModelOf[s] \in Range(ModelOf)
  BY DEF StatesOf, StoreAssumption, Range
<1>2. RunOp(s, st) \in Ops(U) /\ RunOp(s, st).op = "run_start" /\ RunOp(s, st).run.id = st.id
  BY <1>1 DEF RunOp, Started, Ops, Rows, Terminal
<1> QED BY <1>2, OpsOne

\* And it ends there.
LEMMA EndOps ==
  ASSUME clock \in Nat, NEW U \in SUBSET Nat, NEW st \in StatesOf(U, clock), NEW status \in Terminal
  PROVE  /\ FinishOp(st, status) \in Ops(U) /\ Ends(FinishOp(st, status), st.id)
         /\ <<FinishOp(st, status)>> \in OpsFor(U, st.id)
<1> DEFINE dur == clock - st.at
           patch == [status |-> status, turns |-> st.turns, dur |-> dur,
                     wait |-> IF st.waited > dur THEN dur ELSE st.waited]
<1>1. st.id \in U /\ dur \in Nat /\ st.turns \in Nat /\ st.waited \in Nat
  BY DEF StatesOf
<1>2. FinishOp(st, status) = Finished(st.id, patch)
  BY DEF FinishOp
<1> HIDE DEF dur
<1>3. patch \in Patches
  BY <1>1 DEF Patches
<1> HIDE DEF patch
<1>4. FinishOp(st, status) \in Ops(U) /\ FinishOp(st, status).op = "run_finish" /\ FinishOp(st, status).id = st.id
  BY <1>1, <1>2, <1>3 DEF Finished, Ops
<1> QED BY <1>4, OpsOne DEF Ends

LEMMA DecisionOps ==
  ASSUME clock \in Nat, NEW U \in SUBSET Nat, NEW st \in StatesOf(U, clock), NEW d \in Decisions \ {"none"}
  PROVE  ApprovalOps(st, d) \in OpsFor(U, st.id) /\ QuestionOps(st) \in OpsFor(U, st.id)
<1>1. st.id \in Nat /\ st.wait \in SUBSET (0 .. clock) /\ "question" \in StepKinds
  BY DEF StatesOf, StepKinds
<1>2. QuestionOps(st) \in OpsFor(U, st.id)
  BY <1>1, NoteOps DEF QuestionOps
<1> DEFINE step == [run |-> st.id, kind |-> "approval", at |-> Since(st.wait), dur |-> clock - Since(st.wait),
                    error |-> d # "approved", blocked |-> "none", decision |-> d]
<1>3. step \in Step
  <2>1. (d # "approved") \in BOOLEAN
    OBVIOUS
  <2> DEFINE e == d # "approved"
  <2> HIDE DEF e
  <2>2. e \in BOOLEAN
    BY <2>1 DEF e
  <2>3. [run |-> st.id, kind |-> "approval", at |-> Since(st.wait), dur |-> clock - Since(st.wait),
         error |-> e, blocked |-> "none", decision |-> d] \in Step
    BY <1>1, <2>2, WaitedTyped DEF Step, StepKinds, Causes, Decisions
  <2> QED BY <2>3 DEF e
<1>4. ApprovalOps(st, d) = <<Taken(step)>>
  BY DEF ApprovalOps
<1> HIDE DEF step
<1> QED BY <1>2, <1>3, <1>4, StepOps

LEMMA CallOps ==
  ASSUME clock \in Nat, NEW U \in SUBSET Nat, NEW st \in StatesOf(U, clock), NEW error \in BOOLEAN,
         NEW marked \in BOOLEAN
  PROVE  <<Taken([run |-> st.id, kind |-> "tool_call", at |-> Since(st.tool),
                  dur |-> clock - Since(st.tool), error |-> error,
                  blocked |-> Cause(st, error, marked), decision |-> "none"])>> \in OpsFor(U, st.id)
<1>1. st.id \in Nat /\ st.tool \in SUBSET (0 .. clock) /\ st.note \in SUBSET Causes
  BY DEF StatesOf
<1>2. Since(st.tool) \in 0 .. clock
  BY <1>1, SinceTyped
<1>3. Cause(st, error, marked) \in Causes
  <2>1. CASE st.note # {}
    <3>1. (CHOOSE c \in st.note : TRUE) \in Causes
      BY <1>1, <2>1
    <3> QED BY <2>1, <3>1 DEF Cause
  <2>2. CASE st.note = {}
    BY <2>2 DEF Cause, Causes
  <2> QED BY <2>1, <2>2
<1> DEFINE c == Cause(st, error, marked)
           step == [run |-> st.id, kind |-> "tool_call", at |-> Since(st.tool),
                    dur |-> clock - Since(st.tool), error |-> error, blocked |-> c, decision |-> "none"]
<1> HIDE DEF c
<1>4. step \in Step
  BY <1>1, <1>2, <1>3 DEF Step, StepKinds, Decisions, c
<1> HIDE DEF step
<1>5. <<Taken(step)>> \in OpsFor(U, st.id)
  BY <1>4, StepOps
<1> QED BY <1>5 DEF step, c
-----------------------------------------------------------------------------
(* What a handler does *)

LEMMA RepoGrows ==
  ASSUME NEW U, NEW V, U \subseteq V, NEW r, RepoOK(r, U)
  PROVE  RepoOK(r, V)
<1>1. Rows(U) \subseteq Rows(V)
  BY DEF Rows
<1>2. Ops(U) \subseteq Ops(V)
  BY <1>1 DEF Ops
<1>3. r.pending \in Seq(Ops(V))
  BY <1>2 DEF RepoOK
<1>4. SqliteOK(r.sqlite, V)
  BY <1>1 DEF RepoOK, SqliteOK
<1> QED BY <1>3, <1>4 DEF RepoOK

LEMMA LooseKnown ==
  ASSUME NEW U, NEW r, RepoOK(r, U), NEW i, Loose(r, i)
  PROVE  i \in U
<1>1. CASE RunsIn(r.sqlite, i)
  BY <1>1 DEF RunsIn, RepoOK, SqliteOK, Rows
<1>2. CASE \E k \in 1 .. Len(r.pending) : Starts(r.pending[k], i)
  <2>1. PICK k \in 1 .. Len(r.pending) : Starts(r.pending[k], i)
    BY <1>2
  <2>2. r.pending[k] \in Ops(U)
    BY <2>1 DEF RepoOK
  <2>3. r.pending[k].run \in Rows(U)
    BY <2>1, <2>2 DEF Ops, Starts
  <2> QED BY <2>1, <2>3 DEF Starts, Rows
<1> QED BY <1>1, <1>2 DEF Loose, Dangling

Handled(s) ==
  /\ used \subseteq used' /\ used' \subseteq Ids
  /\ open' = [open EXCEPT ![s] = open'[s]]
  /\ open'[s] \subseteq StatesOf(used', clock) /\ \A x, y \in open'[s] : x = y
  /\ RepoOK(repo', used')
  /\ ~repo'.lost => \A i \in used' : Loose(repo', i) => i \in orphans \cup OpenIds(open')

LEMMA StatesGrow ==
  ASSUME NEW U, NEW V, U \subseteq V, NEW m \in Nat, NEW n \in Nat, m <= n
  PROVE  StatesOf(U, m) \subseteq StatesOf(V, n)
<1>1. 0 .. m \subseteq 0 .. n
  OBVIOUS
<1> QED BY <1>1 DEF StatesOf

LEMMA Known ==
  ASSUME LInv, LedgerAssumption
  PROVE  /\ clock \in Nat /\ Ids \subseteq Nat /\ used \in SUBSET Nat
         /\ DOMAIN open = Sessions
BY DEF LInv, Time, Ids, LedgerAssumption, Scenario

\* The run of the session stays or begins, and its operations are written.
LEMMA RunKept ==
  ASSUME LInv, LedgerAssumption, NEW s \in Sessions, used \subseteq used', used' \subseteq Ids,
         NEW new \in StatesOf(used', clock), open' = [open EXCEPT ![s] = {new}],
         \A st \in open[s] : st.id = new.id,
         NEW ops \in OpsFor(used', new.id), Write(ops)
  PROVE  Handled(s) /\ open'[s] = {new}
<1>1. open'[s] = {new} /\ open' = [open EXCEPT ![s] = open'[s]] /\ \A t \in Sessions \ {s} : open'[t] = open[t]
  BY Known
<1>2. RepoOK(repo, used') /\ ops \in Seq(Ops(used')) /\ used' \in SUBSET Nat
  BY Known, RepoGrows DEF LInv, OpsFor
<1>3. /\ RepoOK(repo', used') /\ (repo.lost => repo'.lost)
      /\ ~repo'.lost => \A i : Loose(repo', i) => Loose(repo, i) \/ \E k \in 1 .. Len(ops) : Starts(ops[k], i)
  BY <1>2, Written
<1>4. \A i : (\E k \in 1 .. Len(ops) : Starts(ops[k], i)) => i = new.id
  BY DEF OpsFor, Only, Starts
<1>5. OpenIds(open) \subseteq OpenIds(open') /\ new.id \in OpenIds(open')
  BY <1>1 DEF OpenIds
<1>6. ASSUME ~repo'.lost, NEW i \in used', Loose(repo', i) PROVE i \in orphans \cup OpenIds(open')
  <2>1. CASE Loose(repo, i)
    <3>1. i \in used /\ ~repo.lost
      BY <1>3, <1>6, <2>1, LooseKnown DEF LInv
    <3> QED BY <1>5, <2>1, <3>1 DEF LInv, NothingLoose
  <2> QED BY <1>3, <1>4, <1>5, <1>6, <2>1
<1> QED BY <1>1, <1>3, <1>6 DEF Handled

\* The run of the session ends.
LEMMA RunClosed ==
  ASSUME LInv, LedgerAssumption, NEW s \in Sessions, used' = used, NEW st \in open[s],
         NEW end \in StatesOf(used, clock), end.id = st.id, NEW status \in Terminal,
         open' = [open EXCEPT ![s] = {}],
         NEW ops \in OpsFor(used, st.id), Write(ops \o <<FinishOp(end, status)>>)
  PROVE  Handled(s) /\ open'[s] = {}
<1> DEFINE all == ops \o <<FinishOp(end, status)>>
<1>1. /\ open'[s] = {} /\ open' = [open EXCEPT ![s] = open'[s]] /\ open[s] = {st}
      /\ \A t \in Sessions \ {s} : open'[t] = open[t]
  <2>1. open'[s] = {} /\ open' = [open EXCEPT ![s] = open'[s]] /\ \A t \in Sessions \ {s} : open'[t] = open[t]
    BY Known
  <2>2. open[s] = {st}
    BY DEF LInv, OpenOK
  <2> QED BY <2>1, <2>2
<1>2. /\ FinishOp(end, status) \in Ops(used) /\ Ends(FinishOp(end, status), st.id)
      /\ <<FinishOp(end, status)>> \in OpsFor(used, st.id)
  BY EndOps, Known
<1>3. all \in OpsFor(used, st.id)
  BY <1>2, OpsJoin
<1>4. all \in Seq(Ops(used)) /\ Len(all) # 0 /\ all[Len(all)] = FinishOp(end, status)
  BY <1>2 DEF OpsFor
<1> HIDE DEF all
<1>5. /\ RepoOK(repo', used) /\ (repo.lost => repo'.lost)
      /\ ~repo'.lost => \A i : Loose(repo', i) =>
           /\ Loose(repo, i) \/ \E k \in 1 .. Len(all) : Starts(all[k], i)
           /\ ~Ends(all[Len(all)], i)
  <2>1. RepoOK(repo, used) /\ Write(all)
    BY DEF LInv, all
  <2> QED BY <1>4, <2>1, Written, Known
<1>6. \A i : (\E k \in 1 .. Len(all) : Starts(all[k], i)) => i = st.id
  BY <1>3 DEF OpsFor, Only, Starts
<1>7. OpenIds(open) \subseteq OpenIds(open') \cup {st.id}
  <2> SUFFICES ASSUME NEW t \in Sessions, NEW x \in open[t], x.id # st.id PROVE x.id \in OpenIds(open')
    BY DEF OpenIds
  <2>1. t # s
    BY <1>1
  <2>2. x \in open'[t]
    BY <1>1, <2>1
  <2> QED BY <2>2 DEF OpenIds
<1>8. ASSUME ~repo'.lost, NEW i \in used, Loose(repo', i) PROVE i \in orphans \cup OpenIds(open')
  <2>1. i # st.id
    BY <1>2, <1>4, <1>5, <1>8
  <2>2. Loose(repo, i) /\ ~repo.lost
    BY <1>5, <1>6, <1>8, <2>1
  <2> QED BY <1>7, <1>8, <2>1, <2>2 DEF LInv, NothingLoose
<1>9. used \subseteq used' /\ used' \subseteq Ids
  BY DEF LInv
<1> QED BY <1>1, <1>5, <1>8, <1>9 DEF Handled

\* Nothing is written, and the run stays the session's.
LEMMA RunNoted ==
  ASSUME LInv, LedgerAssumption, NEW s \in Sessions, used' = used, repo' = repo,
         NEW runs, open' = [open EXCEPT ![s] = runs], runs \subseteq StatesOf(used, clock),
         \A x, y \in runs : x = y, {st.id : st \in open[s]} \subseteq {st.id : st \in runs}
  PROVE  Handled(s) /\ open'[s] = runs
<1>1. open'[s] = runs /\ open' = [open EXCEPT ![s] = open'[s]] /\ \A t \in Sessions \ {s} : open'[t] = open[t]
  BY Known
<1>2. OpenIds(open) \subseteq OpenIds(open')
  BY <1>1 DEF OpenIds
<1> QED BY <1>1, <1>2 DEF Handled, LInv, NothingLoose

LEMMA RunSame ==
  ASSUME LInv, LedgerAssumption, NEW s \in Sessions, Same(s), NoWrite
  PROVE  Handled(s) /\ open'[s] = open[s]
<1>1. open[s] \subseteq StatesOf(used, clock) /\ \A x, y \in open[s] : x = y
  BY DEF LInv, OpenOK
<1>2. open' = [open EXCEPT ![s] = open[s]] /\ used' = used /\ repo' = repo
  BY Known DEF Same, NoWrite, LInv
<1> QED BY <1>1, <1>2, RunNoted

\* A request that was refused before any event: its run begins and ends at once.
LEMMA RunRefused ==
  ASSUME LInv, LedgerAssumption, StoreAssumption, NEW s \in Sessions, NoteCommandFailure(s)
  PROVE  Handled(s) /\ open'[s] = open[s]
<1>1. CASE open[s] # {}
  BY <1>1, RunSame DEF NoteCommandFailure
<1>2. CASE open[s] = {}
  <2>1. PICK id \in Ids \ used : /\ used' = used \cup {id} /\ UNCHANGED open
                                 /\ Write(<<RunOp(s, NewState(id)), FinishOp(NewState(id), "error")>>)
    BY <1>2 DEF NoteCommandFailure
  <2> DEFINE st == NewState(id)
             r == RunOp(s, st)
             e == FinishOp(st, "error")
             ops == <<r, e>>
  <2>2. used' \in SUBSET Nat /\ used \subseteq used' /\ used' \subseteq Ids
    BY <2>1, Known DEF LInv
  <2>3. st \in StatesOf(used', clock) /\ st.id = id
    BY <2>1, Known DEF NewState, StatesOf
  <2> HIDE DEF st
  <2>4. r \in Ops(used') /\ r.op = "run_start" /\ r.run.id = id
    BY <2>2, <2>3, RunOps, Known
  <2>5. e \in Ops(used') /\ Ends(e, id)
    BY <2>2, <2>3, EndOps, Known DEF Terminal
  <2> HIDE DEF r, e
  <2>6. ops \in Seq(Ops(used')) /\ Len(ops) = 2 /\ ops[1] = r /\ ops[2] = e
    BY <2>4, <2>5
  <2>7. RepoOK(repo, used') /\ Write(ops)
    BY <2>1, <2>2, RepoGrows DEF LInv, r, e, st
  <2> HIDE DEF ops
  <2>8. /\ RepoOK(repo', used') /\ (repo.lost => repo'.lost)
        /\ ~repo'.lost => \A i : Loose(repo', i) =>
             /\ Loose(repo, i) \/ \E k \in 1 .. Len(ops) : Starts(ops[k], i)
             /\ Len(ops) # 0 => ~Ends(ops[Len(ops)], i)
    BY <2>2, <2>6, <2>7, Written
  <2>9. \A k \in 1 .. Len(ops) : \A i : Starts(ops[k], i) => i = id
    <3>1. \A k \in 1 .. Len(ops) : k = 1 \/ k = 2
      BY <2>6
    <3>2. \A i : ~Starts(e, i)
      BY <2>5 DEF Starts, Ends
    <3> QED BY <2>4, <2>6, <3>1, <3>2 DEF Starts
  <2>10. ASSUME ~repo'.lost, NEW i \in used', Loose(repo', i) PROVE i \in orphans \cup OpenIds(open')
    <3>1. i # id
      BY <2>5, <2>6, <2>8, <2>10
    <3>2. Loose(repo, i) /\ ~repo.lost
      BY <2>8, <2>9, <2>10, <3>1
    <3>3. i \in used
      BY <2>1, <3>1
    <3> QED BY <2>1, <3>2, <3>3 DEF LInv, NothingLoose
  <2>11. /\ open' = [open EXCEPT ![s] = open'[s]] /\ open'[s] = open[s] /\ open'[s] \subseteq StatesOf(used', clock)
         /\ \A x, y \in open'[s] : x = y
    BY <1>2, <2>1, Known DEF LInv
  <2> QED BY <2>2, <2>8, <2>10, <2>11 DEF Handled
<1> QED BY <1>1, <1>2
-----------------------------------------------------------------------------
(* The steps of the sessions *)

LEMMA SessionStep ==
  ASSUME LInv, LedgerAssumption, NEW s \in Sessions, Handled(s),
         NEW to \in Phases, sdk' = [sdk EXCEPT ![s] = to], erred' \in [Sessions -> BOOLEAN], Rest,
         to \in {"gone", "dying"} => open'[s] = {},
         to \in {"idle", "resting"} => \A st \in open'[s] : Untouched(st)
  PROVE  LInv'
<1>1. /\ bound' = bound /\ clock' = clock /\ service' = service /\ cut' = cut /\ orphans' = orphans
      /\ Ids' = Ids /\ Time' = Time
  BY DEF Rest, world, Ids, Time
<1>2. /\ sdk' \in [Sessions -> Phases] /\ sdk'[s] = to
      /\ \A t \in Sessions \ {s} : sdk'[t] = sdk[t] /\ open'[t] = open[t]
      /\ open' = [t \in Sessions |-> open'[t]]
  BY Known DEF LInv, Handled
<1>3. ASSUME NEW t \in Sessions PROVE OpenOK(t)' /\ Rested(t)'
  <2>1. CASE t = s
    BY <1>1, <1>2, <2>1 DEF Handled, OpenOK, Rested
  <2>2. CASE t # s
    <3>1. OpenOK(t) /\ Rested(t) /\ StatesOf(used, clock) \subseteq StatesOf(used', clock)
      BY Known, StatesGrow DEF LInv, Handled
    <3> QED BY <1>1, <1>2, <2>2, <3>1 DEF OpenOK, Rested
  <2> QED BY <2>1, <2>2
<1>4. /\ used' \subseteq Ids' /\ cut' \subseteq used' /\ orphans' \subseteq used' /\ NothingLoose'
  BY <1>1 DEF LInv, Handled, NothingLoose
<1>5. bound' \in Scenarios /\ clock' \in Time' /\ service' \in {"up", "closing", "down"}
  BY <1>1 DEF LInv
<1>6. RepoOK(repo', used')
  BY DEF Handled
<1> QED BY <1>2, <1>3, <1>4, <1>5, <1>6 DEF LInv

\* What a handler that begins a run where none is open works on.
LEMMA CurrentRun ==
  ASSUME LInv, LedgerAssumption, StoreAssumption, NEW s \in Sessions, NEW st, Current(s, st)
  PROVE  /\ used \subseteq used' /\ used' \subseteq Ids /\ used' \in SUBSET Nat
         /\ st \in StatesOf(used', clock) /\ \A x \in open[s] : x = st
         /\ StartOps(s, st) \in OpsFor(used', st.id)
         /\ open[s] = {} => Untouched(st)
<1>1. CASE open[s] = {st} /\ UNCHANGED used
  BY <1>1, Known, OpsOne DEF LInv, OpenOK, StartOps
<1>2. CASE open[s] = {} /\ used' = used \cup {st.id} /\ \E id \in Ids \ used : st = NewState(id)
  <2>1. PICK id \in Ids \ used : st = NewState(id)
    BY <1>2
  <2>2. st.id = id /\ used' = used \cup {id}
    BY <1>2, <2>1 DEF NewState
  <2>3. used \subseteq used' /\ used' \subseteq Ids /\ used' \in SUBSET Nat
    BY <2>1, <2>2, Known DEF LInv
  <2>4. st \in StatesOf(used', clock) /\ Untouched(st)
    BY <2>1, <2>2, Known DEF NewState, StatesOf, Untouched
  <2>5. StartOps(s, st) = <<RunOp(s, st)>>
    BY <1>2 DEF StartOps
  <2> QED BY <1>2, <2>3, <2>4, <2>5, RunOps, Known
<1> QED BY <1>1, <1>2 DEF Current

LEMMA RunBegun ==
  ASSUME LInv, LedgerAssumption, StoreAssumption, NEW s \in Sessions, NEW st, Current(s, st),
         NEW new \in StatesOf(used', clock), new.id = st.id, Keep(s, new), Write(StartOps(s, st))
  PROVE  Handled(s) /\ open'[s] = {new}
<1>1. /\ used \subseteq used' /\ used' \subseteq Ids /\ StartOps(s, st) \in OpsFor(used', new.id)
      /\ \A x \in open[s] : x.id = new.id
  BY CurrentRun
<1>2. open' = [open EXCEPT ![s] = {new}]
  BY DEF Keep
<1> QED BY <1>1, <1>2, RunKept

\* An event of a request moves the session among the phases of one.
LEMMA InRequest ==
  ASSUME LInv, LedgerAssumption, NEW s \in Sessions, Handled(s), NEW from, NEW to \in Streaming, Go(s, from, to),
         erred' \in [Sessions -> BOOLEAN], Rest
  PROVE  LInv'
<1>1. to \in Phases /\ to \notin {"gone", "dying"} /\ to \notin {"idle", "resting"}
  BY DEF Streaming, Phases
<1> QED BY <1>1, SessionStep DEF Go

LEMMA QuietIs ==
  ASSUME LInv, Quiet
  PROVE  erred' \in [Sessions -> BOOLEAN] /\ Rest
BY DEF LInv, Quiet

LEMMA PromptStep ==
  ASSUME LInv, LedgerAssumption, StoreAssumption, NEW s \in Sessions, Prompt(s) \/ Continue(s)
  PROVE  LInv'
<1>1. PICK st \in States(s) : Current(s, st) /\ Keep(s, st) /\ Write(StartOps(s, st))
  BY DEF Prompt, Continue, OnAgentStart
<1>2. Handled(s)
  BY <1>1, CurrentRun, RunBegun
<1>3. Go(s, {"idle"}, "begun") \/ Go(s, {"answered"}, "begun")
  BY DEF Prompt, Continue
<1>4. Quiet /\ "begun" \in Streaming
  BY DEF Prompt, Continue, Streaming
<1> QED BY <1>2, <1>3, <1>4, QuietIs, InRequest

LEMMA TurnStep ==
  ASSUME LInv, LedgerAssumption, StoreAssumption, NEW s \in Sessions, Turn(s)
  PROVE  LInv'
<1>1. PICK st \in States(s) : /\ Current(s, st)
                              /\ Keep(s, [st EXCEPT !.turns = @ + 1, !.llm = {clock}])
                              /\ Write(StartOps(s, st) \o LlmOps(st))
  BY DEF Turn, OnTurnStart
<1> DEFINE new == [st EXCEPT !.turns = @ + 1, !.llm = {clock}]
<1>2. st \in StatesOf(used', clock) /\ clock \in Nat /\ used' \in SUBSET Nat
  BY <1>1, CurrentRun, Known
<1>3. new \in StatesOf(used', clock) /\ new.id = st.id
  <2>1. st.turns + 1 \in Nat /\ {clock} \in SUBSET (0 .. clock)
    BY <1>2 DEF StatesOf
  <2> QED BY <1>2, <2>1 DEF StatesOf
<1>4. StartOps(s, st) \o LlmOps(st) \in OpsFor(used', st.id)
  <2>1. LlmOps(st) \in OpsFor(used', st.id)
    <3>1. {} \in SUBSET (0 .. clock) /\ "llm_call" \in StepKinds
      BY DEF StepKinds
    <3> QED BY <1>2, <3>1, NoteOps
  <2> QED BY <1>1, <2>1, CurrentRun, OpsJoin
<1> HIDE DEF new
<1>5. Handled(s)
  <2>1. /\ used \subseteq used' /\ used' \subseteq Ids /\ StartOps(s, st) \o LlmOps(st) \in OpsFor(used', new.id)
        /\ \A x \in open[s] : x.id = new.id
    BY <1>1, <1>3, <1>4, CurrentRun
  <2>2. open' = [open EXCEPT ![s] = {new}]
    BY <1>1 DEF Keep, new
  <2> QED BY <1>1, <1>3, <2>1, <2>2, RunKept
<1>6. Go(s, {"begun", "answered"}, "thinking") /\ Quiet /\ "thinking" \in Streaming
  BY DEF Turn, Streaming
<1> QED BY <1>5, <1>6, QuietIs, InRequest

\* the run of a session as its state holds it
LEMMA OpenRun ==
  ASSUME LInv, LedgerAssumption, NEW s \in Sessions, NEW st \in open[s]
  PROVE  /\ st \in StatesOf(used, clock) /\ open[s] = {st} /\ used \in SUBSET Nat /\ clock \in Nat
         /\ used \subseteq Ids
BY Known DEF LInv, OpenOK

\* The open run goes on and a step of it, or nothing, is written.
LEMMA RunGoesOn ==
  ASSUME LInv, LedgerAssumption, NEW s \in Sessions, NEW st \in open[s],
         NEW new \in StatesOf(used, clock), new.id = st.id, Keep(s, new), used' = used,
         NEW ops \in OpsFor(used, st.id), Write(ops)
  PROVE  Handled(s) /\ open'[s] = {new}
<1>1. /\ used \subseteq used' /\ used' \subseteq Ids /\ ops \in OpsFor(used', new.id)
      /\ new \in StatesOf(used', clock) /\ \A x \in open[s] : x.id = new.id
  BY OpenRun
<1>2. open' = [open EXCEPT ![s] = {new}]
  BY DEF Keep
<1> QED BY <1>1, <1>2, RunKept

LEMMA MessageEndsStep ==
  ASSUME LInv, LedgerAssumption, NEW s \in Sessions, MessageEnds(s)
  PROVE  LInv'
<1>1. PICK stop \in {"stop", "error", "aborted"} :
        OnMessageEnd(s, stop) /\ erred' = [erred EXCEPT ![s] = @ \/ stop = "error"]
  BY DEF MessageEnds
<1>2. Handled(s)
  <2>1. CASE open[s] = {}
    BY <1>1, <2>1, RunSame DEF OnMessageEnd
  <2>2. CASE open[s] # {}
    <3>1. PICK st \in open[s] :
            /\ Keep(s, [st EXCEPT !.aborted = (stop = "aborted"), !.failed = @ \/ stop = "error", !.llm = {}])
            /\ UNCHANGED used /\ Write(LlmOps(st))
      BY <1>1, <2>2 DEF OnMessageEnd
    <3> DEFINE ab == stop = "aborted"
               fa == st.failed \/ stop = "error"
    <3>2. ab \in BOOLEAN /\ fa \in BOOLEAN
      OBVIOUS
    <3> HIDE DEF ab, fa
    <3> DEFINE new == [st EXCEPT !.aborted = ab, !.failed = fa, !.llm = {}]
    <3>3. st \in StatesOf(used, clock) /\ used \in SUBSET Nat /\ clock \in Nat
      BY OpenRun
    <3>4. new \in StatesOf(used, clock) /\ new.id = st.id
      BY <3>2, <3>3 DEF StatesOf
    <3>5. LlmOps(st) \in OpsFor(used, st.id)
      <4>1. {} \in SUBSET (0 .. clock) /\ "llm_call" \in StepKinds
        BY DEF StepKinds
      <4> QED BY <3>3, <4>1, NoteOps
    <3> HIDE DEF new
    <3>6. Keep(s, new)
      BY <3>1 DEF new, ab, fa
    <3> QED BY <3>1, <3>4, <3>5, <3>6, RunGoesOn
  <2> QED BY <2>1, <2>2
<1>3. erred' \in [Sessions -> BOOLEAN]
  <2> DEFINE e == erred[s] \/ stop = "error"
  <2>1. e \in BOOLEAN
    OBVIOUS
  <2>2. erred' = [erred EXCEPT ![s] = e]
    BY <1>1
  <2> HIDE DEF e
  <2> QED BY <2>1, <2>2 DEF LInv
<1>4. Go(s, {"thinking"}, "answered") /\ Rest /\ "answered" \in Streaming
  BY DEF MessageEnds, Streaming
<1> QED BY <1>2, <1>3, <1>4, InRequest

LEMMA CallStep ==
  ASSUME LInv, LedgerAssumption, StoreAssumption, NEW s \in Sessions, Call(s)
  PROVE  LInv'
<1>1. PICK st \in States(s) : /\ Current(s, st) /\ Keep(s, [st EXCEPT !.tool = {clock}])
                              /\ Write(StartOps(s, st))
  BY DEF Call, OnToolStart
<1>2. st \in StatesOf(used', clock) /\ clock \in Nat
  BY <1>1, CurrentRun, Known
<1>3. [st EXCEPT !.tool = {clock}] \in StatesOf(used', clock) /\ [st EXCEPT !.tool = {clock}].id = st.id
  BY <1>2 DEF StatesOf
<1>4. Handled(s)
  BY <1>1, <1>3, RunBegun
<1>5. Go(s, {"answered"}, "calling") /\ Quiet /\ "calling" \in Streaming
  BY DEF Call, Streaming
<1> QED BY <1>4, <1>5, QuietIs, InRequest

\* The gates note in the state of the run, if one is open.
LEMMA GateStep ==
  ASSUME LInv, LedgerAssumption, NEW s \in Sessions, Ask(s) \/ AskQuestion(s) \/ Block(s)
  PROVE  LInv'
<1>1. \A st \in open[s] : st \in StatesOf(used, clock) /\ open[s] = {st} /\ clock \in Nat
  BY OpenRun
<1>2. CASE NoteWait(s)
  <2> DEFINE runs == {[st EXCEPT !.wait = {clock}] : st \in open[s]}
  <2>1. used' = used /\ repo' = repo /\ open' = [open EXCEPT ![s] = runs]
    BY <1>2 DEF NoteWait, NoWrite
  <2>2. \A st \in open[s] : [st EXCEPT !.wait = {clock}] \in StatesOf(used, clock)
                            /\ [st EXCEPT !.wait = {clock}].id = st.id
    BY <1>1 DEF StatesOf
  <2>3. runs \subseteq StatesOf(used, clock) /\ {st.id : st \in open[s]} \subseteq {st.id : st \in runs}
    BY <2>2
  <2>4. \A x, y \in runs : x = y
    BY <1>1
  <2> HIDE DEF runs
  <2> QED BY <2>1, <2>3, <2>4, RunNoted, SessionStep, InRequest, QuietIs DEF Ask, AskQuestion, Block, Streaming
<1>3. CASE NoteToolBlock(s)
  <2> DEFINE noted(st) == [st EXCEPT !.note = IF @ = {} THEN {"plan_mode"} ELSE @]
             runs == {noted(st) : st \in open[s]}
  <2>1. used' = used /\ repo' = repo /\ open' = [open EXCEPT ![s] = runs]
    BY <1>3 DEF NoteToolBlock, NoWrite
  <2>2. \A st \in open[s] : noted(st) \in StatesOf(used, clock) /\ noted(st).id = st.id
    BY <1>1 DEF StatesOf, Causes
  <2> HIDE DEF noted
  <2>3. runs \subseteq StatesOf(used, clock) /\ {st.id : st \in open[s]} \subseteq {st.id : st \in runs}
    BY <2>2
  <2>4. \A x, y \in runs : x = y
    BY <1>1
  <2> HIDE DEF runs
  <2> QED BY <2>1, <2>3, <2>4, RunNoted, InRequest, QuietIs DEF Ask, AskQuestion, Block, Streaming
<1> QED BY <1>2, <1>3 DEF Ask, AskQuestion, Block

LEMMA AnswerStep ==
  ASSUME LInv, LedgerAssumption, NEW s \in Sessions, Decide(s) \/ Reply(s)
  PROVE  LInv'
<1>1. ASSUME NEW st \in open[s] PROVE st \in StatesOf(used, clock) /\ clock \in Nat /\ Waited(st) \in Nat
  BY OpenRun, WaitedTyped
<1>2. CASE Decide(s)
  <2>1. PICK d \in Decisions \ {"none"} :
          /\ Go(s, {"asking"}, IF d = "approved" THEN "working" ELSE "refused")
          /\ NoteApprovalDecision(s, d)
    BY <1>2 DEF Decide
  <2>2. Handled(s)
    <3>1. CASE open[s] = {}
      BY <2>1, <3>1, RunSame DEF NoteApprovalDecision
    <3>2. CASE open[s] # {}
      <4>1. PICK st \in open[s] : Keep(s, Decided(st, d)) /\ UNCHANGED used /\ Write(ApprovalOps(st, d))
        BY <2>1, <3>2 DEF NoteApprovalDecision
      <4>2. Decided(st, d) \in StatesOf(used, clock) /\ Decided(st, d).id = st.id
        BY <1>1 DEF StatesOf, Decided, Causes
      <4>3. ApprovalOps(st, d) \in OpsFor(used, st.id)
        BY OpenRun, DecisionOps
      <4> QED BY <4>1, <4>2, <4>3, RunGoesOn
    <3> QED BY <3>1, <3>2
  <2>3. (IF d = "approved" THEN "working" ELSE "refused") \in Streaming /\ Quiet
    BY <1>2 DEF Decide, Streaming
  <2> QED BY <2>1, <2>2, <2>3, QuietIs, InRequest
<1>3. CASE Reply(s)
  <2>1. Handled(s)
    <3>1. CASE open[s] = {}
      BY <1>3, <3>1, RunSame DEF Reply, NoteQuestionDecision
    <3>2. CASE open[s] # {}
      <4>1. PICK st \in open[s] : /\ Keep(s, [st EXCEPT !.waited = Waited(st), !.wait = {}])
                                  /\ UNCHANGED used /\ Write(QuestionOps(st))
        BY <1>3, <3>2 DEF Reply, NoteQuestionDecision
      <4>2. /\ [st EXCEPT !.waited = Waited(st), !.wait = {}] \in StatesOf(used, clock)
            /\ [st EXCEPT !.waited = Waited(st), !.wait = {}].id = st.id
        BY <1>1 DEF StatesOf
      <4>3. QuestionOps(st) \in OpsFor(used, st.id)
        <5>1. "denied" \in Decisions \ {"none"}
          BY DEF Decisions
        <5> QED BY <5>1, OpenRun, DecisionOps
      <4> QED BY <4>1, <4>2, <4>3, RunGoesOn
    <3> QED BY <3>1, <3>2
  <2>2. Go(s, {"asked"}, "working") /\ Quiet /\ "working" \in Streaming
    BY <1>3 DEF Reply, Streaming
  <2> QED BY <2>1, <2>2, QuietIs, InRequest
<1> QED BY <1>2, <1>3

LEMMA EndCallStep ==
  ASSUME LInv, LedgerAssumption, NEW s \in Sessions, EndCall(s)
  PROVE  LInv'
<1>1. PICK error \in BOOLEAN, marked \in BOOLEAN : OnToolEnd(s, error, marked)
  BY DEF EndCall
<1>2. Handled(s)
  <2>1. CASE open[s] = {}
    BY <1>1, <2>1, RunSame DEF OnToolEnd
  <2>2. CASE open[s] # {}
    <3>1. PICK st \in open[s] :
            /\ Keep(s, [st EXCEPT !.tool = {}, !.note = {}]) /\ UNCHANGED used
            /\ Write(<<Taken([run |-> st.id, kind |-> "tool_call", at |-> Since(st.tool),
                              dur |-> clock - Since(st.tool), error |-> error,
                              blocked |-> Cause(st, error, marked), decision |-> "none"])>>)
      BY <1>1, <2>2 DEF OnToolEnd
    <3>2. st \in StatesOf(used, clock) /\ used \in SUBSET Nat /\ clock \in Nat
      BY OpenRun
    <3>3. /\ [st EXCEPT !.tool = {}, !.note = {}] \in StatesOf(used, clock)
          /\ [st EXCEPT !.tool = {}, !.note = {}].id = st.id
      BY <3>2 DEF StatesOf
    <3>4. <<Taken([run |-> st.id, kind |-> "tool_call", at |-> Since(st.tool),
                   dur |-> clock - Since(st.tool), error |-> error,
                   blocked |-> Cause(st, error, marked), decision |-> "none"])>> \in OpsFor(used, st.id)
      BY <3>2, CallOps
    <3> QED BY <3>1, <3>3, <3>4, RunGoesOn
  <2> QED BY <2>1, <2>2
<1>3. /\ Go(s, {"calling", "working", "refused"}, "answered") /\ erred' = erred /\ Rest
      /\ "answered" \in Streaming
  BY DEF EndCall, Streaming
<1>4. erred' \in [Sessions -> BOOLEAN]
  BY <1>3 DEF LInv
<1> QED BY <1>2, <1>3, <1>4, InRequest

\* A compaction, of a request or by hand.
LEMMA PackStep ==
  ASSUME LInv, LedgerAssumption, StoreAssumption, NEW s \in Sessions, Pack(s)
  PROVE  LInv'
<1>1. PICK st \in States(s) : /\ Current(s, st) /\ Keep(s, [st EXCEPT !.packed = {clock}])
                              /\ Write(StartOps(s, st))
  BY DEF Pack, OnCompactionStart
<1> DEFINE new == [st EXCEPT !.packed = {clock}]
<1>2. st \in StatesOf(used', clock) /\ clock \in Nat /\ (open[s] = {} => Untouched(st)) /\ \A x \in open[s] : x = st
  BY <1>1, CurrentRun, Known
<1>3. new \in StatesOf(used', clock) /\ new.id = st.id /\ (Untouched(st) => Untouched(new))
  BY <1>2 DEF StatesOf, Untouched
<1> HIDE DEF new
<1>4. Handled(s) /\ open'[s] = {new}
  BY <1>1, <1>3, RunBegun DEF new
<1>5. CASE Go(s, {"answered"}, "packing")
  BY <1>4, <1>5, QuietIs, InRequest DEF Pack, Streaming
<1>6. CASE Go(s, {"idle"}, "resting")
  <2>1. sdk[s] = "idle"
    BY <1>6 DEF Go
  <2>2. Untouched(new)
    BY <1>2, <1>3, <2>1 DEF LInv, Rested
  <2> QED BY <1>4, <1>6, <2>2, QuietIs, SessionStep DEF Pack, Go, Phases
<1> QED BY <1>5, <1>6 DEF Pack

LEMMA PackedStep ==
  ASSUME LInv, LedgerAssumption, NEW s \in Sessions, Packed(s)
  PROVE  LInv'
<1>1. /\ Handled(s)
      /\ (\A st \in open[s] : Untouched(st)) => \A st \in open'[s] : Untouched(st)
  <2>1. CASE open[s] = {}
    BY <2>1, RunSame DEF Packed, OnCompactionEnd
  <2>2. CASE open[s] # {}
    <3>1. PICK st \in open[s] : /\ Keep(s, [st EXCEPT !.packed = {}]) /\ UNCHANGED used
                                /\ Write(<<NoteOp(st, "compaction", st.packed)>>)
      BY <2>2 DEF Packed, OnCompactionEnd
    <3> DEFINE new == [st EXCEPT !.packed = {}]
    <3>2. st \in StatesOf(used, clock) /\ used \in SUBSET Nat /\ clock \in Nat
      BY OpenRun
    <3>3. new \in StatesOf(used, clock) /\ new.id = st.id /\ (Untouched(st) => Untouched(new))
      BY <3>2 DEF StatesOf, Untouched
    <3>4. <<NoteOp(st, "compaction", st.packed)>> \in OpsFor(used, st.id)
      <4>1. st.packed \in SUBSET (0 .. clock) /\ "compaction" \in StepKinds
        BY <3>2 DEF StatesOf, StepKinds
      <4> QED BY <3>2, <4>1, NoteOps
    <3> HIDE DEF new
    <3>5. Handled(s) /\ open'[s] = {new}
      BY <3>1, <3>3, <3>4, RunGoesOn DEF new
    <3> QED BY <3>3, <3>5
  <2> QED BY <2>1, <2>2
<1>2. CASE Go(s, {"packing"}, "answered")
  BY <1>1, <1>2, QuietIs, InRequest DEF Packed, Streaming
<1>3. CASE Go(s, {"resting"}, "idle")
  <2>1. \A st \in open[s] : Untouched(st)
    BY <1>3 DEF Go, LInv, Rested
  <2> QED BY <1>1, <1>3, <2>1, QuietIs, SessionStep DEF Packed, Go, Phases
<1> QED BY <1>2, <1>3 DEF Packed

\* A change of the configuration, or a context, while a run is open.
LEMMA NoteStep ==
  ASSUME LInv, LedgerAssumption, NEW s \in Sessions, Configure(s) \/ Inject(s)
  PROVE  LInv'
<1>1. ASSUME NEW st \in open[s], NEW kind \in StepKinds, Same(s), Write(<<NoteOp(st, kind, {})>>)
      PROVE  Handled(s)
  <2>1. st \in StatesOf(used, clock) /\ used \in SUBSET Nat /\ clock \in Nat /\ open[s] = {st}
    BY OpenRun
  <2>2. <<NoteOp(st, kind, {})>> \in OpsFor(used, st.id)
    <3>1. {} \in SUBSET (0 .. clock)
      OBVIOUS
    <3> QED BY <2>1, <3>1, NoteOps
  <2>3. Keep(s, st) /\ used' = used
    BY <1>1, <2>1, Known DEF Same, Keep, LInv
  <2> QED BY <1>1, <2>1, <2>2, <2>3, RunGoesOn
<1>2. CASE Configure(s)
  BY <1>1, <1>2, QuietIs, InRequest DEF Configure, RecordConfigChange, Streaming, StepKinds
<1>3. CASE Inject(s)
  BY <1>1, <1>3, QuietIs, InRequest DEF Inject, NoteContextMessages, Streaming, StepKinds
<1> QED BY <1>2, <1>3

\* The end of a run that holds st: it may change to the state end first, and ops go ahead.
LEMMA FinalizeIs ==
  ASSUME LInv, LedgerAssumption, NEW s \in Sessions, NEW st \in open[s],
         NEW end \in StatesOf(used, clock), end.id = st.id, NEW ops \in OpsFor(used, st.id),
         NEW status \in Terminal, Finalize(s, end, ops, status)
  PROVE  Handled(s) /\ open'[s] = {}
<1>1. used \in SUBSET Nat /\ clock \in Nat
  BY OpenRun
<1>2. LlmOps(end) \in OpsFor(used, st.id)
  <2>1. {} \in SUBSET (0 .. clock) /\ "llm_call" \in StepKinds
    BY DEF StepKinds
  <2> QED BY <1>1, <2>1, NoteOps
<1>3. ops \o LlmOps(end) \in OpsFor(used, st.id)
  BY <1>2, OpsJoin
<1>4. used' = used /\ open' = [open EXCEPT ![s] = {}] /\ Write((ops \o LlmOps(end)) \o <<FinishOp(end, status)>>)
  BY DEF Finalize
<1> QED BY <1>3, <1>4, RunClosed

LEMMA SettleStep ==
  ASSUME LInv, LedgerAssumption, NEW s \in Sessions, SettleRequest(s)
  PROVE  LInv'
<1>1. Handled(s) /\ open'[s] = {}
  <2>1. CASE open[s] = {}
    BY <2>1, RunSame DEF SettleRequest, OnSettled
  <2>2. CASE open[s] # {}
    <3>1. PICK st \in open[s] : Finalize(s, st, <<>>, StatusOf(st))
      BY <2>2 DEF SettleRequest, OnSettled
    <3>2. StatusOf(st) \in Terminal /\ <<>> \in OpsFor(used, st.id) /\ st \in StatesOf(used, clock)
      BY OpsOne, OpenRun DEF StatusOf, Terminal
    <3> QED BY <3>1, <3>2, FinalizeIs
  <2> QED BY <2>1, <2>2
<1>2. erred' \in [Sessions -> BOOLEAN]
  BY DEF SettleRequest, LInv
<1> QED BY <1>1, <1>2, SessionStep DEF SettleRequest, Go, Phases

\* What is cut short by the deletion or the close of its session.
LEMMA CutShortIs ==
  ASSUME LInv, LedgerAssumption, NEW s \in Sessions, CutShort(s)
  PROVE  Handled(s) /\ open'[s] = {}
<1>1. CASE open[s] = {}
  BY <1>1, RunSame DEF CutShort
<1>2. CASE open[s] # {}
  <2>1. PICK st \in open[s] :
          IF sdk[s] = "asking"
          THEN Finalize(s, Decided(st, "denied"), ApprovalOps(st, "denied"), "aborted")
          ELSE IF sdk[s] = "asked" /\ service = "closing"
          THEN Finalize(s, [st EXCEPT !.waited = Waited(st)], QuestionOps(st), "aborted")
          ELSE Finalize(s, st, <<>>, "aborted")
    BY <1>2 DEF CutShort
  <2>2. /\ st \in StatesOf(used, clock) /\ clock \in Nat /\ Waited(st) \in Nat /\ used \in SUBSET Nat
        /\ "aborted" \in Terminal /\ "denied" \in Decisions \ {"none"}
    BY OpenRun, WaitedTyped DEF Terminal, Decisions
  <2>3. Decided(st, "denied") \in StatesOf(used, clock) /\ Decided(st, "denied").id = st.id
    BY <2>2 DEF StatesOf, Decided, Causes
  <2>4. /\ [st EXCEPT !.waited = Waited(st)] \in StatesOf(used, clock)
        /\ [st EXCEPT !.waited = Waited(st)].id = st.id
    BY <2>2 DEF StatesOf
  <2>5. /\ ApprovalOps(st, "denied") \in OpsFor(used, st.id) /\ QuestionOps(st) \in OpsFor(used, st.id)
        /\ <<>> \in OpsFor(used, st.id)
    BY <2>2, DecisionOps, OpsOne
  <2>6. CASE Finalize(s, Decided(st, "denied"), ApprovalOps(st, "denied"), "aborted")
    BY <2>2, <2>3, <2>5, <2>6, FinalizeIs
  <2>7. CASE Finalize(s, [st EXCEPT !.waited = Waited(st)], QuestionOps(st), "aborted")
    BY <2>2, <2>4, <2>5, <2>7, FinalizeIs
  <2>8. CASE Finalize(s, st, <<>>, "aborted")
    BY <2>2, <2>5, <2>8, FinalizeIs
  <2> QED BY <2>1, <2>6, <2>7, <2>8
<1> QED BY <1>1, <1>2

LEMMA CutStep ==
  ASSUME LInv, LedgerAssumption, NEW s \in Sessions, Delete(s) \/ Close(s)
  PROVE  LInv'
<1>1. Handled(s) /\ open'[s] = {}
  BY CutShortIs DEF Delete, Close
<1>2. erred' \in [Sessions -> BOOLEAN] /\ Rest
  BY DEF Delete, Close, LInv
<1>3. PICK to \in {"gone", "dying"} : sdk' = [sdk EXCEPT ![s] = to]
  BY DEF Delete, Close, Go
<1>4. to \in Phases
  BY <1>3 DEF Phases
<1> QED BY <1>1, <1>2, <1>3, <1>4, SessionStep

\* The session opens, goes, refuses a prompt, or its answer never ends.
LEMMA SameStep ==
  ASSUME LInv, LedgerAssumption, StoreAssumption, NEW s \in Sessions,
         OpenSession(s) \/ Drop(s) \/ Disposed(s) \/ Reject(s)
  PROVE  LInv'
<1>1. Handled(s) /\ open'[s] = open[s] /\ Rested(s)
  BY RunSame, RunRefused DEF OpenSession, Drop, Disposed, Reject, LInv
<1>2. CASE OpenSession(s)
  BY <1>1, <1>2, QuietIs, SessionStep DEF OpenSession, Go, Rested, Phases
<1>3. CASE Drop(s)
  BY <1>1, <1>3, QuietIs, InRequest DEF Drop, Streaming
<1>4. CASE Disposed(s)
  BY <1>1, <1>4, QuietIs, SessionStep DEF Disposed, Go, Rested, Phases
<1>5. CASE Reject(s)
  <2>1. sdk' = [sdk EXCEPT ![s] = sdk[s]] /\ sdk[s] \in Phases /\ Rest /\ erred' \in [Sessions -> BOOLEAN]
    BY <1>5 DEF Reject, Go, LInv
  <2> QED BY <1>1, <2>1, SessionStep DEF Rested
<1> QED BY <1>2, <1>3, <1>4, <1>5
-----------------------------------------------------------------------------
(* The steps of the process, and the invariant *)

\* The queue or the storage changes, the sessions stand still.
LEMMA RepoStep ==
  ASSUME LInv, LedgerAssumption, UNCHANGED <<session, bound, clock, orphans>>,
         service' \in {"up", "closing", "down"}, cut' \subseteq used, RepoOK(repo', used),
         ~repo'.lost => ~repo.lost /\ \A i : Loose(repo', i) => Loose(repo, i)
  PROVE  LInv'
<1>1. /\ sdk' = sdk /\ erred' = erred /\ open' = open /\ used' = used /\ bound' = bound /\ clock' = clock
      /\ orphans' = orphans /\ Ids' = Ids /\ Time' = Time
  BY DEF session, Ids, Time
<1>2. \A s \in Sessions : OpenOK(s)' /\ Rested(s)'
  BY <1>1 DEF LInv, OpenOK, Rested
<1>3. NothingLoose'
  BY <1>1 DEF LInv, NothingLoose
<1>4. /\ bound' \in Scenarios /\ sdk' \in [Sessions -> Phases] /\ erred' \in [Sessions -> BOOLEAN]
      /\ clock' \in Time' /\ used' \subseteq Ids' /\ cut' \subseteq used' /\ orphans' \subseteq used'
      /\ open' = [s \in Sessions |-> open'[s]] /\ RepoOK(repo', used')
  BY <1>1 DEF LInv
<1> QED BY <1>2, <1>3, <1>4 DEF LInv

LEMMA TickStep ==
  ASSUME LInv, LedgerAssumption, Tick
  PROVE  LInv'
<1>1. /\ sdk' = sdk /\ erred' = erred /\ open' = open /\ used' = used /\ bound' = bound /\ repo' = repo
      /\ orphans' = orphans /\ cut' = cut /\ service' = service /\ Ids' = Ids /\ Time' = Time
      /\ clock' = clock + 1
  BY DEF Tick, session, ghost, Ids, Time
<1>2. clock' \in Time' /\ clock \in Nat /\ clock' \in Nat /\ clock <= clock'
  BY <1>1, Known DEF Tick, Time, LInv, LedgerAssumption, Scenario
<1>3. StatesOf(used, clock) \subseteq StatesOf(used, clock')
  BY <1>2, StatesGrow
<1>4. \A s \in Sessions : OpenOK(s)' /\ Rested(s)'
  BY <1>1, <1>3 DEF LInv, OpenOK, Rested
<1>5. NothingLoose' /\ RepoOK(repo', used')
  BY <1>1 DEF LInv, NothingLoose
<1> QED BY <1>1, <1>2, <1>4, <1>5 DEF LInv

LEMMA FlushStep ==
  ASSUME LInv, LedgerAssumption, Flush
  PROVE  LInv'
<1>1. PICK ok \in BOOLEAN : repo' = Flushed(repo, ok)
  BY DEF Flush, Outcomes
<1>2. RepoOK(repo, used) /\ used \in SUBSET Nat
  BY Known DEF LInv
<1>3. /\ RepoOK(repo', used) /\ (repo.lost => repo'.lost)
      /\ ~repo'.lost => \A i : Loose(repo', i) => Loose(repo, i)
  BY <1>1, <1>2, FlushedSound
<1>4. /\ UNCHANGED <<session, bound, clock, orphans>> /\ service' \in {"up", "closing", "down"}
      /\ cut' \subseteq used
  BY DEF Flush, world, ghost, LInv
<1> QED BY <1>3, <1>4, RepoStep

LEMMA CloseStoreStep ==
  ASSUME LInv, LedgerAssumption, CloseStore
  PROVE  LInv'
<1>1. PICK ok \in BOOLEAN : repo' = [Flushed(repo, ok) EXCEPT !.closed = TRUE]
  BY DEF CloseStore, Outcomes
<1>2. RepoOK(repo, used) /\ used \in SUBSET Nat
  BY Known DEF LInv
<1> DEFINE r == Flushed(repo, ok)
<1>3. /\ RepoOK(r, used) /\ (repo.lost => r.lost)
      /\ ~r.lost => \A i : Loose(r, i) => Loose(repo, i)
  BY <1>2, FlushedSound
<1> HIDE DEF r
<1>4. /\ IsRecord(repo', Fields) /\ repo'.pending = r.pending /\ repo'.lost = r.lost
      /\ repo'.sqlite = r.sqlite /\ repo'.memory = r.memory
  BY <1>1, <1>3 DEF RepoOK, IsRecord, Fields, r
<1>5. RepoOK(repo', used) /\ \A i : Loose(repo', i) => Loose(r, i)
  BY <1>3, <1>4 DEF RepoOK, Loose
<1>6. /\ UNCHANGED <<session, bound, clock, orphans>> /\ service' \in {"up", "closing", "down"}
      /\ cut' \subseteq used
  BY DEF CloseStore, ghost, LInv
<1> QED BY <1>3, <1>4, <1>5, <1>6, RepoStep

\* Pruning takes rows away, and what it cuts are rows of known runs.
LEMMA PruneStep ==
  ASSUME LInv, LedgerAssumption, NEW before \in 1 .. bound.clock, Prune(before)
  PROVE  LInv'
<1>1. PICK ok \in BOOLEAN :
        LET r == Flushed(repo, ok)
        IN  /\ repo' = [r EXCEPT !.sqlite = PruneSqlite(@, before), !.memory = PruneMemory(@, before)]
            /\ cut' = cut \cup {x.id : x \in {y \in r.sqlite.runs : y.status = "running" /\ y.at < before}}
  BY DEF Prune, Outcomes
<1>2. RepoOK(repo, used) /\ used \in SUBSET Nat
  BY Known DEF LInv
<1> DEFINE r == Flushed(repo, ok)
<1>3. /\ RepoOK(r, used) /\ (repo.lost => r.lost)
      /\ ~r.lost => \A i : Loose(r, i) => Loose(repo, i)
  BY <1>2, FlushedSound
<1>4. /\ repo' = [r EXCEPT !.sqlite = PruneSqlite(@, before), !.memory = PruneMemory(@, before)]
      /\ cut' = cut \cup {x.id : x \in {y \in r.sqlite.runs : y.status = "running" /\ y.at < before}}
  BY <1>1
<1> HIDE DEF r
<1>5. /\ IsRecord(repo', Fields) /\ repo'.pending = r.pending /\ repo'.lost = r.lost
      /\ repo'.sqlite = PruneSqlite(r.sqlite, before) /\ repo'.memory = PruneMemory(r.memory, before)
  BY <1>3, <1>4 DEF RepoOK, IsRecord, Fields
<1>6. SqliteOK(repo'.sqlite, used) /\ repo'.sqlite.runs \subseteq r.sqlite.runs
  <2>1. SqliteOK(r.sqlite, used) /\ StepsFrom(r.sqlite.steps, before) \in Seq(Step)
    BY <1>3, StepsFromTyped DEF RepoOK, SqliteOK
  <2> QED BY <1>5, <2>1 DEF PruneSqlite, SqliteOK, IsRecord, Tables
<1>7. MemoryOK(repo'.memory)
  <2>1. MemoryOK(r.memory) /\ StepsFrom(r.memory.steps, before) \in Seq(Step)
    BY <1>3, StepsFromTyped DEF RepoOK, MemoryOK
  <2>2. /\ IsRecord(repo'.memory, Tables) /\ repo'.memory.steps = StepsFrom(r.memory.steps, before)
        /\ repo'.memory.runs = RestrictValues(r.memory.runs, LAMBDA x : x.at >= before)
    BY <1>5, <2>1 DEF PruneMemory, MemoryOK, IsRecord, Tables
  <2>3. /\ repo'.memory.runs = [i \in DOMAIN repo'.memory.runs |-> repo'.memory.runs[i]]
        /\ \A i \in DOMAIN repo'.memory.runs : repo'.memory.runs[i] \in Run
    BY <2>1, <2>2 DEF RestrictValues, Restrict, MemoryOK
  <2> QED BY <2>1, <2>2, <2>3 DEF MemoryOK
<1>8. RepoOK(repo', used)
  BY <1>3, <1>5, <1>6, <1>7 DEF RepoOK
<1>9. ASSUME NEW i, Loose(repo', i) PROVE Loose(r, i)
  <2>1. RunsIn(repo'.sqlite, i) => RunsIn(r.sqlite, i)
    BY <1>6 DEF RunsIn
  <2> QED BY <1>5, <1>9, <2>1 DEF Loose, Dangling
<1>10. cut' \subseteq used
  <2>1. \A x \in r.sqlite.runs : x.id \in used
    BY <1>3 DEF RepoOK, SqliteOK, Rows
  <2> QED BY <1>4, <2>1 DEF LInv
<1>11. UNCHANGED <<session, bound, clock, orphans>> /\ service' \in {"up", "closing", "down"}
  BY DEF Prune, world, LInv
<1> QED BY <1>3, <1>5, <1>8, <1>9, <1>10, <1>11, RepoStep

\* Nothing is queued, and the memory backend is empty.
LEMMA EmptyRepoOK ==
  ASSUME LedgerAssumption, NEW U, NEW db, SqliteOK(db, U), NEW r, IsRecord(r, Fields), r.pending = <<>>,
         r.lost \in BOOLEAN, r.sqlite = db, r.memory = EmptyMemory
  PROVE  RepoOK(r, U) /\ \A i : Loose(r, i) <=> RunsIn(db, i)
<1>1. MemoryOK(EmptyMemory)
  <2>1. EmptyMemory.runs = <<>> /\ EmptyMemory.steps = <<>> /\ IsRecord(EmptyMemory, Tables)
    BY DEF EmptyMemory, IsRecord, Tables
  <2>2. <<>> = [i \in DOMAIN <<>> |-> <<>>[i]] /\ DOMAIN <<>> = {}
    OBVIOUS
  <2> QED BY <2>1, <2>2 DEF MemoryOK
<1>2. Len(r.pending) < BatchSize /\ Len(r.pending) = 0 /\ r.pending \in Seq(Ops(U))
  BY DEF LedgerAssumption
<1>3. 1 .. 0 = {}
  OBVIOUS
<1> QED BY <1>1, <1>2, <1>3 DEF RepoOK, Loose, Dangling

LEMMA BootStep ==
  ASSUME LInv, LedgerAssumption, Boot
  PROVE  LInv'
<1>1. /\ repo' = [EmptyRepo(repo.sqlite) EXCEPT
                    !.failed = repo.failed, !.lost = repo.lost \/ repo.pending # <<>>, !.writes = repo.writes]
      /\ orphans' = orphans \cup {st.id : st \in UNION {open[s] : s \in Sessions}}
      /\ sdk' = [s \in Sessions |-> "gone"] /\ erred' = [s \in Sessions |-> FALSE]
      /\ open' = [s \in Sessions |-> {}]
      /\ used' = used /\ bound' = bound /\ clock' = clock /\ cut' = cut /\ service' = "up"
      /\ Ids' = Ids /\ Time' = Time
  BY DEF Boot, Ids, Time
<1> DEFINE lost == repo.lost \/ repo.pending # <<>>
<1>2. lost \in BOOLEAN
  OBVIOUS
<1>3. (repo'.lost = lost) /\ repo'.pending = <<>> /\ repo'.sqlite = repo.sqlite /\ repo'.memory = EmptyMemory
      /\ IsRecord(repo', Fields)
  BY <1>1 DEF EmptyRepo, IsRecord, Fields
<1>4. RepoOK(repo', used) /\ \A i : Loose(repo', i) <=> RunsIn(repo.sqlite, i)
  <2>1. SqliteOK(repo.sqlite, used)
    BY DEF LInv, RepoOK
  <2>2. repo'.lost \in BOOLEAN
    BY <1>2, <1>3
  <2> QED BY <1>3, <2>1, <2>2, EmptyRepoOK
<1>5. OpenIds(open) \subseteq orphans' /\ orphans' \subseteq used
  <2>1. \A s \in Sessions : \A st \in open[s] : st.id \in used
    BY DEF LInv, OpenOK, StatesOf
  <2> QED BY <1>1, <2>1 DEF OpenIds, LInv
<1>6. NothingLoose'
  <2> SUFFICES ASSUME ~repo'.lost, NEW i \in used, Loose(repo', i) PROVE i \in orphans'
    BY <1>1 DEF NothingLoose
  <2>1. ~repo.lost /\ repo.pending = <<>>
    BY <1>3
  <2>2. RunsIn(repo.sqlite, i)
    BY <1>4
  <2>3. Loose(repo, i)
    <3>1. Len(repo.pending) = 0 /\ 1 .. 0 = {}
      BY <2>1
    <3> QED BY <2>2, <3>1 DEF Loose, Dangling
  <2> QED BY <1>1, <1>5, <2>1, <2>3 DEF LInv, NothingLoose
<1>7. \A s \in Sessions : OpenOK(s)' /\ Rested(s)'
  BY <1>1 DEF OpenOK, Rested
<1>8. sdk' \in [Sessions -> Phases] /\ erred' \in [Sessions -> BOOLEAN] /\ open' = [s \in Sessions |-> open'[s]]
  BY <1>1 DEF Phases
<1> QED BY <1>1, <1>4, <1>5, <1>6, <1>7, <1>8 DEF LInv

LEMMA ShutdownStep ==
  ASSUME LInv, LedgerAssumption, Shutdown
  PROVE  LInv'
<1>1. UNCHANGED <<session, bound, clock, orphans>> /\ repo' = repo /\ cut' = cut /\ service' = "closing"
  BY DEF Shutdown, ghost
<1> QED BY <1>1, RepoStep DEF LInv

LEMMA LedgerStep ==
  ASSUME LInv, LedgerAssumption, StoreAssumption, [LedgerNext]_ledgerVars
  PROVE  LInv'
<1>1. ASSUME NEW s \in Sessions,
             \/ OpenSession(s) \/ Prompt(s) \/ Continue(s) \/ Turn(s) \/ MessageEnds(s) \/ Drop(s)
             \/ Call(s) \/ Ask(s) \/ Decide(s) \/ Block(s) \/ AskQuestion(s) \/ Reply(s) \/ EndCall(s)
             \/ Pack(s) \/ Packed(s) \/ Configure(s) \/ Inject(s) \/ SettleRequest(s) \/ Reject(s)
             \/ Delete(s) \/ Disposed(s) \/ Close(s)
      PROVE  LInv'
  BY <1>1, SameStep, PromptStep, TurnStep, MessageEndsStep, CallStep, GateStep, AnswerStep, EndCallStep,
     PackStep, PackedStep, NoteStep, SettleStep, CutStep
<1>2. CASE Tick \/ Flush \/ Shutdown \/ CloseStore \/ Boot
  BY <1>2, TickStep, FlushStep, ShutdownStep, CloseStoreStep, BootStep
<1>3. ASSUME NEW before \in 1 .. bound.clock, Prune(before) PROVE LInv'
  BY <1>3, PruneStep
<1>4. CASE UNCHANGED ledgerVars
  <2>1. UNCHANGED <<session, bound, clock, orphans>> /\ repo' = repo /\ cut' = cut /\ service' = service
    BY <1>4 DEF ledgerVars, world, ghost, session
  <2> QED BY <2>1, RepoStep DEF LInv
<1> QED BY <1>1, <1>2, <1>3, <1>4 DEF LedgerNext

LEMMA LedgerStarts ==
  ASSUME LedgerAssumption, LedgerInit
  PROVE  LInv
<1>1. SqliteOK(EmptySqlite, {})
  BY DEF EmptySqlite, SqliteOK, IsRecord, Tables
<1>2. /\ IsRecord(repo, Fields) /\ repo.pending = <<>> /\ repo.lost = FALSE /\ repo.sqlite = EmptySqlite
      /\ repo.memory = EmptyMemory
  BY DEF LedgerInit, EmptyRepo, IsRecord, Fields
<1>3. RepoOK(repo, {}) /\ used = {}
  BY <1>1, <1>2, EmptyRepoOK DEF LedgerInit
<1>4. \A s \in Sessions : OpenOK(s) /\ Rested(s)
  BY DEF LedgerInit, OpenOK, Rested
<1>5. clock \in Time /\ sdk \in [Sessions -> Phases] /\ erred \in [Sessions -> BOOLEAN]
  BY DEF LedgerInit, Time, Phases, LedgerAssumption, Scenario
<1>6. NothingLoose
  BY <1>3 DEF NothingLoose
<1> QED BY <1>3, <1>4, <1>5, <1>6 DEF LInv, LedgerInit

LEMMA LedgerHolds ==
  ASSUME LedgerAssumption, LInv
  PROVE  LedgerInv
<1>1. open \in [Sessions -> SUBSET State]
  <2>1. 0 .. clock \subseteq Time
    BY Known DEF LInv, Time, LedgerAssumption, Scenario
  <2>2. StatesOf(used, clock) \subseteq State
    BY <2>1 DEF StatesOf, State, LInv
  <2> QED BY <2>2 DEF LInv, OpenOK
<1>2. ASSUME NEW s \in Sessions PROVE Cardinality(open[s]) <= 1
  <2>1. CASE open[s] = {}
    BY <2>1, FS_EmptySet
  <2>2. CASE open[s] # {}
    <3>1. PICK st \in open[s] : open[s] = {st}
      BY <2>2 DEF LInv, OpenOK
    <3>2. Cardinality({st}) = 1
      BY FS_Singleton
    <3> QED BY <3>1, <3>2
  <2> QED BY <2>1, <2>2
<1>3. Rows(used) \subseteq Run /\ used \in SUBSET Nat
  BY Known DEF Rows, Run
<1>4. ASSUME NEW i \in DOMAIN repo.pending PROVE TraceOp(repo.pending[i])
  <2>1. repo.pending[i] \in Ops(used)
    BY DEF LInv, RepoOK
  <2> QED BY <1>3, <2>1 DEF Ops, TraceOp
<1>5. /\ repo.sqlite.runs \subseteq Run /\ repo.sqlite.steps \in Seq(Step)
      /\ Range(repo.memory.runs) \subseteq Run /\ repo.memory.steps \in Seq(Step)
      /\ Len(repo.pending) < BatchSize
  BY <1>3 DEF LInv, RepoOK, SqliteOK, MemoryOK, Range
<1>6. LedgerTypeOK
  BY <1>1, <1>2, <1>4, <1>5 DEF LInv, LedgerTypeOK
<1>7. \A s \in Sessions : sdk[s] \in {"idle", "gone", "dying"} =>
         \A st \in open[s] : sdk[s] = "idle" /\ st.turns = 0 /\ st.llm = {} /\ ~st.failed
  BY DEF LInv, Rested, Untouched
<1>8. ASSUME ~repo.lost, repo.pending = <<>>, NEW r \in repo.sqlite.runs, r.status = "running"
      PROVE  r.id \in orphans \cup {st.id : st \in UNION {open[s] : s \in Sessions}}
  <2>1. Loose(repo, r.id) /\ r.id \in used
    <3>1. Len(repo.pending) = 0 /\ 1 .. 0 = {}
      BY <1>8
    <3> QED BY <1>8, <3>1 DEF Loose, Dangling, RunsIn, LInv, RepoOK, SqliteOK, Rows
  <2>2. r.id \in orphans \cup OpenIds(open)
    BY <1>8, <2>1 DEF LInv, NothingLoose
  <2> QED BY <2>2 DEF OpenIds
<1>9. NoGhostRun
  BY <1>7, <1>8 DEF NoGhostRun
<1> QED BY <1>6, <1>9 DEF LedgerInv

\* A session that is at rest leaves no run open but that of a compaction by hand, and a row
\* that still runs belongs to an open run, to an orphan of a dead process, or something was
\* lost: for any sessions, batches, limits and scenarios, with every row and operation typed.
THEOREM NoRunIsLeftOver == LedgerSpec => []LedgerInv
<1>1. LedgerInit => LInv
  BY LedgerAssumption, LedgerStarts
<1>2. LInv /\ [LedgerNext]_ledgerVars => LInv'
  BY LedgerAssumption, StoreAssumption, LedgerStep
<1>3. LInv => LedgerInv
  BY LedgerAssumption, LedgerHolds
<1> QED BY <1>1, <1>2, <1>3, PTL DEF LedgerSpec
-----------------------------------------------------------------------------
(* The stream and the page *)

USE StreamAssumption

\* Above any frame on the wire nothing is missing, whichever entry last is of:
\* so the first frame of a new entry puts the page right for what follows.
NoHole == link = "open" => \A i \in wire : \A j \in 1 .. Len(log) :
                             j > i /\ ~Merged(j) => j \in wire

LastKnown == lastEntry = entry => last <= Len(log)

IInv == TypeOK /\ NothingSkipped /\ NothingTwice /\ NoHole /\ LastKnown
-----------------------------------------------------------------------------
\* What an event adds to the log and to the wire (publish).
Published(e) ==
    /\ log' = Append(log, e)
    /\ wire' = IF link = "open" THEN wire \cup {Len(log) + 1} ELSE wire

\* Every step of the SDK publishes one event, or is the settling of a turn that
\* touches neither log nor wire.
LEMMA SdkPublishes ==
  ASSUME TypeOK, Sdk
  PROVE  /\ \/ \E k \in Kinds, n \in Nat : Published(Event(k, n))
            \/ UNCHANGED <<log, wire>>
         /\ run' \in {"idle", "busy", "ended"} /\ asked' \in BOOLEAN /\ stored' \in Nat
         /\ (asked' => run' = "busy")
         /\ UNCHANGED <<entry, page, link, last, lastEntry, oldest>>
<1> USE DEF TypeOK, Publish, Published, Kinds
<1>1. CASE Begin
  BY <1>1 DEF Begin, Sdk
<1>2. CASE Produce
  <2>1. CASE stored < MaxMessages /\ Publish(Event("message", stored + 1)) /\ stored' = stored + 1
    BY <1>2, <2>1 DEF Produce, Sdk
  <2>2. CASE Publish(Event("update", 0)) /\ UNCHANGED stored
    BY <1>2, <2>2 DEF Produce, Sdk
  <2>3. CASE Publish(Event("compacted", 0)) /\ UNCHANGED stored
    BY <1>2, <2>3 DEF Produce, Sdk
  <2> QED BY <1>2, <2>1, <2>2, <2>3 DEF Produce
<1>3. CASE AskUser
  BY <1>3 DEF AskUser, Sdk
<1>4. CASE Resolve
  BY <1>4 DEF Resolve, Sdk
<1>5. CASE End
  BY <1>5 DEF End, Sdk
<1>6. CASE Settle
  BY <1>6 DEF Settle, Sdk
<1>7. CASE Compact
  BY <1>7 DEF Compact, Sdk
<1> QED BY <1>1, <1>2, <1>3, <1>4, <1>5, <1>6, <1>7 DEF Sdk

LEMMA NextPlace ==
  ASSUME NEW n \in Nat, NEW i \in 1 .. n, i < n PROVE i + 1 \in 1 .. n /\ i < n + 1
  OBVIOUS

\* A published event reaches the open stream, and the log it extends leaves out
\* of a replay what it left out before.
LEMMA PublishedIsCarried ==
  ASSUME IInv, NEW e \in [kind : Kinds, msg : Nat], Published(e),
         UNCHANGED <<entry, link, last, lastEntry, oldest>>
  PROVE  /\ log' \in Seq([kind : Kinds, msg : Nat]) /\ wire' \subseteq 1 .. Len(log')
         /\ NothingSkipped' /\ NothingTwice' /\ NoHole' /\ LastKnown'
<1>1. log \in Seq([kind : Kinds, msg : Nat]) /\ Len(log) \in Nat /\ last \in Nat
  BY DEF IInv, TypeOK
<1>2. /\ log' \in Seq([kind : Kinds, msg : Nat]) /\ Len(log') = Len(log) + 1
      /\ \A i \in 1 .. Len(log) : log'[i] = log[i]
  BY <1>1 DEF Published
<1>3. wire \subseteq 1 .. Len(log) /\ wire' \subseteq 1 .. Len(log')
  <2>1. wire \subseteq 1 .. Len(log)
    BY DEF IInv, TypeOK
  <2>2. \A i \in wire' : i \in wire \/ i = Len(log) + 1
    BY DEF Published
  <2>3. \A i \in 1 .. Len(log) : i \in 1 .. Len(log')
    BY <1>1, <1>2
  <2>4. Len(log) + 1 \in 1 .. Len(log')
    BY <1>1, <1>2
  <2> QED BY <2>1, <2>2, <2>3, <2>4
<1>4. \A i \in 1 .. Len(log) : Merged(i) => Merged(i)'
  <2> SUFFICES ASSUME NEW i \in 1 .. Len(log), Merged(i) PROVE Merged(i)'
    OBVIOUS
  <2>1. i < Len(log)
    BY DEF Merged
  <2>2. i + 1 \in 1 .. Len(log) /\ i < Len(log')
    <3>1. i + 1 \in 1 .. Len(log) /\ i < Len(log) + 1
      BY <1>1, <2>1, NextPlace
    <3> QED BY <1>2, <3>1
  <2>3. log'[i] = log[i] /\ log'[i + 1] = log[i + 1]
    BY <1>2, <2>2
  <2> QED BY <2>2, <2>3 DEF Merged
<1>5. \A i \in 1 .. Len(log') : i \in 1 .. Len(log) \/ i = Len(log) + 1
  BY <1>1, <1>2
<1>6. link = "open" => Len(log) + 1 \in wire' /\ wire \subseteq wire'
  BY DEF Published
<1>7. NothingSkipped'
  <2> SUFFICES ASSUME link = "open", lastEntry = entry, NEW i \in Due' PROVE i \in wire'
    BY DEF NothingSkipped
  <2>1. i \in 1 .. Len(log) => i \in Due
    BY <1>4 DEF Due
  <2> QED BY <1>5, <1>6, <2>1 DEF IInv, NothingSkipped, Due
<1>8. NoHole'
  <2> SUFFICES ASSUME link = "open", NEW i \in wire', NEW j \in 1 .. Len(log'), j > i,
                      ~Merged(j)'
               PROVE  j \in wire'
    BY DEF NoHole
  <2>1. CASE j = Len(log) + 1
    BY <1>6, <2>1
  <2>2. CASE j \in 1 .. Len(log)
    <3>1. i \in wire
      BY <1>1, <2>2 DEF Published
    <3> QED BY <1>4, <1>6, <2>2, <3>1 DEF IInv, NoHole
  <2> QED BY <1>5, <2>1, <2>2
<1>9. NothingTwice' /\ LastKnown'
  BY <1>1, <1>2 DEF IInv, NothingTwice, LastKnown, Published
<1> QED BY <1>2, <1>3, <1>7, <1>8, <1>9
-----------------------------------------------------------------------------
\* Loads stay loads.
LEMMA StartLoadOk ==
  ASSUME loads \in SUBSET Flight, StartLoad PROVE loads' \in SUBSET Flight
<1>1. [newest |-> TRUE, messages |-> {}, state |-> {}] \in Flight
  BY DEF Flight
<1>2. Superseded \in SUBSET Flight
  <2>1. \A f \in Flight : [f EXCEPT !.newest = FALSE] \in Flight
    BY DEF Flight
  <2> QED BY <2>1 DEF Superseded
<1> QED BY <1>1, <1>2 DEF StartLoad

LEMMA AnswerOk ==
  ASSUME TypeOK, NEW f \in loads, Answer(f) PROVE loads' \in SUBSET Flight
<1>1. f \in Flight /\ loads \in SUBSET Flight
  BY DEF TypeOK
<1>2. [f EXCEPT !.messages = {stored}] \in Flight
  BY <1>1 DEF TypeOK, Flight
<1>3. [f EXCEPT !.state = {[streaming |-> run # "idle", asked |-> asked]}] \in Flight
  <2>1. {[streaming |-> run # "idle", asked |-> asked]} \in SUBSET [streaming : BOOLEAN, asked : BOOLEAN]
    BY DEF TypeOK
  <2> QED BY <1>1, <2>1 DEF Flight
<1> QED BY <1>1, <1>2, <1>3 DEF Answer, AnswerDetail, AnswerState

LEMMA NumberedOk == \A n \in Nat : Numbered(n) \in Seq(Nat)
  BY DEF Numbered

\* What is replayed: events of the buffer above the id the page named.
LEMMA ReplayOk ==
  ASSUME TypeOK
  PROVE  /\ Oldest \in Nat /\ Oldest >= 1
         /\ Replay(last) \subseteq 1 .. Len(log)
         /\ \A i \in 1 .. Len(log) : i >= Oldest /\ i > last /\ ~Merged(i) <=> i \in Replay(last)
<1>1. Len(log) \in Nat /\ last \in Nat /\ MaxReplay \in Nat \ {0}
  BY DEF TypeOK
<1>2. Oldest \in Nat /\ Oldest >= 1
  BY <1>1 DEF Oldest
<1> QED BY <1>1, <1>2 DEF Replay

\* A frame is folded into the page, and the stream has lost nothing by it.
LEMMA HandleOk == ASSUME IInv, Handle PROVE IInv'
<1>1. PICK i \in wire : /\ \A j \in wire : i <= j
                        /\ last' = i /\ wire' = wire \ {i} /\ Fold(log[i])
  BY DEF Handle
<1>2. /\ log \in Seq([kind : Kinds, msg : Nat]) /\ Len(log) \in Nat /\ wire \subseteq 1 .. Len(log)
      /\ link \in {"open", "ending"} /\ link' = link /\ log' = log /\ entry' = entry
      /\ lastEntry' = entry /\ oldest' = oldest /\ oldest \in Nat /\ entry \in Nat
  BY DEF IInv, TypeOK, Handle, server
<1>3. i \in 1 .. Len(log) /\ log[i] \in [kind : Kinds, msg : Nat]
  <2>1. i \in 1 .. Len(log)
    BY <1>2
  <2>2. log[i] \in [kind : Kinds, msg : Nat]
    BY <1>2, <2>1, ElementOfSeq
  <2> QED BY <2>1, <2>2
<1>4. \A j : Merged(j)' <=> Merged(j)
  <2>1. log' = log
    BY <1>2
  <2> QED BY <2>1 DEF Merged
<1>5. loads' \in SUBSET Flight
  BY <1>1, StartLoadOk DEF Fold, IInv, TypeOK
<1>6. list' \in Seq(Nat)
  BY <1>1, <1>3 DEF Fold, IInv, TypeOK
<1>7. running' \in BOOLEAN
  BY <1>1 DEF Fold, IInv, TypeOK
<1>8. question' \in BOOLEAN
  BY <1>1 DEF Fold
<1>9. TypeOK'
  BY <1>1, <1>2, <1>3, <1>5, <1>6, <1>7, <1>8 DEF IInv, TypeOK, Handle, server
<1>10. NothingSkipped'
  BY <1>1, <1>2, <1>3, <1>4 DEF NothingSkipped, Due, IInv, NoHole
<1>11. NoHole'
  BY <1>1, <1>2, <1>3, <1>4 DEF IInv, NoHole
<1>12. NothingTwice' /\ LastKnown'
  BY <1>1, <1>2, <1>3 DEF NothingTwice, LastKnown
<1> QED BY <1>9, <1>10, <1>11, <1>12 DEF IInv

\* The page's other steps publish nothing; those that leave the stream alone
\* keep all but the types.
LEMMA StreamKept ==
  ASSUME IInv, UNCHANGED <<log, entry, link, wire, last, lastEntry, oldest>>
  PROVE  NothingSkipped' /\ NothingTwice' /\ NoHole' /\ LastKnown'
<1>1. \A j : Merged(j)' <=> Merged(j)
  BY DEF Merged
<1>2. Due' = Due
  BY <1>1 DEF Due
<1> QED BY <1>1, <1>2 DEF IInv, NothingSkipped, NothingTwice, NoHole, LastKnown

\* A stream that is not open carries nothing that is due.
LEMMA StreamShut ==
  ASSUME IInv, link' # "open", UNCHANGED <<log, entry, last, lastEntry>>, wire' \subseteq wire
  PROVE  NothingSkipped' /\ NothingTwice' /\ NoHole' /\ LastKnown'
  BY DEF IInv, NothingSkipped, NothingTwice, NoHole, LastKnown

LEMMA SubscribeOk == ASSUME IInv, Subscribe PROVE IInv'
<1>1. /\ log' = log /\ entry' = entry /\ last' = last /\ lastEntry' = lastEntry
      /\ link' = "open" /\ wire' = Replay(last) /\ oldest' = Oldest
  BY DEF Subscribe, server
<1>2. \A j : Merged(j)' <=> Merged(j)
  BY <1>1 DEF Merged
<1>3. TypeOK'
  BY <1>1, ReplayOk DEF IInv, TypeOK, Subscribe, server, page
<1>4. NothingSkipped'
  BY <1>1, <1>2, ReplayOk DEF IInv, NothingSkipped, Due
<1>5. NoHole'
  <2> SUFFICES ASSUME NEW i \in wire', NEW j \in 1 .. Len(log), j > i, ~Merged(j) PROVE j \in wire'
    BY <1>1, <1>2 DEF NoHole
  <2>1. i \in 1 .. Len(log) /\ i >= Oldest /\ i > last
    BY <1>1, ReplayOk
  <2>2. j >= Oldest /\ j > last
    BY <2>1, ReplayOk DEF IInv, TypeOK
  <2> QED BY <1>1, <2>2, ReplayOk DEF IInv
<1>6. NothingTwice' /\ LastKnown'
  BY <1>1, ReplayOk DEF IInv, NothingTwice, LastKnown
<1> QED BY <1>3, <1>4, <1>5, <1>6 DEF IInv

LEMMA RestartOk == ASSUME IInv, Restart PROVE IInv'
<1>1. log' = <<>> /\ wire' = {} /\ link' # "open" /\ lastEntry' = lastEntry /\ entry' = entry + 1
  BY DEF Restart
<1>2. lastEntry' # entry'
  BY <1>1 DEF IInv, TypeOK
<1>3. TypeOK'
  <2>1. failed' \in BOOLEAN
    BY DEF IInv, TypeOK, Restart
  <2>2. loads' \in SUBSET Flight
    BY DEF IInv, TypeOK, Restart
  <2>3. log' \in Seq([kind : Kinds, msg : Nat]) /\ wire' \subseteq 1 .. Len(log')
    BY <1>1
  <2>4. entry' \in Nat /\ lastEntry' \in 0 .. entry'
    BY <1>1 DEF IInv, TypeOK
  <2>5. /\ run' = "idle" /\ asked' = FALSE /\ link' \in {"off", "asking"} /\ oldest' = 1
        /\ UNCHANGED <<stored, last, running, question, list, sending>>
    BY DEF Restart
  <2> QED BY <2>1, <2>2, <2>3, <2>4, <2>5 DEF IInv, TypeOK
<1> QED BY <1>1, <1>2, <1>3 DEF IInv, NothingSkipped, NothingTwice, NoHole, LastKnown

LEMMA SdkOk == ASSUME IInv, Sdk PROVE IInv'
<1>1. TypeOK
  BY DEF IInv
<1>2. CASE UNCHANGED <<log, wire>>
  <2>1. UNCHANGED <<log, entry, link, wire, last, lastEntry, oldest>>
    BY <1>1, <1>2, SdkPublishes
  <2>2. TypeOK'
    BY <1>1, <1>2, SdkPublishes DEF TypeOK, page
  <2> QED BY <2>1, <2>2, StreamKept DEF IInv
<1>3. CASE \E k \in Kinds, n \in Nat : Published(Event(k, n))
  <2>1. PICK k \in Kinds, n \in Nat : Published(Event(k, n))
    BY <1>3
  <2>2. Event(k, n) \in [kind : Kinds, msg : Nat]
    BY DEF Event
  <2>3. UNCHANGED <<entry, link, last, lastEntry, oldest>>
    BY <1>1, SdkPublishes
  <2>4. /\ log' \in Seq([kind : Kinds, msg : Nat]) /\ wire' \subseteq 1 .. Len(log')
        /\ NothingSkipped' /\ NothingTwice' /\ NoHole' /\ LastKnown'
    BY <2>1, <2>2, <2>3, PublishedIsCarried
  <2>5. TypeOK'
    BY <1>1, <2>3, <2>4, SdkPublishes DEF TypeOK, page
  <2> QED BY <2>4, <2>5 DEF IInv
<1> QED BY <1>1, <1>2, <1>3, SdkPublishes

\* connectEvents opens a stream where there was none, and leaves any other.
LEMMA ConnectOk ==
  ASSUME IInv, Connect, UNCHANGED <<log, entry, last, lastEntry, oldest>>
  PROVE  /\ link' \in {"off", "asking", "open", "ending"} /\ wire' = wire
         /\ NothingSkipped' /\ NothingTwice' /\ NoHole' /\ LastKnown'
<1>1. wire' = wire /\ (link' = link \/ link' = "asking")
  BY DEF Connect
<1>2. CASE link' = link
  BY <1>1, <1>2, StreamKept DEF IInv, TypeOK
<1>3. CASE link' = "asking"
  BY <1>1, <1>3, StreamShut
<1> QED BY <1>1, <1>2, <1>3

LEMMA ApplyOk == ASSUME IInv, NEW f \in loads, Apply(f) PROVE IInv'
<1>1. f \in Flight /\ TypeOK
  BY DEF IInv, TypeOK
<1>2. PICK n \in f.messages : list' = Numbered(n)
  BY DEF Apply
<1>3. PICK s \in f.state : /\ question' = s.asked /\ running' = s.streaming
                           /\ IF s.streaming THEN Connect ELSE UNCHANGED <<link, wire>>
  BY DEF Apply
<1>4. n \in Nat /\ s \in [streaming : BOOLEAN, asked : BOOLEAN]
  BY <1>1 DEF Flight
<1>5. list' \in Seq(Nat) /\ question' \in BOOLEAN /\ running' \in BOOLEAN
  BY <1>2, <1>3, <1>4, NumberedOk
<1>6. UNCHANGED <<log, run, asked, stored, entry, last, lastEntry, oldest, sending>>
  BY DEF Apply, server
<1>7. /\ link' \in {"off", "asking", "open", "ending"} /\ wire' = wire
      /\ NothingSkipped' /\ NothingTwice' /\ NoHole' /\ LastKnown'
  <2>1. CASE Connect
    BY <1>6, <2>1, ConnectOk
  <2>2. CASE UNCHANGED <<link, wire>>
    BY <1>1, <1>6, <2>2, StreamKept DEF TypeOK
  <2> QED BY <1>3, <2>1, <2>2
<1>8. loads' \in SUBSET Flight /\ failed' \in BOOLEAN
  BY <1>1 DEF Apply, TypeOK
<1>9. TypeOK'
  BY <1>1, <1>5, <1>6, <1>7, <1>8 DEF TypeOK
<1> QED BY <1>7, <1>9 DEF IInv

LEMMA AcceptOk == ASSUME IInv, Accept PROVE IInv'
<1>1. TypeOK
  BY DEF IInv
<1>2. /\ UNCHANGED <<link, last, lastEntry, oldest, running, question, list, loads, failed>>
      /\ sending' = "accepted"
  BY DEF Accept
<1>3. CASE Begin
  <2>1. Published(Event("start", 0)) /\ run' = "busy" /\ UNCHANGED <<asked, stored, entry>>
    BY <1>3 DEF Begin, Publish, Published
  <2>2. Event("start", 0) \in [kind : Kinds, msg : Nat]
    BY DEF Event, Kinds
  <2>3. /\ log' \in Seq([kind : Kinds, msg : Nat]) /\ wire' \subseteq 1 .. Len(log')
        /\ NothingSkipped' /\ NothingTwice' /\ NoHole' /\ LastKnown'
    BY <1>2, <2>1, <2>2, PublishedIsCarried
  <2>4. TypeOK'
    BY <1>1, <1>2, <2>1, <2>3 DEF TypeOK
  <2> QED BY <2>3, <2>4 DEF IInv
<1>4. CASE UNCHANGED <<server, wire>>
  <2>1. TypeOK'
    BY <1>1, <1>2, <1>4 DEF TypeOK, server
  <2> QED BY <1>2, <1>4, <2>1, StreamKept DEF IInv, server
<1> QED BY <1>3, <1>4 DEF Accept
-----------------------------------------------------------------------------
THEOREM Inductive == IInv /\ [Next]_vars => IInv'
<1> SUFFICES ASSUME IInv, [Next]_vars PROVE IInv'
  OBVIOUS
<1>0. TypeOK
  BY DEF IInv
<1>1. CASE Sdk \/ Restart \/ Subscribe \/ Handle \/ Accept
  BY <1>1, SdkOk, RestartOk, SubscribeOk, HandleOk, AcceptOk
<1>2. CASE DropSlow
  <2>1. TypeOK'
    BY <1>0, <1>2 DEF TypeOK, DropSlow, server, page
  <2> QED BY <1>2, <2>1, StreamShut DEF IInv, DropSlow, server
<1>3. CASE Lose
  <2>1. TypeOK'
    BY <1>0, <1>3 DEF TypeOK, Lose, server, page
  <2> QED BY <1>3, <2>1, StreamShut DEF IInv, Lose, server
<1>4. ASSUME NEW f \in loads, Answer(f) \/ Forget(f) PROVE IInv'
  <2>1. loads' \in SUBSET Flight /\ failed' \in BOOLEAN
    <3>1. CASE Answer(f)
      BY <1>0, <3>1, AnswerOk DEF Answer, TypeOK
    <3>2. CASE Forget(f)
      BY <1>0, <3>2 DEF Forget, TypeOK, Flight
    <3> QED BY <1>4, <3>1, <3>2
  <2>2. UNCHANGED <<server, stream, running, question, list, sending>>
    BY <1>4 DEF Answer, Forget
  <2>3. TypeOK'
    BY <1>0, <2>1, <2>2 DEF TypeOK, server, stream
  <2> QED BY <2>2, <2>3, StreamKept DEF IInv, server, stream
<1>5. ASSUME NEW f \in loads, Apply(f) PROVE IInv'
  BY <1>5, ApplyOk
<1>6. CASE Open
  <2>1. TypeOK'
    <3>1. loads' \in SUBSET Flight
      BY <1>0, <1>6, StartLoadOk DEF Open, TypeOK
    <3>2. list' \in Seq(Nat) /\ wire' \subseteq 1 .. Len(log') /\ lastEntry' \in 0 .. entry'
      BY <1>0, <1>6 DEF TypeOK, Open, CloseEvents, server
    <3> QED BY <1>0, <1>6, <3>1, <3>2 DEF TypeOK, Open, CloseEvents, server
  <2> QED BY <1>6, <2>1 DEF IInv, Open, CloseEvents, server, NothingSkipped, NothingTwice, NoHole, LastKnown, TypeOK
<1>7. CASE Send \/ SendFailed
  <2>1. TypeOK'
    <3>1. CASE Send
      BY <1>0, <3>1 DEF TypeOK, Send, server, stream
    <3>2. CASE SendFailed
      BY <1>0, <3>2 DEF TypeOK, SendFailed, server, stream
    <3> QED BY <1>7, <3>1, <3>2
  <2> QED BY <1>7, <2>1, StreamKept DEF IInv, Send, SendFailed, server, stream
<1>8. CASE Sent
  <2>1. Connect /\ UNCHANGED <<log, run, asked, stored, entry, last, lastEntry, oldest>>
    BY <1>8 DEF Sent, server
  <2>2. TypeOK'
    BY <1>0, <1>8, <2>1, ConnectOk DEF TypeOK, Sent
  <2> QED BY <2>1, <2>2, ConnectOk DEF IInv
<1>9. CASE UNCHANGED vars
  <2>1. TypeOK'
    BY <1>0, <1>9 DEF TypeOK, vars, server, stream, page
  <2> QED BY <1>9, <2>1, StreamKept DEF IInv, vars, server, stream
<1> QED BY <1>1, <1>2, <1>3, <1>4, <1>5, <1>6, <1>7, <1>8, <1>9 DEF Next

THEOREM InitOk == Init => IInv
<1> SUFFICES ASSUME Init PROVE IInv
  OBVIOUS
<1>1. [newest |-> TRUE, messages |-> {}, state |-> {}] \in Flight
  BY DEF Flight
<1>2. log \in Seq([kind : Kinds, msg : Nat]) /\ list \in Seq(Nat) /\ loads \in SUBSET Flight
  BY <1>1 DEF Init
<1>3. /\ run \in {"idle", "busy", "ended"} /\ asked \in BOOLEAN /\ stored \in Nat /\ entry \in Nat
      /\ lastEntry \in 0 .. entry /\ link \in {"off", "asking", "open", "ending"}
  BY DEF Init
<1>4. wire \subseteq 1 .. Len(log) /\ last \in Nat /\ oldest \in Nat
  BY DEF Init
<1>5. /\ running \in BOOLEAN /\ question \in BOOLEAN /\ failed \in BOOLEAN
      /\ sending \in {"no", "posted", "accepted"} /\ (asked => run = "busy")
  BY DEF Init
<1>6. TypeOK
  BY <1>2, <1>3, <1>4, <1>5 DEF TypeOK
<1> QED BY <1>6 DEF Init, IInv, NothingSkipped, NothingTwice, NoHole, LastKnown

THEOREM StreamInvariant == Spec => []IInv
  BY InitOk, Inductive, PTL DEF Spec

\* Each event reaches the page once: nothing is skipped and nothing comes twice.
THEOREM EveryEventOnce == Spec => []EachOnce
<1>1. IInv => EachOnce
  BY DEF IInv, EachOnce
<1> QED BY <1>1, StreamInvariant, PTL

\* Types of the registry, the stream and the page.
THEOREM StreamTypeCorrect == Spec => []TypeOK
<1>1. IInv => TypeOK
  BY DEF IInv
<1> QED BY <1>1, StreamInvariant, PTL

\* The open stream carries every event of this entry that the page has not
\* handled and that the buffer held when it subscribed, but for updates that a
\* later update replaces: no cut, retry or slow page makes a gap.
THEOREM NoEventSkipped == Spec => []NothingSkipped
<1>1. IInv => NothingSkipped
  BY DEF IInv
<1> QED BY <1>1, StreamInvariant, PTL

\* Nothing that the page has handled comes again on any stream.
THEOREM NoEventTwice == Spec => []NothingTwice
<1>1. IInv => NothingTwice
  BY DEF IInv
<1> QED BY <1>1, StreamInvariant, PTL
-----------------------------------------------------------------------------
(* The settled page.  A load that is started when a turn's last event is   *)
(* handled sees the session as it stays, and until it is applied or has    *)
(* failed it is there as the newest of the loads.                          *)

\* Between turns the newest event of the entry is one that makes the page load.
ClosedByLoad ==
    run # "busy" /\ log # <<>> => log[Len(log)].kind \in {"end", "compacted"}

\* The page has handled everything this entry has published, and no turn runs.
CaughtUp == run # "busy" /\ lastEntry = entry /\ log # <<>> /\ last = Len(log)

\* What the newest load has been told is still so.
FreshLoads ==
    CaughtUp => \A f \in loads : f.newest => /\ f.messages \subseteq {stored}
                                             /\ \A s \in f.state : ~s.asked

\* The page shows the session, or a load that will show it is under way, or the
\* page knows that the load has failed.
RightOrLoading ==
    CaughtUp => \/ list = Numbered(stored) /\ ~question
                \/ failed
                \/ \E f \in loads : f.newest

SettleInv == IInv /\ ClosedByLoad /\ FreshLoads /\ RightOrLoading

\* The four steps of the SDK that close a turn, the rest of what it does being
\* inside one.
LEMMA SdkCloses ==
  ASSUME SettleInv, Sdk
  PROVE  ClosedByLoad'
<1> USE DEF SettleInv, IInv, TypeOK
<1>1. CASE Begin \/ Produce \/ AskUser \/ Resolve
  BY <1>1 DEF Begin, Produce, AskUser, Resolve, ClosedByLoad
<1>2. CASE End \/ Compact
  <2>1. PICK k \in {"end", "compacted"} : Publish(Event(k, 0))
    BY <1>2 DEF End, Compact
  <2>2. Event(k, 0) \in [kind : Kinds, msg : Nat] /\ Event(k, 0).kind = k
    BY DEF Event, Kinds
  <2>3. log' = Append(log, Event(k, 0)) /\ log \in Seq([kind : Kinds, msg : Nat])
    BY <2>1 DEF Publish
  <2>4. Len(log') = Len(log) + 1 /\ log'[Len(log) + 1] = Event(k, 0)
    BY <2>2, <2>3
  <2> QED BY <2>2, <2>4 DEF ClosedByLoad
<1>3. CASE Settle
  BY <1>3 DEF Settle, ClosedByLoad
<1> QED BY <1>1, <1>2, <1>3 DEF Sdk

\* What the SDK does leaves a page behind, or settles a turn that is over.
LEMMA SdkSettles ==
  ASSUME SettleInv, Sdk
  PROVE  FreshLoads' /\ RightOrLoading'
<1>1. CASE UNCHANGED <<log, wire>>
  <2>1. run = "ended" /\ run' = "idle" /\ UNCHANGED <<log, asked, stored, entry>>
    <3>1. CASE Begin \/ Produce \/ AskUser \/ Resolve \/ End \/ Compact
      <4>1. PICK e : Publish(e)
        BY <3>1 DEF Begin, Produce, AskUser, Resolve, End, Compact
      <4>2. log' = Append(log, e) /\ log \in Seq([kind : Kinds, msg : Nat])
        BY <4>1 DEF Publish, SettleInv, IInv, TypeOK
      <4>3. Len(log') = Len(log) + 1 /\ Len(log) \in Nat
        BY <4>2
      <4> QED BY <1>1, <4>3
    <3>2. CASE Settle
      BY <3>2 DEF Settle
    <3> QED BY <3>1, <3>2 DEF Sdk
  <2>2. UNCHANGED <<last, lastEntry, list, question, loads, failed>>
    BY DEF Sdk, page
  <2>3. CaughtUp' => CaughtUp
    BY <2>1, <2>2 DEF CaughtUp
  <2> QED BY <2>1, <2>2, <2>3 DEF SettleInv, FreshLoads, RightOrLoading
<1>2. CASE \E k \in Kinds, n \in Nat : Published(Event(k, n))
  <2>1. log \in Seq([kind : Kinds, msg : Nat]) /\ Len(log) \in Nat
    BY DEF SettleInv, IInv, TypeOK
  <2>2. Len(log') = Len(log) + 1
    BY <1>2, <2>1 DEF Published
  <2>3. last' = last /\ lastEntry' = lastEntry /\ entry' = entry
    BY SdkPublishes DEF SettleInv, IInv
  <2>4. ~CaughtUp'
    BY <2>1, <2>2, <2>3 DEF CaughtUp, SettleInv, IInv, LastKnown, TypeOK
  <2> QED BY <2>4 DEF FreshLoads, RightOrLoading
<1> QED BY <1>1, <1>2, SdkPublishes DEF SettleInv, IInv

\* The last event of a closed entry makes the page load.
LEMMA HandleSettles ==
  ASSUME SettleInv, Handle
  PROVE  ClosedByLoad' /\ FreshLoads' /\ RightOrLoading'
<1>1. PICK i \in wire : last' = i /\ Fold(log[i])
  BY DEF Handle
<1>2. UNCHANGED <<log, run, stored, entry>> /\ Len(log) \in Nat
  BY DEF Handle, server, SettleInv, IInv, TypeOK
<1>3. ClosedByLoad'
  BY <1>2 DEF SettleInv, ClosedByLoad
<1>4. ASSUME CaughtUp' PROVE loads' = Superseded \cup {[newest |-> TRUE, messages |-> {}, state |-> {}]}
  <2>1. i = Len(log) /\ run # "busy" /\ log # <<>>
    BY <1>1, <1>2, <1>4 DEF CaughtUp
  <2>2. log[i].kind \in {"end", "compacted"}
    BY <2>1 DEF SettleInv, ClosedByLoad
  <2> QED BY <1>1, <2>2 DEF Fold, StartLoad
<1>5. \A g \in Superseded : ~g.newest
  <2> SUFFICES ASSUME NEW f \in loads PROVE ~[f EXCEPT !.newest = FALSE].newest
    BY DEF Superseded
  <2>1. f \in Flight
    BY DEF SettleInv, IInv, TypeOK
  <2> QED BY <2>1 DEF Flight
<1>6. FreshLoads'
  <2> SUFFICES ASSUME CaughtUp', NEW f \in loads', f.newest
               PROVE  f.messages = {} /\ f.state = {}
    BY DEF FreshLoads
  <2> QED BY <1>4, <1>5
<1>7. RightOrLoading'
  <2> DEFINE fresh == [newest |-> TRUE, messages |-> {}, state |-> {}]
  <2> SUFFICES ASSUME CaughtUp' PROVE fresh \in loads' /\ fresh.newest
    BY DEF RightOrLoading
  <2> QED BY <1>4
<1> QED BY <1>3, <1>6, <1>7

\* An answer tells a load how things are, which between turns is how they stay.
LEMMA AnswerSettles ==
  ASSUME SettleInv, NEW f \in loads, Answer(f)
  PROVE  ClosedByLoad' /\ FreshLoads' /\ RightOrLoading'
<1>1. UNCHANGED <<log, run, asked, stored, entry, last, lastEntry, question, list, failed>>
  BY DEF Answer, server, stream
<1>2. f \in Flight /\ (asked => run = "busy")
  BY DEF SettleInv, IInv, TypeOK
<1>3. PICK g : /\ loads' = (loads \ {f}) \cup {g} /\ g.newest = f.newest
               /\ g.messages \subseteq f.messages \cup {stored}
               /\ \A s \in g.state : s \in f.state \/ s.asked = asked
  <2>1. CASE AnswerDetail(f)
    <3> DEFINE g == [f EXCEPT !.messages = {stored}]
    <3>1. g.newest = f.newest /\ g.messages = {stored} /\ g.state = f.state
      BY <1>2 DEF Flight
    <3>2. loads' = (loads \ {f}) \cup {g}
      BY <2>1 DEF AnswerDetail
    <3> QED BY <3>1, <3>2
  <2>2. CASE AnswerState(f)
    <3> DEFINE told == [streaming |-> run # "idle", asked |-> asked]
               g == [f EXCEPT !.state = {told}]
    <3>1. g.newest = f.newest /\ g.messages = f.messages /\ g.state = {told}
      BY <1>2 DEF Flight
    <3>2. loads' = (loads \ {f}) \cup {g}
      BY <2>2 DEF AnswerState
    <3>3. told.asked = asked
      OBVIOUS
    <3> QED BY <3>1, <3>2, <3>3
  <2> QED BY <2>1, <2>2 DEF Answer
<1>4. CaughtUp' <=> CaughtUp
  BY <1>1 DEF CaughtUp
<1>5. FreshLoads'
  <2> SUFFICES ASSUME CaughtUp, NEW h \in loads', h.newest
               PROVE  h.messages \subseteq {stored} /\ \A s \in h.state : ~s.asked
    BY <1>1, <1>4 DEF FreshLoads
  <2>1. ~asked
    BY <1>2 DEF CaughtUp
  <2>2. CASE h \in loads
    BY <2>2 DEF SettleInv, FreshLoads
  <2>3. CASE h = g
    <3>1. f.messages \subseteq {stored} /\ \A s \in f.state : ~s.asked
      BY <1>3, <2>3 DEF SettleInv, FreshLoads
    <3> QED BY <1>3, <2>1, <2>3, <3>1
  <2> QED BY <1>3, <2>2, <2>3
<1>6. RightOrLoading'
  BY <1>1, <1>3, <1>4 DEF SettleInv, RightOrLoading
<1>7. ClosedByLoad'
  BY <1>1 DEF SettleInv, ClosedByLoad
<1> QED BY <1>5, <1>6, <1>7

\* The newest load puts the page right.
LEMMA ApplySettles ==
  ASSUME SettleInv, NEW f \in loads, Apply(f)
  PROVE  ClosedByLoad' /\ FreshLoads' /\ RightOrLoading'
<1>1. /\ UNCHANGED <<log, run, asked, stored, entry, last, lastEntry>>
      /\ loads' = loads \ {f} /\ f.newest
  BY DEF Apply, Latest, server
<1>2. CaughtUp' <=> CaughtUp
  BY <1>1 DEF CaughtUp
<1>3. ASSUME CaughtUp PROVE list' = Numbered(stored) /\ ~question'
  <2>1. f.messages \subseteq {stored} /\ \A s \in f.state : ~s.asked
    BY <1>1, <1>3 DEF SettleInv, FreshLoads
  <2>2. PICK n \in f.messages : list' = Numbered(n)
    BY DEF Apply
  <2>3. PICK s \in f.state : question' = s.asked
    BY DEF Apply
  <2>4. n = stored
    BY <2>1, <2>2
  <2> QED BY <2>1, <2>2, <2>3, <2>4
<1>4. FreshLoads'
  BY <1>1, <1>2 DEF SettleInv, FreshLoads
<1>5. RightOrLoading'
  <2>1. Numbered(stored)' = Numbered(stored)
    BY <1>1 DEF Numbered
  <2> QED BY <1>2, <1>3, <2>1 DEF RightOrLoading
<1>6. ClosedByLoad'
  BY <1>1 DEF SettleInv, ClosedByLoad
<1> QED BY <1>4, <1>5, <1>6

\* A load that fails or comes too late: the page knows of the failure of the newest.
LEMMA ForgetSettles ==
  ASSUME SettleInv, NEW f \in loads, Forget(f)
  PROVE  ClosedByLoad' /\ FreshLoads' /\ RightOrLoading'
<1>1. /\ UNCHANGED <<log, run, asked, stored, entry, last, lastEntry, question, list>>
      /\ loads' = loads \ {f} /\ failed' = (failed \/ f.newest)
  BY DEF Forget, server, stream
<1>2. CaughtUp' <=> CaughtUp
  BY <1>1 DEF CaughtUp
<1>3. Numbered(stored)' = Numbered(stored)
  BY <1>1 DEF Numbered
<1> QED BY <1>1, <1>2, <1>3 DEF SettleInv, FreshLoads, RightOrLoading, ClosedByLoad

\* A prompt is sent or fails: no question is left on the page, and nothing else
\* of what is settled changes, but that an accepted prompt begins a turn.
LEMMA SendingSettles ==
  ASSUME SettleInv, Send \/ Accept \/ Sent \/ SendFailed
  PROVE  ClosedByLoad' /\ FreshLoads' /\ RightOrLoading'
<1>1. UNCHANGED <<stored, entry, last, lastEntry, list, loads, failed>>
      /\ (question' => question)
  BY DEF Send, Accept, Sent, SendFailed, Begin, server, stream
<1>2. run' = "busy" \/ UNCHANGED <<run, log>>
  BY DEF Send, Accept, Sent, SendFailed, Begin, server
<1>3. CaughtUp' => CaughtUp
  BY <1>1, <1>2 DEF CaughtUp
<1>4. Numbered(stored)' = Numbered(stored)
  BY <1>1 DEF Numbered
<1> QED BY <1>1, <1>2, <1>3, <1>4 DEF SettleInv, FreshLoads, RightOrLoading, ClosedByLoad

\* The stream's own steps touch nothing that is settled.
LEMMA StreamSettles ==
  ASSUME SettleInv,
         UNCHANGED <<log, run, stored, entry, last, lastEntry, question, list, loads, failed>>
  PROVE  ClosedByLoad' /\ FreshLoads' /\ RightOrLoading'
<1>1. CaughtUp' <=> CaughtUp
  BY DEF CaughtUp
<1>2. Numbered(stored)' = Numbered(stored)
  BY DEF Numbered
<1> QED BY <1>1, <1>2 DEF SettleInv, FreshLoads, RightOrLoading, ClosedByLoad

THEOREM SettleInductive == SettleInv /\ [Next]_vars => SettleInv'
<1> SUFFICES ASSUME SettleInv, [Next]_vars PROVE SettleInv'
  OBVIOUS
<1>0. IInv'
  BY Inductive DEF SettleInv
<1>1. CASE Sdk
  BY <1>0, <1>1, SdkCloses, SdkSettles DEF SettleInv
<1>2. CASE Handle
  BY <1>0, <1>2, HandleSettles DEF SettleInv
<1>3. CASE Restart
  <2>1. log' = <<>>
    BY <1>3 DEF Restart
  <2> QED BY <1>0, <2>1 DEF SettleInv, ClosedByLoad, FreshLoads, RightOrLoading, CaughtUp
<1>4. CASE Subscribe \/ DropSlow \/ Lose \/ UNCHANGED vars
  <2>1. UNCHANGED <<log, run, stored, entry, last, lastEntry, question, list, loads, failed>>
    BY <1>4 DEF Subscribe, DropSlow, Lose, vars, server, stream, page
  <2> QED BY <1>0, <2>1, StreamSettles DEF SettleInv
<1>5. ASSUME NEW f \in loads, Answer(f) \/ Apply(f) \/ Forget(f) PROVE SettleInv'
  BY <1>0, <1>5, AnswerSettles, ApplySettles, ForgetSettles DEF SettleInv
<1>6. CASE Open
  <2>1. last' = 0 /\ UNCHANGED <<log, run>>
    BY <1>6 DEF Open, server
  <2>2. log' # <<>> => Len(log') # 0
    BY <2>1 DEF SettleInv, IInv, TypeOK
  <2>3. ~CaughtUp'
    BY <2>1, <2>2 DEF CaughtUp
  <2> QED BY <1>0, <2>1, <2>3 DEF SettleInv, ClosedByLoad, FreshLoads, RightOrLoading
<1>7. CASE Send \/ Accept \/ Sent \/ SendFailed
  BY <1>0, <1>7, SendingSettles DEF SettleInv
<1> QED BY <1>1, <1>2, <1>3, <1>4, <1>5, <1>6, <1>7 DEF Next

\* When a turn is over and the page has handled its last event, loads are over and
\* the newest did not fail, the page shows every message once, in order, and no
\* question, in whatever order events, loads, prompts, cuts and restarts came.
THEOREM SettledPage == Spec => []SettledPageIsRight
<1>1. Init => SettleInv
  <2> SUFFICES ASSUME Init PROVE SettleInv
    OBVIOUS
  <2>1. log = <<>>
    BY DEF Init
  <2> QED BY <2>1, InitOk DEF SettleInv, ClosedByLoad, FreshLoads, RightOrLoading, CaughtUp
<1>2. SettleInv => SettledPageIsRight
  BY DEF SettleInv, RightOrLoading, CaughtUp, SettledPageIsRight
<1> QED BY <1>1, <1>2, SettleInductive, PTL DEF Spec
=============================================================================
