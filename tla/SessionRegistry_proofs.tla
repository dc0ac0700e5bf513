------------------------ MODULE SessionRegistry_proofs ------------------------
(***************************************************************************)
(* The registry of sessions, for any scenarios, any number of requests and *)
(* any number of session objects.                                          *)
(***************************************************************************)
EXTENDS SessionRegistry, SequenceTheorems, FiniteSetTheorems, WellFoundedInduction, TLAPS

-----------------------------------------------------------------------------
(* The inductive invariant *)

PCs == {"new", "list", "built", "bind", "join", "abort", "remove", "heirs", "done", "failed"}
Runs == [st : {"idle", "prep", "asks", "exec"}, at : Nat \ {0}, ready : SUBSET Nat,
         left : SUBSET Nat, stop : BOOLEAN]

Fields == DOMAIN Blank
ObjectOK(o) ==
  /\ DOMAIN o = Fields
  /\ o.id \in Ids \union {Null} /\ o.state \in {"free", "live", "disposed"}
  /\ o.heard \in BOOLEAN /\ o.run \in Runs

RequestOK(q) ==
  /\ DOMAIN q = DOMAIN New
  /\ q.pc \in PCs /\ q.slot \in Slots \union {0}

Types ==
  /\ bound \in Scenarios
  /\ DOMAIN obj = Slots /\ \A i \in Slots : ObjectOK(obj[i])
  /\ entry \in Entries
  /\ opening \in [Ids -> Requests \union {0}]
  /\ DOMAIN req = Requests /\ \A r \in Requests : RequestOK(req[r])

\* A registered object is live and of that id; a live one is registered or has just been
\* built; the child of a session is live as long as there is one; and what is at work is
\* a session.
Registered ==
  /\ \A id \in Ids : entry[id] # 0 => Live(entry[id]) /\ obj[entry[id]].id = id
  /\ \A i \in Slots : Live(i) =>
       /\ obj[i].id \in Ids
       /\ \/ entry[obj[i].id] = i
          \/ \E r \in Requests : req[r].pc = "built" /\ req[r].slot = i
  /\ \A i \in Slots : obj[i].id = "kid" => Live(i)
  /\ \A i \in Slots : Busy(i) => obj[i].id \in Ids

\* What a request has when it is at a step of its handler.
AtStep(r) ==
  LET pc == req[r].pc
      i == req[r].slot
  IN /\ pc = "new" /\ Kind(r) = "create" =>
          entry[Id(r)] = 0 /\ \A j \in Slots : Live(j) => obj[j].id # Id(r)
     /\ pc \in {"list", "join"} => Opens(r)
     /\ pc \in {"built", "bind"} => Opens(r) \/ Kind(r) = "create"
     /\ pc \in {"list", "built"} => entry[Id(r)] = 0
     /\ pc \in {"list", "built", "bind"} /\ Opens(r) => opening[Id(r)] = r
     /\ pc \in {"built", "bind"} => i \in Slots /\ obj[i].id = Id(r)
     /\ pc = "built" => Live(i)
     /\ pc = "join" => opening[Id(r)] # 0
     /\ pc \in {"remove", "heirs"} => Kind(r) = "delete"
     /\ pc = "abort" => Kind(r) = "abort" /\ i \in Slots
     /\ pc = "remove" => i \in Slots /\ entry[Id(r)] = i /\ Busy(i)

Opening(id) ==
  opening[id] # 0 =>
    /\ Id(opening[id]) = id /\ Opens(opening[id])
    /\ req[opening[id]].pc \in {"list", "built", "bind"}

\* Where a scenario's requests come one after the other, they do.
InTurn ==
  bound.serial => \A r, q \in Requests : (q < r /\ req[r].pc # "new") => Over(q)

\* A call waits for an approval as long as there is a waiter, and there is one only.
WaitersOK ==
  /\ waiting \in Seq(Waiters)
  /\ \A m, n \in 1 .. Len(waiting) : waiting[m].slot = waiting[n].slot => m = n
  /\ \A i \in Slots : (obj[i].run.st = "asks") <=> \E n \in 1 .. Len(waiting) : waiting[n].slot = i

Held ==
  /\ Registered
  /\ \A r \in Requests : AtStep(r)
  /\ \A id \in Ids : Opening(id)
  /\ InTurn

IInv == Types /\ Held /\ WaitersOK

-----------------------------------------------------------------------------
(* What Without keeps *)

\* A non-empty set of naturals has a least element.
LEMMA LeastNat ==
  ASSUME NEW S \in SUBSET Nat, S # {}
  PROVE  \E m \in S : \A n \in S : m <= n
<1> DEFINE R == OpToRel(<, Nat)
<1>1. \A ss \in Nat \X Nat : ss \in R <=> ss[1] < ss[2]
  BY DEF OpToRel
<1>2. IsWellFoundedOn(R, Nat)
  BY NatLessThanWellFounded, Zenon
<1> HIDE DEF R
<1>3. PICK m \in S : \A n \in S : <<n, m>> \notin R
  BY <1>2, WFMin
<1>4. ASSUME NEW n \in S PROVE m <= n
  <2>1. <<n, m>> \in Nat \X Nat
    OBVIOUS
  <2>2. ~(n < m)
    BY <1>1, <1>3, <2>1
  <2> QED
    BY <2>2
<1> QED
  BY <1>4

\* One step of Without: what is kept of the first n elements of s.
Step(s, ws, f, n) ==
  IF n = 0 THEN <<>>
  ELSE IF s[n] \in ws THEN f[n - 1] ELSE Append(f[n - 1], s[n])

\* The recursion has a solution.
LEMMA KeptExists ==
  ASSUME NEW s, NEW ws, NEW N \in Nat
  PROVE  \E f : f = [n \in 0 .. N |-> Step(s, ws, f, n)]
<1> DEFINE Solved(n) == \E f : f = [k \in 0 .. n |-> Step(s, ws, f, k)]
           Lacks == {n \in Nat : ~Solved(n)}
<1> SUFFICES ASSUME Lacks # {} PROVE FALSE
  OBVIOUS
<1>1. PICK m \in Lacks : \A n \in Lacks : m <= n
  BY LeastNat
<1>2. m # 0
  <2> DEFINE f == [k \in 0 .. 0 |-> <<>>]
  <2>1. f = [k \in 0 .. 0 |-> Step(s, ws, f, k)]
    BY DEF Step
  <2> QED BY <2>1
<1>3. Solved(m - 1)
  BY <1>1, <1>2
<1>4. PICK f : f = [k \in 0 .. m - 1 |-> Step(s, ws, f, k)]
  BY <1>3
<1> DEFINE g == [k \in 0 .. m |-> IF k = m THEN Step(s, ws, f, m) ELSE f[k]]
<1>5. g = [k \in 0 .. m |-> Step(s, ws, g, k)]
  <2> SUFFICES ASSUME NEW k \in 0 .. m PROVE g[k] = Step(s, ws, g, k)
    OBVIOUS
  <2>1. k # 0 => g[k - 1] = f[k - 1]
    BY <1>2
  <2>2. g[k] = Step(s, ws, f, k)
    BY <1>4
  <2> QED BY <2>1, <2>2 DEF Step
<1>6. Solved(m)
  BY <1>5
<1> QED BY <1>1, <1>6

\* What is kept are the elements outside ws, each in one place if s has it in one place.
Kept(s, ws, t, n) ==
  /\ t \in Seq({s[k] : k \in 1 .. Len(s)})
  /\ \A a \in 1 .. Len(t) : \E k \in 1 .. n : s[k] \notin ws /\ t[a] = s[k]
  /\ \A k \in 1 .. n : s[k] \notin ws => \E a \in 1 .. Len(t) : t[a] = s[k]
  /\ (\A k, l \in 1 .. n : s[k].slot = s[l].slot => k = l) =>
       \A a, b \in 1 .. Len(t) : t[a].slot = t[b].slot => a = b

LEMMA KeptStep ==
  ASSUME NEW s, Len(s) \in Nat, NEW ws, NEW n \in 1 .. Len(s), NEW t, Kept(s, ws, t, n - 1)
  PROVE  Kept(s, ws, IF s[n] \in ws THEN t ELSE Append(t, s[n]), n)
<1> DEFINE T == {s[k] : k \in 1 .. Len(s)}
<1>1. CASE s[n] \in ws
  <2>1. \A a \in 1 .. Len(t) : \E k \in 1 .. n : s[k] \notin ws /\ t[a] = s[k]
    <3> TAKE a \in 1 .. Len(t)
    <3>1. PICK k \in 1 .. n - 1 : s[k] \notin ws /\ t[a] = s[k]
      BY DEF Kept
    <3> QED BY <3>1
  <2>2. \A k \in 1 .. n : s[k] \notin ws => \E a \in 1 .. Len(t) : t[a] = s[k]
    <3> TAKE k \in 1 .. n
    <3> HAVE s[k] \notin ws
    <3>1. k \in 1 .. n - 1
      BY <1>1
    <3> QED BY <3>1 DEF Kept
  <2>3. (\A k, l \in 1 .. n : s[k].slot = s[l].slot => k = l) =>
           \A k, l \in 1 .. n - 1 : s[k].slot = s[l].slot => k = l
    OBVIOUS
  <2> QED BY <1>1, <2>1, <2>2, <2>3 DEF Kept
<1>2. CASE s[n] \notin ws
  <2> DEFINE u == Append(t, s[n])
  <2>1. t \in Seq(T) /\ s[n] \in T
    BY DEF Kept
  <2> HIDE DEF T
  <2>2. /\ u \in Seq(T) /\ Len(u) = Len(t) + 1 /\ u[Len(u)] = s[n] /\ Len(t) \in Nat
        /\ \A a \in 1 .. Len(t) : u[a] = t[a]
    BY <2>1, AppendProperties
  <2>3. \A a \in 1 .. Len(u) : \E k \in 1 .. n : s[k] \notin ws /\ u[a] = s[k]
    <3> TAKE a \in 1 .. Len(u)
    <3>1. CASE a = Len(u)
      BY <3>1, <2>2, <1>2
    <3>2. CASE a # Len(u)
      <4>1. a \in 1 .. Len(t)
        BY <3>2, <2>2
      <4>2. PICK k \in 1 .. n - 1 : s[k] \notin ws /\ t[a] = s[k]
        BY <4>1 DEF Kept
      <4> QED BY <4>1, <4>2, <2>2
    <3> QED BY <3>1, <3>2
  <2>4. \A k \in 1 .. n : s[k] \notin ws => \E a \in 1 .. Len(u) : u[a] = s[k]
    <3> TAKE k \in 1 .. n
    <3> HAVE s[k] \notin ws
    <3>1. CASE k = n
      BY <3>1, <2>2
    <3>2. CASE k # n
      <4>1. PICK a \in 1 .. Len(t) : t[a] = s[k]
        BY <3>2 DEF Kept
      <4> QED BY <4>1, <2>2
    <3> QED BY <3>1, <3>2
  <2>5. ASSUME \A k, l \in 1 .. n : s[k].slot = s[l].slot => k = l,
               NEW a \in 1 .. Len(u), NEW b \in 1 .. Len(u), u[a].slot = u[b].slot
        PROVE  a = b
    <3>1. \A c \in 1 .. Len(t) : t[c].slot # s[n].slot
      <4> TAKE c \in 1 .. Len(t)
      <4>1. PICK k \in 1 .. n - 1 : t[c] = s[k]
        BY DEF Kept
      <4> QED BY <4>1, <2>5
    <3>2. \A c, d \in 1 .. Len(t) : t[c].slot = t[d].slot => c = d
      <4>1. \A k, l \in 1 .. n - 1 : s[k].slot = s[l].slot => k = l
        BY <2>5
      <4> QED BY <4>1 DEF Kept
    <3> QED BY <3>1, <3>2, <2>2, <2>5
  <2> QED BY <1>2, <2>2, <2>3, <2>4, <2>5 DEF Kept, T
<1> QED BY <1>1, <1>2

\* Without is such a sequence.
LEMMA WithoutKeeps ==
  ASSUME NEW ws, Len(waiting) \in Nat
  PROVE  Kept(waiting, ws, Without(ws), Len(waiting))
<1> DEFINE N == Len(waiting)
           f == CHOOSE f : f = [n \in 0 .. N |-> Step(waiting, ws, f, n)]
<1>1. f = [n \in 0 .. N |-> Step(waiting, ws, f, n)]
  BY KeptExists
<1>2. Without(ws) = f[N]
  BY DEF Without, Step
<1> HIDE DEF f
<1> DEFINE Bad == {n \in Nat : n <= N /\ ~Kept(waiting, ws, f[n], n)}
<1> SUFFICES ASSUME Bad # {} PROVE FALSE
  BY <1>2
<1>3. PICK m \in Bad : \A n \in Bad : m <= n
  BY LeastNat
<1>4. m # 0
  <2>1. f[0] = <<>>
    BY <1>1 DEF Step
  <2>2. Kept(waiting, ws, <<>>, 0)
    BY DEF Kept
  <2>3. 0 \notin Bad
    BY <2>1, <2>2
  <2> QED BY <1>3, <2>3
<1>5. Kept(waiting, ws, f[m - 1], m - 1)
  BY <1>3, <1>4
<1>6. f[m] = IF waiting[m] \in ws THEN f[m - 1] ELSE Append(f[m - 1], waiting[m])
  <2>1. m \in 0 .. N /\ f[m] = Step(waiting, ws, f, m)
    BY <1>1, <1>3
  <2> QED BY <2>1, <1>4 DEF Step
<1>7. Kept(waiting, ws, f[m], m)
  BY <1>3, <1>4, <1>5, <1>6, KeptStep
<1> QED BY <1>3, <1>7

-----------------------------------------------------------------------------
(* What the operators on the objects change *)

Objects(o) == DOMAIN o = Slots /\ \A i \in Slots : ObjectOK(o[i])

\* What a session that has no file yet keeps for it is the file of one without a parent.
RecordFields == {"parent", "config", "models", "want"}
KeptFits(kept) == kept # Null => DOMAIN kept = RecordFields /\ kept.parent = Null

\* The same sessions in the same state: only their turns differ, and what they keep.
Alike(o, p) ==
  \A i \in Slots : /\ p[i].id = o[i].id /\ p[i].state = o[i].state
                   /\ p[i].settings = o[i].settings
                   /\ o[i].kept = Null => p[i].kept = Null
                   /\ KeptFits(o[i].kept) => KeptFits(p[i].kept)

LEMMA FieldsAre ==
  /\ Fields = {"id", "state", "heard", "settings", "want", "kept", "window", "run"}
  /\ DOMAIN New = {"pc", "slot", "snap", "todo"}
  /\ Quiet \in Runs /\ Quiet.st = "idle" /\ Quiet.left = {} /\ Quiet.ready = {} /\ Quiet.at = 1
BY DEF Fields, Blank, New, Quiet, Runs

\* p is o in another turn, or at another place of it.
Turned(o, p, run) == p = [o EXCEPT !.run = run]
Goes(o, p, i, run) == p = [o EXCEPT ![i].run = run]

LEMMA RunChange ==
  ASSUME NEW o, ObjectOK(o), NEW run \in Runs, NEW p, Turned(o, p, run)
  PROVE  /\ ObjectOK(p) /\ p.run = run /\ p.id = o.id /\ p.state = o.state /\ p.heard = o.heard
         /\ p.settings = o.settings /\ p.kept = o.kept
BY FieldsAre DEF ObjectOK, Turned

\* A step of one turn: every other object is as it was.
LEMMA TurnChange ==
  ASSUME NEW o, Objects(o), NEW i \in Slots, NEW run \in Runs,
         NEW p, Goes(o, p, i, run)
  PROVE  /\ Objects(p) /\ Alike(o, p) /\ p[i].run = run
         /\ \A j \in Slots : j # i => p[j] = o[j]
         /\ \A j \in Slots : p[j].settings = o[j].settings
<1>1. Turned(o[i], p[i], run) /\ \A j \in Slots : j # i => p[j] = o[j]
  BY DEF Objects, Goes, Turned
<1>2. DOMAIN p = Slots
  BY DEF Objects, Goes
<1>3. ObjectOK(o[i])
  BY DEF Objects
<1>4. /\ ObjectOK(p[i]) /\ p[i].run = run /\ p[i].id = o[i].id /\ p[i].state = o[i].state
      /\ p[i].heard = o[i].heard /\ p[i].settings = o[i].settings /\ p[i].kept = o[i].kept
  BY <1>1, <1>3, RunChange
<1> QED BY <1>1, <1>2, <1>4 DEF Objects, Alike

LEMMA AnsweredIs ==
  ASSUME NEW run \in Runs, NEW granted \in BOOLEAN
  PROVE  LET a == Answered(run, granted)
         IN /\ a \in Runs /\ a.st = "prep" /\ a.left = run.left /\ a.stop = run.stop
            /\ a.at = run.at + 1
            /\ a.ready = IF granted THEN run.ready \union {run.at} ELSE run.ready
<1>1. run.at \in Nat \ {0} /\ run.at + 1 \in Nat \ {0} /\ run.ready \union {run.at} \in SUBSET Nat
  BY DEF Runs
<1>2. CASE granted
  BY <1>1, <1>2 DEF Runs, Answered
<1>3. CASE ~granted
  BY <1>1, <1>3 DEF Runs, Answered
<1> QED BY <1>2, <1>3

LEMMA SettledIs ==
  ASSUME NEW o, Objects(o), NEW ws, NEW granted \in BOOLEAN
  PROVE  LET p == Settled(o, ws, granted)
         IN /\ Objects(p) /\ Alike(o, p)
            /\ \A i \in Slots : /\ p[i].run = IF \E w \in ws : w.slot = i
                                              THEN Answered(o[i].run, granted) ELSE o[i].run
                                /\ p[i].run.st = IF \E w \in ws : w.slot = i
                                                 THEN "prep" ELSE o[i].run.st
                                /\ p[i].settings = o[i].settings
<1> DEFINE p == Settled(o, ws, granted)
<1>1. DOMAIN p = Slots
  BY DEF Settled
<1>2. ASSUME NEW i \in Slots
      PROVE  /\ ObjectOK(p[i]) /\ p[i].id = o[i].id /\ p[i].state = o[i].state
             /\ p[i].heard = o[i].heard /\ p[i].settings = o[i].settings /\ p[i].kept = o[i].kept
             /\ p[i].run = IF \E w \in ws : w.slot = i
                           THEN Answered(o[i].run, granted) ELSE o[i].run
             /\ p[i].run.st = IF \E w \in ws : w.slot = i THEN "prep" ELSE o[i].run.st
  <2>1. ObjectOK(o[i]) /\ o[i].run \in Runs
    BY DEF Objects, ObjectOK
  <2>2. CASE \E w \in ws : w.slot = i
    <3>1. Turned(o[i], p[i], Answered(o[i].run, granted))
      BY <2>2 DEF Settled, Turned
    <3>2. Answered(o[i].run, granted) \in Runs /\ Answered(o[i].run, granted).st = "prep"
      BY <2>1, AnsweredIs
    <3> HIDE DEF p
    <3> QED BY <2>1, <2>2, <3>1, <3>2, RunChange
  <2>3. CASE ~\E w \in ws : w.slot = i
    <3>1. p[i] = o[i]
      BY <2>3 DEF Settled
    <3> HIDE DEF p
    <3> QED BY <2>1, <2>3, <3>1
  <2> QED BY <2>2, <2>3
<1> HIDE DEF p
<1> QED BY <1>1, <1>2 DEF Objects, Alike, p

\* An abort changes which calls are left, and in what mood they go on.
LEMMA StoppedIs ==
  ASSUME NEW o, Objects(o), NEW J
  PROVE  LET p == Stopped(o, J)
         IN /\ Objects(p) /\ Alike(o, p)
            /\ \A i \in Slots : /\ p[i].run.st = o[i].run.st /\ p[i].run.at = o[i].run.at
                                /\ p[i].run.ready = o[i].run.ready
                                /\ p[i].run.left \subseteq o[i].run.left
                                /\ p[i].settings = o[i].settings
<1> DEFINE p == Stopped(o, J)
<1>1. DOMAIN p = Slots
  BY DEF Stopped
<1>2. ASSUME NEW i \in Slots
      PROVE  /\ ObjectOK(p[i]) /\ p[i].id = o[i].id /\ p[i].state = o[i].state
             /\ p[i].heard = o[i].heard /\ p[i].settings = o[i].settings /\ p[i].kept = o[i].kept
             /\ p[i].run.st = o[i].run.st /\ p[i].run.at = o[i].run.at
             /\ p[i].run.ready = o[i].run.ready /\ p[i].run.left \subseteq o[i].run.left
  <2>1. ObjectOK(o[i]) /\ o[i].run \in Runs
    BY DEF Objects, ObjectOK
  <2> DEFINE gone == {n \in o[i].run.left : /\ Script(i)[n].kind = "ask_user"
                                            /\ asked[o[i].id] # Null
                                            /\ asked[o[i].id].at = n}
             run == [o[i].run EXCEPT !.stop = TRUE, !.left = @ \ gone]
  <2>2. /\ run \in Runs /\ run.st = o[i].run.st /\ run.at = o[i].run.at
        /\ run.ready = o[i].run.ready /\ run.left \subseteq o[i].run.left
    BY <2>1 DEF Runs
  <2>3. CASE i \in J
    <3>1. Turned(o[i], p[i], run)
      BY <2>3, <2>1, FieldsAre DEF Stopped, ObjectOK, Turned
    <3> HIDE DEF p, run
    <3> QED BY <2>1, <2>2, <3>1, RunChange
  <2>4. CASE i \notin J
    <3>1. p[i] = o[i]
      BY <2>4 DEF Stopped
    <3> HIDE DEF p
    <3> QED BY <2>1, <3>1
  <2> QED BY <2>3, <2>4
<1> HIDE DEF p
<1> QED BY <1>1, <1>2 DEF Objects, Alike, p

\* A call that is over.
LEMMA ReturnedIs ==
  ASSUME NEW o, Objects(o), NEW i \in Slots, NEW n
  PROVE  LET p == Returned(o, i, n)
         IN /\ Objects(p) /\ Alike(o, p)
            /\ \A j \in Slots : /\ p[j].run.st = o[j].run.st /\ p[j].run.at = o[j].run.at
                                /\ p[j].run.ready = o[j].run.ready
                                /\ p[j].run.left \subseteq o[j].run.left
                                /\ p[j].settings = o[j].settings
<1> DEFINE run == [o[i].run EXCEPT !.left = @ \ {n}]
<1>1. o[i].run \in Runs /\ DOMAIN o[i] = Fields
  BY DEF Objects, ObjectOK
<1>2. /\ run \in Runs /\ run.st = o[i].run.st /\ run.at = o[i].run.at
      /\ run.ready = o[i].run.ready /\ run.left \subseteq o[i].run.left
  BY <1>1 DEF Runs
<1> DEFINE p == Returned(o, i, n)
<1>3. Goes(o, p, i, run)
  BY <1>1, FieldsAre DEF Returned, Objects, Goes
<1> HIDE DEF run, p
<1>4. /\ Objects(p) /\ Alike(o, p) /\ p[i].run = run
      /\ \A j \in Slots : j # i => p[j] = o[j]
      /\ \A j \in Slots : p[j].settings = o[j].settings
  BY <1>2, <1>3, TurnChange
<1> QED BY <1>2, <1>4 DEF p

\* A prompt starts a turn of an idle session.
LEMMA PromptedIs ==
  ASSUME NEW o, Objects(o), NEW i \in Slots
  PROVE  LET p == Prompted(o, i)
         IN /\ Objects(p) /\ Alike(o, p)
            /\ \A j \in Slots : /\ j # i \/ o[j].run.st # "idle" => p[j] = o[j]
                                /\ p[j].settings = o[j].settings
            /\ o[i].run.st = "idle" => p[i].run = [Quiet EXCEPT !.st = "prep"] /\ p[i].run.st = "prep"
<1>1. [Quiet EXCEPT !.st = "prep"] \in Runs /\ [Quiet EXCEPT !.st = "prep"].st = "prep"
  BY FieldsAre DEF Runs, Quiet
<1>2. CASE o[i].run.st = "idle"
  <2> DEFINE p == Prompted(o, i)
  <2>1. Goes(o, p, i, [Quiet EXCEPT !.st = "prep"])
    BY <1>2 DEF Prompted, Goes
  <2> HIDE DEF p
  <2>2. /\ Objects(p) /\ Alike(o, p) /\ p[i].run = [Quiet EXCEPT !.st = "prep"]
        /\ \A j \in Slots : j # i => p[j] = o[j]
        /\ \A j \in Slots : p[j].settings = o[j].settings
    BY <1>1, <2>1, TurnChange
  <2> QED BY <1>2, <2>2 DEF p
<1>3. CASE o[i].run.st # "idle"
  BY <1>3 DEF Prompted, Alike
<1> QED BY <1>2, <1>3

-----------------------------------------------------------------------------
(* How the parts of the invariant are carried over a step *)

LEMMA Fixed ==
  ASSUME bound' = bound
  PROVE  /\ Requests' = Requests /\ Waiters' = Waiters
         /\ \A r : Id(r)' = Id(r) /\ Kind(r)' = Kind(r) /\ Opens(r)' = Opens(r)
BY DEF Requests, Waiters, Id, Kind, Opens

LEMMA RequestsAre ==
  ASSUME bound \in Scenarios
  PROVE  /\ Requests \subseteq Nat \ {0} /\ 0 \notin Requests
         /\ \A r \in Requests : Id(r) \in Ids /\ Id(r) # "kid"
         /\ \A r, q \in Requests : (Kind(r) = "create" /\ q # r /\ Id(q) = Id(r)) =>
                                     bound.serial /\ r < q
<1>1. bound.requests \in Seq(Request) /\ DOMAIN bound.requests = Requests
  BY RegistryAssumption DEF Requests
<1>2. \A r \in Requests : bound.requests[r] \in Request
  BY <1>1
<1>3. Requests \subseteq Nat \ {0}
  BY <1>1 DEF Requests
<1>4. \A r, q \in Requests :
        (Kind(r) = "create" /\ q # r /\ Id(q) = Id(r)) => bound.serial /\ r < q
  BY <1>1, RegistryAssumption DEF Kind, Id
<1> QED BY <1>2, <1>3, <1>4 DEF Request, Id

LEMMA NextSlotIs ==
  ASSUME FreeSlots # {}
  PROVE  NextSlot \in Slots /\ Free(NextSlot) /\ NextSlot # 0
<1>1. FreeSlots \in SUBSET Nat
  BY RegistryAssumption DEF FreeSlots
<1>2. \E i \in FreeSlots : \A j \in FreeSlots : i <= j
  BY <1>1, LeastNat
<1>3. NextSlot \in FreeSlots
  BY <1>2 DEF NextSlot
<1> QED BY <1>3, RegistryAssumption DEF FreeSlots

\* The register and the requests do not look at the turns, but for whether there is one.
LEMMA SameRegister ==
  ASSUME Types, Held, UNCHANGED <<bound, entry, opening, req>>,
         Objects(obj'), Alike(obj, obj'),
         \A i \in Slots : /\ Busy(i) => obj'[i].run.st # "idle"
                          /\ obj'[i].run.st # "idle" => Busy(i) \/ obj[i].id \in Ids
  PROVE  Types' /\ Held'
<1>0. /\ Requests' = Requests /\ bound' = bound
      /\ \A r : Id(r)' = Id(r) /\ Kind(r)' = Kind(r) /\ Opens(r)' = Opens(r)
  BY Fixed
<1> USE <1>0
<1>1. Types'
  BY DEF Types, Objects, Entries
<1>2. Registered'
  <2>1. \A i \in Slots : Live(i)' = Live(i) /\ obj'[i].id = obj[i].id
    BY DEF Alike, Live
  <2>2. \A id \in Ids : entry[id] # 0 => entry[id] \in Slots
    BY DEF Types, Entries
  <2>3. \A id \in Ids : entry[id] # 0 => Live(entry[id])' /\ obj'[entry[id]].id = id
    BY <2>1, <2>2 DEF Held, Registered
  <2>4. \A i \in Slots : Live(i)' =>
          /\ obj'[i].id \in Ids
          /\ \/ entry[obj'[i].id] = i
             \/ \E r \in Requests : req[r].pc = "built" /\ req[r].slot = i
    BY <2>1 DEF Held, Registered
  <2>5. \A i \in Slots : obj'[i].id = "kid" => Live(i)'
    BY <2>1 DEF Held, Registered
  <2>6. \A id \in Ids : entry'[id] # 0 => (Live(entry[id]) /\ obj[entry[id]].id = id)'
    BY <2>2, <2>3 DEF Live
  <2>7. \A i \in Slots : Busy(i)' => obj'[i].id \in Ids
    BY <2>1 DEF Held, Registered, Busy
  <2> QED BY <2>4, <2>5, <2>6, <2>7 DEF Registered
<1>3. ASSUME NEW r \in Requests PROVE AtStep(r)'
  <2>1. AtStep(r)
    BY DEF Held
  <2>2. \A i \in Slots : Live(i)' = Live(i) /\ obj'[i].id = obj[i].id /\ (Busy(i) => Busy(i)')
    BY DEF Alike, Live, Busy
  <2> QED BY <2>1, <2>2 DEF AtStep, Live, Busy
<1>4. \A id \in Ids : Opening(id)'
  <2> TAKE id \in Ids
  <2>1. Opening(id)
    BY DEF Held
  <2> QED BY <2>1 DEF Opening
<1>5. InTurn'
  <2>1. InTurn
    BY DEF Held
  <2> QED BY <2>1 DEF InTurn, Over
<1> QED BY <1>1, <1>2, <1>3, <1>4, <1>5 DEF Held

LEMMA InTurnKept ==
  ASSUME Types, InTurn, bound' = bound, \A r \in Requests : Over(r) => Over(r)',
         \A r \in Requests : req'[r].pc # "new" => req[r].pc # "new" \/ Issuable(r)
  PROVE  InTurn'
<1>0. /\ Requests' = Requests /\ bound' = bound
      /\ \A r : Id(r)' = Id(r) /\ Kind(r)' = Kind(r) /\ Opens(r)' = Opens(r)
  BY Fixed
<1> USE <1>0
<1> SUFFICES ASSUME bound.serial, NEW r \in Requests, NEW q \in Requests, q < r, req'[r].pc # "new"
             PROVE  Over(q)'
  BY DEF InTurn
<1>1. Over(q)
  BY DEF InTurn, Issuable
<1> QED BY <1>1

-----------------------------------------------------------------------------
(* Waiters *)

LEMMA SameWaiters ==
  ASSUME WaitersOK, UNCHANGED <<bound, waiting>>,
         \A i \in Slots : (obj'[i].run.st = "asks") <=> (obj[i].run.st = "asks")
  PROVE  WaitersOK'
BY Fixed DEF WaitersOK

LEMMA FewerWaiters ==
  ASSUME WaitersOK, bound' = bound, NEW ws \in SUBSET ToSet(waiting), waiting' = Without(ws),
         \A i \in Slots : (obj'[i].run.st = "asks")
                            <=> (obj[i].run.st = "asks" /\ ~\E w \in ws : w.slot = i)
  PROVE  WaitersOK'
<1> DEFINE N == Len(waiting)
<1>1. waiting \in Seq(Waiters) /\ N \in Nat /\ DOMAIN waiting = 1 .. N
  BY DEF WaitersOK
<1>2. Kept(waiting, ws, waiting', N)
  BY <1>1, WithoutKeeps
<1>3. waiting' \in Seq(Waiters)
  <2>1. {waiting[k] : k \in 1 .. N} \subseteq Waiters
    BY <1>1
  <2>2. waiting' \in Seq({waiting[k] : k \in 1 .. N})
    BY <1>2 DEF Kept
  <2> HIDE DEF N
  <2> QED BY <2>1, <2>2
<1>4. \A a, b \in 1 .. Len(waiting') : waiting'[a].slot = waiting'[b].slot => a = b
  BY <1>2 DEF Kept, WaitersOK
<1>5. ASSUME NEW i \in Slots
      PROVE  (obj'[i].run.st = "asks") <=> \E n \in 1 .. Len(waiting') : waiting'[n].slot = i
  <2>1. ASSUME obj'[i].run.st = "asks"
        PROVE  \E n \in 1 .. Len(waiting') : waiting'[n].slot = i
    <3>1. PICK k \in 1 .. N : waiting[k].slot = i
      BY <2>1 DEF WaitersOK
    <3>2. waiting[k] \notin ws
      BY <2>1, <3>1
    <3> QED BY <3>1, <3>2, <1>2 DEF Kept
  <2>2. ASSUME NEW n \in 1 .. Len(waiting'), waiting'[n].slot = i
        PROVE  obj'[i].run.st = "asks"
    <3>1. PICK k \in 1 .. N : waiting[k] \notin ws /\ waiting'[n] = waiting[k]
      BY <1>2 DEF Kept
    <3>2. obj[i].run.st = "asks"
      BY <2>2, <3>1 DEF WaitersOK
    <3>3. \A w \in ws : w.slot # i
      <4> SUFFICES ASSUME NEW w \in ws, w.slot = i PROVE FALSE
        OBVIOUS
      <4>1. PICK l \in 1 .. N : waiting[l] = w
        BY <1>1 DEF ToSet
      <4>2. l = k
        BY <2>2, <3>1, <4>1 DEF WaitersOK
      <4> QED BY <3>1, <4>1, <4>2
    <3> QED BY <3>2, <3>3
  <2> QED BY <2>1, <2>2
<1> QED BY <1>3, <1>4, <1>5, Fixed DEF WaitersOK

LEMMA OneMoreWaiter ==
  ASSUME WaitersOK, bound' = bound, NEW w \in Waiters, waiting' = Append(waiting, w),
         obj[w.slot].run.st # "asks",
         \A i \in Slots : (obj'[i].run.st = "asks") <=> (obj[i].run.st = "asks" \/ i = w.slot)
  PROVE  WaitersOK'
<1> DEFINE N == Len(waiting)
<1>1. waiting \in Seq(Waiters) /\ N \in Nat /\ w.slot \in Slots
  BY DEF WaitersOK, Waiters
<1>2. /\ waiting' \in Seq(Waiters) /\ Len(waiting') = N + 1 /\ waiting'[N + 1] = w
      /\ \A n \in 1 .. N : waiting'[n] = waiting[n]
  BY <1>1, AppendProperties
<1>3. \A n \in 1 .. N : waiting[n].slot # w.slot
  BY <1>1 DEF WaitersOK
<1>4. \A m, n \in 1 .. N + 1 : waiting'[m].slot = waiting'[n].slot => m = n
  BY <1>1, <1>2, <1>3 DEF WaitersOK
<1>5. ASSUME NEW i \in Slots
      PROVE  (obj'[i].run.st = "asks") <=> \E n \in 1 .. N + 1 : waiting'[n].slot = i
  <2>1. CASE i = w.slot
    <3>1. N + 1 \in 1 .. N + 1 /\ waiting'[N + 1].slot = i
      BY <2>1, <1>1, <1>2
    <3> QED BY <2>1, <3>1
  <2>2. CASE i # w.slot
    <3>1. (\E n \in 1 .. N + 1 : waiting'[n].slot = i) <=> \E n \in 1 .. N : waiting[n].slot = i
      BY <2>2, <1>1, <1>2
    <3> QED BY <2>2, <3>1 DEF WaitersOK
  <2> QED BY <2>1, <2>2
<1> QED BY <1>2, <1>4, <1>5, Fixed DEF WaitersOK

-----------------------------------------------------------------------------
(* Which command needs an approval *)

LEMMA LeastIn ==
  ASSUME NEW I \in SUBSET Nat, I # {}
  PROVE  Min(I) \in I /\ \A n \in I : Min(I) <= n
<1>1. \E m \in I : \A n \in I : m <= n
  BY LeastNat
<1> QED BY <1>1 DEF Min

\* The first of the rules that match.
FirstDangerous(matches) == SelectInSeq(DangerousRules, LAMBDA r : r \in matches)
FirstSensitive(matches) == SelectInSeq(SensitiveRules, LAMBDA r : r.rule \in matches)

LEMMA DangerousFirst ==
  ASSUME NEW matches
  PROVE  LET d == FirstDangerous(matches)
         IN \/ d = 0 /\ \A n \in 1 .. 13 : DangerousRules[n] \notin matches
            \/ d \in 1 .. 13 /\ DangerousRules[d] \in matches
<1> DEFINE I == {n \in 1 .. 13 : DangerousRules[n] \in matches}
<1>1. Len(DangerousRules) = 13
  BY DEF DangerousRules
<1>2. FirstDangerous(matches) = IF I # {} THEN Min(I) ELSE 0
  BY <1>1 DEF SelectInSeq, FirstDangerous, FirstSensitive
<1>3. I \in SUBSET Nat
  OBVIOUS
<1>4. I # {} => Min(I) \in I
  BY <1>3, LeastIn
<1> QED BY <1>2, <1>4

LEMMA SensitiveFirst ==
  ASSUME NEW matches
  PROVE  LET d == FirstSensitive(matches)
         IN \/ d = 0 /\ \A n \in 1 .. 4 : SensitiveRules[n].rule \notin matches
            \/ /\ d \in 1 .. 4 /\ SensitiveRules[d].rule \in matches
               /\ \A n \in 1 .. 4 : SensitiveRules[n].rule \in matches => d <= n
<1> DEFINE I == {n \in 1 .. 4 : SensitiveRules[n].rule \in matches}
<1>1. Len(SensitiveRules) = 4
  BY DEF SensitiveRules
<1>2. FirstSensitive(matches) = IF I # {} THEN Min(I) ELSE 0
  BY <1>1 DEF SelectInSeq, FirstDangerous, FirstSensitive
<1>3. I \in SUBSET Nat
  OBVIOUS
<1>4. I # {} => Min(I) \in I /\ \A n \in I : Min(I) <= n
  BY <1>3, LeastIn
<1> QED BY <1>2, <1>4

\* What Classify says of a command, if anything, can be shown in a dialog.
LEMMA ClassifyIs ==
  ASSUME NEW matches, Classify(matches) # Null
  PROVE  Classify(matches) \in Approvals
<1> DEFINE d == FirstDangerous(matches)
           s == FirstSensitive(matches)
<1>1. d = 0 \/ d \in 1 .. 13
  BY DangerousFirst
<1>2. s = 0 \/ s \in 1 .. 4
  BY SensitiveFirst
<1>3. Classify(matches) = IF d # 0
                          THEN [rule |-> DangerousRules[d], risk |-> "critical",
                                category |-> DangerousCategory(DangerousRules[d])]
                          ELSE IF s # 0 THEN SensitiveRules[s] ELSE Null
  BY DEF Classify, FirstDangerous, FirstSensitive
<1> HIDE DEF d, s
<1>4. CASE d # 0
  <2>1. d \in DOMAIN DangerousRules
    BY <1>1, <1>4 DEF DangerousRules
  <2>2. DangerousRules[d] \in ToSet(DangerousRules)
    BY <2>1 DEF ToSet
  <2>3. \A r : DangerousCategory(r) \in {"destructive", "git_remote", "network", "system"}
    BY DEF DangerousCategory
  <2> QED BY <1>3, <1>4, <2>2, <2>3 DEF Approvals, Rules
<1>5. CASE d = 0
  <2>1. s \in 1 .. 4
    BY <1>2, <1>3, <1>5
  <2>2. SensitiveRules[s] \in ToSet(SensitiveRules) /\ DOMAIN SensitiveRules = 1 .. 4
    BY <2>1 DEF ToSet, SensitiveRules
  <2>3. /\ SensitiveRules[s].risk \in {"high", "medium"}
        /\ SensitiveRules[s].category \in
             {"git_remote", "dependency_change", "network", "workspace_write"}
        /\ SensitiveRules[s] = [rule |-> SensitiveRules[s].rule, risk |-> SensitiveRules[s].risk,
                                category |-> SensitiveRules[s].category]
    BY <2>1 DEF SensitiveRules
  <2>4. SensitiveRules[s].rule \in {x.rule : x \in ToSet(SensitiveRules)}
    BY <2>2
  <2>5. SensitiveRules[s] \in Approvals
    BY <2>3, <2>4 DEF Approvals, Rules
  <2> QED BY <1>3, <1>5, <2>1, <2>5
<1> QED BY <1>4, <1>5

-----------------------------------------------------------------------------
(* Steps of turns and of the page *)

\* Nothing but turns, and none begins, ends or waits.
LEMMA QuietStep ==
  ASSUME IInv, UNCHANGED <<bound, entry, opening, req, waiting>>,
         Objects(obj'), Alike(obj, obj'),
         \A i \in Slots : /\ Busy(i) <=> obj'[i].run.st # "idle"
                          /\ obj'[i].run.st = "asks" <=> obj[i].run.st = "asks"
  PROVE  IInv'
BY SameRegister, SameWaiters DEF IInv

LEMMA SameObjects ==
  ASSUME IInv, UNCHANGED <<bound, obj, entry, opening, req, waiting>>
  PROVE  IInv'
BY QuietStep DEF IInv, Types, Objects, Alike, Busy

LEMMA SettleStep ==
  ASSUME IInv, UNCHANGED <<bound, entry, opening, req>>, NEW granted \in BOOLEAN,
         NEW ws \in SUBSET ToSet(waiting), waiting' = Without(ws), obj' = Settled(obj, ws, granted)
  PROVE  IInv'
<1>1. Objects(obj)
  BY DEF IInv, Types, Objects
<1>2. /\ Objects(obj') /\ Alike(obj, obj')
      /\ \A i \in Slots : obj'[i].run.st = IF \E w \in ws : w.slot = i
                                           THEN "prep" ELSE obj[i].run.st
  BY <1>1, SettledIs
<1>3. \A w \in ws : w.slot \in Slots /\ obj[w.slot].run.st = "asks"
  <2> TAKE w \in ws
  <2>1. waiting \in Seq(Waiters) /\ DOMAIN waiting = 1 .. Len(waiting)
    BY DEF IInv, WaitersOK
  <2>2. PICK n \in 1 .. Len(waiting) : waiting[n] = w
    BY <2>1 DEF ToSet
  <2>3. w \in Waiters
    BY <2>1, <2>2
  <2> QED BY <2>2, <2>3 DEF IInv, WaitersOK, Waiters
<1>4. WaitersOK'
  BY <1>2, FewerWaiters DEF IInv
<1>5. \A i \in Slots : Busy(i) <=> obj'[i].run.st # "idle"
  BY <1>2, <1>3 DEF Busy
<1> QED BY <1>2, <1>4, <1>5, SameRegister DEF IInv

\* One turn goes on.
LEMMA TurnStep ==
  ASSUME IInv, UNCHANGED <<bound, entry, opening, req, waiting>>, NEW i \in Slots,
         NEW run \in Runs, Goes(obj, obj', i, run), run.st # "idle", run.st # "asks",
         Busy(i), obj[i].run.st # "asks"
  PROVE  IInv'
<1>1. Objects(obj)
  BY DEF IInv, Types, Objects
<1>2. Objects(obj') /\ Alike(obj, obj') /\ obj'[i].run = run /\ \A j \in Slots : j # i => obj'[j] = obj[j]
  BY <1>1, TurnChange
<1> QED BY <1>2, QuietStep DEF Busy

LEMMA ReturnStep ==
  ASSUME IInv, UNCHANGED <<bound, entry, opening, req, waiting>>, NEW i \in Slots, NEW n,
         obj' = Returned(obj, i, n)
  PROVE  IInv'
<1>1. Objects(obj)
  BY DEF IInv, Types, Objects
<1>2. Objects(obj') /\ Alike(obj, obj') /\ \A j \in Slots : obj'[j].run.st = obj[j].run.st
  BY <1>1, ReturnedIs
<1> QED BY <1>2, QuietStep DEF Busy

LEMMA PrepareOk ==
  ASSUME IInv, NEW i \in Slots, Prepare(i) \/ Skip(i)
  PROVE  IInv'
<1>1. obj[i].run \in Runs /\ obj[i].run.st = "prep"
  BY DEF IInv, Types, ObjectOK, Prepare, Skip, Preparing
<1>2. PICK granted \in BOOLEAN : Goes(obj, obj', i, Answered(obj[i].run, granted))
  BY DEF Prepare, Skip, Goes
<1>3. Answered(obj[i].run, granted) \in Runs /\ Answered(obj[i].run, granted).st = "prep"
  BY <1>1, AnsweredIs
<1>4. UNCHANGED <<bound, entry, opening, req, waiting>>
  BY DEF Prepare, Skip
<1> QED BY <1>1, <1>2, <1>3, <1>4, TurnStep DEF Busy

LEMMA LaunchOk ==
  ASSUME IInv, NEW i \in Slots, Launch(i)
  PROVE  IInv'
<1> DEFINE run == [obj[i].run EXCEPT !.st = "exec", !.left = obj[i].run.ready]
<1>1. DOMAIN obj = Slots /\ DOMAIN obj[i] = Fields /\ obj[i].run \in Runs /\ obj[i].run.st = "prep"
  BY DEF IInv, Types, ObjectOK, Launch
<1>2. run \in Runs /\ run.st = "exec"
  BY <1>1 DEF Runs
<1>3. Goes(obj, obj', i, run)
  BY <1>1, FieldsAre DEF Launch, Goes
<1>4. UNCHANGED <<bound, entry, opening, req, waiting>>
  BY DEF Launch, talk
<1> HIDE DEF run
<1> QED BY <1>1, <1>2, <1>3, <1>4, TurnStep DEF Busy

LEMMA RequestApprovalOk ==
  ASSUME IInv, NEW i \in Slots, RequestApproval(i)
  PROVE  IInv'
<1> DEFINE run == [obj[i].run EXCEPT !.st = "asks"]
           w == [slot |-> i, owner |-> obj[i].id, call |-> CallOf(i).call, parent |-> Parent(i),
                 asks |-> Classify(CallOf(i).matches), deaf |-> obj[i].run.stop]
<1>1. /\ DOMAIN obj = Slots /\ DOMAIN obj[i] = Fields /\ obj[i].run \in Runs
      /\ obj[i].run.st = "prep" /\ Objects(obj) /\ Busy(i)
  BY DEF IInv, Types, Objects, ObjectOK, RequestApproval, Preparing, Busy
<1>2. run \in Runs /\ run.st = "asks"
  BY <1>1 DEF Runs
<1>3. /\ Goes(obj, obj', i, run) /\ waiting' = Append(waiting, w)
      /\ UNCHANGED <<bound, entry, opening, req>>
  BY <1>1, FieldsAre DEF RequestApproval, Goes
<1>4. w \in Waiters
  <2>1. obj[i].id \in Ids
    BY <1>1 DEF IInv, Held, Registered
  <2>2. Script(i) \in Seq(ToSet(Script(i))) /\ Script(i) = bound.script[obj[i].id]
    BY <2>1, RegistryAssumption DEF Script, IInv, Types
  <2>3. obj[i].run.at \in Nat \ {0} /\ obj[i].run.stop \in BOOLEAN
    BY <1>1 DEF Runs
  <2>4. obj[i].run.at \in 1 .. Len(Script(i))
    BY <2>2, <2>3 DEF RequestApproval, Preparing
  <2>5. CallOf(i) \in ToSet(bound.script[obj[i].id])
    BY <2>2, <2>4 DEF CallOf, ToSet
  <2>6. CallOf(i).call \in {c.call : c \in UNION {ToSet(bound.script[id]) : id \in Ids}}
    BY <2>1, <2>5
  <2>7. Classify(CallOf(i).matches) \in Approvals
    BY ClassifyIs DEF RequestApproval, Asks
  <2>8. Parent(i) \in {Watched, Null}
    BY DEF Parent
  <2> QED BY <2>1, <2>3, <2>6, <2>7, <2>8 DEF Waiters, CallsOf
<1> HIDE DEF run, w
<1>5. /\ Objects(obj') /\ Alike(obj, obj') /\ obj'[i].run = run
      /\ \A j \in Slots : j # i => obj'[j] = obj[j]
  BY <1>1, <1>2, <1>3, TurnChange
<1>6. w.slot = i
  BY DEF w
<1>7. WaitersOK'
  BY <1>1, <1>2, <1>3, <1>4, <1>5, <1>6, OneMoreWaiter DEF IInv
<1>8. Types' /\ Held'
  BY <1>1, <1>2, <1>3, <1>5, SameRegister DEF IInv, Busy
<1> QED BY <1>7, <1>8 DEF IInv

LEMMA ExecuteOk ==
  ASSUME IInv, NEW i \in Slots, Execute(i) \/ AskUser(i)
  PROVE  IInv'
<1>1. UNCHANGED <<bound, entry, opening, req, waiting>>
  BY DEF Execute, AskUser
<1>2. obj' = obj \/ \E n : obj' = Returned(obj, i, n)
  BY DEF Execute, AskUser
<1> QED BY <1>1, <1>2, ReturnStep, SameObjects

LEMMA QuestionTimeoutOk ==
  ASSUME IInv, NEW id, QuestionTimeout(id)
  PROVE  IInv'
<1>1. UNCHANGED <<bound, entry, opening, req, waiting>>
  BY DEF QuestionTimeout
<1>2. \E i \in Slots : \E n : obj' = Returned(obj, i, n)
  BY DEF QuestionTimeout, Answers
<1> QED BY <1>1, <1>2, ReturnStep

LEMMA ApprovalTimeoutOk ==
  ASSUME IInv, NEW w \in ToSet(waiting), ApprovalTimeout(w)
  PROVE  IInv'
<1>1. {w} \in SUBSET ToSet(waiting) /\ FALSE \in BOOLEAN
  OBVIOUS
<1> QED BY <1>1, SettleStep DEF ApprovalTimeout

-----------------------------------------------------------------------------
(* The page *)

LEMMA DecidableAre ==
  ASSUME NEW session, NEW call
  PROVE  Decidable(session, call) \subseteq ToSet(waiting)
BY DEF Decidable, ChildWaiters

LEMMA ApproveOk ==
  ASSUME IInv, NEW yes \in BOOLEAN, Approve(yes)
  PROVE  IInv'
<1>1. PICK call : ApproveTool(call, yes)
  BY DEF Approve
<1>2. Decidable(Watched, call) \in SUBSET ToSet(waiting)
  BY DecidableAre
<1>3. UNCHANGED <<bound, entry, opening, req>>
  BY DEF Approve
<1> QED BY <1>1, <1>2, <1>3, SettleStep DEF ApproveTool

LEMMA AnswerOk ==
  ASSUME IInv, NEW picks, Answer(picks)
  PROVE  IInv'
<1>1. UNCHANGED <<bound, entry, opening, req, waiting>>
  BY DEF Answer
<1>2. obj' = obj \/ \E i \in Slots : \E n : obj' = Returned(obj, i, n)
  BY DEF Answer, AnswerQuestion, Answers
<1> QED BY <1>1, <1>2, ReturnStep, SameObjects

LEMMA PageOk ==
  ASSUME IInv, ReadEvent \/ Reload \/ LoadAnswered \/ LoadShown \/ ApproveReturns
                 \/ AnswerReturns \/ Rest \/ UNCHANGED vars
  PROVE  IInv'
<1>1. UNCHANGED <<bound, obj, entry, opening, req, waiting>>
  BY DEF ReadEvent, Reload, LoadAnswered, LoadShown, ApproveReturns, AnswerReturns, Rest, vars
<1> QED BY <1>1, SameObjects

-----------------------------------------------------------------------------
(* Requests *)

\* Two requests never open or make the same session at a time.
LEMMA Alone ==
  ASSUME Types, Held, NEW r \in Requests, NEW q \in Requests, r # q, Id(r) = Id(q),
         req[r].pc \in {"list", "built", "bind"}
  PROVE  req[q].pc \notin {"list", "built", "bind"} /\ ~(req[q].pc = "new" /\ Kind(q) = "create")
<1>1. /\ AtStep(r) /\ AtStep(q) /\ InTurn
      /\ Opens(r) \/ Kind(r) = "create"
      /\ req[q].pc \in {"list", "built", "bind"} => Opens(q) \/ Kind(q) = "create"
  BY DEF Held, AtStep
<1>2. CASE Kind(q) = "create"
  <2>1. bound.serial /\ q < r
    BY <1>2, RequestsAre DEF Types
  <2>2. Over(q)
    BY <1>1, <2>1 DEF InTurn
  <2> QED BY <2>2 DEF Over
<1>3. CASE Kind(r) = "create"
  <2>1. bound.serial /\ r < q
    BY <1>3, RequestsAre DEF Types
  <2>2. req[q].pc = "new"
    BY <1>1, <2>1 DEF InTurn, Over
  <2>3. Kind(q) # "create"
    <3> SUFFICES ASSUME Kind(q) = "create" PROVE FALSE
      OBVIOUS
    <3>1. q < r
      BY RequestsAre DEF Types
    <3>2. r \in Nat /\ q \in Nat
      BY RequestsAre DEF Types
    <3> QED BY <2>1, <3>1, <3>2
  <2> QED BY <2>2, <2>3
<1>4. CASE Opens(r) /\ Kind(q) # "create"
  <2>1. opening[Id(r)] = r
    BY <1>1, <1>4 DEF AtStep
  <2>2. req[q].pc \in {"list", "built", "bind"} => Opens(q) /\ opening[Id(q)] = q
    BY <1>1, <1>4 DEF AtStep
  <2> QED BY <1>4, <2>1, <2>2
<1> QED BY <1>1, <1>2, <1>3, <1>4

\* A request that a step leaves alone.
LEMMA StepKept ==
  ASSUME Types, bound' = bound, NEW q \in Requests, AtStep(q), req'[q] = req[q],
         entry'[Id(q)] = entry[Id(q)], opening'[Id(q)] = opening[Id(q)],
         req[q].pc = "new" /\ Kind(q) = "create" =>
           \A i \in Slots : Live(i)' /\ obj'[i].id = Id(q) => Live(i) /\ obj[i].id = Id(q),
         req[q].slot \in Slots /\ req[q].pc \in {"built", "bind", "remove"} =>
           LET i == req[q].slot
           IN obj'[i].id = obj[i].id /\ (Live(i) => Live(i)') /\ (Busy(i) => obj'[i].run.st # "idle")
  PROVE  AtStep(q)'
<1> DEFINE i == req[q].slot
<1>1. Id(q)' = Id(q) /\ Kind(q)' = Kind(q) /\ Opens(q)' = Opens(q)
  BY Fixed
<1>2. i \in Slots => Live(i) = (obj[i].state = "live") /\ Live(i)' = (obj'[i].state = "live")
  BY DEF Live
<1>3. i \in Slots => Busy(i) = (obj[i].run.st # "idle") /\ Busy(i)' = (obj'[i].run.st # "idle")
  BY DEF Busy
<1> QED BY <1>1, <1>2, <1>3 DEF AtStep, Live, Busy

\* The requests R come to their end; the openings of R are over for those that joined them.
LEMMA RequestsEnd ==
  ASSUME Types, Held, UNCHANGED <<bound, entry>>, Objects(obj'), Alike(obj, obj'),
         \A i \in Slots : /\ Busy(i) => obj'[i].run.st # "idle"
                          /\ obj'[i].run.st # "idle" => Busy(i) \/ obj[i].id \in Ids,
         NEW R \in SUBSET Requests, NEW pc \in {"done", "failed"},
         req' = [r \in Requests |-> IF r \in R THEN [New EXCEPT !.pc = pc] ELSE req[r]],
         \A r \in R : /\ req[r].pc # "built"
                      /\ req[r].pc = "new" => Issuable(r),
         opening' \in [Ids -> Requests \union {0}],
         \A id \in Ids :
           \/ opening'[id] = opening[id] /\ opening[id] \notin R
           \/ /\ opening'[id] = 0 /\ (opening[id] = 0 \/ opening[id] \in R)
              /\ \A q \in Requests : req[q].pc = "join" /\ Id(q) = id => q \in R
  PROVE  Types' /\ Held'
<1>0. /\ Requests' = Requests /\ bound' = bound
      /\ \A r : Id(r)' = Id(r) /\ Kind(r)' = Kind(r) /\ Opens(r)' = Opens(r)
  BY Fixed
<1> USE <1>0
<1>1. ASSUME NEW r \in R PROVE req'[r].pc = pc /\ RequestOK(req'[r])
  <2>1. req'[r] = [New EXCEPT !.pc = pc]
    BY <1>1
  <2> QED BY <2>1 DEF RequestOK, New, PCs
<1>2. \A r \in Requests \ R : req'[r] = req[r]
  OBVIOUS
<1>3. Types'
  BY <1>1, <1>2 DEF Types, Objects, Entries
<1>4. Registered'
  <2>1. \A i \in Slots : Live(i)' = Live(i) /\ obj'[i].id = obj[i].id
    BY DEF Alike, Live
  <2>2. \A id \in Ids : entry[id] # 0 => entry[id] \in Slots
    BY DEF Types, Entries
  <2>3. \A id \in Ids : entry'[id] # 0 => (Live(entry[id]) /\ obj[entry[id]].id = id)'
    BY <2>1, <2>2 DEF Held, Registered, Live
  <2>4. ASSUME NEW i \in Slots, Live(i)'
        PROVE  /\ obj'[i].id \in Ids
               /\ \/ entry'[obj'[i].id] = i
                  \/ \E r \in Requests : req'[r].pc = "built" /\ req'[r].slot = i
    <3>1. /\ obj[i].id \in Ids
          /\ \/ entry[obj[i].id] = i
             \/ \E r \in Requests : req[r].pc = "built" /\ req[r].slot = i
      BY <2>1, <2>4 DEF Held, Registered
    <3> QED BY <2>1, <3>1, <1>2
  <2>5. \A i \in Slots : obj'[i].id = "kid" => Live(i)'
    BY <2>1 DEF Held, Registered
  <2>6. \A i \in Slots : Busy(i)' => obj'[i].id \in Ids
    BY <2>1 DEF Held, Registered, Busy
  <2> QED BY <2>3, <2>4, <2>5, <2>6 DEF Registered
<1>5. ASSUME NEW q \in Requests PROVE AtStep(q)'
  <2>1. CASE q \in R
    BY <1>1, <2>1 DEF AtStep
  <2>2. CASE q \notin R
    <3>1. AtStep(q) /\ req'[q] = req[q] /\ Id(q) \in Ids
      BY <2>2, <1>2, RequestsAre DEF Held, Types
    <3>2. \A i \in Slots : /\ Live(i)' = Live(i) /\ obj'[i].id = obj[i].id
                           /\ Busy(i) => obj'[i].run.st # "idle"
      BY DEF Alike, Live
    <3>3. CASE opening'[Id(q)] = opening[Id(q)]
      BY <3>1, <3>2, <3>3, StepKept
    <3>4. CASE opening'[Id(q)] # opening[Id(q)]
      <4>1. opening[Id(q)] \in R /\ req[q].pc # "join"
        BY <3>1, <3>4, <2>2
      <4>2. ~(req[q].pc \in {"list", "built", "bind"} /\ Opens(q))
        BY <4>1, <3>1, <2>2 DEF AtStep
      <4>3. \A i \in Slots : Busy(i) => Busy(i)'
        BY <3>2 DEF Busy
      <4> QED BY <3>1, <3>2, <4>1, <4>2, <4>3 DEF AtStep, Live, Busy
    <3> QED BY <3>3, <3>4
  <2> QED BY <2>1, <2>2
<1>6. ASSUME NEW id \in Ids PROVE Opening(id)'
  <2>1. Opening(id)
    BY DEF Held
  <2>2. opening[id] \in Requests \union {0}
    BY DEF Types
  <2> QED BY <1>2, <2>1, <2>2 DEF Opening
<1>7. InTurn'
  <2>1. \A r \in Requests : Over(r) => Over(r)'
    BY <1>1, <1>2 DEF Over
  <2>2. \A r \in Requests : req'[r].pc # "new" => req[r].pc # "new" \/ Issuable(r)
    BY <1>2
  <2>3. InTurn
    BY DEF Held
  <2> QED BY <2>1, <2>2, <2>3, InTurnKept
<1> QED BY <1>3, <1>4, <1>5, <1>6, <1>7 DEF Held

LEMMA SwitchedFits ==
  ASSUME NEW r, NEW kept, KeptFits(kept)
  PROVE  KeptFits(Switched(r, kept))
BY DEF KeptFits, Switched, RecordFields

LEMMA ServedIs ==
  ASSUME Types, Held, NEW R, NEW i \in Slots, obj[i].id \in Ids, Served(R, i)
  PROVE  /\ Objects(obj') /\ Alike(obj, obj')
         /\ \A j \in Slots : /\ Busy(j) => obj'[j].run.st # "idle"
                             /\ obj'[j].run.st # "idle" => Busy(j) \/ obj[j].id \in Ids
                             /\ obj'[j].run.st = "asks" <=> obj[j].run.st = "asks"
<1> DEFINE o == IF Prompts(R) THEN Prompted(obj, i) ELSE obj
<1>1. Objects(obj)
  BY DEF Types, Objects
<1>4. /\ Objects(o) /\ Alike(obj, o)
      /\ \A j \in Slots : /\ Busy(j) => o[j].run.st # "idle"
                          /\ o[j].run.st # "idle" => Busy(j) \/ obj[j].id \in Ids
                          /\ o[j].run.st = "asks" <=> obj[j].run.st = "asks"
  <2>1. CASE Prompts(R)
    <3>1. /\ Objects(o) /\ Alike(obj, o)
          /\ \A j \in Slots : j # i \/ obj[j].run.st # "idle" => o[j] = obj[j]
          /\ obj[i].run.st = "idle" => o[i].run = [Quiet EXCEPT !.st = "prep"]
      BY <1>1, <2>1, PromptedIs
    <3>2. [Quiet EXCEPT !.st = "prep"].st = "prep"
      BY DEF Quiet
    <3> HIDE DEF o
    <3> QED BY <3>1, <3>2 DEF Busy
  <2>2. CASE ~Prompts(R)
    BY <1>1, <2>2 DEF Alike, Busy
  <2> QED BY <2>1, <2>2
<1>5. \/ obj' = o
      \/ /\ obj[i].kept # Null
         /\ \E r \in R : obj' = [o EXCEPT ![i].kept = Switched(r, @)]
  BY DEF Served, Models
<1> HIDE DEF o
<1>6. CASE obj' = o
  BY <1>4, <1>6
<1>7. CASE obj[i].kept # Null /\ \E r \in R : obj' = [o EXCEPT ![i].kept = Switched(r, @)]
  <2>1. PICK kept : /\ obj' = [o EXCEPT ![i].kept = kept]
                    /\ KeptFits(o[i].kept) => KeptFits(kept)
    BY <1>7, SwitchedFits
  <2>2. DOMAIN obj' = Slots /\ \A j \in Slots : j # i => obj'[j] = o[j]
    BY <1>4, <2>1 DEF Objects
  <2>3. ObjectOK(o[i]) /\ obj'[i] = [o[i] EXCEPT !.kept = kept]
    BY <1>4, <2>1 DEF Objects
  <2>4. /\ ObjectOK(obj'[i]) /\ obj'[i].run = o[i].run /\ obj'[i].id = o[i].id
        /\ obj'[i].state = o[i].state /\ obj'[i].heard = o[i].heard
        /\ obj'[i].settings = o[i].settings /\ obj'[i].kept = kept
    BY <2>3, FieldsAre DEF ObjectOK
  <2>5. Objects(obj')
    BY <1>4, <2>2, <2>4 DEF Objects
  <2>6. KeptFits(o[i].kept) => KeptFits(obj'[i].kept)
    BY <2>1, <2>4
  <2>7. Alike(obj, obj')
    BY <1>4, <1>7, <2>2, <2>4, <2>6 DEF Alike
  <2> QED BY <1>4, <2>2, <2>4, <2>5, <2>7
<1> QED BY <1>5, <1>6, <1>7

LEMMA OpenActiveOk ==
  ASSUME IInv, NEW r \in Requests, OpenActive(r)
  PROVE  IInv'
<1> DEFINE i == entry[Id(r)]
<1>1. Types /\ Held /\ Id(r) \in Ids
  BY RequestsAre DEF IInv, Types
<1>2. i \in Slots /\ obj[i].id \in Ids
  BY <1>1 DEF OpenActive, Held, Registered, Types, Entries
<1>3. /\ req' = [q \in Requests |-> IF q \in {r} THEN [New EXCEPT !.pc = "done"] ELSE req[q]]
      /\ Served({r}, i) /\ UNCHANGED <<bound, entry, opening, waiting>>
      /\ req[r].pc = "new" /\ Issuable(r)
  BY DEF OpenActive, Proceed, Finished, Issuable
<1> HIDE DEF i
<1>4. /\ Objects(obj') /\ Alike(obj, obj')
      /\ \A j \in Slots : /\ Busy(j) => obj'[j].run.st # "idle"
                          /\ obj'[j].run.st # "idle" => Busy(j) \/ obj[j].id \in Ids
                          /\ obj'[j].run.st = "asks" <=> obj[j].run.st = "asks"
  BY <1>1, <1>2, <1>3, ServedIs
<1>5. \A id \in Ids : opening[id] # r
  <2> TAKE id \in Ids
  <2>1. Opening(id)
    BY <1>1 DEF Held
  <2>2. r # 0
    BY <1>1, RequestsAre DEF Types
  <2> QED BY <1>3, <2>1, <2>2 DEF Opening
<1>6. Types' /\ Held'
  <2>1. opening' \in [Ids -> Requests \union {0}]
    BY <1>1, <1>3 DEF Types
  <2>2. \A id \in Ids : opening'[id] = opening[id] /\ opening[id] \notin {r}
    BY <1>3, <1>5
  <2>3. {r} \in SUBSET Requests /\ \A q \in {r} : req[q].pc # "built" /\ (req[q].pc = "new" => Issuable(q))
    BY <1>3
  <2> QED BY <1>1, <1>3, <1>4, <2>1, <2>2, <2>3, RequestsEnd
<1>7. WaitersOK'
  BY <1>3, <1>4, SameWaiters DEF IInv
<1> QED BY <1>6, <1>7 DEF IInv

\* Requests that end without having touched an object.
LEMMA EndOk ==
  ASSUME IInv, NEW r \in Requests, NEW pc \in {"done", "failed"},
         UNCHANGED <<bound, obj, entry, opening, waiting>>,
         req' = [q \in Requests |-> IF q \in {r} THEN [New EXCEPT !.pc = pc] ELSE req[q]],
         req[r].pc \notin {"list", "built", "bind"}, req[r].pc = "new" => Issuable(r)
  PROVE  IInv'
<1>1. Types /\ Held
  BY DEF IInv
<1>2. /\ Objects(obj') /\ Alike(obj, obj')
      /\ \A j \in Slots : /\ Busy(j) => obj'[j].run.st # "idle"
                          /\ obj'[j].run.st # "idle" => Busy(j) \/ obj[j].id \in Ids
  BY <1>1 DEF Types, Objects, Alike, Busy
<1>3. \A id \in Ids : opening[id] # r
  <2> TAKE id \in Ids
  <2>1. Opening(id)
    BY <1>1 DEF Held
  <2>2. r # 0
    BY <1>1, RequestsAre DEF Types
  <2> QED BY <2>1, <2>2 DEF Opening
<1>4. opening' \in [Ids -> Requests \union {0}]
  BY <1>1 DEF Types
<1>5. \A id \in Ids : opening'[id] = opening[id] /\ opening[id] \notin {r}
  BY <1>3
<1>6. {r} \in SUBSET Requests /\ \A q \in {r} : req[q].pc # "built" /\ (req[q].pc = "new" => Issuable(q))
  OBVIOUS
<1>7. Types' /\ Held'
  BY <1>1, <1>2, <1>4, <1>5, <1>6, RequestsEnd
<1> QED BY <1>7, SameWaiters DEF IInv

LEMMA DeleteMissingOk ==
  ASSUME IInv, NEW r \in Requests, DeleteMissing(r)
  PROVE  IInv'
BY EndOk DEF DeleteMissing, talk, FailedAll, Issuable

LEMMA EraseOk ==
  ASSUME IInv, NEW r \in Requests, Erase(r)
  PROVE  IInv'
<1>1. UNCHANGED <<bound, obj, entry, opening, waiting>> /\ req[r].pc = "heirs"
  BY DEF Erase, talk
<1>2. req' = FailedAll({r}) \/ req' = Finished({r})
  BY DEF Erase
<1> QED BY <1>1, <1>2, EndOk DEF FailedAll, Finished

\* A request takes a step of its own, and at most turns are stopped.
LEMMA RequestMoves ==
  ASSUME Types, Held, UNCHANGED <<bound, entry>>, Objects(obj'), Alike(obj, obj'),
         \A i \in Slots : Busy(i) <=> obj'[i].run.st # "idle",
         NEW r \in Requests, req[r].pc \in {"new", "heirs"}, req[r].pc = "new" => Issuable(r),
         DOMAIN req' = Requests, \A q \in Requests : q # r => req'[q] = req[q],
         RequestOK(req'[r]), AtStep(r)',
         opening' \in [Ids -> Requests \union {0}],
         \A id \in Ids : \/ opening'[id] = opening[id]
                         \/ /\ opening[id] = 0 /\ opening'[id] = r /\ id = Id(r) /\ Opens(r)
                            /\ req'[r].pc = "list"
  PROVE  Types' /\ Held'
<1>0. /\ Requests' = Requests /\ bound' = bound
      /\ \A q : Id(q)' = Id(q) /\ Kind(q)' = Kind(q) /\ Opens(q)' = Opens(q)
  BY Fixed
<1> USE <1>0
<1>1. Types'
  <2>1. \A q \in Requests : RequestOK(req'[q])
    BY DEF Types
  <2> QED BY <2>1 DEF Types, Objects, Entries
<1>2. Registered'
  <2>1. \A i \in Slots : Live(i)' = Live(i) /\ obj'[i].id = obj[i].id
    BY DEF Alike, Live
  <2>2. \A id \in Ids : entry[id] # 0 => entry[id] \in Slots
    BY DEF Types, Entries
  <2>3. \A id \in Ids : entry'[id] # 0 => (Live(entry[id]) /\ obj[entry[id]].id = id)'
    BY <2>1, <2>2 DEF Held, Registered, Live
  <2>4. ASSUME NEW i \in Slots, Live(i)'
        PROVE  /\ obj'[i].id \in Ids
               /\ \/ entry'[obj'[i].id] = i
                  \/ \E q \in Requests : req'[q].pc = "built" /\ req'[q].slot = i
    <3>1. /\ obj[i].id \in Ids
          /\ \/ entry[obj[i].id] = i
             \/ \E q \in Requests : req[q].pc = "built" /\ req[q].slot = i
      BY <2>1, <2>4 DEF Held, Registered
    <3>2. req[r].pc # "built"
      OBVIOUS
    <3> QED BY <2>1, <3>1, <3>2
  <2>5. \A i \in Slots : obj'[i].id = "kid" => Live(i)'
    BY <2>1 DEF Held, Registered
  <2>6. \A i \in Slots : Busy(i)' => obj'[i].id \in Ids
    BY <2>1 DEF Held, Registered, Busy
  <2> QED BY <2>3, <2>4, <2>5, <2>6 DEF Registered
<1>3. ASSUME NEW q \in Requests PROVE AtStep(q)'
  <2>1. CASE q = r
    BY <2>1
  <2>2. CASE q # r
    <3>1. AtStep(q) /\ req'[q] = req[q] /\ Id(q) \in Ids
      BY <2>2, RequestsAre DEF Held, Types
    <3>2. \A i \in Slots : /\ Live(i)' = Live(i) /\ obj'[i].id = obj[i].id
                           /\ Busy(i) => obj'[i].run.st # "idle"
      BY DEF Alike, Live
    <3>3. CASE opening'[Id(q)] = opening[Id(q)]
      BY <3>1, <3>2, <3>3, StepKept
    <3>4. CASE opening'[Id(q)] # opening[Id(q)]
      <4>1. opening[Id(q)] = 0
        BY <3>1, <3>4
      <4>2. req[q].pc # "join" /\ ~(req[q].pc \in {"list", "built", "bind"} /\ Opens(q))
        BY <4>1, <3>1, RequestsAre DEF AtStep, Types
      <4>3. \A i \in Slots : Busy(i) => Busy(i)'
        BY <3>2 DEF Busy
      <4> QED BY <3>1, <3>2, <4>1, <4>2, <4>3 DEF AtStep, Live, Busy
    <3> QED BY <3>3, <3>4
  <2> QED BY <2>1, <2>2
<1>4. ASSUME NEW id \in Ids PROVE Opening(id)'
  <2>1. Opening(id)
    BY DEF Held
  <2>2. opening[id] # r
    BY <2>1, RequestsAre DEF Opening, Types
  <2>3. opening[id] \in Requests \union {0}
    BY DEF Types
  <2> QED BY <2>1, <2>2, <2>3 DEF Opening
<1>5. InTurn'
  <2>1. \A q \in Requests : Over(q) => Over(q)'
    BY DEF Over
  <2>2. \A q \in Requests : req'[q].pc # "new" => req[q].pc # "new" \/ Issuable(q)
    OBVIOUS
  <2>3. InTurn
    BY DEF Held
  <2> QED BY <2>1, <2>2, <2>3, InTurnKept
<1> QED BY <1>1, <1>2, <1>3, <1>4, <1>5 DEF Held

LEMMA OpenJoinsOk ==
  ASSUME IInv, NEW r \in Requests, OpenJoins(r)
  PROVE  IInv'
<1>1. /\ Types /\ Held /\ Id(r) \in Ids /\ AtStep(r) /\ r # 0
      /\ req[r].pc = "new" /\ Issuable(r) /\ Opens(r)
      /\ UNCHANGED <<bound, obj, entry, opening, waiting>>
  BY RequestsAre DEF IInv, Types, Held, OpenJoins, Issuable, talk
<1>2. /\ req' = [req EXCEPT ![r].pc = "join"] /\ opening[Id(r)] # 0
      /\ Id(r)' = Id(r) /\ Opens(r)' = Opens(r)
  BY Fixed, <1>1 DEF OpenJoins, To, Joins
<1>3. DOMAIN req = Requests /\ RequestOK(req[r])
  BY <1>1 DEF Types
<1>4. /\ DOMAIN req' = Requests /\ \A q \in Requests : q # r => req'[q] = req[q]
      /\ req'[r].pc = "join" /\ RequestOK(req'[r])
  BY <1>2, <1>3, FieldsAre DEF RequestOK, PCs
<1>5. AtStep(r)'
  BY <1>1, <1>2, <1>4 DEF AtStep
<1>6. Objects(obj') /\ Alike(obj, obj') /\ \A i \in Slots : Busy(i) <=> obj'[i].run.st # "idle"
  BY <1>1 DEF Types, Objects, Alike, Busy
<1>7. opening' \in [Ids -> Requests \union {0}]
  BY <1>1 DEF Types
<1>8. Types' /\ Held'
  BY <1>1, <1>4, <1>5, <1>6, <1>7, RequestMoves
<1> QED BY <1>1, <1>8, SameWaiters DEF IInv

LEMMA OpenStartOk ==
  ASSUME IInv, NEW r \in Requests, OpenStart(r)
  PROVE  IInv'
<1>1. /\ Types /\ Held /\ Id(r) \in Ids /\ AtStep(r) /\ r # 0
      /\ req[r].pc = "new" /\ Issuable(r) /\ Opens(r)
      /\ UNCHANGED <<bound, obj, entry, waiting>>
  BY RequestsAre DEF IInv, Types, Held, OpenStart, Issuable, talk
<1>2. /\ req' = [req EXCEPT ![r].pc = "list"] /\ opening[Id(r)] = 0 /\ entry[Id(r)] = 0
      /\ opening' = [opening EXCEPT ![Id(r)] = r] /\ Id(r)' = Id(r) /\ Opens(r)' = Opens(r)
  BY Fixed, <1>1 DEF OpenStart, To, Joins
<1>3. DOMAIN req = Requests /\ RequestOK(req[r]) /\ opening \in [Ids -> Requests \union {0}]
  BY <1>1 DEF Types
<1>4. /\ DOMAIN req' = Requests /\ \A q \in Requests : q # r => req'[q] = req[q]
      /\ req'[r].pc = "list" /\ RequestOK(req'[r])
  BY <1>2, <1>3, FieldsAre DEF RequestOK, PCs
<1>5. AtStep(r)'
  BY <1>1, <1>2, <1>3, <1>4 DEF AtStep
<1>6. Objects(obj') /\ Alike(obj, obj') /\ \A i \in Slots : Busy(i) <=> obj'[i].run.st # "idle"
  BY <1>1 DEF Types, Objects, Alike, Busy
<1>7. /\ opening' \in [Ids -> Requests \union {0}]
      /\ \A id \in Ids : opening'[id] = opening[id] \/ (opening[id] = 0 /\ opening'[id] = r /\ id = Id(r))
  BY <1>1, <1>2, <1>3
<1>8. Types' /\ Held'
  BY <1>1, <1>4, <1>5, <1>6, <1>7, RequestMoves
<1> QED BY <1>1, <1>8, SameWaiters DEF IInv

-----------------------------------------------------------------------------
(* Aborts *)

\* An abort refuses waiters and stops turns; no turn begins or ends.
LEMMA HaltIs ==
  ASSUME IInv, bound' = bound, NEW all \in SUBSET ToSet(waiting), NEW J, NEW no \in BOOLEAN,
         NEW p, p = Stopped(Settled(obj, all, no), J), waiting' = Without(all)
  PROVE  /\ Objects(p) /\ Alike(obj, p)
         /\ \A i \in Slots : Busy(i) <=> p[i].run.st # "idle"
         /\ (\A i \in Slots : obj'[i].run.st = p[i].run.st) => WaitersOK'
<1> DEFINE o == Settled(obj, all, no)
<1>1. Objects(obj)
  BY DEF IInv, Types, Objects
<1>2. /\ Objects(o) /\ Alike(obj, o)
      /\ \A i \in Slots : o[i].run.st = IF \E w \in all : w.slot = i THEN "prep" ELSE obj[i].run.st
  BY <1>1, SettledIs
<1>3. p = Stopped(o, J)
  OBVIOUS
<1> HIDE DEF o
<1>4. /\ Objects(p) /\ Alike(o, p)
      /\ \A i \in Slots : p[i].run.st = o[i].run.st
  BY <1>2, <1>3, StoppedIs
<1>5. \A w \in all : w.slot \in Slots /\ obj[w.slot].run.st = "asks"
  <2> TAKE w \in all
  <2>1. waiting \in Seq(Waiters) /\ DOMAIN waiting = 1 .. Len(waiting)
    BY DEF IInv, WaitersOK
  <2>2. PICK n \in 1 .. Len(waiting) : waiting[n] = w
    BY <2>1 DEF ToSet
  <2>3. w \in Waiters
    BY <2>1, <2>2
  <2> QED BY <2>2, <2>3 DEF IInv, WaitersOK, Waiters
<1>6. \A i \in Slots : Busy(i) <=> p[i].run.st # "idle"
  BY <1>2, <1>4, <1>5 DEF Busy
<1>7. ASSUME \A i \in Slots : obj'[i].run.st = p[i].run.st PROVE WaitersOK'
  <2>1. \A i \in Slots : (obj'[i].run.st = "asks")
                           <=> (obj[i].run.st = "asks" /\ ~\E w \in all : w.slot = i)
    <3> TAKE i \in Slots
    <3>1. obj'[i].run.st = o[i].run.st
      BY <1>4, <1>7
    <3>2. o[i].run.st = IF \E w \in all : w.slot = i THEN "prep" ELSE obj[i].run.st
      BY <1>2
    <3> QED BY <3>1, <3>2
  <2> QED BY <2>1, FewerWaiters DEF IInv
<1> QED BY <1>2, <1>4, <1>6, <1>7 DEF Alike

LEMMA AbortOk ==
  ASSUME IInv, NEW r \in Requests, Abort(r)
  PROVE  IInv'
<1> DEFINE i == entry[Id(r)]
           all == {} \union Listening(Aborted(i))
<1>1. /\ Types /\ Held /\ Id(r) \in Ids /\ AtStep(r) /\ r # 0
      /\ req[r].pc = "new" /\ Issuable(r) /\ Kind(r) = "abort"
      /\ UNCHANGED <<bound, entry, opening>>
  BY RequestsAre DEF IInv, Types, Held, Abort, Issuable
<1>2. i \in Slots
  BY <1>1 DEF Abort, Types, Entries
<1>3. all \in SUBSET ToSet(waiting)
  BY DEF Listening
<1>4. waiting' = Without(all) /\ \E no \in BOOLEAN : obj' = Stopped(Settled(obj, all, no), Aborted(i))
  BY DEF Abort, Halt
<1> HIDE DEF all
<1>5. /\ Objects(obj') /\ Alike(obj, obj') /\ WaitersOK'
      /\ \A j \in Slots : Busy(j) <=> obj'[j].run.st # "idle"
  BY <1>1, <1>3, <1>4, HaltIs
<1>6. RequestOK(req[r]) /\ DOMAIN req = Requests
  BY <1>1 DEF Types
<1>7. req' = [req EXCEPT ![r].pc = "abort", ![r].slot = i]
  BY DEF Abort
<1> HIDE DEF i
<1>8. /\ DOMAIN req' = Requests /\ \A q \in Requests : q # r => req'[q] = req[q]
      /\ req'[r].pc = "abort" /\ req'[r].slot = i /\ RequestOK(req'[r])
  BY <1>2, <1>6, <1>7, FieldsAre DEF RequestOK, PCs
<1>9. Id(r)' = Id(r) /\ Kind(r)' = Kind(r) /\ Opens(r)' = Opens(r)
  BY <1>1, Fixed
<1>10. AtStep(r)'
  BY <1>1, <1>2, <1>8, <1>9 DEF AtStep
<1>11. opening' \in [Ids -> Requests \union {0}]
  BY <1>1 DEF Types
<1>12. Types' /\ Held'
  BY <1>1, <1>5, <1>8, <1>10, <1>11, RequestMoves
<1> QED BY <1>5, <1>12 DEF IInv

LEMMA DeleteBusyOk ==
  ASSUME IInv, NEW r \in Requests, DeleteBusy(r)
  PROVE  IInv'
<1> DEFINE i == entry[Id(r)]
           all == CancelSession(Id(r)) \union Listening(Aborted(i))
<1>1. /\ Types /\ Held /\ Id(r) \in Ids /\ AtStep(r) /\ r # 0
      /\ req[r].pc = "new" /\ Issuable(r) /\ Kind(r) = "delete" /\ i # 0 /\ Busy(i)
      /\ UNCHANGED <<bound, entry, opening>>
  BY RequestsAre DEF IInv, Types, Held, DeleteBusy, Issuable, Streaming
<1>2. i \in Slots
  BY <1>1 DEF Types, Entries
<1>3. all \in SUBSET ToSet(waiting)
  BY DEF Listening, CancelSession
<1>4. PICK p : /\ obj' = [p EXCEPT ![i].heard = FALSE]
               /\ \E no \in BOOLEAN : p = Stopped(Settled(obj, all, no), Aborted(i))
  BY DEF DeleteBusy
<1>5. waiting' = Without(all)
  BY DEF DeleteBusy
<1>6. req' = [req EXCEPT ![r].pc = "remove", ![r].slot = i, ![r].snap = Listing]
  BY DEF DeleteBusy
<1> HIDE DEF all
<1>7. /\ Objects(p) /\ Alike(obj, p)
      /\ \A j \in Slots : Busy(j) <=> p[j].run.st # "idle"
      /\ (\A j \in Slots : obj'[j].run.st = p[j].run.st) => WaitersOK'
  BY <1>1, <1>3, <1>4, <1>5, HaltIs
<1> HIDE DEF i
<1>8. Objects(obj') /\ Alike(p, obj') /\ \A j \in Slots : obj'[j].run = p[j].run
  <2>1. DOMAIN obj' = Slots /\ \A j \in Slots : j # i => obj'[j] = p[j]
    BY <1>4, <1>7 DEF Objects
  <2>2. ObjectOK(p[i]) /\ obj'[i] = [p[i] EXCEPT !.heard = FALSE]
    BY <1>2, <1>4, <1>7 DEF Objects
  <2>3. /\ ObjectOK(obj'[i]) /\ obj'[i].run = p[i].run /\ obj'[i].id = p[i].id
        /\ obj'[i].state = p[i].state /\ obj'[i].settings = p[i].settings /\ obj'[i].kept = p[i].kept
    BY <2>2, FieldsAre DEF ObjectOK
  <2> QED BY <1>7, <2>1, <2>3 DEF Objects, Alike
<1>9. /\ Alike(obj, obj') /\ WaitersOK' /\ \A j \in Slots : Busy(j) <=> obj'[j].run.st # "idle"
  BY <1>7, <1>8 DEF Alike
<1>10. RequestOK(req[r]) /\ DOMAIN req = Requests
  BY <1>1 DEF Types
<1>11. /\ DOMAIN req' = Requests /\ \A q \in Requests : q # r => req'[q] = req[q]
      /\ req'[r].pc = "remove" /\ req'[r].slot = i /\ RequestOK(req'[r])
  BY <1>2, <1>6, <1>10, FieldsAre DEF RequestOK, PCs
<1>12. /\ Id(r)' = Id(r) /\ Kind(r)' = Kind(r) /\ Opens(r)' = Opens(r)
       /\ obj'[i].run.st # "idle"
  BY <1>1, <1>2, <1>9, Fixed
<1>13. entry'[Id(r)] = i
  BY <1>1 DEF i
<1>14. AtStep(r)'
  BY <1>1, <1>2, <1>11, <1>12, <1>13 DEF AtStep, Busy
<1>15. opening' \in [Ids -> Requests \union {0}]
  BY <1>1 DEF Types
<1>16. Types' /\ Held'
  BY <1>1, <1>8, <1>9, <1>11, <1>14, <1>15, RequestMoves
<1> QED BY <1>9, <1>16 DEF IInv

LEMMA ReparentOk ==
  ASSUME IInv, NEW r \in Requests, Reparent(r)
  PROVE  IInv'
<1>1. /\ Types /\ Held /\ Id(r) \in Ids /\ AtStep(r) /\ r # 0 /\ req[r].pc = "heirs"
      /\ UNCHANGED <<bound, obj, entry, opening, waiting>>
  BY RequestsAre DEF IInv, Types, Held, Reparent, talk
<1>2. req' = FailedAll({r}) \/ \E c : req' = [req EXCEPT ![r].todo = @ \ {c}]
  BY DEF Reparent
<1>3. CASE req' = FailedAll({r})
  BY <1>1, <1>3, EndOk DEF FailedAll
<1>4. CASE \E c : req' = [req EXCEPT ![r].todo = @ \ {c}]
  <2>1. PICK c : req' = [req EXCEPT ![r].todo = @ \ {c}]
    BY <1>4
  <2>2. DOMAIN req = Requests /\ RequestOK(req[r])
    BY <1>1 DEF Types
  <2>3. /\ DOMAIN req' = Requests /\ \A q \in Requests : q # r => req'[q] = req[q]
        /\ req'[r].pc = "heirs" /\ RequestOK(req'[r])
    BY <1>1, <2>1, <2>2, FieldsAre DEF RequestOK
  <2>4. Kind(r)' = Kind(r)
    BY <1>1, Fixed
  <2>5. AtStep(r)'
    BY <1>1, <2>3, <2>4 DEF AtStep
  <2>6. Objects(obj') /\ Alike(obj, obj') /\ \A i \in Slots : Busy(i) <=> obj'[i].run.st # "idle"
    BY <1>1 DEF Types, Objects, Alike, Busy
  <2>7. opening' \in [Ids -> Requests \union {0}]
    BY <1>1 DEF Types
  <2>8. Types' /\ Held'
    BY <1>1, <2>3, <2>5, <2>6, <2>7, RequestMoves
  <2> QED BY <1>1, <2>8, SameWaiters DEF IInv
<1> QED BY <1>2, <1>3, <1>4

-----------------------------------------------------------------------------
(* Openings *)

\* The opening by r is over for all that joined it, and for nobody else.
LEMMA OpeningEnds ==
  ASSUME Types, Held, NEW r \in Requests, req[r].pc \in {"list", "bind"}, Opens(r),
         opening' = [opening EXCEPT ![Id(r)] = 0]
  PROVE  /\ Joined(r) \in SUBSET Requests
         /\ \A q \in Joined(r) : req[q].pc # "built" /\ (req[q].pc = "new" => Issuable(q))
         /\ opening' \in [Ids -> Requests \union {0}]
         /\ \A id \in Ids :
              \/ opening'[id] = opening[id] /\ opening[id] \notin Joined(r)
              \/ /\ opening'[id] = 0 /\ (opening[id] = 0 \/ opening[id] \in Joined(r))
                 /\ \A q \in Requests : req[q].pc = "join" /\ Id(q) = id => q \in Joined(r)
<1>1. Id(r) \in Ids /\ opening \in [Ids -> Requests \union {0}] /\ 0 \notin Requests
  BY RequestsAre DEF Types
<1>2. opening[Id(r)] = r
  BY DEF Held, AtStep
<1>3. \A q \in Joined(r) : q \in Requests /\ (q = r \/ req[q].pc = "join")
  BY DEF Joined
<1>4. ASSUME NEW id \in Ids, id # Id(r) PROVE opening[id] \notin Joined(r)
  <2>1. Opening(id)
    BY DEF Held
  <2> QED BY <1>1, <1>3, <1>4, <2>1 DEF Opening
<1>5. \A q \in Requests : req[q].pc = "join" /\ Id(q) = Id(r) => q \in Joined(r)
  BY DEF Joined
<1>6. r \in Joined(r)
  BY DEF Joined
<1>7. ASSUME NEW id \in Ids
      PROVE  \/ opening'[id] = opening[id] /\ opening[id] \notin Joined(r)
             \/ /\ opening'[id] = 0 /\ (opening[id] = 0 \/ opening[id] \in Joined(r))
                /\ \A q \in Requests : req[q].pc = "join" /\ Id(q) = id => q \in Joined(r)
  <2>1. CASE id = Id(r)
    BY <1>1, <1>2, <1>5, <1>6, <2>1
  <2>2. CASE id # Id(r)
    BY <1>1, <1>4, <2>2
  <2> QED BY <2>1, <2>2
<1> QED BY <1>1, <1>3, <1>7

LEMMA OpenMissingOk ==
  ASSUME IInv, NEW r \in Requests, OpenMissing(r)
  PROVE  IInv'
<1>1. /\ Types /\ Held /\ req[r].pc = "list" /\ AtStep(r)
      /\ UNCHANGED <<bound, obj, entry, waiting>> /\ opening' = [opening EXCEPT ![Id(r)] = 0]
  BY DEF IInv, Held, OpenMissing, talk
<1>2. Opens(r)
  BY <1>1 DEF AtStep
<1>3. /\ Joined(r) \in SUBSET Requests
      /\ \A q \in Joined(r) : req[q].pc # "built" /\ (req[q].pc = "new" => Issuable(q))
      /\ opening' \in [Ids -> Requests \union {0}]
      /\ \A id \in Ids :
           \/ opening'[id] = opening[id] /\ opening[id] \notin Joined(r)
           \/ /\ opening'[id] = 0 /\ (opening[id] = 0 \/ opening[id] \in Joined(r))
              /\ \A q \in Requests : req[q].pc = "join" /\ Id(q) = id => q \in Joined(r)
  BY <1>1, <1>2, OpeningEnds
<1>4. PICK pc \in {"done", "failed"} :
        req' = [q \in Requests |-> IF q \in Joined(r) THEN [New EXCEPT !.pc = pc] ELSE req[q]]
  BY DEF OpenMissing, FailedAll
<1>5. /\ Objects(obj') /\ Alike(obj, obj')
      /\ \A j \in Slots : /\ Busy(j) => obj'[j].run.st # "idle"
                          /\ obj'[j].run.st # "idle" => Busy(j) \/ obj[j].id \in Ids
  BY <1>1 DEF Types, Objects, Alike, Busy
<1>6. Types' /\ Held'
  BY <1>1, <1>3, <1>4, <1>5, RequestsEnd
<1> QED BY <1>1, <1>6, SameWaiters DEF IInv

LEMMA BoundOk ==
  ASSUME IInv, NEW r \in Requests, Bound(r)
  PROVE  IInv'
<1> DEFINE R == IF Kind(r) = "create" THEN {r} ELSE Joined(r)
           i == req[r].slot
<1>1. /\ Types /\ Held /\ req[r].pc = "bind" /\ AtStep(r) /\ Id(r) \in Ids /\ r # 0
      /\ UNCHANGED <<bound, entry, waiting>> /\ Served(R, i)
  BY RequestsAre DEF IInv, Types, Held, Bound, Proceed
<1>2. i \in Slots /\ obj[i].id \in Ids /\ (Opens(r) \/ Kind(r) = "create")
  BY <1>1 DEF AtStep
<1>3. PICK pc \in {"done", "failed"} :
        req' = [q \in Requests |-> IF q \in R THEN [New EXCEPT !.pc = pc] ELSE req[q]]
  BY DEF Bound, Proceed, Finished
<1>4. /\ R \in SUBSET Requests
      /\ \A q \in R : req[q].pc # "built" /\ (req[q].pc = "new" => Issuable(q))
      /\ opening' \in [Ids -> Requests \union {0}]
      /\ \A id \in Ids :
           \/ opening'[id] = opening[id] /\ opening[id] \notin R
           \/ /\ opening'[id] = 0 /\ (opening[id] = 0 \/ opening[id] \in R)
              /\ \A q \in Requests : req[q].pc = "join" /\ Id(q) = id => q \in R
  <2>1. CASE Kind(r) = "create"
    <3>1. \A id \in Ids : opening[id] # r
      <4> TAKE id \in Ids
      <4>1. Opening(id)
        BY <1>1 DEF Held
      <4> QED BY <1>1, <2>1, <4>1 DEF Opening, Opens
    <3>2. opening' = opening /\ opening \in [Ids -> Requests \union {0}]
      BY <2>1, <1>1 DEF Bound, Types
    <3> QED BY <1>1, <2>1, <3>1, <3>2
  <2>2. CASE Kind(r) # "create"
    <3>1. opening' = [opening EXCEPT ![Id(r)] = 0] /\ Opens(r) /\ R = Joined(r)
      BY <2>2, <1>2 DEF Bound
    <3> HIDE DEF R
    <3> QED BY <1>1, <3>1, OpeningEnds
  <2> QED BY <2>1, <2>2
<1> HIDE DEF R, i
<1>5. /\ Objects(obj') /\ Alike(obj, obj')
      /\ \A j \in Slots : /\ Busy(j) => obj'[j].run.st # "idle"
                          /\ obj'[j].run.st # "idle" => Busy(j) \/ obj[j].id \in Ids
                          /\ obj'[j].run.st = "asks" <=> obj[j].run.st = "asks"
  BY <1>1, <1>2, ServedIs
<1>6. Types' /\ Held'
  BY <1>1, <1>3, <1>4, <1>5, RequestsEnd
<1> QED BY <1>1, <1>5, <1>6, SameWaiters DEF IInv

\* The object that has been made becomes the registered one.
LEMMA RegisterOk ==
  ASSUME IInv, NEW r \in Requests, Register(r)
  PROVE  IInv'
<1> DEFINE i == req[r].slot
<1>1. /\ Types /\ Held /\ req[r].pc = "built" /\ AtStep(r) /\ Id(r) \in Ids /\ Id(r) # "kid"
      /\ r # 0 /\ UNCHANGED <<bound, waiting>>
  BY RequestsAre DEF IInv, Types, Held, Register
<1>2. /\ entry[Id(r)] = 0 /\ i \in Slots /\ obj[i].id = Id(r) /\ Live(i)
      /\ Opens(r) \/ Kind(r) = "create"
      /\ Opens(r) => opening[Id(r)] = r
  BY <1>1 DEF AtStep
<1>3. /\ entry' = [entry EXCEPT ![Id(r)] = i] /\ obj' = [obj EXCEPT ![i].heard = TRUE]
      /\ req' = [req EXCEPT ![r].pc = "bind"] /\ opening' = opening
  BY <1>2 DEF Register, To
<1> HIDE DEF i
<1>4. /\ \A q : Id(q)' = Id(q) /\ Kind(q)' = Kind(q) /\ Opens(q)' = Opens(q)
      /\ Requests' = Requests
  BY <1>1, Fixed
<1> USE <1>4
<1>5. /\ DOMAIN req = Requests /\ RequestOK(req[r]) /\ entry \in [Ids -> Slots \union {0}]
      /\ Objects(obj)
  BY <1>1 DEF Types, Objects, Entries
<1>6. /\ DOMAIN req' = Requests /\ \A q \in Requests : q # r => req'[q] = req[q]
      /\ req'[r].pc = "bind" /\ req'[r].slot = i /\ RequestOK(req'[r])
  BY <1>3, <1>5, FieldsAre DEF RequestOK, PCs, i
<1>7. /\ Objects(obj') /\ Alike(obj, obj') /\ \A j \in Slots : obj'[j].run = obj[j].run
  <2>1. DOMAIN obj' = Slots /\ \A j \in Slots : j # i => obj'[j] = obj[j]
    BY <1>3, <1>5 DEF Objects
  <2>2. ObjectOK(obj[i]) /\ obj'[i] = [obj[i] EXCEPT !.heard = TRUE]
    BY <1>2, <1>3, <1>5 DEF Objects
  <2>3. /\ ObjectOK(obj'[i]) /\ obj'[i].run = obj[i].run /\ obj'[i].id = obj[i].id
        /\ obj'[i].state = obj[i].state /\ obj'[i].settings = obj[i].settings
        /\ obj'[i].kept = obj[i].kept
    BY <2>2, FieldsAre DEF ObjectOK
  <2> QED BY <1>5, <2>1, <2>3 DEF Objects, Alike
<1>8. /\ entry' \in [Ids -> Slots \union {0}] /\ entry'[Id(r)] = i
      /\ \A id \in Ids : id # Id(r) => entry'[id] = entry[id]
  BY <1>1, <1>2, <1>3, <1>5
<1>9. Types'
  <2>1. \A q \in Requests : RequestOK(req'[q])
    BY <1>1, <1>6 DEF Types
  <2>2. opening' \in [Ids -> Requests \union {0}]
    BY <1>1, <1>3 DEF Types
  <2> QED BY <1>1, <1>6, <1>7, <1>8, <2>1, <2>2 DEF Types, Objects, Entries
<1>10. /\ \A j \in Slots : /\ Live(j)' = Live(j) /\ obj'[j].id = obj[j].id
                           /\ Busy(j) <=> obj'[j].run.st # "idle"
  BY <1>7 DEF Alike, Live, Busy
<1>11. Registered'
  <2>1. ASSUME NEW id \in Ids, entry'[id] # 0
        PROVE  (Live(entry[id]) /\ obj[entry[id]].id = id)'
    <3>1. entry'[id] \in Slots
      BY <1>8, <2>1
    <3>2. Live(entry'[id]) /\ obj[entry'[id]].id = id
      BY <1>1, <1>2, <1>8, <2>1 DEF Held, Registered
    <3> QED BY <1>10, <3>1, <3>2 DEF Live
  <2>2. ASSUME NEW j \in Slots, Live(j)'
        PROVE  /\ obj'[j].id \in Ids
               /\ \/ entry'[obj'[j].id] = j
                  \/ \E q \in Requests : req'[q].pc = "built" /\ req'[q].slot = j
    <3>1. /\ Live(j) /\ obj[j].id \in Ids
          /\ \/ entry[obj[j].id] = j
             \/ \E q \in Requests : req[q].pc = "built" /\ req[q].slot = j
      BY <1>1, <1>10, <2>2 DEF Held, Registered
    <3>2. CASE entry[obj[j].id] = j
      <4>1. j # 0
        BY RegistryAssumption
      <4> QED BY <1>2, <1>8, <1>10, <3>1, <3>2, <4>1
    <3>3. CASE \E q \in Requests : req[q].pc = "built" /\ req[q].slot = j
      <4>1. PICK q \in Requests : req[q].pc = "built" /\ req[q].slot = j
        BY <3>3
      <4>2. CASE q = r
        BY <1>2, <1>8, <1>10, <3>1, <4>1, <4>2 DEF i
      <4>3. CASE q # r
        BY <1>6, <1>10, <3>1, <4>1, <4>3
      <4> QED BY <4>2, <4>3
    <3> QED BY <3>1, <3>2, <3>3
  <2>3. \A j \in Slots : obj'[j].id = "kid" => Live(j)'
    BY <1>1, <1>10 DEF Held, Registered
  <2>4. \A j \in Slots : Busy(j)' => obj'[j].id \in Ids
    BY <1>1, <1>10 DEF Held, Registered, Busy
  <2> QED BY <2>1, <2>2, <2>3, <2>4 DEF Registered
<1>12. ASSUME NEW q \in Requests PROVE AtStep(q)'
  <2>1. CASE q = r
    BY <1>2, <1>3, <1>6, <1>10, <2>1 DEF AtStep
  <2>2. CASE q # r
    <3>1. AtStep(q) /\ req'[q] = req[q] /\ Id(q) \in Ids
      BY <1>1, <1>6, <2>2, RequestsAre DEF Held, Types
    <3>2. CASE Id(q) # Id(r)
      <4>1. entry'[Id(q)] = entry[Id(q)] /\ opening'[Id(q)] = opening[Id(q)]
        BY <1>3, <1>8, <3>1, <3>2
      <4> QED BY <1>1, <1>10, <3>1, <4>1, StepKept
    <3>3. CASE Id(q) = Id(r)
      <4>1. req[q].pc \notin {"list", "built", "bind"} /\ ~(req[q].pc = "new" /\ Kind(q) = "create")
        BY <1>1, <2>2, <3>3, Alone
      <4>2. req[q].pc # "remove"
        BY <1>2, <3>1, <3>3, RegistryAssumption DEF AtStep
      <4> QED BY <1>3, <3>1, <4>1, <4>2 DEF AtStep
    <3> QED BY <3>2, <3>3
  <2> QED BY <2>1, <2>2
<1>13. ASSUME NEW id \in Ids PROVE Opening(id)'
  <2>1. Opening(id)
    BY <1>1 DEF Held
  <2>2. opening[id] \in Requests \union {0}
    BY <1>1 DEF Types
  <2> QED BY <1>3, <1>6, <2>1, <2>2 DEF Opening
<1>14. InTurn'
  <2>1. \A q \in Requests : Over(q) => Over(q)'
    BY <1>1, <1>6 DEF Over
  <2>2. \A q \in Requests : req'[q].pc # "new" => req[q].pc # "new" \/ Issuable(q)
    BY <1>1, <1>6
  <2> QED BY <1>1, <2>1, <2>2, InTurnKept DEF Held
<1>15. WaitersOK'
  BY <1>1, <1>7, SameWaiters DEF IInv
<1> QED BY <1>9, <1>11, <1>12, <1>13, <1>14, <1>15 DEF IInv, Held

-----------------------------------------------------------------------------
(* Objects that are made *)

LEMMA MadeIs ==
  ASSUME NEW id \in Ids, NEW settings, NEW window, NEW want, NEW kept
  PROVE  LET m == Made(id, settings, window, want, kept)
         IN ObjectOK(m) /\ m.id = id /\ m.state = "live" /\ m.run = Quiet /\ m.run.st = "idle"
BY FieldsAre DEF Made, ObjectOK

\* A request makes an object in a slot that nobody holds.
LEMMA MakesOk ==
  ASSUME IInv, NEW r \in Requests, FreeSlots # {}, UNCHANGED <<bound, entry, opening, waiting>>,
         NEW m, ObjectOK(m), m.id = Id(r), m.state = "live", m.run = Quiet,
         obj' = [obj EXCEPT ![NextSlot] = m],
         req' = [req EXCEPT ![r].pc = "built", ![r].slot = NextSlot],
         \/ req[r].pc = "list"
         \/ req[r].pc = "new" /\ Kind(r) = "create" /\ Issuable(r)
  PROVE  IInv'
<1>1. /\ Types /\ Held /\ AtStep(r) /\ Id(r) \in Ids /\ r # 0
      /\ Requests \subseteq Nat
  BY RequestsAre DEF IInv, Types, Held
<1>2. PICK k \in Slots : k = NextSlot /\ ~Live(k) /\ ~Busy(k) /\ \A q \in Requests : req[q].slot # k
  BY NextSlotIs DEF Free
<1>3. /\ \A q : Id(q)' = Id(q) /\ Kind(q)' = Kind(q) /\ Opens(q)' = Opens(q)
      /\ Requests' = Requests
  BY Fixed
<1> USE <1>3
<1>4. /\ DOMAIN req = Requests /\ RequestOK(req[r]) /\ Objects(obj)
  BY <1>1 DEF Types, Objects
<1>5. /\ DOMAIN req' = Requests /\ \A q \in Requests : q # r => req'[q] = req[q]
      /\ req'[r].pc = "built" /\ req'[r].slot = k /\ RequestOK(req'[r])
  BY <1>2, <1>4, FieldsAre DEF RequestOK, PCs
<1>6. /\ DOMAIN obj' = Slots /\ obj'[k] = m /\ \A j \in Slots : j # k => obj'[j] = obj[j]
  BY <1>2, <1>4 DEF Objects
<1>7. Objects(obj')
  BY <1>4, <1>6 DEF Objects
<1>8. Types'
  <2>1. \A q \in Requests : RequestOK(req'[q])
    BY <1>1, <1>5 DEF Types
  <2> QED BY <1>1, <1>5, <1>7, <2>1 DEF Types, Objects, Entries
<1>9. /\ Live(k)' /\ obj'[k].id = Id(r) /\ obj'[k].run.st = "idle"
      /\ \A j \in Slots : j # k => Live(j)' = Live(j)
  BY <1>6, FieldsAre DEF Live
<1>10. Registered'
  <2>1. ASSUME NEW id \in Ids, entry'[id] # 0
        PROVE  (Live(entry[id]) /\ obj[entry[id]].id = id)'
    <3>1. entry[id] \in Slots /\ Live(entry[id]) /\ obj[entry[id]].id = id
      BY <1>1, <2>1 DEF Held, Registered, Types, Entries
    <3>2. entry[id] # k
      BY <1>2, <3>1
    <3> QED BY <1>6, <3>1, <3>2 DEF Live
  <2>2. ASSUME NEW j \in Slots, Live(j)'
        PROVE  /\ obj'[j].id \in Ids
               /\ \/ entry'[obj'[j].id] = j
                  \/ \E q \in Requests : req'[q].pc = "built" /\ req'[q].slot = j
    <3>1. CASE j = k
      BY <1>1, <1>5, <1>9, <3>1
    <3>2. CASE j # k
      <4>1. /\ obj'[j] = obj[j] /\ obj[j].id \in Ids
            /\ \/ entry[obj[j].id] = j
               \/ \E q \in Requests : req[q].pc = "built" /\ req[q].slot = j
        BY <1>1, <1>6, <1>9, <2>2, <3>2 DEF Held, Registered
      <4>2. \A q \in Requests : req[q].pc = "built" => req'[q] = req[q]
        BY <1>5
      <4> QED BY <4>1, <4>2
    <3> QED BY <3>1, <3>2
  <2>3. ASSUME NEW j \in Slots, obj'[j].id = "kid" PROVE Live(j)'
    <3>1. CASE j = k
      BY <1>9, <3>1
    <3>2. CASE j # k
      BY <1>1, <1>6, <1>9, <2>3, <3>2 DEF Held, Registered
    <3> QED BY <3>1, <3>2
  <2>4. ASSUME NEW j \in Slots, Busy(j)' PROVE obj'[j].id \in Ids
    <3>1. j # k
      BY <1>9, <2>4 DEF Busy
    <3> QED BY <1>1, <1>6, <2>4, <3>1 DEF Held, Registered, Busy
  <2> QED BY <2>1, <2>2, <2>3, <2>4 DEF Registered
<1>11. ASSUME NEW q \in Requests PROVE AtStep(q)'
  <2>1. CASE q = r
    <3>1. entry[Id(r)] = 0 /\ (Opens(r) \/ Kind(r) = "create") /\ (Opens(r) => opening[Id(r)] = r)
      BY <1>1 DEF AtStep, Opens
    <3> QED BY <1>2, <1>5, <1>9, <2>1, <3>1 DEF AtStep
  <2>2. CASE q # r
    <3>1. AtStep(q) /\ req'[q] = req[q] /\ Id(q) \in Ids /\ req[q].slot # k
      BY <1>1, <1>2, <1>5, <2>2, RequestsAre DEF Held, Types
    <3>2. req[q].pc = "new" /\ Kind(q) = "create" => Id(q) # Id(r)
      <4>1. CASE req[r].pc = "list"
        BY <1>1, <2>2, <4>1, Alone
      <4>2. CASE Kind(r) = "create"
        <5> SUFFICES ASSUME Kind(q) = "create", Id(q) = Id(r) PROVE FALSE
          OBVIOUS
        <5>1. r < q /\ q < r
          BY <1>1, <2>2, <4>2, RequestsAre DEF Types
        <5>2. r \in Nat /\ q \in Nat
          BY <1>1
        <5> QED BY <5>1, <5>2
      <4> QED BY <4>1, <4>2
    <3>3. req[q].pc = "new" /\ Kind(q) = "create" =>
            \A j \in Slots : Live(j)' /\ obj'[j].id = Id(q) => Live(j) /\ obj[j].id = Id(q)
      BY <1>6, <1>9, <3>2
    <3>4. req[q].slot \in Slots =>
            LET j == req[q].slot
            IN obj'[j].id = obj[j].id /\ (Live(j) => Live(j)') /\ (Busy(j) => obj'[j].run.st # "idle")
      BY <1>6, <1>9, <3>1 DEF Busy
    <3> QED BY <1>1, <3>1, <3>3, <3>4, StepKept
  <2> QED BY <2>1, <2>2
<1>12. ASSUME NEW id \in Ids PROVE Opening(id)'
  <2>1. Opening(id)
    BY <1>1 DEF Held
  <2>2. opening[id] \in Requests \union {0}
    BY <1>1 DEF Types
  <2> QED BY <1>5, <2>1, <2>2 DEF Opening
<1>13. InTurn'
  <2>1. \A q \in Requests : Over(q) => Over(q)'
    BY <1>5 DEF Over
  <2>2. \A q \in Requests : req'[q].pc # "new" => req[q].pc # "new" \/ Issuable(q)
    BY <1>5
  <2> QED BY <1>1, <2>1, <2>2, InTurnKept DEF Held
<1>14. WaitersOK'
  <2>1. \A j \in Slots : (obj'[j].run.st = "asks") <=> (obj[j].run.st = "asks")
    BY <1>2, <1>6, <1>9 DEF Busy
  <2> QED BY <2>1, SameWaiters DEF IInv
<1> QED BY <1>8, <1>10, <1>11, <1>12, <1>13, <1>14 DEF IInv, Held

LEMMA OpenBuildOk ==
  ASSUME IInv, NEW r \in Requests, OpenBuild(r)
  PROVE  IInv'
<1>1. Id(r) \in Ids
  BY RequestsAre DEF IInv, Types
<1>2. /\ req[r].pc = "list" /\ FreeSlots # {} /\ UNCHANGED <<bound, entry, opening, waiting>>
      /\ req' = [req EXCEPT ![r].pc = "built", ![r].slot = NextSlot]
      /\ \E settings, window, want, kept :
           obj' = [obj EXCEPT ![NextSlot] = Made(Id(r), settings, window, want, kept)]
  BY DEF OpenBuild, talk
<1>3. PICK settings, window, want, kept :
        obj' = [obj EXCEPT ![NextSlot] = Made(Id(r), settings, window, want, kept)]
  BY <1>2
<1> QED BY <1>1, <1>2, <1>3, MadeIs, MakesOk

LEMMA CreateOk ==
  ASSUME IInv, NEW r \in Requests, Create(r)
  PROVE  IInv'
<1>1. Id(r) \in Ids
  BY RequestsAre DEF IInv, Types
<1>2. /\ req[r].pc = "new" /\ Kind(r) = "create" /\ Issuable(r) /\ FreeSlots # {}
      /\ UNCHANGED <<bound, entry, opening, waiting>>
      /\ req' = [req EXCEPT ![r].pc = "built", ![r].slot = NextSlot]
  BY DEF Create, talk, Issuable
<1>3. PICK preset \in Presets(bound.stored), known \in BOOLEAN : \E saved \in Versions(preset) :
        LET body == Body(Restored(saved, known), bound.window)
            want == Chosen(Selected(preset, known))
        IN obj' = [obj EXCEPT ![NextSlot] =
                     Made(Id(r), Created(body), body.window, want,
                          [parent |-> Null, config |-> Line(body), models |-> <<body.window>>,
                           want |-> want])]
  BY DEF Create
<1>4. PICK saved \in Versions(preset) :
        LET body == Body(Restored(saved, known), bound.window)
            want == Chosen(Selected(preset, known))
        IN obj' = [obj EXCEPT ![NextSlot] =
                     Made(Id(r), Created(body), body.window, want,
                          [parent |-> Null, config |-> Line(body), models |-> <<body.window>>,
                           want |-> want])]
  BY <1>3
<1> DEFINE body == Body(Restored(saved, known), bound.window)
           want == Chosen(Selected(preset, known))
           kept == [parent |-> Null, config |-> Line(body), models |-> <<body.window>>,
                    want |-> want]
           settings == Created(body)
           window == body.window
           m == Made(Id(r), settings, window, want, kept)
<1>5. obj' = [obj EXCEPT ![NextSlot] = m]
  BY <1>4
<1> HIDE DEF body, want, kept, settings, window
<1>6. ObjectOK(m) /\ m.id = Id(r) /\ m.state = "live" /\ m.run = Quiet
  BY <1>1, MadeIs
<1> HIDE DEF m
<1> QED BY <1>1, <1>2, <1>5, <1>6, MakesOk

-----------------------------------------------------------------------------
(* The child of a session *)

LEMMA DelegateOk ==
  ASSUME IInv, NEW i \in Slots, Delegate(i)
  PROVE  IInv'
<1>1. /\ Types /\ Held /\ entry["kid"] = 0 /\ UNCHANGED <<bound, opening, req, waiting>>
      /\ Objects(obj)
  BY DEF IInv, Types, Objects, Delegate
<1>2. CASE obj[i].run.stop
  <2>1. (\E n : obj' = Returned(obj, i, n)) /\ UNCHANGED entry
    BY <1>2 DEF Delegate
  <2> QED BY <1>1, <2>1, ReturnStep
<1>3. CASE ~obj[i].run.stop
  <2>1. PICK k \in Slots : k = NextSlot /\ ~Live(k) /\ ~Busy(k) /\ \A q \in Requests : req[q].slot # k
    BY <1>3, NextSlotIs DEF Free, Delegate
  <2> DEFINE fresh == Made("kid", obj[i].settings, obj[i].window, Null, Null)
             m == [fresh EXCEPT !.heard = TRUE]
             o == [obj EXCEPT ![k] = m]
  <2>2. obj' = Prompted(o, k) /\ entry' = [entry EXCEPT !["kid"] = k]
    BY <1>3, <2>1 DEF Delegate
  <2>3. ObjectOK(fresh) /\ fresh.id = "kid" /\ fresh.state = "live" /\ fresh.run = Quiet
    BY MadeIs DEF Ids
  <2> HIDE DEF fresh
  <2>4. ObjectOK(m) /\ m.id = "kid" /\ m.state = "live" /\ m.run = Quiet
    BY <2>3, FieldsAre DEF ObjectOK
  <2> HIDE DEF m
  <2>5. /\ Objects(o) /\ o[k] = m /\ \A j \in Slots : j # k => o[j] = obj[j]
    BY <1>1, <2>1, <2>4 DEF Objects
  <2> HIDE DEF o
  <2>6. /\ Objects(obj') /\ Alike(o, obj')
        /\ \A j \in Slots : j # k \/ o[j].run.st # "idle" => obj'[j] = o[j]
        /\ o[k].run.st = "idle" => obj'[k].run.st = "prep"
    <3>1. /\ Objects(Prompted(o, k)) /\ Alike(o, Prompted(o, k))
          /\ \A j \in Slots : j # k \/ o[j].run.st # "idle" => Prompted(o, k)[j] = o[j]
          /\ o[k].run.st = "idle" => Prompted(o, k)[k].run.st = "prep"
      BY <2>5, PromptedIs
    <3> QED BY <2>2, <3>1
  <2>7. /\ obj'[k].id = "kid" /\ Live(k)' /\ obj'[k].run.st = "prep"
        /\ \A j \in Slots : j # k => obj'[j] = obj[j] /\ Live(j)' = Live(j)
    <3>1. o[k].run.st = "idle"
      BY <2>4, <2>5, FieldsAre
    <3> QED BY <2>4, <2>5, <2>6, <3>1 DEF Alike, Live
  <2>8. /\ entry' \in [Ids -> Slots \union {0}] /\ entry'["kid"] = k
        /\ \A id \in Ids : id # "kid" => entry'[id] = entry[id]
    BY <1>1, <2>2 DEF Types, Entries, Ids
  <2>9. /\ \A q : Id(q)' = Id(q) /\ Kind(q)' = Kind(q) /\ Opens(q)' = Opens(q)
        /\ Requests' = Requests
    BY <1>1, Fixed
  <2> USE <2>9
  <2>10. Types'
    BY <1>1, <2>6, <2>8 DEF Types, Objects, Entries
  <2>11. Registered'
    <3>1. ASSUME NEW id \in Ids, entry'[id] # 0
          PROVE  (Live(entry[id]) /\ obj[entry[id]].id = id)'
      <4>1. CASE id = "kid"
        BY <2>7, <2>8, <4>1 DEF Live
      <4>2. CASE id # "kid"
        <5>1. entry'[id] = entry[id] /\ entry[id] \in Slots
              /\ Live(entry[id]) /\ obj[entry[id]].id = id
          BY <1>1, <2>8, <3>1, <4>2 DEF Held, Registered, Types, Entries
        <5>2. entry[id] # k
          BY <2>1, <5>1
        <5> QED BY <2>7, <5>1, <5>2 DEF Live
      <4> QED BY <4>1, <4>2
    <3>2. ASSUME NEW j \in Slots, Live(j)'
          PROVE  /\ obj'[j].id \in Ids
                 /\ \/ entry'[obj'[j].id] = j
                    \/ \E q \in Requests : req'[q].pc = "built" /\ req'[q].slot = j
      <4>1. CASE j = k
        BY <2>7, <2>8, <4>1 DEF Ids
      <4>2. CASE j # k
        <5>1. /\ obj'[j] = obj[j] /\ obj[j].id \in Ids
              /\ \/ entry[obj[j].id] = j
                 \/ \E q \in Requests : req[q].pc = "built" /\ req[q].slot = j
          BY <1>1, <2>7, <3>2, <4>2 DEF Held, Registered
        <5>2. j # 0
          BY RegistryAssumption
        <5> QED BY <1>1, <2>8, <5>1, <5>2
      <4> QED BY <4>1, <4>2
    <3>3. ASSUME NEW j \in Slots, obj'[j].id = "kid" PROVE Live(j)'
      BY <1>1, <2>7, <3>3 DEF Held, Registered
    <3>4. ASSUME NEW j \in Slots, Busy(j)' PROVE obj'[j].id \in Ids
      <4>1. CASE j = k
        BY <2>7, <4>1 DEF Ids
      <4>2. CASE j # k
        BY <1>1, <2>7, <3>4, <4>2 DEF Held, Registered, Busy
      <4> QED BY <4>1, <4>2
    <3> QED BY <3>1, <3>2, <3>3, <3>4 DEF Registered
  <2>12. ASSUME NEW q \in Requests PROVE AtStep(q)'
    <3>1. /\ AtStep(q) /\ req'[q] = req[q] /\ Id(q) \in Ids /\ Id(q) # "kid" /\ req[q].slot # k
          /\ opening'[Id(q)] = opening[Id(q)]
      BY <1>1, <2>1, RequestsAre DEF Held, Types
    <3>2. entry'[Id(q)] = entry[Id(q)]
      BY <2>8, <3>1
    <3>3. \A j \in Slots : Live(j)' /\ obj'[j].id = Id(q) => Live(j) /\ obj[j].id = Id(q)
      BY <2>7, <3>1
    <3>4. req[q].slot \in Slots =>
            LET j == req[q].slot
            IN obj'[j].id = obj[j].id /\ (Live(j) => Live(j)') /\ (Busy(j) => obj'[j].run.st # "idle")
      BY <2>7, <3>1 DEF Busy
    <3> QED BY <1>1, <3>1, <3>2, <3>3, <3>4, StepKept
  <2>13. ASSUME NEW id \in Ids PROVE Opening(id)'
    BY <1>1 DEF Held, Opening
  <2>14. InTurn'
    BY <1>1 DEF Held, InTurn, Over
  <2>15. WaitersOK'
    <3>1. \A j \in Slots : (obj'[j].run.st = "asks") <=> (obj[j].run.st = "asks")
      BY <2>1, <2>7 DEF Busy
    <3> QED BY <1>1, <3>1, SameWaiters DEF IInv
  <2> QED BY <2>10, <2>11, <2>12, <2>13, <2>14, <2>15 DEF IInv, Held
<1> QED BY <1>2, <1>3

LEMMA ChildEndsOk ==
  ASSUME IInv, NEW i \in Slots, ChildEnds(i)
  PROVE  IInv'
<1>1. /\ Types /\ Held /\ UNCHANGED <<bound, opening, req, waiting>> /\ Objects(obj)
      /\ obj[i].id = "kid" /\ obj[i].run.st = "exec" /\ obj[i].run.left = {}
      /\ entry' = [entry EXCEPT !["kid"] = 0]
  BY DEF IInv, Types, Objects, ChildEnds, AtEnd
<1>2. Live(i) /\ entry["kid"] = i
  <2>1. Live(i)
    BY <1>1 DEF Held, Registered
  <2>2. ASSUME NEW q \in Requests, req[q].pc = "built", req[q].slot = i PROVE FALSE
    <3>1. AtStep(q) /\ Id(q) # "kid"
      BY <1>1, RequestsAre DEF Held, Types
    <3> QED BY <1>1, <2>2, <3>1 DEF AtStep
  <2> QED BY <1>1, <2>1, <2>2 DEF Held, Registered
<1>3. PICK j \in Slots : \E n \in Left(j, "subagent") :
                           obj' = Returned([obj EXCEPT ![i] = Blank], j, n)
  BY DEF ChildEnds
<1>4. PICK n \in Left(j, "subagent") : obj' = Returned([obj EXCEPT ![i] = Blank], j, n)
  BY <1>3
<1>5. j # i
  BY <1>1, <1>4 DEF Left
<1> DEFINE o == [obj EXCEPT ![i] = Blank]
<1>6. ObjectOK(Blank) /\ Blank.id = Null /\ Blank.state = "free" /\ Blank.run.st = "idle"
  BY FieldsAre DEF ObjectOK, Blank
<1>7. Objects(o) /\ o[i] = Blank /\ \A l \in Slots : l # i => o[l] = obj[l]
  BY <1>1, <1>6 DEF Objects
<1>8. obj' = Returned(o, j, n)
  BY <1>4
<1> HIDE DEF o
<1>9. /\ Objects(obj') /\ Alike(o, obj')
      /\ \A l \in Slots : obj'[l].run.st = o[l].run.st
  BY <1>7, <1>8, ReturnedIs
<1>10. /\ ~Live(i)' /\ obj'[i].id = Null /\ obj'[i].run.st = "idle"
      /\ \A l \in Slots : l # i => /\ Live(l)' = Live(l) /\ obj'[l].id = obj[l].id
                                   /\ obj'[l].run.st = obj[l].run.st
  BY <1>6, <1>7, <1>9 DEF Alike, Live
<1>11. /\ entry' \in [Ids -> Slots \union {0}] /\ entry'["kid"] = 0
       /\ \A id \in Ids : id # "kid" => entry'[id] = entry[id]
  BY <1>1 DEF Types, Entries, Ids
<1>12. /\ \A q : Id(q)' = Id(q) /\ Kind(q)' = Kind(q) /\ Opens(q)' = Opens(q)
       /\ Requests' = Requests
  BY <1>1, Fixed
<1> USE <1>12
<1>13. Types'
  BY <1>1, <1>9, <1>11 DEF Types, Objects, Entries
<1>14. Registered'
  <2>1. ASSUME NEW id \in Ids, entry'[id] # 0
        PROVE  (Live(entry[id]) /\ obj[entry[id]].id = id)'
    <3>1. /\ entry'[id] = entry[id] /\ entry[id] \in Slots /\ id # "kid"
          /\ Live(entry[id]) /\ obj[entry[id]].id = id
      BY <1>1, <1>11, <2>1 DEF Held, Registered, Types, Entries
    <3>2. entry[id] # i
      BY <1>1, <3>1
    <3> QED BY <1>10, <3>1, <3>2 DEF Live
  <2>2. ASSUME NEW l \in Slots, Live(l)'
        PROVE  /\ obj'[l].id \in Ids
               /\ \/ entry'[obj'[l].id] = l
                  \/ \E q \in Requests : req'[q].pc = "built" /\ req'[q].slot = l
    <3>1. l # i
      BY <1>10, <2>2
    <3>2. /\ obj'[l].id = obj[l].id /\ obj[l].id \in Ids
          /\ \/ entry[obj[l].id] = l
             \/ \E q \in Requests : req[q].pc = "built" /\ req[q].slot = l
      BY <1>1, <1>10, <2>2, <3>1 DEF Held, Registered
    <3>3. entry[obj[l].id] = l => obj[l].id # "kid"
      BY <1>2, <3>1
    <3> QED BY <1>1, <1>11, <3>2, <3>3
  <2>3. ASSUME NEW l \in Slots, obj'[l].id = "kid" PROVE Live(l)'
    <3>1. l # i
      BY <1>10, <2>3, RegistryAssumption DEF Ids
    <3> QED BY <1>1, <1>10, <2>3, <3>1 DEF Held, Registered
  <2>4. ASSUME NEW l \in Slots, Busy(l)' PROVE obj'[l].id \in Ids
    <3>1. l # i
      BY <1>10, <2>4 DEF Busy
    <3> QED BY <1>1, <1>10, <2>4, <3>1 DEF Held, Registered, Busy
  <2> QED BY <2>1, <2>2, <2>3, <2>4 DEF Registered
<1>15. ASSUME NEW q \in Requests PROVE AtStep(q)'
  <2>1. /\ AtStep(q) /\ req'[q] = req[q] /\ Id(q) \in Ids /\ Id(q) # "kid"
        /\ opening'[Id(q)] = opening[Id(q)]
    BY <1>1, RequestsAre DEF Held, Types
  <2>2. entry'[Id(q)] = entry[Id(q)]
    BY <1>11, <2>1
  <2>3. \A l \in Slots : Live(l)' /\ obj'[l].id = Id(q) => Live(l) /\ obj[l].id = Id(q)
    BY <1>10, <2>1
  <2>4. req[q].pc \in {"built", "bind", "remove"} => req[q].slot # i
    <3>1. req[q].pc \in {"built", "bind"} => obj[req[q].slot].id = Id(q)
      BY <2>1 DEF AtStep
    <3>2. req[q].pc = "remove" => obj[req[q].slot].id = Id(q)
      <4> HAVE req[q].pc = "remove"
      <4>1. entry[Id(q)] = req[q].slot /\ req[q].slot \in Slots
        BY <2>1 DEF AtStep
      <4>2. req[q].slot # 0
        BY <4>1, RegistryAssumption
      <4> QED BY <1>1, <2>1, <4>1, <4>2 DEF Held, Registered
    <3> QED BY <1>1, <2>1, <3>1, <3>2
  <2>5. req[q].slot \in Slots /\ req[q].pc \in {"built", "bind", "remove"} =>
          LET l == req[q].slot
          IN obj'[l].id = obj[l].id /\ (Live(l) => Live(l)') /\ (Busy(l) => obj'[l].run.st # "idle")
    BY <1>10, <2>1, <2>4 DEF Busy, Live
  <2> QED BY <1>1, <2>1, <2>2, <2>3, <2>5, StepKept
<1>16. ASSUME NEW id \in Ids PROVE Opening(id)'
  BY <1>1 DEF Held, Opening
<1>17. InTurn'
  BY <1>1 DEF Held, InTurn, Over
<1>18. WaitersOK'
  <2>1. \A l \in Slots : (obj'[l].run.st = "asks") <=> (obj[l].run.st = "asks")
    BY <1>1, <1>10
  <2> QED BY <1>1, <2>1, SameWaiters DEF IInv
<1> QED BY <1>13, <1>14, <1>15, <1>16, <1>17, <1>18 DEF IInv, Held

-----------------------------------------------------------------------------
(* Removal *)

\* The session has no object, or an idle one that is disposed.
LEMMA DeleteIdleOk ==
  ASSUME IInv, NEW r \in Requests, DeleteIdle(r)
  PROVE  IInv'
<1>1. /\ Types /\ Held /\ Id(r) \in Ids /\ Id(r) # "kid" /\ AtStep(r) /\ r # 0
      /\ req[r].pc = "new" /\ Issuable(r) /\ Kind(r) = "delete"
      /\ UNCHANGED <<bound, opening>> /\ Objects(obj)
  BY RequestsAre DEF IInv, Types, Objects, Held, DeleteIdle, Issuable
<1>2. /\ \A q : Id(q)' = Id(q) /\ Kind(q)' = Kind(q) /\ Opens(q)' = Opens(q)
      /\ Requests' = Requests
  BY <1>1, Fixed
<1> USE <1>2
<1>3. PICK snap, todo : req' = [req EXCEPT ![r].pc = "heirs", ![r].snap = snap, ![r].todo = todo]
  BY DEF DeleteIdle
<1>4. /\ DOMAIN req = Requests /\ RequestOK(req[r]) /\ entry \in [Ids -> Slots \union {0}]
      /\ opening \in [Ids -> Requests \union {0}]
  BY <1>1 DEF Types, Entries
<1>5. /\ DOMAIN req' = Requests /\ \A q \in Requests : q # r => req'[q] = req[q]
      /\ req'[r].pc = "heirs" /\ RequestOK(req'[r])
  BY <1>3, <1>4, FieldsAre DEF RequestOK, PCs
<1>6. AtStep(r)'
  BY <1>1, <1>5 DEF AtStep
<1>7. entry' = [entry EXCEPT ![Id(r)] = 0]
  BY DEF DeleteIdle
<1>8. CASE entry[Id(r)] = 0
  <2>1. UNCHANGED <<obj, entry, waiting>>
    BY <1>4, <1>7, <1>8 DEF DeleteIdle
  <2>2. Objects(obj') /\ Alike(obj, obj') /\ \A i \in Slots : Busy(i) <=> obj'[i].run.st # "idle"
    BY <1>1, <2>1 DEF Objects, Alike, Busy
  <2>3. opening' \in [Ids -> Requests \union {0}]
    BY <1>1, <1>4
  <2>4. Types' /\ Held'
    BY <1>1, <1>5, <1>6, <2>1, <2>2, <2>3, RequestMoves
  <2> QED BY <1>1, <2>1, <2>4, SameWaiters DEF IInv
<1>9. CASE entry[Id(r)] # 0
  <2>1. PICK i \in Slots : i = entry[Id(r)] /\ i # 0
    BY <1>1, <1>4, <1>9
  <2>2. Live(i) /\ obj[i].id = Id(r) /\ ~Busy(i)
    BY <1>1, <1>9, <2>1 DEF Held, Registered, DeleteIdle, Streaming
  <2> DEFINE ws == CancelSession(Id(r))
  <2>3. ws \in SUBSET ToSet(waiting) /\ waiting' = Without(ws)
    BY <1>9 DEF DeleteIdle, CancelSession
  <2>4. PICK o : /\ obj' = [o EXCEPT ![i].heard = FALSE, ![i].state = "disposed"]
                 /\ \E no \in BOOLEAN : o = Settled(obj, ws, no)
    BY <1>9, <2>1 DEF DeleteIdle
  <2> HIDE DEF ws
  <2>5. /\ Objects(o) /\ Alike(obj, o)
        /\ \A j \in Slots : o[j].run.st = IF \E w \in ws : w.slot = j THEN "prep" ELSE obj[j].run.st
    <3>1. PICK no \in BOOLEAN : o = Settled(obj, ws, no)
      BY <2>4
    <3>2. /\ Objects(Settled(obj, ws, no)) /\ Alike(obj, Settled(obj, ws, no))
          /\ \A j \in Slots : Settled(obj, ws, no)[j].run.st =
                                IF \E w \in ws : w.slot = j THEN "prep" ELSE obj[j].run.st
      BY <1>1, SettledIs
    <3> QED BY <3>1, <3>2
  <2>6. \A w \in ws : w.slot \in Slots /\ obj[w.slot].run.st = "asks"
    <3> TAKE w \in ws
    <3>1. waiting \in Seq(Waiters) /\ DOMAIN waiting = 1 .. Len(waiting)
      BY DEF IInv, WaitersOK
    <3>2. PICK n \in 1 .. Len(waiting) : waiting[n] = w
      BY <2>3, <3>1 DEF ToSet
    <3>3. w \in Waiters
      BY <3>1, <3>2
    <3> QED BY <3>2, <3>3 DEF IInv, WaitersOK, Waiters
  <2>7. /\ Objects(obj') /\ \A j \in Slots : obj'[j].run = o[j].run /\ obj'[j].id = o[j].id
        /\ obj'[i].state = "disposed" /\ \A j \in Slots : j # i => obj'[j].state = o[j].state
    <3>1. DOMAIN obj' = Slots /\ \A j \in Slots : j # i => obj'[j] = o[j]
      BY <2>4, <2>5 DEF Objects
    <3>2. ObjectOK(o[i]) /\ obj'[i] = [o[i] EXCEPT !.heard = FALSE, !.state = "disposed"]
      BY <2>4, <2>5, FieldsAre DEF Objects, ObjectOK
    <3>3. /\ ObjectOK(obj'[i]) /\ obj'[i].run = o[i].run /\ obj'[i].id = o[i].id
          /\ obj'[i].state = "disposed"
      BY <3>2, FieldsAre DEF ObjectOK
    <3> QED BY <2>5, <3>1, <3>3 DEF Objects
  <2>8. /\ ~Live(i)'
        /\ \A j \in Slots : /\ j # i => Live(j)' = Live(j)
                            /\ obj'[j].id = obj[j].id
                            /\ Busy(j) <=> obj'[j].run.st # "idle"
    <3>1. ~Live(i)' /\ \A j \in Slots : (j # i => Live(j)' = Live(j)) /\ obj'[j].id = obj[j].id
      BY <2>5, <2>7 DEF Alike, Live
    <3>2. \A j \in Slots : Busy(j) <=> obj'[j].run.st # "idle"
      BY <2>5, <2>6, <2>7 DEF Busy
    <3> QED BY <3>1, <3>2
  <2>9. /\ entry' \in [Ids -> Slots \union {0}] /\ entry'[Id(r)] = 0
        /\ \A id \in Ids : id # Id(r) => entry'[id] = entry[id]
    BY <1>1, <1>4, <1>7
  <2>10. Types'
    <3>1. \A q \in Requests : RequestOK(req'[q])
      BY <1>1, <1>5 DEF Types
    <3> QED BY <1>1, <1>4, <1>5, <2>7, <2>9, <3>1 DEF Types, Objects, Entries
  <2>11. Registered'
    <3>1. ASSUME NEW id \in Ids, entry'[id] # 0
          PROVE  (Live(entry[id]) /\ obj[entry[id]].id = id)'
      <4>1. /\ entry'[id] = entry[id] /\ entry[id] \in Slots /\ id # Id(r)
            /\ Live(entry[id]) /\ obj[entry[id]].id = id
        BY <1>1, <2>9, <3>1 DEF Held, Registered, Types, Entries
      <4>2. entry[id] # i
        BY <2>2, <4>1
      <4> QED BY <2>8, <4>1, <4>2 DEF Live
    <3>2. ASSUME NEW j \in Slots, Live(j)'
          PROVE  /\ obj'[j].id \in Ids
                 /\ \/ entry'[obj'[j].id] = j
                    \/ \E q \in Requests : req'[q].pc = "built" /\ req'[q].slot = j
      <4>1. j # i
        BY <2>8, <3>2
      <4>2. /\ obj'[j].id = obj[j].id /\ obj[j].id \in Ids
            /\ \/ entry[obj[j].id] = j
               \/ \E q \in Requests : req[q].pc = "built" /\ req[q].slot = j
        BY <1>1, <2>8, <3>2, <4>1 DEF Held, Registered
      <4>3. entry[obj[j].id] = j => obj[j].id # Id(r)
        BY <2>1, <4>1
      <4>4. \A q \in Requests : req[q].pc = "built" => req'[q] = req[q]
        BY <1>1, <1>5
      <4> QED BY <2>9, <4>2, <4>3, <4>4
    <3>3. ASSUME NEW j \in Slots, obj'[j].id = "kid" PROVE Live(j)'
      <4>1. j # i
        BY <1>1, <2>2, <2>8, <3>3
      <4> QED BY <1>1, <2>8, <3>3, <4>1 DEF Held, Registered
    <3>4. ASSUME NEW j \in Slots, Busy(j)' PROVE obj'[j].id \in Ids
      BY <1>1, <2>8, <3>4 DEF Held, Registered, Busy
    <3> QED BY <3>1, <3>2, <3>3, <3>4 DEF Registered
  <2>12. ASSUME NEW q \in Requests PROVE AtStep(q)'
    <3>1. CASE q = r
      BY <1>6, <3>1
    <3>2. CASE q # r
      <4>1. AtStep(q) /\ req'[q] = req[q] /\ Id(q) \in Ids /\ opening'[Id(q)] = opening[Id(q)]
        BY <1>1, <1>5, <3>2, RequestsAre DEF Held, Types
      <4>2. CASE Id(q) # Id(r)
        <5>1. entry'[Id(q)] = entry[Id(q)]
          BY <2>9, <4>1, <4>2
        <5>2. \A j \in Slots : Live(j)' /\ obj'[j].id = Id(q) => Live(j) /\ obj[j].id = Id(q)
          BY <2>8
        <5>3. req[q].slot \in Slots /\ req[q].pc \in {"built", "bind", "remove"} => req[q].slot # i
          <6>1. req[q].pc \in {"built", "bind"} => obj[req[q].slot].id = Id(q)
            BY <4>1 DEF AtStep
          <6>2. req[q].pc = "remove" => Busy(req[q].slot)
            BY <4>1 DEF AtStep
          <6> QED BY <2>2, <4>2, <6>1, <6>2
        <5>4. req[q].slot \in Slots /\ req[q].pc \in {"built", "bind", "remove"} =>
                LET j == req[q].slot
                IN /\ obj'[j].id = obj[j].id /\ (Live(j) => Live(j)')
                   /\ (Busy(j) => obj'[j].run.st # "idle")
          BY <2>8, <4>1, <5>3 DEF Live, Busy
        <5> QED BY <1>1, <4>1, <5>1, <5>2, <5>4, StepKept
      <4>3. CASE Id(q) = Id(r)
        <5>1. /\ req[q].pc \notin {"list", "built"} /\ ~(req[q].pc = "new" /\ Kind(q) = "create")
              /\ req[q].pc # "remove"
          BY <1>9, <2>1, <2>2, <4>1, <4>3 DEF AtStep
        <5>2. \A j \in Slots : obj'[j].id = obj[j].id
          BY <2>8
        <5> QED BY <4>1, <5>1, <5>2 DEF AtStep
      <4> QED BY <4>2, <4>3
    <3> QED BY <3>1, <3>2
  <2>13. ASSUME NEW id \in Ids PROVE Opening(id)'
    <3>1. Opening(id)
      BY <1>1 DEF Held
    <3>2. opening[id] \in Requests \union {0}
      BY <1>4
    <3> QED BY <1>1, <1>5, <3>1, <3>2 DEF Opening
  <2>14. InTurn'
    <3>1. \A q \in Requests : Over(q) => Over(q)'
      BY <1>1, <1>5 DEF Over
    <3>2. \A q \in Requests : req'[q].pc # "new" => req[q].pc # "new" \/ Issuable(q)
      BY <1>1, <1>5
    <3> QED BY <1>1, <3>1, <3>2, InTurnKept DEF Held
  <2>15. WaitersOK'
    <3>1. \A j \in Slots : (obj'[j].run.st = "asks")
                             <=> (obj[j].run.st = "asks" /\ ~\E w \in ws : w.slot = j)
      BY <2>5, <2>7
    <3> QED BY <1>1, <2>3, <3>1, FewerWaiters DEF IInv
  <2> QED BY <2>10, <2>11, <2>12, <2>13, <2>14, <2>15 DEF IInv, Held
<1> QED BY <1>8, <1>9

\* A turn ends, and with it what waited for it: an abort, and every removal of its session.
LEMMA TurnEndsOk ==
  ASSUME IInv, NEW i \in Slots, TurnEnds(i)
  PROVE  IInv'
<1>1. /\ Types /\ Held /\ UNCHANGED <<bound, opening, waiting>> /\ Objects(obj) /\ i # 0
      /\ obj[i].id # "kid" /\ obj[i].run.st = "exec" /\ obj[i].id \in Ids
  BY RegistryAssumption DEF IInv, Types, Objects, Held, Registered, Busy, TurnEnds, AtEnd
<1>2. /\ \A q : Id(q)' = Id(q) /\ Kind(q)' = Kind(q) /\ Opens(q)' = Opens(q)
      /\ Requests' = Requests
  BY <1>1, Fixed
<1> USE <1>2
<1>3. PICK id \in Ids : id = obj[i].id /\ id # "kid"
  BY <1>1
<1>4. PICK removers : removers = {r \in Requests : req[r].pc = "remove" /\ req[r].slot = i}
  OBVIOUS
<1>5. /\ obj' = [obj EXCEPT ![i].run = Quiet, ![i].kept = Null,
                            ![i].state = IF removers # {} THEN "disposed" ELSE @]
      /\ entry' = IF removers # {} THEN [entry EXCEPT ![id] = 0] ELSE entry
      /\ req' = [r \in Requests |->
                   IF r \in removers
                   THEN [req[r] EXCEPT !.pc = "heirs", !.slot = 0, !.todo = Heirs(req[r].snap, id)]
                   ELSE IF req[r].pc = "abort" /\ req[r].slot = i THEN [New EXCEPT !.pc = "done"]
                   ELSE req[r]]
  BY <1>3, <1>4 DEF TurnEnds
<1>6. /\ DOMAIN req = Requests /\ \A q \in Requests : RequestOK(req[q])
      /\ entry \in [Ids -> Slots \union {0}] /\ opening \in [Ids -> Requests \union {0}]
  BY <1>1 DEF Types, Entries
<1>7. ASSUME NEW q \in Requests
      PROVE  /\ RequestOK(req'[q])
             /\ q \in removers => req'[q].pc = "heirs"
             /\ q \notin removers /\ req[q].pc = "abort" /\ req[q].slot = i => req'[q].pc = "done"
             /\ q \notin removers /\ ~(req[q].pc = "abort" /\ req[q].slot = i) => req'[q] = req[q]
  <2>1. CASE q \in removers
    <3>1. req'[q] = [req[q] EXCEPT !.pc = "heirs", !.slot = 0, !.todo = Heirs(req[q].snap, id)]
      BY <1>5, <2>1
    <3> QED BY <1>6, <2>1, <3>1, FieldsAre DEF RequestOK, PCs
  <2>2. CASE q \notin removers
    BY <1>5, <1>6, <2>2, FieldsAre DEF RequestOK, PCs, New
  <2> QED BY <2>1, <2>2
<1>8. \A q \in removers : q \in Requests /\ Kind(q) = "delete" /\ Id(q) = id /\ entry[id] = i
  <2> TAKE q \in removers
  <2>1. q \in Requests /\ req[q].pc = "remove" /\ req[q].slot = i /\ AtStep(q) /\ Id(q) \in Ids
    BY <1>1, <1>4, RequestsAre DEF Held, Types
  <2>2. Kind(q) = "delete" /\ entry[Id(q)] = i
    BY <2>1 DEF AtStep
  <2>3. obj[i].id = Id(q)
    BY <1>1, <2>1, <2>2 DEF Held, Registered
  <2> QED BY <1>3, <2>1, <2>2, <2>3
<1>9. /\ Objects(obj') /\ \A j \in Slots : obj'[j].id = obj[j].id
      /\ \A j \in Slots : j # i => obj'[j] = obj[j]
      /\ obj'[i].run.st = "idle"
      /\ obj'[i].state = IF removers # {} THEN "disposed" ELSE obj[i].state
  <2>1. DOMAIN obj' = Slots /\ \A j \in Slots : j # i => obj'[j] = obj[j]
    BY <1>1, <1>5 DEF Objects
  <2>2. ObjectOK(obj[i]) /\ obj'[i] = [obj[i] EXCEPT !.run = Quiet, !.kept = Null,
                                         !.state = IF removers # {} THEN "disposed" ELSE @]
    BY <1>1, <1>5, FieldsAre DEF Objects, ObjectOK
  <2>3. /\ ObjectOK(obj'[i]) /\ obj'[i].run = Quiet /\ obj'[i].id = obj[i].id
        /\ obj'[i].state = IF removers # {} THEN "disposed" ELSE obj[i].state
    BY <2>2, FieldsAre DEF ObjectOK
  <2> QED BY <1>1, <2>1, <2>3, FieldsAre DEF Objects
<1>10. /\ removers # {} => ~Live(i)'
       /\ removers = {} => Live(i)' = Live(i)
       /\ \A j \in Slots : j # i => Live(j)' = Live(j)
  BY <1>9 DEF Live
<1>11. /\ entry' \in [Ids -> Slots \union {0}]
       /\ removers # {} => entry[id] = i /\ entry'[id] = 0
       /\ \A x \in Ids : removers = {} \/ x # id => entry'[x] = entry[x]
  BY <1>5, <1>6, <1>8
<1>12. Types'
  <2>1. DOMAIN req' = Requests
    BY <1>5
  <2> QED BY <1>1, <1>6, <1>7, <1>9, <1>11, <2>1 DEF Types, Objects, Entries
<1>13. Registered'
  <2>1. ASSUME NEW x \in Ids, entry'[x] # 0
        PROVE  (Live(entry[x]) /\ obj[entry[x]].id = x)'
    <3>1. entry'[x] = entry[x] /\ entry[x] \in Slots /\ Live(entry[x]) /\ obj[entry[x]].id = x
      BY <1>1, <1>11, <2>1 DEF Held, Registered, Types, Entries
    <3>2. removers # {} => entry[x] # i
      BY <1>3, <1>11, <2>1, <3>1
    <3> QED BY <1>9, <1>10, <3>1, <3>2 DEF Live
  <2>2. ASSUME NEW j \in Slots, Live(j)'
        PROVE  /\ obj'[j].id \in Ids
               /\ \/ entry'[obj'[j].id] = j
                  \/ \E q \in Requests : req'[q].pc = "built" /\ req'[q].slot = j
    <3>1. Live(j) /\ (removers # {} => j # i)
      BY <1>10, <2>2
    <3>2. /\ obj'[j].id = obj[j].id /\ obj[j].id \in Ids
          /\ \/ entry[obj[j].id] = j
             \/ \E q \in Requests : req[q].pc = "built" /\ req[q].slot = j
      BY <1>1, <1>9, <3>1 DEF Held, Registered
    <3>3. entry[obj[j].id] = j => removers = {} \/ obj[j].id # id
      BY <1>11, <3>1
    <3>4. \A q \in Requests : req[q].pc = "built" => req'[q] = req[q]
      BY <1>4, <1>7
    <3> QED BY <1>11, <3>2, <3>3, <3>4
  <2>3. ASSUME NEW j \in Slots, obj'[j].id = "kid" PROVE Live(j)'
    <3>1. j # i
      BY <1>1, <1>9, <2>3
    <3> QED BY <1>1, <1>9, <1>10, <2>3, <3>1 DEF Held, Registered
  <2>4. ASSUME NEW j \in Slots, Busy(j)' PROVE obj'[j].id \in Ids
    <3>1. j # i
      BY <1>9, <2>4 DEF Busy
    <3> QED BY <1>1, <1>9, <2>4, <3>1 DEF Held, Registered, Busy
  <2> QED BY <2>1, <2>2, <2>3, <2>4 DEF Registered
<1>14. ASSUME NEW q \in Requests PROVE AtStep(q)'
  <2>1. CASE q \in removers
    BY <1>7, <1>8, <2>1 DEF AtStep
  <2>2. CASE q \notin removers /\ req[q].pc = "abort" /\ req[q].slot = i
    BY <1>7, <2>2 DEF AtStep
  <2>3. CASE q \notin removers /\ ~(req[q].pc = "abort" /\ req[q].slot = i)
    <3>1. AtStep(q) /\ req'[q] = req[q] /\ Id(q) \in Ids /\ opening'[Id(q)] = opening[Id(q)]
      BY <1>1, <1>7, <2>3, RequestsAre DEF Held, Types
    <3>2. req[q].pc = "remove" => req[q].slot # i
      BY <1>4, <2>3
    <3>3. CASE removers = {} \/ Id(q) # id
      <4>1. entry'[Id(q)] = entry[Id(q)]
        BY <1>11, <3>1, <3>3
      <4>2. \A j \in Slots : Live(j)' /\ obj'[j].id = Id(q) => Live(j) /\ obj[j].id = Id(q)
        BY <1>9, <1>10
      <4>3. req[q].pc \in {"built", "bind"} => obj[req[q].slot].id = Id(q)
        BY <3>1 DEF AtStep
      <4>4. req[q].slot \in Slots /\ req[q].pc \in {"built", "remove"} =>
              removers = {} \/ req[q].slot # i
        BY <1>3, <3>2, <3>3, <4>3
      <4>5. req[q].pc = "remove" => req[q].slot \in Slots /\ Busy(req[q].slot) /\ req[q].slot # i
        BY <3>1, <3>2 DEF AtStep
      <4>6. \A j \in Slots : j # i /\ Busy(j) => obj'[j].run.st # "idle"
        BY <1>9 DEF Busy
      <4>7. \A j \in Slots : removers = {} \/ j # i => Live(j)' = Live(j)
        BY <1>10
      <4> QED BY <1>9, <3>1, <4>1, <4>2, <4>4, <4>5, <4>6, <4>7 DEF AtStep, Live, Busy
    <3>4. CASE removers # {} /\ Id(q) = id
      <4>1. entry[Id(q)] = i
        BY <1>11, <3>4
      <4>2. /\ req[q].pc \notin {"list", "built"} /\ ~(req[q].pc = "new" /\ Kind(q) = "create")
            /\ req[q].pc # "remove"
        BY <1>1, <3>1, <3>2, <4>1 DEF AtStep
      <4> QED BY <1>9, <3>1, <4>2 DEF AtStep
    <3> QED BY <3>3, <3>4
  <2> QED BY <2>1, <2>2, <2>3
<1>15. ASSUME NEW x \in Ids PROVE Opening(x)'
  <2>1. Opening(x)
    BY <1>1 DEF Held
  <2>2. opening[x] \in Requests \union {0}
    BY <1>6
  <2>3. opening[x] # 0 => req'[opening[x]] = req[opening[x]]
    BY <1>4, <1>7, <2>1, <2>2 DEF Opening
  <2> QED BY <1>1, <2>1, <2>2, <2>3 DEF Opening
<1>16. InTurn'
  <2>1. \A q \in Requests : Over(q) => Over(q)'
    BY <1>4, <1>7 DEF Over
  <2>2. \A q \in Requests : req'[q].pc # "new" => req[q].pc # "new" \/ Issuable(q)
    BY <1>4, <1>7
  <2> QED BY <1>1, <2>1, <2>2, InTurnKept DEF Held
<1>17. WaitersOK'
  <2>1. \A j \in Slots : (obj'[j].run.st = "asks") <=> (obj[j].run.st = "asks")
    BY <1>1, <1>9
  <2> QED BY <1>1, <2>1, SameWaiters DEF IInv
<1> QED BY <1>12, <1>13, <1>14, <1>15, <1>16, <1>17 DEF IInv, Held

-----------------------------------------------------------------------------
(* The start, a restart, and the invariant *)

LEMMA CrashOk ==
  ASSUME IInv, Crash
  PROVE  IInv'
<1>1. /\ Types /\ Held /\ bound' = bound
      /\ obj' = [i \in Slots |-> Blank] /\ entry' = Nowhere /\ opening' = Nowhere
      /\ req' = [r \in Requests |-> IF req[r].pc = "new" \/ Over(r) THEN req[r]
                                    ELSE [New EXCEPT !.pc = "failed"]]
      /\ waiting' = <<>>
  BY DEF IInv, Crash
<1>2. /\ \A q : Id(q)' = Id(q) /\ Kind(q)' = Kind(q) /\ Opens(q)' = Opens(q)
      /\ Requests' = Requests /\ Waiters' = Waiters
  BY <1>1, Fixed
<1> USE <1>2
<1>3. ASSUME NEW i \in Slots
      PROVE  /\ ObjectOK(obj'[i]) /\ ~Live(i)' /\ ~Busy(i)' /\ obj'[i].id = Null
             /\ obj'[i].run.st = "idle"
  <2>1. obj'[i] = Blank
    BY <1>1
  <2> QED BY <2>1, FieldsAre DEF ObjectOK, Blank, Live, Busy
<1>4. ASSUME NEW q \in Requests
      PROVE  /\ RequestOK(req'[q]) /\ req'[q].pc \in {"new", "done", "failed"}
             /\ req'[q].pc = "new" => req[q].pc = "new"
             /\ Over(q) => Over(q)'
  <2>1. CASE req[q].pc = "new" \/ Over(q)
    BY <1>1, <2>1 DEF Types, Over
  <2>2. CASE ~(req[q].pc = "new" \/ Over(q))
    BY <1>1, <2>2, FieldsAre, RegistryAssumption DEF RequestOK, PCs, New
  <2> QED BY <2>1, <2>2
<1>5. \A id \in Ids : entry'[id] = 0 /\ opening'[id] = 0
  BY <1>1 DEF Nowhere
<1>6. Types'
  <2>1. entry' \in Entries /\ opening' \in [Ids -> Requests \union {0}]
    BY <1>1 DEF Nowhere, Entries
  <2> QED BY <1>1, <1>3, <1>4, <2>1 DEF Types, Entries
<1>7. Registered'
  BY <1>3, <1>5, RegistryAssumption DEF Registered, Ids, Live, Busy
<1>8. ASSUME NEW q \in Requests PROVE AtStep(q)'
  <2>1. Id(q) \in Ids
    BY <1>1, RequestsAre DEF Types
  <2> QED BY <1>3, <1>4, <1>5, <2>1 DEF AtStep
<1>9. ASSUME NEW id \in Ids PROVE Opening(id)'
  BY <1>5 DEF Opening
<1>10. InTurn'
  <2>1. ASSUME NEW r \in Requests, NEW q \in Requests, bound.serial, q < r, req'[r].pc # "new"
        PROVE  Over(q)'
    <3>1. CASE req[r].pc = "new"
      BY <1>1, <2>1, <3>1
    <3>2. CASE req[r].pc # "new"
      BY <1>1, <1>4, <2>1, <3>2 DEF Held, InTurn
    <3> QED BY <3>1, <3>2
  <2> QED BY <1>1, <2>1 DEF InTurn
<1>11. WaitersOK'
  <2>1. waiting' \in Seq(Waiters) /\ Len(waiting') = 0
    BY <1>1
  <2> QED BY <1>2, <1>3, <2>1 DEF WaitersOK
<1> QED BY <1>6, <1>7, <1>8, <1>9, <1>10, <1>11 DEF IInv, Held

\* At the start at most the session the page shows has an object.
LEMMA InitOk == Init => IInv
<1> SUFFICES ASSUME Init PROVE IInv
  OBVIOUS
<1>1. /\ bound \in Scenarios /\ opening = Nowhere /\ req = [r \in Requests |-> New] /\ waiting = <<>>
      /\ entry = [Nowhere EXCEPT ![Watched] = IF bound.open THEN 1 ELSE 0]
  BY DEF Init
<1>2. 1 \in Slots /\ Watched \in Ids /\ Watched # "kid" /\ Null \notin Ids
  BY RegistryAssumption DEF Ids, Watched
<1> DEFINE made == Made(Watched, Opened(Null, bound.window), bound.window, Null, Null)
           m == [made EXCEPT !.heard = TRUE]
<1>3. obj = [i \in Slots |-> IF i = 1 /\ bound.open THEN m ELSE Blank]
  BY DEF Init
<1>4. ObjectOK(made) /\ made.id = Watched /\ made.state = "live" /\ made.run = Quiet
  BY <1>2, MadeIs
<1> HIDE DEF made
<1>5. ObjectOK(m) /\ m.id = Watched /\ m.state = "live" /\ m.run.st = "idle"
  BY <1>4, FieldsAre DEF ObjectOK
<1> HIDE DEF m
<1>6. ASSUME NEW i \in Slots
      PROVE  /\ ObjectOK(obj[i]) /\ obj[i].run.st = "idle"
             /\ i = 1 /\ bound.open => obj[i].state = "live" /\ obj[i].id = Watched
             /\ ~(i = 1 /\ bound.open) => obj[i].state = "free" /\ obj[i].id = Null
  <2>1. CASE i = 1 /\ bound.open
    BY <1>3, <1>5, <2>1
  <2>2. CASE ~(i = 1 /\ bound.open)
    <3>1. obj[i] = Blank
      BY <1>3, <2>2
    <3> QED BY <2>2, <3>1, FieldsAre DEF ObjectOK, Blank
  <2> QED BY <2>1, <2>2
<1>7. /\ entry \in Entries /\ entry[Watched] = (IF bound.open THEN 1 ELSE 0)
      /\ \A id \in Ids : id # Watched => entry[id] = 0
  BY <1>1, <1>2 DEF Nowhere, Entries
<1>8. opening \in [Ids -> Requests \union {0}] /\ \A id \in Ids : opening[id] = 0
  BY <1>1 DEF Nowhere
<1>9. \A q \in Requests : req[q].pc = "new" /\ RequestOK(req[q])
  BY <1>1, FieldsAre DEF RequestOK, PCs, New
<1>10. Types
  <2>1. DOMAIN obj = Slots /\ DOMAIN req = Requests
    BY <1>1, <1>3
  <2> QED BY <1>1, <1>6, <1>7, <1>8, <1>9, <2>1 DEF Types
<1>11. Registered
  <2>1. \A id \in Ids : entry[id] # 0 => Live(entry[id]) /\ obj[entry[id]].id = id
    <3> TAKE id \in Ids
    <3> HAVE entry[id] # 0
    <3>1. id = Watched /\ bound.open /\ entry[id] = 1
      BY <1>7
    <3> QED BY <1>2, <1>6, <3>1 DEF Live
  <2>2. \A i \in Slots : Live(i) => obj[i].id \in Ids /\ entry[obj[i].id] = i
    BY <1>2, <1>6, <1>7 DEF Live
  <2>3. \A i \in Slots : obj[i].id = "kid" => Live(i)
    BY <1>2, <1>6 DEF Ids
  <2>4. \A i \in Slots : Busy(i) => obj[i].id \in Ids
    BY <1>6 DEF Busy
  <2> QED BY <2>1, <2>2, <2>3, <2>4 DEF Registered
<1>12. ASSUME NEW q \in Requests PROVE AtStep(q)
  <2>1. Id(q) \in Ids /\ q \in DOMAIN bound.requests
    BY <1>1, RequestsAre, RegistryAssumption DEF Requests
  <2>2. Kind(q) = "create" /\ bound.open => Id(q) # Watched
    BY <1>1, <2>1, RegistryAssumption DEF Kind, Id
  <2>3. Kind(q) = "create" => entry[Id(q)] = 0
    BY <1>7, <2>1, <2>2
  <2>4. Kind(q) = "create" => \A j \in Slots : Live(j) => obj[j].id # Id(q)
    BY <1>6, <2>2 DEF Live
  <2> QED BY <1>9, <2>3, <2>4 DEF AtStep
<1>13. \A id \in Ids : Opening(id)
  BY <1>8 DEF Opening
<1>14. InTurn
  BY <1>9 DEF InTurn
<1>15. WaitersOK
  <2>1. waiting \in Seq(Waiters) /\ Len(waiting) = 0
    BY <1>1
  <2> QED BY <1>6, <2>1 DEF WaitersOK
<1> QED BY <1>10, <1>11, <1>12, <1>13, <1>14, <1>15 DEF IInv, Held

LEMMA HandledOk ==
  ASSUME IInv, NEW r \in Requests, Handled(r)
  PROVE  IInv'
<1>1. CASE OpenActive(r)
  BY <1>1, OpenActiveOk
<1>2. CASE Abort(r)
  BY <1>2, AbortOk
<1>3. CASE OpenJoins(r)
  BY <1>3, OpenJoinsOk
<1>4. CASE OpenStart(r)
  BY <1>4, OpenStartOk
<1>5. CASE OpenMissing(r)
  BY <1>5, OpenMissingOk
<1>6. CASE OpenBuild(r)
  BY <1>6, OpenBuildOk
<1>7. CASE Register(r)
  BY <1>7, RegisterOk
<1>8. CASE Bound(r)
  BY <1>8, BoundOk
<1>9. CASE Create(r)
  BY <1>9, CreateOk
<1>10. CASE DeleteMissing(r)
  BY <1>10, DeleteMissingOk
<1>11. CASE DeleteIdle(r)
  BY <1>11, DeleteIdleOk
<1>12. CASE DeleteBusy(r)
  BY <1>12, DeleteBusyOk
<1>13. CASE Reparent(r)
  BY <1>13, ReparentOk
<1>14. CASE Erase(r)
  BY <1>14, EraseOk
<1> QED BY <1>1, <1>2, <1>3, <1>4, <1>5, <1>6, <1>7, <1>8, <1>9, <1>10, <1>11, <1>12,
           <1>13, <1>14 DEF Handled

LEMMA TurnOk ==
  ASSUME IInv, NEW i \in Slots,
         \/ Prepare(i) \/ RequestApproval(i) \/ Skip(i) \/ Launch(i)
         \/ Execute(i) \/ AskUser(i) \/ Delegate(i) \/ ChildEnds(i) \/ TurnEnds(i)
  PROVE  IInv'
<1>1. CASE Prepare(i) \/ Skip(i)
  BY <1>1, PrepareOk
<1>2. CASE RequestApproval(i)
  BY <1>2, RequestApprovalOk
<1>3. CASE Launch(i)
  BY <1>3, LaunchOk
<1>4. CASE Execute(i) \/ AskUser(i)
  BY <1>4, ExecuteOk
<1>5. CASE Delegate(i)
  BY <1>5, DelegateOk
<1>6. CASE ChildEnds(i)
  BY <1>6, ChildEndsOk
<1>7. CASE TurnEnds(i)
  BY <1>7, TurnEndsOk
<1> QED BY <1>1, <1>2, <1>3, <1>4, <1>5, <1>6, <1>7

LEMMA NextOk == IInv /\ [Next]_vars => IInv'
<1> SUFFICES ASSUME IInv, [Next]_vars PROVE IInv'
  OBVIOUS
<1>1. CASE \E r \in Requests : Handled(r)
  BY <1>1, HandledOk
<1>2. CASE \E i \in Slots :
             \/ Prepare(i) \/ RequestApproval(i) \/ Skip(i) \/ Launch(i)
             \/ Execute(i) \/ AskUser(i) \/ Delegate(i) \/ ChildEnds(i) \/ TurnEnds(i)
  BY <1>2, TurnOk
<1>3. CASE \E w \in ToSet(waiting) : ApprovalTimeout(w)
  BY <1>3, ApprovalTimeoutOk
<1>4. CASE \E id \in Ids : QuestionTimeout(id)
  BY <1>4, QuestionTimeoutOk
<1>5. CASE \E yes \in BOOLEAN : Approve(yes)
  BY <1>5, ApproveOk
<1>6. CASE \E picks \in Picks : Answer(picks)
  BY <1>6, AnswerOk
<1>7. CASE Crash
  BY <1>7, CrashOk
<1>8. CASE ReadEvent \/ Reload \/ LoadAnswered \/ LoadShown \/ ApproveReturns
             \/ AnswerReturns \/ Rest \/ UNCHANGED vars
  BY <1>8, PageOk
<1> QED BY <1>1, <1>2, <1>3, <1>4, <1>5, <1>6, <1>7, <1>8 DEF Next

\* Every state of the registry satisfies the inductive invariant.
THEOREM RegistryInductive == Spec => []IInv
<1> QED BY InitOk, NextOk, PTL DEF Spec

\* What RegistryInv says of it: no id has two objects, since two live ones that are
\* being made or registered would be of two requests.
LEMMA RegistryFollows == IInv => RegistryInv
<1> SUFFICES ASSUME IInv PROVE RegistryInv
  OBVIOUS
<1>1. Types /\ Held /\ WaitersOK /\ Registered
  BY DEF IInv, Held
<1>2. ASSUME NEW i \in Slots, NEW j \in Slots, Live(i), Live(j), obj[i].id = obj[j].id
      PROVE  i = j
  <2>1. /\ i # 0 /\ j # 0 /\ obj[i].id \in Ids
        /\ entry[obj[i].id] = i \/ \E r \in Requests : req[r].pc = "built" /\ req[r].slot = i
        /\ entry[obj[j].id] = j \/ \E r \in Requests : req[r].pc = "built" /\ req[r].slot = j
    BY <1>1, <1>2, RegistryAssumption DEF Registered
  <2>2. \A r \in Requests : req[r].pc = "built" => entry[Id(r)] = 0 /\ obj[req[r].slot].id = Id(r)
    BY <1>1 DEF Held, AtStep
  <2>3. CASE entry[obj[i].id] # 0
    BY <1>2, <2>1, <2>2, <2>3
  <2>4. CASE entry[obj[i].id] = 0
    <3>1. PICK r \in Requests : req[r].pc = "built" /\ req[r].slot = i
      BY <2>1, <2>4
    <3>2. PICK q \in Requests : req[q].pc = "built" /\ req[q].slot = j
      BY <1>2, <2>1, <2>4
    <3>3. Id(r) = Id(q)
      BY <1>2, <2>2, <3>1, <3>2
    <3>4. r = q
      BY <1>1, <3>1, <3>2, <3>3, Alone
    <3> QED BY <3>1, <3>2, <3>4
  <2> QED BY <2>3, <2>4
<1>3. ASSUME NEW i \in Slots
      PROVE  (obj[i].run.st = "asks") =
               (Cardinality({n \in 1 .. Len(waiting) : waiting[n].slot = i}) = 1)
  <2> DEFINE S == {n \in 1 .. Len(waiting) : waiting[n].slot = i}
  <2>1. CASE obj[i].run.st = "asks"
    <3>1. PICK n \in 1 .. Len(waiting) : waiting[n].slot = i
      BY <1>1, <2>1 DEF WaitersOK
    <3>2. S = {n}
      BY <1>1, <3>1 DEF WaitersOK
    <3>3. Cardinality(S) = 1
      BY <3>2, FS_Singleton
    <3> QED BY <2>1, <3>3
  <2>2. CASE obj[i].run.st # "asks"
    <3>1. S = {}
      BY <1>1, <2>2 DEF WaitersOK
    <3>2. Cardinality(S) = 0
      BY <3>1, FS_EmptySet
    <3> QED BY <2>2, <3>2
  <2> QED BY <2>1, <2>2
<1>4. \A i \in Slots : Live(i) =>
        entry[obj[i].id] = i \/ \E r \in Requests : req[r].pc = "built" /\ req[r].slot = i
  BY <1>1 DEF Registered
<1>5. \A id \in Ids : opening[id] # 0 =>
        Id(opening[id]) = id /\ req[opening[id]].pc \in {"list", "built", "bind"}
  BY <1>1 DEF Held, Opening
<1>6. \A r \in Requests : req[r].pc = "join" => opening[Id(r)] # 0
  BY <1>1 DEF Held, AtStep
<1>7. \A id \in Ids : entry[id] # 0 => Live(entry[id]) /\ obj[entry[id]].id = id
  BY <1>1 DEF Registered
<1> QED BY <1>1, <1>2, <1>3, <1>4, <1>5, <1>6, <1>7 DEF RegistryInv, Types, WaitersOK

\* One session, one object, for any scenarios, requests and number of objects: an id
\* never has two live objects, the register never names a disposed one, an opening that
\* others wait for is under way, and a call that waits for an approval has exactly one
\* waiter (open, register, remove, requestApproval).
THEOREM OneSessionOneObject == Spec => []RegistryInv
<1> QED BY RegistryInductive, RegistryFollows, PTL

LEMMA RulesAre ==
  ASSUME NEW r \in Rules
  PROVE  \/ \E n \in 1 .. 13 : r = DangerousRules[n]
         \/ \E n \in 1 .. 4 : r = SensitiveRules[n].rule
<1>1. DOMAIN DangerousRules = 1 .. 13 /\ DOMAIN SensitiveRules = 1 .. 4
  BY DEF DangerousRules, SensitiveRules
<1> QED BY <1>1 DEF Rules, ToSet

\* A command without an approval matches no rule.
LEMMA NothingMatches ==
  ASSUME NEW matches \in SUBSET Rules, Classify(matches) = Null
  PROVE  matches = {}
<1> DEFINE d == FirstDangerous(matches)
           s == FirstSensitive(matches)
<1>1. Classify(matches) = IF d # 0
                          THEN [rule |-> DangerousRules[d], risk |-> "critical",
                                category |-> DangerousCategory(DangerousRules[d])]
                          ELSE IF s # 0 THEN SensitiveRules[s] ELSE Null
  BY DEF Classify, FirstDangerous, FirstSensitive
<1>2. \/ d = 0 /\ \A n \in 1 .. 13 : DangerousRules[n] \notin matches
      \/ d \in 1 .. 13 /\ DangerousRules[d] \in matches
  BY DangerousFirst
<1>3. \/ s = 0 /\ \A n \in 1 .. 4 : SensitiveRules[n].rule \notin matches
      \/ s \in 1 .. 4 /\ SensitiveRules[s].rule \in matches
  BY SensitiveFirst
<1> HIDE DEF d, s
<1>4. d = 0
  <2> SUFFICES ASSUME d # 0 PROVE FALSE
    OBVIOUS
  <2>1. DangerousRules[d] \in Rules
    BY <1>2
  <2>2. DangerousCategory(DangerousRules[d]) \in {"destructive", "git_remote", "network", "system"}
    BY DEF DangerousCategory
  <2>3. Classify(matches) \in Approvals
    BY <1>1, <2>1, <2>2 DEF Approvals
  <2> QED BY <2>3, RegistryAssumption
<1>5. s = 0
  <2> SUFFICES ASSUME s # 0 PROVE FALSE
    OBVIOUS
  <2>1. SensitiveRules[s].rule \in Rules
    BY <1>3
  <2>2. /\ SensitiveRules[s].risk \in {"high", "medium"}
        /\ SensitiveRules[s].category \in
             {"git_remote", "dependency_change", "network", "workspace_write"}
        /\ SensitiveRules[s] = [rule |-> SensitiveRules[s].rule, risk |-> SensitiveRules[s].risk,
                                category |-> SensitiveRules[s].category]
    BY <1>3 DEF SensitiveRules
  <2>3. SensitiveRules[s] \in Approvals
    BY <2>1, <2>2 DEF Approvals
  <2> QED BY <1>1, <1>4, <2>3, RegistryAssumption
<1> QED BY <1>2, <1>3, <1>4, <1>5, RulesAre

\* The risks of the rules.
LEMMA RisksAre ==
  /\ \A n \in 1 .. 13 : RiskOf(DangerousRules[n]) = "critical"
  /\ \A n \in 1 .. 4 : RiskOf(SensitiveRules[n].rule) = SensitiveRules[n].risk
<1>1. DOMAIN DangerousRules = 1 .. 13 /\ DOMAIN SensitiveRules = 1 .. 4
  BY DEF DangerousRules, SensitiveRules
<1>2. \A n \in 1 .. 13 : RiskOf(DangerousRules[n]) = "critical"
  BY <1>1 DEF RiskOf, ToSet
<1>3. ASSUME NEW n \in 1 .. 4
      PROVE  RiskOf(SensitiveRules[n].rule) = SensitiveRules[n].risk
  <2> DEFINE r == SensitiveRules[n].rule
             s == CHOOSE s \in ToSet(SensitiveRules) : s.rule = r
  <2>1. \A m \in 1 .. 13 : DangerousRules[m] # r
    BY DEF DangerousRules, SensitiveRules
  <2>2. r \notin ToSet(DangerousRules)
    BY <1>1, <2>1 DEF ToSet
  <2>3. SensitiveRules[n] \in ToSet(SensitiveRules)
    BY <1>1 DEF ToSet
  <2>4. s \in ToSet(SensitiveRules) /\ s.rule = r
    BY <2>3
  <2>5. PICK m \in 1 .. 4 : s = SensitiveRules[m]
    BY <1>1, <2>4 DEF ToSet
  <2>6. m = n
    BY <2>4, <2>5 DEF SensitiveRules
  <2> QED BY <2>2, <2>5, <2>6 DEF RiskOf
<1> QED BY <1>2, <1>3

\* The dialog shows the worst of the risks.
LEMMA WorstIsShown ==
  ASSUME NEW matches \in SUBSET Rules, Classify(matches) # Null
  PROVE  Classify(matches).risk = WorstRisk(matches)
<1> DEFINE d == FirstDangerous(matches)
           s == FirstSensitive(matches)
           Worst(r) == \A q \in matches : Grade[RiskOf(q)] <= Grade[RiskOf(r)]
           w == CHOOSE r \in matches : Worst(r)
<1>1. Classify(matches) = IF d # 0
                          THEN [rule |-> DangerousRules[d], risk |-> "critical",
                                category |-> DangerousCategory(DangerousRules[d])]
                          ELSE IF s # 0 THEN SensitiveRules[s] ELSE Null
  BY DEF Classify, FirstDangerous, FirstSensitive
<1>2. \/ d = 0 /\ \A n \in 1 .. 13 : DangerousRules[n] \notin matches
      \/ d \in 1 .. 13 /\ DangerousRules[d] \in matches
  BY DangerousFirst
<1>3. \/ s = 0 /\ \A n \in 1 .. 4 : SensitiveRules[n].rule \notin matches
      \/ /\ s \in 1 .. 4 /\ SensitiveRules[s].rule \in matches
         /\ \A n \in 1 .. 4 : SensitiveRules[n].rule \in matches => s <= n
  BY SensitiveFirst
<1>4. WorstRisk(matches) = RiskOf(w)
  BY DEF WorstRisk
<1> HIDE DEF d, s
<1>5. Grade["critical"] = 3 /\ Grade["high"] = 2 /\ Grade["medium"] = 1
  BY DEF Grade
<1>6. \A r \in Rules : RiskOf(r) \in {"critical", "high", "medium"}
  <2> TAKE r \in Rules
  <2>1. \A n \in 1 .. 4 : SensitiveRules[n].risk \in {"high", "medium"}
    BY DEF SensitiveRules
  <2> QED BY <2>1, RulesAre, RisksAre
<1>7. PICK r \in matches : Worst(r) /\ RiskOf(r) = Classify(matches).risk
  <2>1. CASE d # 0
    <3>1. RiskOf(DangerousRules[d]) = "critical" /\ DangerousRules[d] \in matches
      BY <1>2, <2>1, RisksAre
    <3>2. \A q \in matches : Grade[RiskOf(q)] <= 3
      BY <1>5, <1>6
    <3>3. Classify(matches).risk = "critical"
      BY <1>1, <2>1
    <3> QED BY <1>5, <3>1, <3>2, <3>3
  <2>2. CASE d = 0
    <3>1. s \in 1 .. 4 /\ SensitiveRules[s].rule \in matches
      BY <1>1, <1>3, <2>2
    <3>2. RiskOf(SensitiveRules[s].rule) = Classify(matches).risk
      BY <1>1, <2>2, <3>1, RisksAre
    <3>3. ASSUME NEW q \in matches
          PROVE  Grade[RiskOf(q)] <= Grade[RiskOf(SensitiveRules[s].rule)]
      <4>1. PICK n \in 1 .. 4 : q = SensitiveRules[n].rule
        BY <1>2, <2>2, RulesAre
      <4>2. s <= n
        BY <1>3, <3>1, <4>1
      <4>3. Grade[SensitiveRules[n].risk] <= Grade[SensitiveRules[s].risk]
        BY <1>5, <3>1, <4>2 DEF SensitiveRules
      <4> QED BY <3>1, <4>1, <4>3, RisksAre
    <3> QED BY <3>1, <3>2, <3>3
  <2> QED BY <2>1, <2>2
<1>8. w \in matches /\ Worst(w)
  BY <1>7
<1> HIDE DEF w
<1>9. RiskOf(w) = RiskOf(r)
  <2>1. Grade[RiskOf(w)] <= Grade[RiskOf(r)] /\ Grade[RiskOf(r)] <= Grade[RiskOf(w)]
    BY <1>7, <1>8
  <2>2. RiskOf(w) \in {"critical", "high", "medium"} /\ RiskOf(r) \in {"critical", "high", "medium"}
    BY <1>6, <1>8
  <2> QED BY <1>5, <2>1, <2>2
<1> QED BY <1>4, <1>7, <1>9

-----------------------------------------------------------------------------
(* Questions and their answers *)

\* A sequence of whatever it is made of.
Whole(s) == Len(s) \in Nat /\ s = [n \in 1 .. Len(s) |-> s[n]]

\* A new id is taken by none.
LEMMA UniqueIdIsNew ==
  ASSUME NEW base, Whole(base), NEW used, IsFiniteSet(used)
  PROVE  UniqueId(base, used) \notin used
<1>1. CASE base \notin used
  BY <1>1 DEF UniqueId
<1>2. CASE base \in used
  <2> DEFINE c == Cardinality(used)
             K == 2 .. c + 2
             Next2(k) == Append(base, k) \notin used /\ \A j \in 2 .. k - 1 : Append(base, j) \in used
             f == [k \in K |-> Append(base, k)]
  <2>1. c \in Nat
    BY FS_CardinalityType
  <2>2. IsFiniteSet(K) /\ c < Cardinality(K)
    <3>1. 2 \in Int /\ c + 2 \in Int /\ c + 2 >= 2
      BY <2>1
    <3> HIDE DEF c
    <3>2. IsFiniteSet(2 .. c + 2) /\ Cardinality(2 .. c + 2) = IF 2 > c + 2 THEN 0 ELSE (c + 2) - 2 + 1
      BY <3>1, FS_Interval
    <3>3. Cardinality(2 .. c + 2) = c + 1
      BY <2>1, <3>1, <3>2
    <3> QED BY <2>1, <3>2, <3>3
  <2>3. \A k, l : Append(base, k) = Append(base, l) => k = l
    <3> TAKE k, l
    <3>1. base \in Seq({base[n] : n \in 1 .. Len(base)})
      BY DEF Whole
    <3>2. base \in Seq({base[n] : n \in 1 .. Len(base)} \union {k, l})
      BY <3>1
    <3>3. Append(base, k)[Len(base) + 1] = k /\ Append(base, l)[Len(base) + 1] = l
      BY <3>2, AppendProperties DEF Whole
    <3> QED BY <3>3
  <2>4. \E k \in K : Append(base, k) \notin used
    <3> SUFFICES ASSUME \A k \in K : Append(base, k) \in used PROVE FALSE
      OBVIOUS
    <3>1. f \in [K -> used]
      OBVIOUS
    <3> HIDE DEF K
    <3>2. \E x, y \in K : x # y /\ f[x] = f[y]
      <4> HIDE DEF f
      <4> QED BY <2>2, <3>1, FS_PigeonHole
    <3>3. PICK x, y \in K : x # y /\ f[x] = f[y]
      BY <3>2
    <3> QED BY <2>3, <3>3
  <2> DEFINE L == {k \in K : Append(base, k) \notin used}
  <2>5. L \in SUBSET Nat /\ L # {}
    BY <2>1, <2>4
  <2>6. PICK m \in L : \A k \in L : m <= k
    BY <2>5, LeastNat
  <2>7. m \in K /\ Next2(m)
    <3>1. m \in K /\ Append(base, m) \notin used
      BY <2>6
    <3>2. ASSUME NEW j \in 2 .. m - 1 PROVE Append(base, j) \in used
      <4>1. j \in K /\ ~(m <= j)
        BY <2>1, <3>1
      <4> QED BY <2>6, <4>1
    <3> QED BY <3>1, <3>2
  <2>8. Next2(CHOOSE k \in K : Next2(k))
    BY <2>7
  <2>9. UniqueId(base, used) = Append(base, CHOOSE k \in K : Next2(k))
    BY <1>2 DEF UniqueId
  <2> QED BY <2>8, <2>9
<1> QED BY <1>1, <1>2

Distinct(ids) ==
  /\ \E S : ids \in Seq(S)
  /\ IsFiniteSet(ToSet(ids))
  /\ \A m, n \in 1 .. Len(ids) : ids[m] = ids[n] => m = n

LEMMA DistinctAppend ==
  ASSUME NEW ids, Distinct(ids), NEW id, id \notin ToSet(ids)
  PROVE  Distinct(Append(ids, id))
<1>1. PICK S : ids \in Seq(S)
  BY DEF Distinct
<1> DEFINE T == S \union {id}
           new == Append(ids, id)
<1>2. ids \in Seq(T) /\ id \in T
  BY <1>1
<1> HIDE DEF T
<1>3. /\ new \in Seq(T) /\ Len(new) = Len(ids) + 1 /\ new[Len(ids) + 1] = id /\ Len(ids) \in Nat
      /\ \A n \in 1 .. Len(ids) : new[n] = ids[n]
  BY <1>2, AppendProperties
<1>4. DOMAIN ids = 1 .. Len(ids) /\ DOMAIN new = 1 .. Len(ids) + 1
  BY <1>2, <1>3
<1>5. ToSet(new) = ToSet(ids) \union {id}
  BY <1>3, <1>4 DEF ToSet
<1>6. IsFiniteSet(ToSet(new))
  BY <1>5, FS_AddElement DEF Distinct
<1>7. \A n \in 1 .. Len(ids) : ids[n] # id
  BY <1>4 DEF ToSet
<1>8. \A m, n \in 1 .. Len(new) : new[m] = new[n] => m = n
  BY <1>3, <1>7 DEF Distinct
<1> QED BY <1>3, <1>6, <1>8 DEF Distinct

\* One step of NormalizeQuestions.
Base(raw, n) == IF raw[n] = <<>> THEN <<DefaultId[n]>> ELSE raw[n]
Named(raw, f, n) ==
  IF n = 0 THEN <<>> ELSE Append(f[n - 1], UniqueId(Base(raw, n), ToSet(f[n - 1])))

\* The recursion has a solution.
LEMMA NamedExists ==
  ASSUME NEW raw, NEW N \in Nat
  PROVE  \E f : f = [n \in 0 .. N |-> Named(raw, f, n)]
<1> DEFINE Solved(n) == \E f : f = [k \in 0 .. n |-> Named(raw, f, k)]
           Lacks == {n \in Nat : ~Solved(n)}
<1> SUFFICES ASSUME Lacks # {} PROVE FALSE
  OBVIOUS
<1>1. PICK m \in Lacks : \A n \in Lacks : m <= n
  BY LeastNat
<1>2. m # 0
  <2> DEFINE f == [k \in 0 .. 0 |-> <<>>]
  <2>1. f = [k \in 0 .. 0 |-> Named(raw, f, k)]
    BY DEF Named
  <2> QED BY <2>1
<1>3. Solved(m - 1)
  BY <1>1, <1>2
<1>4. PICK f : f = [k \in 0 .. m - 1 |-> Named(raw, f, k)]
  BY <1>3
<1> DEFINE g == [k \in 0 .. m |-> IF k = m THEN Named(raw, f, m) ELSE f[k]]
<1>5. g = [k \in 0 .. m |-> Named(raw, g, k)]
  <2> SUFFICES ASSUME NEW k \in 0 .. m PROVE g[k] = Named(raw, g, k)
    OBVIOUS
  <2>1. k # 0 => g[k - 1] = f[k - 1]
    BY <1>2
  <2>2. g[k] = Named(raw, f, k)
    BY <1>4
  <2> QED BY <2>1, <2>2 DEF Named
<1>6. Solved(m)
  BY <1>5
<1> QED BY <1>1, <1>6

\* The questions of a call have distinct ids.
LEMMA QuestionsAreDistinct ==
  ASSUME NEW raw, Len(raw) \in Nat, \A n \in 1 .. Len(raw) : Whole(raw[n])
  PROVE  Distinct(NormalizeQuestions(raw))
<1> DEFINE N == Len(raw)
           f == CHOOSE f : f = [n \in 0 .. N |-> Named(raw, f, n)]
<1>1. f = [n \in 0 .. N |-> Named(raw, f, n)]
  BY NamedExists
<1>2. NormalizeQuestions(raw) = f[N]
  BY DEF NormalizeQuestions, Named, Base
<1> HIDE DEF f
<1> DEFINE Bad == {n \in Nat : n <= N /\ ~Distinct(f[n])}
<1> SUFFICES ASSUME Bad # {} PROVE FALSE
  BY <1>2
<1>3. PICK m \in Bad : \A n \in Bad : m <= n
  BY LeastNat
<1>4. m # 0
  <2>1. f[0] = <<>>
    BY <1>1 DEF Named
  <2>2. ToSet(<<>>) = {} /\ <<>> \in Seq({})
    BY DEF ToSet
  <2>3. Distinct(<<>>)
    <3>1. IsFiniteSet(ToSet(<<>>)) /\ Len(<<>>) = 0
      BY <2>2, FS_EmptySet
    <3> QED BY <2>2, <3>1 DEF Distinct
  <2> QED BY <1>3, <2>1, <2>3
<1>5. Distinct(f[m - 1])
  BY <1>3, <1>4
<1>6. f[m] = Append(f[m - 1], UniqueId(Base(raw, m), ToSet(f[m - 1])))
  <2>1. m \in 0 .. N /\ f[m] = Named(raw, f, m)
    BY <1>1, <1>3
  <2> QED BY <2>1, <1>4 DEF Named
<1>7. Whole(Base(raw, m))
  <2>1. CASE raw[m] = <<>>
    BY <2>1 DEF Base, Whole
  <2>2. CASE raw[m] # <<>>
    BY <2>2, <1>3, <1>4 DEF Base
  <2> QED BY <2>1, <2>2
<1>8. UniqueId(Base(raw, m), ToSet(f[m - 1])) \notin ToSet(f[m - 1])
  BY <1>5, <1>7, UniqueIdIsNew DEF Distinct
<1>9. Distinct(f[m])
  BY <1>5, <1>6, <1>8, DistinctAppend
<1> QED BY <1>3, <1>9

\* What the model is told is what the user has entered.
LEMMA ReportedAsEntered ==
  ASSUME NEW ids, Distinct(ids), NEW X, NEW picks \in [1 .. Len(ids) -> X]
  PROVE  Reported(ids, Drafted(ids, picks)) = picks
<1> DEFINE N == Len(ids)
           answers == Drafted(ids, picks)
<1>1. N \in Nat
  BY DEF Distinct
<1>2. Len(answers) = N /\ DOMAIN answers = 1 .. N
  BY <1>1 DEF Drafted
<1>3. ASSUME NEW n \in 1 .. N PROVE answers[n].id = ids[n] /\ answers[n].choice = picks[n]
  <2> DEFINE m == CHOOSE m \in 1 .. N : ids[m] = ids[n] /\ \A l \in m + 1 .. N : ids[l] # ids[n]
  <2>1. \A l \in n + 1 .. N : ids[l] # ids[n]
    BY DEF Distinct
  <2>2. m \in 1 .. N /\ ids[m] = ids[n]
    BY <2>1
  <2>3. m = n
    BY <2>2 DEF Distinct
  <2>4. answers[n] = [id |-> ids[n], choice |-> picks[m]]
    BY DEF Drafted
  <2> HIDE DEF m, answers
  <2> QED BY <2>3, <2>4
<1> HIDE DEF answers
<1>4. ASSUME NEW n \in 1 .. N
      PROVE  SelectInSeq(answers, LAMBDA a : a.id = ids[n]) = n
  <2> DEFINE I == {m \in 1 .. Len(answers) : answers[m].id = ids[n]}
  <2>1. I = {n}
    BY <1>2, <1>3 DEF Distinct
  <2>2. SelectInSeq(answers, LAMBDA a : a.id = ids[n]) = IF I # {} THEN Min(I) ELSE 0
    BY DEF SelectInSeq
  <2>3. I \in SUBSET Nat /\ I # {}
    BY <2>1
  <2> HIDE DEF I
  <2>4. Min(I) \in I
    BY <2>3, LeastIn
  <2> QED BY <2>1, <2>2, <2>3, <2>4
<1>5. Reported(ids, answers) = [n \in 1 .. N |-> answers[n].choice]
  <2>1. \A n \in 1 .. N : n # 0
    BY <1>1
  <2> QED BY <1>4, <2>1 DEF Reported
<1>6. [n \in 1 .. N |-> answers[n].choice] = picks
  BY <1>3
<1> QED BY <1>5, <1>6 DEF answers

-----------------------------------------------------------------------------
(* Approvals and answers: the invariant *)

\* The rules a call of the scenario b matches.
MatchesIn(b, call) == (CHOOSE c \in CallsOf(b) : c.call = call).matches

\* What is said of a call in a dialog is what the rules say of it.
Meant(b, call, asks) ==
  /\ call \in {c.call : c \in CallsOf(b)}
  /\ asks # Null /\ asks = Classify(MatchesIn(b, call))
Said(b, x) == x # Null => Meant(b, x.call, x.asks)

\* Of the calls that are ready or left, those that need an approval have one.
Allowed(b, o, ok) ==
  \A i \in Slots : \A n \in o[i].run.ready \union o[i].run.left :
    /\ n \in 1 .. Len(b.script[o[i].id])
    /\ LET c == b.script[o[i].id][n]
       IN c.kind = "bash" /\ c.matches # {} => c.call \in ok

\* A waiter is of the call its turn is at.
Waits(b, o, w) ==
  LET run == o[w.slot].run
      script == b.script[o[w.slot].id]
  IN run.at \in 1 .. Len(script) /\ script[run.at].call = w.call /\ Meant(b, w.call, w.asks)
WaitersSaid(b, o, ws) == \A n \in 1 .. Len(ws) : Waits(b, o, ws[n])

EventTypes == {"agent_start", "agent_end", "message_update", "tool_execution_start",
               "tool_execution_end", "tool_call_pending", "question_pending", "question_resolved"}
EventOK(b, e) == e.type \in EventTypes /\ Said(b, e.call)
LogOK(b, l) == \E S : l \in Seq(S) /\ \A e \in S : EventOK(b, e)

PageOK(b, p) ==
  /\ DOMAIN p = {"mode", "pos", "dialog", "running", "load", "snap", "click", "answer", "reloads"}
  /\ p.pos \in Nat
  /\ DOMAIN p.dialog = {"call", "question"} /\ Said(b, p.dialog.call)
  /\ p.load = "got" => Said(b, p.snap.call)

AskedOK(a) == DOMAIN a = Ids /\ \A id \in Ids : a[id] # Null => Distinct(a[id].ids)

AnswersInv ==
  /\ Allowed(bound, obj, approved)
  /\ WaitersSaid(bound, obj, waiting)
  /\ LogOK(bound, log) /\ PageOK(bound, page) /\ AskedOK(asked)
  /\ RunsAsAnswered

\* The approval is on in every session that makes calls.
ApprovalIsOn ==
  \A i \in Slots : (Busy(i) /\ Script(i) # <<>>) => "approval" \in obj[i].settings.loaded

-----------------------------------------------------------------------------
(* What keeps the parts of it *)

LEMMA OneCall ==
  ASSUME NEW b \in Scenarios, NEW id \in Ids, NEW n \in 1 .. Len(b.script[id])
  PROVE  LET c == b.script[id][n]
         IN /\ c \in CallsOf(b) /\ MatchesIn(b, c.call) = c.matches /\ c.matches \in SUBSET Rules
            /\ Len(c.raw) \in Nat /\ \A m \in 1 .. Len(c.raw) : Whole(c.raw[m])
<1> DEFINE c == b.script[id][n]
<1>1. b.script[id] \in Seq(ToSet(b.script[id]))
  BY RegistryAssumption
<1>2. c \in ToSet(b.script[id])
  BY <1>1 DEF ToSet
<1>3. c \in CallsOf(b)
  BY <1>2 DEF CallsOf
<1> HIDE DEF c
<1>4. \A d, e \in CallsOf(b) : d.call = e.call => d = e
  BY RegistryAssumption
<1>5. MatchesIn(b, c.call) = c.matches
  BY <1>3, <1>4 DEF MatchesIn
<1>6. /\ c.matches \subseteq Rules /\ c.raw \in Seq(ToSet(c.raw))
      /\ \A x \in ToSet(c.raw) : Whole(x)
  BY <1>3, RegistryAssumption DEF Whole
<1>7. \A m \in 1 .. Len(c.raw) : c.raw[m] \in ToSet(c.raw)
  BY <1>6 DEF ToSet
<1> QED BY <1>3, <1>5, <1>6, <1>7 DEF c

\* What is meant of a call shows the worst of its risks.
LEMMA MeantIsWorst ==
  ASSUME NEW b \in Scenarios, NEW call, NEW asks, Meant(b, call, asks)
  PROVE  asks.risk = WorstRisk(MatchesIn(b, call))
<1>1. PICK c \in CallsOf(b) : c.call = call
  BY DEF Meant
<1> DEFINE d == CHOOSE d \in CallsOf(b) : d.call = call
<1>2. d \in CallsOf(b)
  BY <1>1
<1>3. d.matches \in SUBSET Rules
  BY <1>2, RegistryAssumption
<1>4. MatchesIn(b, call) = d.matches
  BY DEF MatchesIn
<1> HIDE DEF d
<1>5. Classify(d.matches) # Null /\ asks = Classify(d.matches)
  BY <1>4 DEF Meant
<1> QED BY <1>3, <1>4, <1>5, WorstIsShown

\* An object begins anew, or goes on with no call more.
Moved(o, p, i) ==
  \/ p[i].run.ready = {} /\ p[i].run.left = {} /\ p[i].run.st # "asks"
  \/ /\ p[i].id = o[i].id
     /\ p[i].run.ready \union p[i].run.left \subseteq o[i].run.ready \union o[i].run.left
     /\ p[i].run.st = "asks" => o[i].run.st = "asks" /\ p[i].run.at = o[i].run.at

LEMMA MovedAllowed ==
  ASSUME NEW b, NEW o, NEW p, NEW ok, NEW more, Allowed(b, o, ok), ok \subseteq more,
         \A i \in Slots : Moved(o, p, i)
  PROVE  Allowed(b, p, more)
<1> SUFFICES ASSUME NEW i \in Slots, NEW n \in p[i].run.ready \union p[i].run.left
             PROVE  /\ n \in 1 .. Len(b.script[p[i].id])
                    /\ LET c == b.script[p[i].id][n]
                       IN c.kind = "bash" /\ c.matches # {} => c.call \in more
  BY DEF Allowed
<1>1. p[i].id = o[i].id /\ n \in o[i].run.ready \union o[i].run.left
  BY DEF Moved
<1> QED BY <1>1 DEF Allowed

\* The waiters that are left are waiters there were.
Fewer(ws, vs) == \A n \in 1 .. Len(vs) : \E k \in 1 .. Len(ws) : vs[n] = ws[k]

\* A turn that waits for an approval waits at the same call.
Stays(o, p, i) ==
  p[i].run.st = "asks" => p[i].id = o[i].id /\ p[i].run.at = o[i].run.at

LEMMA WaitersStay ==
  ASSUME NEW o, NEW ws, WaitersSaid(bound, o, ws), WaitersOK', bound' = bound,
         \A i \in Slots : Stays(o, obj', i), Fewer(ws, waiting')
  PROVE  WaitersSaid(bound, obj', waiting')
<1> SUFFICES ASSUME NEW n \in 1 .. Len(waiting') PROVE Waits(bound, obj', waiting'[n])
  BY DEF WaitersSaid
<1> DEFINE w == waiting'[n]
<1>1. waiting' \in Seq(Waiters')
  BY DEF WaitersOK
<1>2. w.slot \in Slots
  <2>1. waiting' \in Seq(Waiters)
    BY <1>1, Fixed
  <2>2. w \in Waiters
    BY <2>1
  <2> QED BY <2>2 DEF Waiters
<1>3. obj'[w.slot].run.st = "asks"
  BY <1>2 DEF WaitersOK
<1>4. PICK k \in 1 .. Len(ws) : w = ws[k]
  BY DEF Fewer
<1>5. Waits(bound, o, w)
  BY <1>4 DEF WaitersSaid
<1> HIDE DEF w
<1>6. obj'[w.slot].id = o[w.slot].id /\ obj'[w.slot].run.at = o[w.slot].run.at
  BY <1>2, <1>3 DEF Stays
<1>7. Waits(bound, obj', w)
  BY <1>5, <1>6 DEF Waits
<1> QED BY <1>7 DEF w

LEMMA WithoutFewer ==
  ASSUME NEW ws, WaitersOK
  PROVE  Fewer(waiting, Without(ws))
<1>1. Len(waiting) \in Nat
  BY DEF WaitersOK
<1>2. Kept(waiting, ws, Without(ws), Len(waiting))
  BY <1>1, WithoutKeeps
<1> QED BY <1>2 DEF Kept, Fewer

LEMMA SameFewer == \A ws : Fewer(ws, ws)
BY DEF Fewer

LEMMA SameMoved == \A o, i : Moved(o, o, i)
BY DEF Moved

\* The events.
LEMMA PlainOK ==
  ASSUME NEW b, NEW t \in EventTypes
  PROVE  EventOK(b, Event(t))
BY DEF EventOK, Event, Said

LEMMA LogJoins ==
  ASSUME NEW b, NEW l, NEW m, LogOK(b, l), LogOK(b, m)
  PROVE  LogOK(b, l \o m)
<1>1. PICK S : l \in Seq(S) /\ \A e \in S : EventOK(b, e)
  BY DEF LogOK
<1>2. PICK T : m \in Seq(T) /\ \A e \in T : EventOK(b, e)
  BY DEF LogOK
<1>3. l \o m \in Seq(S \union T)
  BY <1>1, <1>2
<1> QED BY <1>1, <1>2, <1>3 DEF LogOK

LEMMA LogGrows ==
  ASSUME NEW b, NEW l, LogOK(b, l), NEW e, EventOK(b, e)
  PROVE  LogOK(b, Append(l, e))
<1>1. PICK S : l \in Seq(S) /\ \A x \in S : EventOK(b, x)
  BY DEF LogOK
<1>2. l \in Seq(S \union {e})
  BY <1>1
<1>3. Append(l, e) \in Seq(S \union {e})
  BY <1>2
<1> QED BY <1>1, <1>3 DEF LogOK

LEMMA OneEvent ==
  ASSUME NEW b, NEW s \in EventTypes, NEW t \in EventTypes
  PROVE  LogOK(b, <<Event(s)>>) /\ LogOK(b, <<Event(s), Event(t)>>)
<1>1. EventOK(b, Event(s)) /\ EventOK(b, Event(t))
  BY PlainOK
<1> DEFINE S == {Event(s), Event(t)}
<1>2. <<Event(s)>> \in Seq(S) /\ <<Event(s), Event(t)>> \in Seq(S)
  OBVIOUS
<1>3. \A e \in S : EventOK(b, e)
  BY <1>1
<1> HIDE DEF S
<1> QED BY <1>2, <1>3 DEF LogOK

LEMMA EmittedOK ==
  ASSUME NEW b, NEW l, LogOK(b, l), NEW i, NEW events, LogOK(b, events)
  PROVE  LogOK(b, Emitted(l, i, events))
BY LogJoins DEF Emitted

LEMMA AnnouncedOK ==
  ASSUME NEW b, NEW l, LogOK(b, l), NEW id, NEW e, EventOK(b, e)
  PROVE  LogOK(b, Announced(l, id, e))
BY LogGrows DEF Announced

LEMMA RefusalsOK ==
  ASSUME NEW b, NEW l, LogOK(b, l), NEW ws
  PROVE  LogOK(b, Refusals(l, ws))
<1>1. EventOK(b, Event("tool_execution_end"))
  BY PlainOK DEF EventTypes
<1> QED BY <1>1, LogGrows DEF Refusals

\* Nothing is executed, approved or sent; what the model was told may be taken back.
LEMMA AnswersKept ==
  ASSUME RunsAsAnswered, UNCHANGED <<bound, approved, ran, sent>>, told' = told \/ told' = Null
  PROVE  RunsAsAnswered'
BY DEF RunsAsAnswered, MatchesOf

LEMMA NoMoreAsked ==
  ASSUME AskedOK(asked), NEW id
  PROVE  AskedOK([asked EXCEPT ![id] = Null])
BY DEF AskedOK

\* A step after which no turn has a call more than before.
LEMMA KeepsAnswers ==
  ASSUME IInv', AnswersInv, UNCHANGED <<bound, approved, ran, sent>>, told' = told \/ told' = Null,
         \A i \in Slots : Moved(obj, obj', i), Fewer(waiting, waiting'),
         LogOK(bound, log'), PageOK(bound, page'), AskedOK(asked')
  PROVE  AnswersInv'
<1>1. Allowed(bound, obj', approved)
  BY MovedAllowed DEF AnswersInv
<1>2. WaitersSaid(bound, obj', waiting')
  <2>1. \A i \in Slots : Stays(obj, obj', i)
    BY DEF Moved, Stays
  <2> QED BY <2>1, WaitersStay DEF AnswersInv, IInv
<1>3. RunsAsAnswered'
  BY AnswersKept DEF AnswersInv
<1> QED BY <1>1, <1>2, <1>3 DEF AnswersInv

LEMMA MovedOn ==
  ASSUME NEW o, NEW q, NEW p, NEW i, Moved(o, q, i), Moved(q, p, i)
  PROVE  Moved(o, p, i)
BY DEF Moved

LEMMA RefusedMoves ==
  ASSUME NEW o, Objects(o), NEW ws, NEW p, p = Settled(o, ws, FALSE)
  PROVE  Objects(p) /\ Alike(o, p) /\ \A i \in Slots : Moved(o, p, i)
<1>1. PICK no \in BOOLEAN : no = FALSE
  OBVIOUS
<1> DEFINE q == Settled(o, ws, no)
<1>2. /\ Objects(q) /\ Alike(o, q)
      /\ \A i \in Slots : q[i].run = IF \E w \in ws : w.slot = i
                                     THEN Answered(o[i].run, no) ELSE o[i].run
  BY SettledIs
<1>3. /\ Objects(p) /\ Alike(o, p)
      /\ \A i \in Slots : p[i].run = IF \E w \in ws : w.slot = i
                                     THEN Answered(o[i].run, no) ELSE o[i].run
  <2>1. p = q
    BY <1>1
  <2> HIDE DEF q
  <2> QED BY <1>2, <2>1
<1>4. ASSUME NEW i \in Slots PROVE Moved(o, p, i)
  <2>1. o[i].run \in Runs /\ p[i].id = o[i].id
    BY <1>3 DEF Objects, ObjectOK, Alike
  <2>2. LET a == Answered(o[i].run, no)
        IN a.st = "prep" /\ a.left = o[i].run.left /\ a.ready = o[i].run.ready
    BY <1>1, <2>1, AnsweredIs
  <2> QED BY <1>3, <2>1, <2>2 DEF Moved
<1> QED BY <1>3, <1>4

LEMMA StoppedMoves ==
  ASSUME NEW o, Objects(o), NEW J, NEW p, p = Stopped(o, J)
  PROVE  Objects(p) /\ Alike(o, p) /\ \A i \in Slots : Moved(o, p, i)
<1>1. /\ Objects(p) /\ Alike(o, p)
      /\ \A i \in Slots : /\ p[i].run.st = o[i].run.st /\ p[i].run.at = o[i].run.at
                          /\ p[i].run.ready = o[i].run.ready
                          /\ p[i].run.left \subseteq o[i].run.left
  BY StoppedIs
<1> QED BY <1>1 DEF Moved, Alike

LEMMA ReturnedMoves ==
  ASSUME NEW o, Objects(o), NEW i \in Slots, NEW n, NEW p, p = Returned(o, i, n)
  PROVE  Objects(p) /\ Alike(o, p) /\ \A j \in Slots : Moved(o, p, j)
<1>1. /\ Objects(p) /\ Alike(o, p)
      /\ \A j \in Slots : /\ p[j].run.st = o[j].run.st /\ p[j].run.at = o[j].run.at
                          /\ p[j].run.ready = o[j].run.ready
                          /\ p[j].run.left \subseteq o[j].run.left
  BY ReturnedIs
<1> QED BY <1>1 DEF Moved, Alike

LEMMA PromptedMoves ==
  ASSUME NEW o, Objects(o), NEW i \in Slots, NEW p, p = Prompted(o, i)
  PROVE  Objects(p) /\ Alike(o, p) /\ \A j \in Slots : Moved(o, p, j)
<1>1. /\ Objects(p) /\ Alike(o, p)
      /\ \A j \in Slots : j # i \/ o[j].run.st # "idle" => p[j] = o[j]
      /\ o[i].run.st = "idle" => p[i].run = [Quiet EXCEPT !.st = "prep"] /\ p[i].run.st = "prep"
  BY PromptedIs
<1>2. [Quiet EXCEPT !.st = "prep"].ready = {} /\ [Quiet EXCEPT !.st = "prep"].left = {}
  BY DEF Quiet
<1>3. o[i].run.st = "idle" => Moved(o, p, i)
  BY <1>1, <1>2 DEF Moved
<1> QED BY <1>1, <1>3 DEF Moved

LEMMA ObjectsNow ==
  ASSUME IInv
  PROVE  Objects(obj)
BY DEF IInv, Types, Objects

-----------------------------------------------------------------------------
(* The page and the answers *)

LEMMA PageStep ==
  ASSUME IInv, IInv', AnswersInv, PageOK(bound, page'),
         UNCHANGED <<bound, obj, waiting, asked, log, approved, ran, sent, told>>
  PROVE  AnswersInv'
BY KeepsAnswers, SameFewer, SameMoved DEF AnswersInv

\* A dialog after one event more.
LEMMA ReducedOK ==
  ASSUME NEW b, NEW d, DOMAIN d = {"call", "question"}, Said(b, d.call), NEW e, EventOK(b, e)
  PROVE  DOMAIN Reduced(d, e) = {"call", "question"} /\ Said(b, Reduced(d, e).call)
<1>1. Said(b, Null)
  BY DEF Said
<1>2. CASE e.type \in {"agent_start", "agent_end"}
  BY <1>1, <1>2 DEF Reduced, NoDialog
<1>3. CASE e.type \in {"message_update", "tool_execution_start", "tool_execution_end"}
  BY <1>1, <1>3 DEF Reduced
<1>4. CASE e.type = "tool_call_pending"
  BY <1>4 DEF Reduced, EventOK
<1>5. CASE e.type = "question_pending"
  BY <1>5 DEF Reduced
<1>6. CASE e.type = "question_resolved"
  BY <1>6 DEF Reduced
<1> QED BY <1>2, <1>3, <1>4, <1>5, <1>6 DEF EventOK, EventTypes

LEMMA ReadEventAnswers ==
  ASSUME IInv, IInv', AnswersInv, ReadEvent
  PROVE  AnswersInv'
<1> DEFINE e == log[page.pos + 1]
<1>1. PICK S : log \in Seq(S) /\ \A x \in S : EventOK(bound, x)
  BY DEF AnswersInv, LogOK
<1>2. page.pos + 1 \in 1 .. Len(log)
  BY <1>1 DEF ReadEvent, AnswersInv, PageOK
<1>3. EventOK(bound, e)
  BY <1>1, <1>2
<1>4. page' = [page EXCEPT !.pos = @ + 1, !.dialog = Reduced(@, e),
                           !.running = e.type # "agent_end",
                           !.load = IF e.type = "agent_end" THEN "asked" ELSE @]
  BY DEF ReadEvent
<1> HIDE DEF e
<1>5. /\ DOMAIN Reduced(page.dialog, e) = {"call", "question"}
      /\ Said(bound, Reduced(page.dialog, e).call)
  BY <1>3, ReducedOK DEF AnswersInv, PageOK
<1>6. PageOK(bound, page')
  BY <1>4, <1>5 DEF AnswersInv, PageOK
<1> QED BY <1>6, PageStep DEF ReadEvent, history

LEMMA FreshOK ==
  ASSUME NEW b, NEW mode
  PROVE  PageOK(b, FreshPage(mode))
BY DEF PageOK, FreshPage, NoDialog, Said

LEMMA ReloadAnswers ==
  ASSUME IInv, IInv', AnswersInv, Reload
  PROVE  AnswersInv'
<1>1. page' = [FreshPage("idle") EXCEPT !.load = "asked", !.reloads = page.reloads + 1]
  BY DEF Reload
<1> DEFINE p == FreshPage("idle")
<1>2. PageOK(bound, p)
  BY FreshOK
<1> HIDE DEF p
<1>3. PageOK(bound, page')
  BY <1>1, <1>2 DEF PageOK, p
<1> QED BY <1>3, PageStep DEF Reload, history

LEMMA SnapshotOK ==
  ASSUME IInv, AnswersInv
  PROVE  Said(bound, Snapshot.call)
<1> DEFINE I == {n \in 1 .. Len(waiting) : waiting[n].owner = Watched}
<1>1. OwnCall = IF I # {} THEN Min(I) ELSE 0
  BY DEF OwnCall, SelectInSeq
<1>2. I # {} => Min(I) \in I
  <2>1. Len(waiting) \in Nat
    BY DEF IInv, WaitersOK
  <2>2. I \in SUBSET Nat
    OBVIOUS
  <2> HIDE DEF I
  <2> QED BY <2>2, LeastIn
<1>3. CASE OwnCall = 0
  BY <1>3 DEF Snapshot, Said
<1>4. CASE OwnCall # 0
  <2>1. OwnCall \in 1 .. Len(waiting)
    BY <1>1, <1>2, <1>4
  <2>2. Waits(bound, obj, waiting[OwnCall])
    BY <2>1 DEF AnswersInv, WaitersSaid
  <2>3. Snapshot.call = [call |-> waiting[OwnCall].call, asks |-> waiting[OwnCall].asks]
    BY <1>4 DEF Snapshot
  <2>4. Meant(bound, waiting[OwnCall].call, waiting[OwnCall].asks)
    BY <2>2 DEF Waits
  <2>5. /\ Snapshot.call.call = waiting[OwnCall].call
        /\ Snapshot.call.asks = waiting[OwnCall].asks
    BY <2>3
  <2> QED BY <2>4, <2>5 DEF Said
<1> QED BY <1>3, <1>4

LEMMA LoadAnswers ==
  ASSUME IInv, IInv', AnswersInv, LoadAnswered \/ LoadShown
  PROVE  AnswersInv'
<1>0. PageOK(bound, page)
  BY DEF AnswersInv
<1>1. CASE LoadAnswered
  <2> DEFINE s == Snapshot
  <2>1. Said(bound, s.call)
    BY SnapshotOK
  <2>2. page' = [page EXCEPT !.load = "none"] \/ page' = [page EXCEPT !.load = "got", !.snap = s]
    BY <1>1 DEF LoadAnswered
  <2> HIDE DEF s
  <2>3. PageOK(bound, page')
    BY <1>0, <2>1, <2>2 DEF PageOK
  <2> QED BY <1>1, <2>3, PageStep DEF LoadAnswered, history
<1>2. CASE LoadShown
  <2> DEFINE s == page.snap
             d == [call |-> IF s.call = Null THEN page.dialog.call ELSE s.call, question |-> s.question]
  <2>1. Said(bound, s.call)
    BY <1>0, <1>2 DEF PageOK, LoadShown
  <2>2. DOMAIN d = {"call", "question"} /\ Said(bound, d.call)
    BY <1>0, <2>1 DEF PageOK
  <2>3. DOMAIN NoDialog = {"call", "question"} /\ Said(bound, NoDialog.call)
    BY DEF NoDialog, Said
  <2>4. \/ page' = [page EXCEPT !.load = "none", !.snap = Null, !.running = TRUE,
                                  !.mode = IF @ = "idle" THEN "live" ELSE @, !.dialog = d]
        \/ page' = [page EXCEPT !.load = "none", !.snap = Null, !.running = FALSE, !.dialog = NoDialog]
    BY <1>0, <1>2 DEF LoadShown, PageOK
  <2> HIDE DEF s, d
  <2>5. PageOK(bound, page')
    BY <1>0, <2>2, <2>3, <2>4 DEF PageOK
  <2> QED BY <1>2, <2>5, PageStep DEF LoadShown, history
<1> QED BY <1>1, <1>2

LEMMA ReturnsAnswers ==
  ASSUME IInv, IInv', AnswersInv, ApproveReturns \/ AnswerReturns \/ Rest \/ UNCHANGED vars
  PROVE  AnswersInv'
<1>0. PageOK(bound, page)
  BY DEF AnswersInv
<1>1. CASE ApproveReturns
  <2>1. PICK c : /\ page' = [page EXCEPT !.click = Null, !.dialog.call = c]
                 /\ c = Null \/ c = page.dialog.call
    BY <1>0, <1>1 DEF ApproveReturns, PageOK
  <2>2. PageOK(bound, page')
    BY <1>0, <2>1 DEF PageOK, Said
  <2> QED BY <1>1, <2>2, PageStep DEF ApproveReturns, history
<1>2. CASE AnswerReturns
  <2>1. PICK q : page' = [page EXCEPT !.answer = Null, !.dialog.question = q]
    BY <1>0, <1>2 DEF AnswerReturns, PageOK
  <2>2. PageOK(bound, page')
    BY <1>0, <2>1 DEF PageOK, Said
  <2> QED BY <1>2, <2>2, PageStep DEF AnswerReturns, history
<1>3. CASE Rest \/ UNCHANGED vars
  BY <1>0, <1>3, PageStep DEF Rest, vars
<1> QED BY <1>1, <1>2, <1>3

\* The click: what it allows is the call whose dialog it is.
LEMMA ApproveAnswers ==
  ASSUME IInv, IInv', AnswersInv, NEW yes \in BOOLEAN, Approve(yes)
  PROVE  AnswersInv'
<1> DEFINE shown == page.dialog.call
           ws == Decidable(Watched, shown.call)
<1>1. /\ waiting' = Without(ws) /\ obj' = Settled(obj, ws, yes)
      /\ log' = IF yes THEN log ELSE Refusals(log, ws)
      /\ UNCHANGED <<bound, asked, ran, sent, told>>
      /\ approved' = IF yes /\ shown.asks.risk = WorstRisk(MatchesOf(shown.call))
                     THEN approved \union {shown.call} ELSE approved
      /\ shown # Null
  BY DEF Approve, ApproveTool
<1>2. PageOK(bound, page')
  <2>1. PICK c : page' = [page EXCEPT !.click = c]
    BY DEF Approve
  <2> QED BY <2>1 DEF AnswersInv, PageOK
<1>3. LogOK(bound, log')
  BY <1>1, RefusalsOK DEF AnswersInv
<1>4. Fewer(waiting, waiting')
  BY <1>1, WithoutFewer DEF IInv
<1>5. AskedOK(asked')
  BY <1>1 DEF AnswersInv
<1>6. CASE yes = FALSE
  <2>1. \A i \in Slots : Moved(obj, obj', i)
    BY <1>1, <1>6, ObjectsNow, RefusedMoves
  <2> QED BY <1>1, <1>2, <1>3, <1>4, <1>5, <1>6, <2>1, KeepsAnswers
<1>7. CASE yes = TRUE
  <2>1. Meant(bound, shown.call, shown.asks) /\ bound \in Scenarios
    BY <1>1 DEF AnswersInv, PageOK, Said, IInv, Types
  <2>2. shown.asks.risk = WorstRisk(MatchesOf(shown.call))
    BY <2>1, MeantIsWorst DEF MatchesOf, MatchesIn
  <2>3. approved' = approved \union {shown.call}
    BY <1>1, <1>7, <2>2
  <2>4. ws \subseteq ToSet(waiting) /\ \A w \in ws : w.call = shown.call
    BY DEF Decidable, ChildWaiters
  <2> HIDE DEF shown, ws
  <2>5. /\ Objects(obj') /\ Alike(obj, obj')
        /\ \A i \in Slots : /\ obj'[i].run = IF \E w \in ws : w.slot = i
                                             THEN Answered(obj[i].run, yes) ELSE obj[i].run
    BY <1>1, ObjectsNow, SettledIs
  <2>6. ASSUME NEW i \in Slots, NEW w \in ws, w.slot = i
        PROVE  Waits(bound, obj, w)
    <3>1. waiting \in Seq(Waiters)
      BY DEF IInv, WaitersOK
    <3>2. PICK n \in 1 .. Len(waiting) : waiting[n] = w
      BY <2>4, <3>1 DEF ToSet
    <3> QED BY <3>2 DEF AnswersInv, WaitersSaid
  <2>7. Allowed(bound, obj', approved')
    <3> SUFFICES ASSUME NEW i \in Slots, NEW n \in obj'[i].run.ready \union obj'[i].run.left
                 PROVE  /\ n \in 1 .. Len(bound.script[obj'[i].id])
                        /\ LET c == bound.script[obj'[i].id][n]
                           IN c.kind = "bash" /\ c.matches # {} => c.call \in approved'
      BY DEF Allowed
    <3>1. obj'[i].id = obj[i].id /\ obj[i].run \in Runs
      BY <2>5, ObjectsNow DEF Alike, Objects, ObjectOK
    <3>2. CASE n \in obj[i].run.ready \union obj[i].run.left
      BY <2>3, <3>1, <3>2 DEF AnswersInv, Allowed
    <3>3. CASE n \notin obj[i].run.ready \union obj[i].run.left
      <4>1. PICK w \in ws : w.slot = i
        BY <2>5, <3>3
      <4>2. obj'[i].run = Answered(obj[i].run, yes)
        BY <2>5, <4>1
      <4>3. /\ Answered(obj[i].run, yes).left = obj[i].run.left
            /\ Answered(obj[i].run, yes).ready = obj[i].run.ready \union {obj[i].run.at}
        BY <1>7, <3>1, AnsweredIs
      <4>4. n = obj[i].run.at
        BY <3>3, <4>2, <4>3
      <4>5. Waits(bound, obj, w) /\ w.call = shown.call
        BY <2>4, <2>6, <4>1
      <4> QED BY <2>3, <3>1, <4>1, <4>4, <4>5 DEF Waits
    <3> QED BY <3>2, <3>3
  <2>8. WaitersSaid(bound, obj', waiting')
    <3> SUFFICES ASSUME NEW i \in Slots PROVE Stays(obj, obj', i)
      BY <1>1, <1>4, WaitersStay DEF AnswersInv, IInv
    <3>1. obj[i].run \in Runs /\ obj'[i].id = obj[i].id
      BY <2>5, ObjectsNow DEF Objects, ObjectOK, Alike
    <3>2. Answered(obj[i].run, yes).st = "prep"
      BY <3>1, AnsweredIs
    <3> QED BY <2>5, <3>1, <3>2 DEF Stays
  <2>9. RunsAsAnswered'
    <3>1. approved \subseteq approved'
      BY <2>3
    <3> QED BY <1>1, <3>1 DEF AnswersInv, RunsAsAnswered, MatchesOf
  <2> QED BY <1>1, <1>2, <1>3, <1>5, <2>7, <2>8, <2>9 DEF AnswersInv
<1> QED BY <1>6, <1>7

-----------------------------------------------------------------------------
(* The turn and the answers *)

LEMMA TurnIds ==
  ASSUME IInv, NEW i \in Slots, Busy(i)
  PROVE  /\ obj[i].id \in Ids /\ bound \in Scenarios /\ obj[i].run \in Runs
         /\ Script(i) = bound.script[obj[i].id] /\ Len(Script(i)) \in Nat
<1>1. obj[i].id \in Ids /\ bound \in Scenarios /\ obj[i].run \in Runs
  BY DEF IInv, Held, Registered, Types, ObjectOK
<1>2. bound.script[obj[i].id] \in Seq(ToSet(bound.script[obj[i].id]))
  BY <1>1, RegistryAssumption
<1> QED BY <1>1, <1>2 DEF Script

\* A call that is prepared without an approval needs none.
LEMMA PrepareAnswers ==
  ASSUME IInv, IInv', AnswersInv, ApprovalIsOn, NEW i \in Slots, Prepare(i)
  PROVE  AnswersInv'
<1> DEFINE run == Answered(obj[i].run, TRUE)
           c == CallOf(i)
<1>1. /\ obj[i].run.st = "prep" /\ obj[i].run.at <= Len(Script(i)) /\ Busy(i) /\ ~Asks(i)
      /\ obj' = [obj EXCEPT ![i].run = run]
      /\ log' = Emitted(log, i, <<Event("tool_execution_start")>>)
      /\ UNCHANGED <<bound, waiting, asked, page, approved, ran, sent, told>>
  BY DEF Prepare, Preparing, Busy, history
<1>2. /\ obj[i].id \in Ids /\ bound \in Scenarios /\ obj[i].run \in Runs
      /\ Script(i) = bound.script[obj[i].id] /\ Len(Script(i)) \in Nat
  BY <1>1, TurnIds
<1>3. obj[i].run.at \in 1 .. Len(Script(i))
  BY <1>1, <1>2 DEF Runs
<1>4. /\ run \in Runs /\ run.st = "prep" /\ run.left = obj[i].run.left
      /\ run.ready = obj[i].run.ready \union {obj[i].run.at}
  <2>1. PICK yes \in BOOLEAN : yes = TRUE
    OBVIOUS
  <2> DEFINE a == Answered(obj[i].run, yes)
  <2>2. a \in Runs /\ a.st = "prep" /\ a.left = obj[i].run.left
        /\ a.ready = obj[i].run.ready \union {obj[i].run.at}
    BY <1>2, <2>1, AnsweredIs
  <2>3. a = run
    BY <2>1
  <2> HIDE DEF a, run
  <2> QED BY <2>2, <2>3
<1>5. c.kind = "bash" => c.matches = {}
  <2> SUFFICES ASSUME c.kind = "bash" PROVE c.matches = {}
    OBVIOUS
  <2>1. Script(i) # <<>>
    BY <1>3
  <2>2. "approval" \in obj[i].settings.loaded
    BY <1>1, <2>1 DEF ApprovalIsOn
  <2>3. Classify(c.matches) = Null
    BY <1>1, <2>2 DEF Asks
  <2>4. c.matches \in SUBSET Rules
    BY <1>2, <1>3, OneCall DEF CallOf
  <2> HIDE DEF c
  <2> QED BY <2>3, <2>4, NothingMatches
<1>6. Goes(obj, obj', i, run)
  BY <1>1 DEF Goes
<1> HIDE DEF run
<1>7. /\ Alike(obj, obj') /\ obj'[i].run = run /\ \A j \in Slots : j # i => obj'[j] = obj[j]
  BY <1>4, <1>6, ObjectsNow, TurnChange
<1>8. Allowed(bound, obj', approved)
  <2> SUFFICES ASSUME NEW j \in Slots, NEW n \in obj'[j].run.ready \union obj'[j].run.left
               PROVE  /\ n \in 1 .. Len(bound.script[obj'[j].id])
                      /\ LET d == bound.script[obj'[j].id][n]
                         IN d.kind = "bash" /\ d.matches # {} => d.call \in approved
    BY DEF Allowed
  <2>1. obj'[j].id = obj[j].id
    BY <1>7 DEF Alike
  <2>2. CASE n \in obj[j].run.ready \union obj[j].run.left
    BY <2>1, <2>2 DEF AnswersInv, Allowed
  <2>3. CASE n \notin obj[j].run.ready \union obj[j].run.left
    <3>1. j = i /\ n = obj[i].run.at
      BY <1>4, <1>7, <2>3
    <3>2. c = bound.script[obj'[j].id][n]
      BY <1>2, <2>1, <3>1 DEF CallOf
    <3> HIDE DEF c
    <3> QED BY <1>2, <1>3, <1>5, <2>1, <3>1, <3>2
  <2> QED BY <2>2, <2>3
<1>9. WaitersSaid(bound, obj', waiting')
  <2>1. \A j \in Slots : Stays(obj, obj', j)
    BY <1>4, <1>7 DEF Stays
  <2> QED BY <1>1, <2>1, SameFewer, WaitersStay DEF AnswersInv, IInv
<1>10. LogOK(bound, log')
  BY <1>1, OneEvent, EmittedOK DEF AnswersInv, EventTypes
<1>11. RunsAsAnswered'
  BY <1>1, AnswersKept DEF AnswersInv
<1> QED BY <1>1, <1>8, <1>9, <1>10, <1>11 DEF AnswersInv

\* A step of the turns and nothing else than the objects and the log.
LEMMA TurnAnswers ==
  ASSUME IInv, IInv', AnswersInv, UNCHANGED <<bound, approved, ran, sent, page>>,
         told' = told \/ told' = Null,
         \A i \in Slots : Moved(obj, obj', i), Fewer(waiting, waiting'),
         LogOK(bound, log'), AskedOK(asked')
  PROVE  AnswersInv'
BY KeepsAnswers DEF AnswersInv

LEMMA SkipAnswers ==
  ASSUME IInv, IInv', AnswersInv, NEW i \in Slots, Skip(i)
  PROVE  AnswersInv'
<1> DEFINE run == Answered(obj[i].run, FALSE)
<1>1. /\ obj' = [obj EXCEPT ![i].run = run]
      /\ log' = Emitted(log, i, <<Event("tool_execution_start"), Event("tool_execution_end")>>)
      /\ UNCHANGED <<bound, waiting, asked, page, approved, ran, sent, told>>
      /\ obj[i].run \in Runs
  BY DEF Skip, history, IInv, Types, ObjectOK
<1>2. run \in Runs /\ run.st = "prep" /\ run.left = obj[i].run.left /\ run.ready = obj[i].run.ready
  <2>1. PICK no \in BOOLEAN : no = FALSE
    OBVIOUS
  <2> DEFINE a == Answered(obj[i].run, no)
  <2>2. a \in Runs /\ a.st = "prep" /\ a.left = obj[i].run.left /\ a.ready = obj[i].run.ready
    BY <1>1, <2>1, AnsweredIs
  <2>3. a = run
    BY <2>1
  <2> HIDE DEF a, run
  <2> QED BY <2>2, <2>3
<1>3. Goes(obj, obj', i, run)
  BY <1>1 DEF Goes
<1> HIDE DEF run
<1>4. /\ Alike(obj, obj') /\ obj'[i].run = run /\ \A j \in Slots : j # i => obj'[j] = obj[j]
  BY <1>2, <1>3, ObjectsNow, TurnChange
<1>5. \A j \in Slots : Moved(obj, obj', j)
  BY <1>2, <1>4 DEF Moved, Alike
<1>6. LogOK(bound, log')
  BY <1>1, OneEvent, EmittedOK DEF AnswersInv, EventTypes
<1>7. Fewer(waiting, waiting') /\ AskedOK(asked')
  BY <1>1, SameFewer DEF AnswersInv
<1> QED BY <1>1, <1>5, <1>6, <1>7, TurnAnswers

LEMMA LaunchAnswers ==
  ASSUME IInv, IInv', AnswersInv, NEW i \in Slots, Launch(i)
  PROVE  AnswersInv'
<1> DEFINE run == [obj[i].run EXCEPT !.st = "exec", !.left = obj[i].run.ready]
<1>1. DOMAIN obj = Slots /\ DOMAIN obj[i] = Fields /\ obj[i].run \in Runs
  BY DEF IInv, Types, ObjectOK, Launch
<1>2. run \in Runs /\ run.st = "exec" /\ run.ready = obj[i].run.ready /\ run.left = obj[i].run.ready
  BY <1>1 DEF Runs
<1>3. Goes(obj, obj', i, run)
  BY <1>1, FieldsAre DEF Launch, Goes
<1> HIDE DEF run
<1>4. /\ Alike(obj, obj') /\ obj'[i].run = run /\ \A j \in Slots : j # i => obj'[j] = obj[j]
  BY <1>2, <1>3, ObjectsNow, TurnChange
<1>5. \A j \in Slots : Moved(obj, obj', j)
  BY <1>2, <1>4 DEF Moved, Alike
<1>6. UNCHANGED <<bound, waiting, asked, log, page, approved, ran, sent, told>>
  BY DEF Launch, talk
<1>7. Fewer(waiting, waiting') /\ AskedOK(asked') /\ LogOK(bound, log')
  BY <1>6, SameFewer DEF AnswersInv
<1> QED BY <1>5, <1>6, <1>7, TurnAnswers

\* A call that waits is told of as the rules say.
LEMMA RequestApprovalAnswers ==
  ASSUME IInv, IInv', AnswersInv, NEW i \in Slots, RequestApproval(i)
  PROVE  AnswersInv'
<1> DEFINE run == [obj[i].run EXCEPT !.st = "asks"]
           w == [slot |-> i, owner |-> obj[i].id, call |-> CallOf(i).call, parent |-> Parent(i),
                 asks |-> Classify(CallOf(i).matches), deaf |-> obj[i].run.stop]
           to == IF w.parent # Null /\ entry[w.parent] # 0 THEN w.parent ELSE w.owner
           x == [call |-> w.call, asks |-> w.asks]
           e == [Event("tool_call_pending") EXCEPT !.call = x]
<1>1. /\ DOMAIN obj = Slots /\ DOMAIN obj[i] = Fields /\ obj[i].run \in Runs
      /\ obj[i].run.st = "prep" /\ Busy(i) /\ obj[i].run.at <= Len(Script(i)) /\ Asks(i)
  BY DEF IInv, Types, ObjectOK, RequestApproval, Preparing, Busy
<1>2. run \in Runs /\ run.st = "asks" /\ run.at = obj[i].run.at /\ run.ready = obj[i].run.ready
      /\ run.left = obj[i].run.left
  BY <1>1 DEF Runs
<1>3. /\ Goes(obj, obj', i, run) /\ waiting' = Append(waiting, w)
      /\ log' = Announced(Emitted(log, i, <<Event("tool_execution_start")>>), to, e)
      /\ UNCHANGED <<bound, asked, page, approved, ran, sent, told>>
  BY <1>1, FieldsAre DEF RequestApproval, Goes, history
<1>4. /\ obj[i].id \in Ids /\ bound \in Scenarios
      /\ Script(i) = bound.script[obj[i].id] /\ Len(Script(i)) \in Nat
  BY <1>1, TurnIds
<1>5. obj[i].run.at \in 1 .. Len(Script(i))
  BY <1>1, <1>4 DEF Runs
<1>6. /\ CallOf(i) \in CallsOf(bound) /\ MatchesIn(bound, CallOf(i).call) = CallOf(i).matches
      /\ CallOf(i) = bound.script[obj[i].id][obj[i].run.at]
  BY <1>4, <1>5, OneCall DEF CallOf
<1>7. w.slot = i /\ w.call = CallOf(i).call /\ Meant(bound, w.call, w.asks)
  BY <1>1, <1>6 DEF Meant, Asks
<1>8. EventOK(bound, e)
  <2>1. x.call = w.call /\ x.asks = w.asks
    OBVIOUS
  <2>2. e.type = "tool_call_pending" /\ e.call = x
    BY DEF Event
  <2> HIDE DEF e, x, w
  <2> QED BY <1>7, <2>1, <2>2 DEF EventOK, EventTypes, Said
<1> HIDE DEF run, w, e, to
<1>9. LogOK(bound, log')
  <2>1. LogOK(bound, Emitted(log, i, <<Event("tool_execution_start")>>))
    BY OneEvent, EmittedOK DEF AnswersInv, EventTypes
  <2> QED BY <1>3, <1>8, <2>1, AnnouncedOK
<1>10. /\ Alike(obj, obj') /\ obj'[i].run = run
       /\ \A j \in Slots : j # i => obj'[j] = obj[j]
  BY <1>2, <1>3, ObjectsNow, TurnChange
<1>11. Allowed(bound, obj', approved)
  BY <1>2, <1>10 DEF AnswersInv, Allowed, Alike
<1>12. WaitersSaid(bound, obj', waiting')
  <2>1. waiting \in Seq(Waiters)
    BY DEF IInv, WaitersOK
  <2>2. /\ Len(waiting') = Len(waiting) + 1 /\ waiting'[Len(waiting) + 1] = w
        /\ \A n \in 1 .. Len(waiting) : waiting'[n] = waiting[n]
    <3>1. waiting \in Seq(Waiters \union {w})
      BY <2>1
    <3> QED BY <1>3, <3>1, AppendProperties
  <2>3. ASSUME NEW n \in 1 .. Len(waiting) PROVE Waits(bound, obj', waiting[n])
    <3>1. waiting[n] \in Waiters
      BY <2>1
    <3>2. waiting[n].slot \in Slots
      BY <3>1 DEF Waiters
    <3>3. obj[waiting[n].slot].run.st = "asks"
      BY <3>2 DEF IInv, WaitersOK
    <3>4. obj'[waiting[n].slot] = obj[waiting[n].slot]
      BY <1>1, <1>10, <3>2, <3>3
    <3> QED BY <3>4 DEF AnswersInv, WaitersSaid, Waits
  <2>4. Waits(bound, obj', w)
    BY <1>2, <1>4, <1>5, <1>6, <1>7, <1>10 DEF Waits, Alike
  <2> QED BY <2>1, <2>2, <2>3, <2>4 DEF WaitersSaid
<1>13. RunsAsAnswered'
  BY <1>3, AnswersKept DEF AnswersInv
<1> QED BY <1>3, <1>9, <1>11, <1>12, <1>13 DEF AnswersInv

\* What runs is ready, so it is approved where it must be.
LEMMA ExecuteAnswers ==
  ASSUME IInv, IInv', AnswersInv, NEW i \in Slots, Execute(i)
  PROVE  AnswersInv'
<1>1. PICK n \in Left(i, "bash") :
        /\ obj' = Returned(obj, i, n) /\ ran' = ran \union {Script(i)[n].call}
        /\ log' = Emitted(log, i, <<Event("tool_execution_end")>>)
        /\ UNCHANGED <<bound, waiting, asked, page, approved, sent, told>>
  BY DEF Execute
<1>2. obj[i].run.st = "exec" /\ n \in obj[i].run.left /\ Script(i)[n].kind = "bash"
  BY DEF Left
<1>3. Busy(i)
  BY <1>2 DEF Busy
<1>4. obj[i].id \in Ids /\ bound \in Scenarios /\ Script(i) = bound.script[obj[i].id]
  BY <1>3, TurnIds
<1> DEFINE c == bound.script[obj[i].id][n]
<1>5. /\ n \in 1 .. Len(bound.script[obj[i].id])
      /\ c.kind = "bash" /\ c.matches # {} => c.call \in approved
  BY <1>2 DEF AnswersInv, Allowed
<1>6. MatchesIn(bound, c.call) = c.matches
  BY <1>4, <1>5, OneCall
<1>7. RunsAsAnswered'
  <2> SUFFICES ASSUME NEW d \in ran', MatchesOf(d)' # {} PROVE d \in approved
    BY <1>1 DEF RunsAsAnswered, AnswersInv
  <2>1. MatchesOf(d)' = MatchesIn(bound, d)
    BY <1>1 DEF MatchesOf, MatchesIn
  <2>2. CASE d \in ran
    BY <2>1, <2>2 DEF AnswersInv, RunsAsAnswered, MatchesOf, MatchesIn
  <2>3. CASE d = c.call
    BY <1>2, <1>4, <1>5, <1>6, <2>1, <2>3
  <2> QED BY <1>1, <1>4, <2>2, <2>3
<1>8. \A j \in Slots : Moved(obj, obj', j)
  BY <1>1, ObjectsNow, ReturnedMoves
<1>9. Allowed(bound, obj', approved)
  BY <1>8, MovedAllowed DEF AnswersInv
<1>10. WaitersSaid(bound, obj', waiting')
  <2>1. \A j \in Slots : Stays(obj, obj', j)
    BY <1>8 DEF Moved, Stays
  <2> QED BY <1>1, <2>1, SameFewer, WaitersStay DEF AnswersInv, IInv
<1>11. LogOK(bound, log')
  BY <1>1, OneEvent, EmittedOK DEF AnswersInv, EventTypes
<1> QED BY <1>1, <1>7, <1>9, <1>10, <1>11 DEF AnswersInv

LEMMA ApprovalTimeoutAnswers ==
  ASSUME IInv, IInv', AnswersInv, NEW w, ApprovalTimeout(w)
  PROVE  AnswersInv'
<1>1. /\ waiting' = Without({w}) /\ obj' = Settled(obj, {w}, FALSE) /\ log' = Refusals(log, {w})
      /\ UNCHANGED <<bound, asked, page, approved, ran, sent, told>>
  BY DEF ApprovalTimeout, history
<1>2. \A i \in Slots : Moved(obj, obj', i)
  BY <1>1, ObjectsNow, RefusedMoves
<1>3. Fewer(waiting, waiting') /\ LogOK(bound, log') /\ AskedOK(asked')
  BY <1>1, WithoutFewer, RefusalsOK DEF AnswersInv, IInv
<1> QED BY <1>1, <1>2, <1>3, TurnAnswers

\* What is asked has distinct ids.
LEMMA AskUserAnswers ==
  ASSUME IInv, IInv', AnswersInv, NEW i \in Slots, AskUser(i)
  PROVE  AnswersInv'
<1>1. PICK n \in Left(i, "ask_user") :
        /\ \/ /\ obj' = Returned(obj, i, n) /\ log' = Emitted(log, i, <<Event("tool_execution_end")>>)
              /\ UNCHANGED <<asked, told>>
           \/ LET q == Pending(n, Script(i)[n].raw)
              IN /\ asked' = [asked EXCEPT ![obj[i].id] = q]
                 /\ log' = Announced(log, obj[i].id, [Event("question_pending") EXCEPT !.question = q])
                 /\ told' = Null /\ UNCHANGED obj
        /\ UNCHANGED <<bound, waiting, page, approved, ran, sent>>
  BY DEF AskUser
<1>2. obj[i].run.st = "exec" /\ n \in obj[i].run.left /\ Busy(i)
  BY DEF Left, Busy
<1>3. obj[i].id \in Ids /\ bound \in Scenarios /\ Script(i) = bound.script[obj[i].id]
  BY <1>2, TurnIds
<1>4. n \in 1 .. Len(bound.script[obj[i].id])
  BY <1>2 DEF AnswersInv, Allowed
<1>5. Fewer(waiting, waiting')
  BY <1>1, SameFewer
<1>6. CASE /\ obj' = Returned(obj, i, n) /\ log' = Emitted(log, i, <<Event("tool_execution_end")>>)
           /\ UNCHANGED <<asked, told>>
  <2>1. \A j \in Slots : Moved(obj, obj', j)
    BY <1>6, ObjectsNow, ReturnedMoves
  <2>2. LogOK(bound, log') /\ AskedOK(asked')
    BY <1>6, OneEvent, EmittedOK DEF AnswersInv, EventTypes
  <2> QED BY <1>1, <1>5, <1>6, <2>1, <2>2, TurnAnswers
<1>7. CASE LET q == Pending(n, Script(i)[n].raw)
           IN /\ asked' = [asked EXCEPT ![obj[i].id] = q]
              /\ log' = Announced(log, obj[i].id, [Event("question_pending") EXCEPT !.question = q])
              /\ told' = Null /\ UNCHANGED obj
  <2> DEFINE raw == bound.script[obj[i].id][n].raw
             q == Pending(n, raw)
             e == [Event("question_pending") EXCEPT !.question = q]
  <2>1. Len(raw) \in Nat /\ \A m \in 1 .. Len(raw) : Whole(raw[m])
    BY <1>3, <1>4, OneCall
  <2>2. Distinct(q.ids)
    BY <2>1, QuestionsAreDistinct DEF Pending
  <2>3. EventOK(bound, e)
    <3>1. e.type = "question_pending" /\ e.call = Null
      BY DEF Event
    <3> HIDE DEF e
    <3> QED BY <3>1 DEF EventOK, EventTypes, Said
  <2>4. /\ asked' = [asked EXCEPT ![obj[i].id] = q] /\ log' = Announced(log, obj[i].id, e)
        /\ told' = Null /\ obj' = obj
    BY <1>3, <1>7
  <2> HIDE DEF q, e
  <2>5. LogOK(bound, log')
    BY <2>3, <2>4, AnnouncedOK DEF AnswersInv
  <2>6. AskedOK(asked')
    BY <2>2, <2>4 DEF AnswersInv, AskedOK
  <2>7. \A j \in Slots : Moved(obj, obj', j)
    BY <2>4, SameMoved
  <2> QED BY <1>1, <1>5, <2>4, <2>5, <2>6, <2>7, TurnAnswers
<1> QED BY <1>1, <1>6, <1>7

LEMMA AnswersEnd ==
  ASSUME IInv, AnswersInv, NEW id, NEW answers, Answers(id, answers)
  PROVE  /\ \A j \in Slots : Moved(obj, obj', j)
         /\ LogOK(bound, log') /\ AskedOK(asked') /\ told' = answers
<1>1. PICK i \in Slots :
        /\ asked' = [asked EXCEPT ![id] = Null] /\ told' = answers
        /\ log' = Emitted(Announced(log, id, Event("question_resolved")), i,
                          <<Event("tool_execution_end")>>)
        /\ obj' = Returned(obj, i, asked[id].at)
  BY DEF Answers
<1>2. \A j \in Slots : Moved(obj, obj', j)
  BY <1>1, ObjectsNow, ReturnedMoves
<1>3. EventOK(bound, Event("question_resolved"))
  BY PlainOK DEF EventTypes
<1>4. LogOK(bound, Announced(log, id, Event("question_resolved")))
  BY <1>3, AnnouncedOK DEF AnswersInv
<1>5. LogOK(bound, log')
  BY <1>1, <1>4, OneEvent, EmittedOK DEF EventTypes
<1> QED BY <1>1, <1>2, <1>5, NoMoreAsked DEF AnswersInv

LEMMA QuestionTimeoutAnswers ==
  ASSUME IInv, IInv', AnswersInv, NEW id, QuestionTimeout(id)
  PROVE  AnswersInv'
<1>1. Answers(id, Null) /\ UNCHANGED <<bound, waiting, page, approved, ran, sent>>
  BY DEF QuestionTimeout
<1>2. /\ \A j \in Slots : Moved(obj, obj', j)
      /\ LogOK(bound, log') /\ AskedOK(asked') /\ told' = Null
  BY <1>1, AnswersEnd
<1>3. Fewer(waiting, waiting')
  BY <1>1, SameFewer
<1> QED BY <1>1, <1>2, <1>3, TurnAnswers

\* The answers of a user are told as they were entered.
LEMMA AnswerAnswers ==
  ASSUME IInv, IInv', AnswersInv, NEW picks \in Picks, Answer(picks)
  PROVE  AnswersInv'
<1> DEFINE q == page.dialog.question
           answers == IF picks = Null THEN Null ELSE Drafted(q.ids, picks)
<1>1. /\ q # Null /\ AnswerQuestion(q, answers)
      /\ sent' = IF asked[Watched] = q THEN picks ELSE sent
      /\ UNCHANGED <<bound, waiting, approved, ran>>
  BY DEF Answer
<1>2. PageOK(bound, page')
  <2>1. PICK a : page' = [page EXCEPT !.answer = a]
    BY DEF Answer
  <2> QED BY <2>1 DEF AnswersInv, PageOK
<1>3. Fewer(waiting, waiting')
  BY <1>1, SameFewer
<1>4. CASE asked[Watched] # q
  <2>1. UNCHANGED <<obj, asked, log, told, sent>>
    BY <1>1, <1>4 DEF AnswerQuestion
  <2>2. (\A i \in Slots : Moved(obj, obj', i)) /\ LogOK(bound, log') /\ AskedOK(asked')
    BY <2>1, SameMoved DEF AnswersInv
  <2> QED BY <1>1, <1>2, <1>3, <2>1, <2>2, KeepsAnswers
<1>5. CASE asked[Watched] = q
  <2> DEFINE x == IF answers = Null THEN Null ELSE Reported(q.ids, answers)
  <2>1. Answers(Watched, x) /\ sent' = picks
    BY <1>1, <1>5 DEF AnswerQuestion
  <2>2. x = Null \/ x = picks
    <3>1. CASE answers = Null
      BY <3>1
    <3>2. CASE answers # Null
      <4>1. picks # Null
        BY <3>2
      <4>2. picks \in [1 .. Len(q.ids) -> {"a", Null}]
        BY <1>1, <4>1 DEF Picks
      <4>3. Distinct(q.ids)
        BY <1>1, <1>5 DEF AnswersInv, AskedOK, Ids, Watched
      <4>4. Reported(q.ids, Drafted(q.ids, picks)) = picks
        BY <4>2, <4>3, ReportedAsEntered
      <4> QED BY <3>2, <4>1, <4>4
    <3> QED BY <3>1, <3>2
  <2> HIDE DEF x
  <2>3. /\ \A j \in Slots : Moved(obj, obj', j)
        /\ LogOK(bound, log') /\ AskedOK(asked') /\ told' = x
    BY <2>1, AnswersEnd
  <2>4. Allowed(bound, obj', approved)
    BY <2>3, MovedAllowed DEF AnswersInv
  <2>5. WaitersSaid(bound, obj', waiting')
    <3>1. \A j \in Slots : Stays(obj, obj', j)
      BY <2>3 DEF Moved, Stays
    <3> QED BY <1>1, <3>1, SameFewer, WaitersStay DEF AnswersInv, IInv
  <2>6. RunsAsAnswered'
    BY <1>1, <2>1, <2>2, <2>3 DEF AnswersInv, RunsAsAnswered, MatchesOf
  <2> QED BY <1>1, <1>2, <2>3, <2>4, <2>5, <2>6 DEF AnswersInv
<1> QED BY <1>4, <1>5

\* An object in the place of another, with a turn that has no calls.
LEMMA PlacedMoves ==
  ASSUME NEW o, DOMAIN o = Slots, NEW i \in Slots, NEW x, NEW p, p = [o EXCEPT ![i] = x],
         x.run.ready = {}, x.run.left = {}, x.run.st # "asks"
  PROVE  /\ p[i] = x /\ \A j \in Slots : Moved(o, p, j)
         /\ \A j \in Slots : j # i => p[j] = o[j]
BY DEF Moved

LEMMA DelegateAnswers ==
  ASSUME IInv, IInv', AnswersInv, NEW i \in Slots, Delegate(i)
  PROVE  AnswersInv'
<1>1. PICK n :
        /\ \/ obj' = Returned(obj, i, n) /\ log' = Emitted(log, i, <<Event("tool_execution_end")>>)
           \/ /\ FreeSlots # {} /\ UNCHANGED log
              /\ obj' = Prompted([obj EXCEPT ![NextSlot] =
                                    [Made("kid", obj[i].settings, obj[i].window, Null, Null)
                                       EXCEPT !.heard = TRUE]],
                                 NextSlot)
        /\ UNCHANGED <<bound, waiting, asked, page, approved, ran, sent, told>>
  BY DEF Delegate, history
<1>2. Fewer(waiting, waiting') /\ AskedOK(asked')
  BY <1>1, SameFewer DEF AnswersInv
<1>3. CASE obj' = Returned(obj, i, n) /\ log' = Emitted(log, i, <<Event("tool_execution_end")>>)
  <2>1. \A j \in Slots : Moved(obj, obj', j)
    BY <1>3, ObjectsNow, ReturnedMoves
  <2>2. LogOK(bound, log')
    BY <1>3, OneEvent, EmittedOK DEF AnswersInv, EventTypes
  <2> QED BY <1>1, <1>2, <2>1, <2>2, TurnAnswers
<1>4. CASE /\ FreeSlots # {} /\ UNCHANGED log
           /\ obj' = Prompted([obj EXCEPT ![NextSlot] =
                                 [Made("kid", obj[i].settings, obj[i].window, Null, Null)
                                    EXCEPT !.heard = TRUE]],
                              NextSlot)
  <2> DEFINE x == [Made("kid", obj[i].settings, obj[i].window, Null, Null) EXCEPT !.heard = TRUE]
             s == NextSlot
             o == [obj EXCEPT ![s] = x]
  <2>1. s \in Slots
    BY <1>4, NextSlotIs
  <2>2. x.run = Quiet /\ ObjectOK(x)
    BY FieldsAre DEF Made, ObjectOK, Ids
  <2>3. obj' = Prompted(o, s)
    BY <1>4
  <2> HIDE DEF x, s
  <2>4. DOMAIN obj = Slots
    BY ObjectsNow DEF Objects
  <2>5. \A j \in Slots : Moved(obj, o, j)
    BY <2>1, <2>2, <2>4, FieldsAre, PlacedMoves
  <2>6. Objects(o)
    BY <2>1, <2>2, <2>4, ObjectsNow DEF Objects
  <2> HIDE DEF o
  <2>7. \A j \in Slots : Moved(o, obj', j)
    BY <2>1, <2>3, <2>6, PromptedMoves
  <2>8. \A j \in Slots : Moved(obj, obj', j)
    BY <2>5, <2>7, MovedOn
  <2> QED BY <1>1, <1>2, <1>4, <2>8, TurnAnswers DEF AnswersInv
<1> QED BY <1>1, <1>3, <1>4

LEMMA BlankOK == ObjectOK(Blank) /\ Blank.run = Quiet
BY FieldsAre DEF Blank, ObjectOK, Fields

LEMMA ChildEndsAnswers ==
  ASSUME IInv, IInv', AnswersInv, NEW i \in Slots, ChildEnds(i)
  PROVE  AnswersInv'
<1>1. PICK j \in Slots : \E n : /\ obj' = Returned([obj EXCEPT ![i] = Blank], j, n)
                                /\ log' = Emitted(log, j, <<Event("tool_execution_end")>>)
  BY DEF ChildEnds
<1>2. PICK n : /\ obj' = Returned([obj EXCEPT ![i] = Blank], j, n)
               /\ log' = Emitted(log, j, <<Event("tool_execution_end")>>)
  BY <1>1
<1> DEFINE o == [obj EXCEPT ![i] = Blank]
<1>3. DOMAIN obj = Slots
  BY ObjectsNow DEF Objects
<1>4. \A k \in Slots : Moved(obj, o, k)
  BY <1>3, BlankOK, FieldsAre, PlacedMoves
<1>5. Objects(o)
  BY <1>3, BlankOK, ObjectsNow DEF Objects
<1>6. obj' = Returned(o, j, n)
  BY <1>2
<1> HIDE DEF o
<1>7. \A k \in Slots : Moved(o, obj', k)
  BY <1>5, <1>6, ReturnedMoves
<1>8. \A k \in Slots : Moved(obj, obj', k)
  BY <1>4, <1>7, MovedOn
<1>9. LogOK(bound, log')
  BY <1>2, OneEvent, EmittedOK DEF AnswersInv, EventTypes
<1>10. UNCHANGED <<bound, waiting, asked, page, approved, ran, sent, told>>
  BY DEF ChildEnds, history
<1>11. Fewer(waiting, waiting') /\ AskedOK(asked')
  BY <1>10, SameFewer DEF AnswersInv
<1> QED BY <1>8, <1>9, <1>10, <1>11, TurnAnswers

LEMMA TurnEndsAnswers ==
  ASSUME IInv, IInv', AnswersInv, NEW i \in Slots, TurnEnds(i)
  PROVE  AnswersInv'
<1>1. PICK state : obj' = [obj EXCEPT ![i].run = Quiet, ![i].kept = Null, ![i].state = state]
  BY DEF TurnEnds
<1>2. DOMAIN obj = Slots /\ DOMAIN obj[i] = Fields
  BY ObjectsNow DEF Objects, ObjectOK
<1>3. obj'[i].run = Quiet /\ \A j \in Slots : j # i => obj'[j] = obj[j]
  BY <1>1, <1>2, FieldsAre
<1>4. \A j \in Slots : Moved(obj, obj', j)
  BY <1>3, FieldsAre DEF Moved
<1>5. /\ UNCHANGED <<bound, waiting, asked, page, approved, ran, sent, told>>
      /\ log' = Emitted(log, i, <<Event("agent_end")>>)
  BY DEF TurnEnds, history
<1>6. LogOK(bound, log')
  BY <1>5, OneEvent, EmittedOK DEF AnswersInv, EventTypes
<1>7. Fewer(waiting, waiting') /\ AskedOK(asked')
  BY <1>5, SameFewer DEF AnswersInv
<1> QED BY <1>4, <1>5, <1>6, <1>7, TurnAnswers

LEMMA CrashAnswers ==
  ASSUME IInv, IInv', AnswersInv, Crash
  PROVE  AnswersInv'
<1>1. /\ obj' = [i \in Slots |-> Blank] /\ waiting' = <<>> /\ asked' = NobodyAsked
      /\ UNCHANGED <<bound, log, page, approved, ran, sent, told>>
  BY DEF Crash, history
<1>2. \A i \in Slots : Moved(obj, obj', i)
  BY <1>1, BlankOK, FieldsAre DEF Moved
<1>3. Fewer(waiting, waiting') /\ AskedOK(asked') /\ LogOK(bound, log')
  BY <1>1 DEF Fewer, AskedOK, NobodyAsked, AnswersInv
<1> QED BY <1>1, <1>2, <1>3, TurnAnswers

-----------------------------------------------------------------------------
(* The requests and the answers *)

LEMMA SameRunMoves ==
  ASSUME NEW o, NEW p, \A j \in Slots : p[j].id = o[j].id /\ p[j].run = o[j].run
  PROVE  \A j \in Slots : Moved(o, p, j)
BY DEF Moved

LEMMA ServedAnswers ==
  ASSUME IInv, AnswersInv, NEW R, NEW i \in Slots, Served(R, i)
  PROVE  (\A j \in Slots : Moved(obj, obj', j)) /\ LogOK(bound, log')
<1> DEFINE o == IF Prompts(R) THEN Prompted(obj, i) ELSE obj
<1>1. Objects(o) /\ \A j \in Slots : Moved(obj, o, j)
  BY ObjectsNow, PromptedMoves, SameMoved
<1>2. obj' = o \/ \E r \in R : obj' = [o EXCEPT ![i].kept = Switched(r, @)]
  BY DEF Served, Models
<1>3. LogOK(bound, log')
  <2>1. LogOK(bound, PromptedLog(i))
    BY OneEvent, EmittedOK DEF PromptedLog, AnswersInv, EventTypes
  <2> QED BY <2>1 DEF Served, AnswersInv
<1> HIDE DEF o
<1>4. CASE obj' = o
  BY <1>1, <1>3, <1>4
<1>5. CASE \E r \in R : obj' = [o EXCEPT ![i].kept = Switched(r, @)]
  <2>1. PICK kept : obj' = [o EXCEPT ![i].kept = kept]
    BY <1>5
  <2>2. \A j \in Slots : obj'[j].id = o[j].id /\ obj'[j].run = o[j].run
    BY <1>1, <2>1, FieldsAre DEF Objects, ObjectOK
  <2> QED BY <1>1, <1>3, <2>2, SameRunMoves, MovedOn
<1> QED BY <1>2, <1>4, <1>5

LEMMA SendOK ==
  ASSUME PageOK(bound, page), NEW r, Send(r)
  PROVE  PageOK(bound, page')
<1>1. DOMAIN NoDialog = {"call", "question"} /\ Said(bound, NoDialog.call)
  BY DEF NoDialog, Said
<1> DEFINE d == NoDialog
<1>2. page' = page \/ page' = [page EXCEPT !.mode = "live", !.dialog = d, !.running = TRUE]
  BY DEF Send
<1>3. DOMAIN d = {"call", "question"} /\ Said(bound, d.call)
  BY <1>1
<1> HIDE DEF d
<1> QED BY <1>2, <1>3 DEF PageOK

LEMMA GoneOK ==
  ASSUME NEW b, NEW p, PageOK(b, p)
  PROVE  PageOK(b, Gone(p))
BY DEF PageOK, Gone

LEMMA QuietAnswers ==
  ASSUME IInv, IInv', AnswersInv, UNCHANGED <<bound, obj>>, UNCHANGED talk
  PROVE  AnswersInv'
<1>1. PageOK(bound, page') /\ UNCHANGED <<waiting, asked, log, approved, ran, sent, told>>
  BY DEF AnswersInv, talk
<1> QED BY <1>1, PageStep

LEMMA OpenActiveAnswers ==
  ASSUME IInv, IInv', AnswersInv, NEW r \in Requests, OpenActive(r)
  PROVE  AnswersInv'
<1> DEFINE i == entry[Id(r)]
<1>1. i \in Slots
  <2>1. Id(r) \in Ids
    BY RequestsAre DEF IInv, Types
  <2> QED BY <2>1 DEF OpenActive, IInv, Types, Entries
<1>2. /\ Served({r}, i) /\ Send(r) /\ UNCHANGED <<bound, waiting, asked, approved, ran, sent, told>>
  BY DEF OpenActive, Proceed, history
<1> HIDE DEF i
<1>3. (\A j \in Slots : Moved(obj, obj', j)) /\ LogOK(bound, log')
  BY <1>1, <1>2, ServedAnswers
<1>4. PageOK(bound, page') /\ AskedOK(asked') /\ Fewer(waiting, waiting')
  BY <1>2, SendOK, SameFewer DEF AnswersInv
<1> QED BY <1>2, <1>3, <1>4, KeepsAnswers

LEMMA HaltMoves ==
  ASSUME IInv, NEW all, NEW J, NEW p, p = Stopped(Settled(obj, all, FALSE), J)
  PROVE  Objects(p) /\ \A j \in Slots : Moved(obj, p, j)
<1> DEFINE o == Settled(obj, all, FALSE)
<1>1. Objects(o) /\ \A j \in Slots : Moved(obj, o, j)
  BY ObjectsNow, RefusedMoves
<1>2. p = Stopped(o, J)
  OBVIOUS
<1> HIDE DEF o
<1>3. Objects(p) /\ \A j \in Slots : Moved(o, p, j)
  BY <1>1, <1>2, StoppedMoves
<1> QED BY <1>1, <1>3, MovedOn

LEMMA AbortAnswers ==
  ASSUME IInv, IInv', AnswersInv, NEW r \in Requests, Abort(r)
  PROVE  AnswersInv'
<1> DEFINE i == entry[Id(r)]
           J == Aborted(i)
           all == {} \union Listening(J)
           l == Refusals(log, all)
<1>1. /\ waiting' = Without(all) /\ obj' = Stopped(Settled(obj, all, FALSE), J)
      /\ asked' = [asked EXCEPT ![obj[i].id] = Null]
      /\ \/ log' = l
         \/ log' = Emitted(Announced(l, obj[i].id, Event("question_resolved")), i,
                           <<Event("tool_execution_end")>>)
      /\ told' = told \/ told' = Null
      /\ UNCHANGED <<bound, page, approved, ran, sent>>
  BY DEF Abort, Halt
<1>2. LogOK(bound, l)
  BY RefusalsOK DEF AnswersInv
<1> HIDE DEF i, J, all, l
<1>3. \A j \in Slots : Moved(obj, obj', j)
  BY <1>1, HaltMoves
<1>4. LogOK(bound, log')
  <2> DEFINE m == Announced(l, obj[i].id, Event("question_resolved"))
  <2>1. EventOK(bound, Event("question_resolved"))
    BY PlainOK DEF EventTypes
  <2>2. LogOK(bound, m)
    BY <1>2, <2>1, AnnouncedOK
  <2>3. log' = l \/ log' = Emitted(m, i, <<Event("tool_execution_end")>>)
    BY <1>1
  <2> HIDE DEF m
  <2> QED BY <1>2, <2>2, <2>3, OneEvent, EmittedOK DEF EventTypes
<1>5. Fewer(waiting, waiting') /\ AskedOK(asked') /\ PageOK(bound, page')
  BY <1>1, WithoutFewer, NoMoreAsked DEF AnswersInv, IInv
<1> QED BY <1>1, <1>3, <1>4, <1>5, KeepsAnswers

LEMMA DeleteBusyAnswers ==
  ASSUME IInv, IInv', AnswersInv, NEW r \in Requests, DeleteBusy(r)
  PROVE  AnswersInv'
<1> DEFINE i == entry[Id(r)]
           J == Aborted(i)
           all == CancelSession(Id(r)) \union Listening(J)
           o == Stopped(Settled(obj, all, FALSE), J)
<1>1. /\ waiting' = Without(all) /\ obj' = [o EXCEPT ![i].heard = FALSE]
      /\ asked' = [asked EXCEPT ![Id(r)] = Null]
      /\ log' = log \/ log' = Announced(log, Id(r), Event("question_resolved"))
      /\ told' = told \/ told' = Null
      /\ page' = page \/ page' = Gone(page)
      /\ UNCHANGED <<bound, approved, ran, sent>>
  BY DEF DeleteBusy
<1>2. Objects(o) /\ \A j \in Slots : Moved(obj, o, j)
  BY HaltMoves
<1> HIDE DEF i, J, all, o
<1>3. \A j \in Slots : Moved(obj, obj', j)
  <2>1. \A j \in Slots : obj'[j].id = o[j].id /\ obj'[j].run = o[j].run
    BY <1>1, <1>2, FieldsAre DEF Objects, ObjectOK
  <2> QED BY <1>2, <2>1, SameRunMoves, MovedOn
<1>4. LogOK(bound, log')
  <2>1. EventOK(bound, Event("question_resolved"))
    BY PlainOK DEF EventTypes
  <2> QED BY <1>1, <2>1, AnnouncedOK DEF AnswersInv
<1>5. Fewer(waiting, waiting') /\ AskedOK(asked') /\ PageOK(bound, page')
  BY <1>1, WithoutFewer, NoMoreAsked, GoneOK DEF AnswersInv, IInv
<1> QED BY <1>1, <1>3, <1>4, <1>5, KeepsAnswers

LEMMA DeleteIdleAnswers ==
  ASSUME IInv, IInv', AnswersInv, NEW r \in Requests, DeleteIdle(r)
  PROVE  AnswersInv'
<1> DEFINE i == entry[Id(r)]
           ws == CancelSession(Id(r))
           o == Settled(obj, ws, FALSE)
<1>1. /\ \/ obj' = obj /\ waiting' = waiting
         \/ waiting' = Without(ws) /\ obj' = [o EXCEPT ![i].heard = FALSE, ![i].state = "disposed"]
      /\ page' = page \/ page' = Gone(page)
      /\ UNCHANGED <<bound, asked, log, approved, ran, sent, told>>
  BY DEF DeleteIdle, history
<1>2. Objects(o) /\ \A j \in Slots : Moved(obj, o, j)
  BY ObjectsNow, RefusedMoves
<1> HIDE DEF i, ws, o
<1>3. \A j \in Slots : Moved(obj, obj', j)
  <2>1. CASE obj' = obj
    BY <2>1, SameMoved
  <2>2. CASE obj' = [o EXCEPT ![i].heard = FALSE, ![i].state = "disposed"]
    <3>1. \A j \in Slots : obj'[j].id = o[j].id /\ obj'[j].run = o[j].run
      BY <1>2, <2>2, FieldsAre DEF Objects, ObjectOK
    <3> QED BY <1>2, <3>1, SameRunMoves, MovedOn
  <2> QED BY <1>1, <2>1, <2>2
<1>4. Fewer(waiting, waiting')
  BY <1>1, WithoutFewer, SameFewer DEF IInv
<1>5. LogOK(bound, log') /\ AskedOK(asked') /\ PageOK(bound, page')
  BY <1>1, GoneOK DEF AnswersInv
<1> QED BY <1>1, <1>3, <1>4, <1>5, KeepsAnswers

LEMMA MadeByCreate ==
  ASSUME NEW r, Create(r)
  PROVE  \E settings, window, want, kept :
           /\ obj' = [obj EXCEPT ![NextSlot] = Made(Id(r), settings, window, want, kept)]
           /\ KeptFits(kept)
<1>1. PICK preset \in Presets(bound.stored), known \in BOOLEAN : \E saved \in Versions(preset) :
        LET body == Body(Restored(saved, known), bound.window)
            want == Chosen(Selected(preset, known))
        IN obj' = [obj EXCEPT ![NextSlot] =
                     Made(Id(r), Created(body), body.window, want,
                          [parent |-> Null, config |-> Line(body), models |-> <<body.window>>,
                           want |-> want])]
  BY DEF Create
<1>2. PICK saved \in Versions(preset) :
        LET body == Body(Restored(saved, known), bound.window)
            want == Chosen(Selected(preset, known))
        IN obj' = [obj EXCEPT ![NextSlot] =
                     Made(Id(r), Created(body), body.window, want,
                          [parent |-> Null, config |-> Line(body), models |-> <<body.window>>,
                           want |-> want])]
  BY <1>1
<1> DEFINE body == Body(Restored(saved, known), bound.window)
           settings == Created(body)
           window == body.window
           want == Chosen(Selected(preset, known))
           kept == [parent |-> Null, config |-> Line(body), models |-> <<body.window>>,
                    want |-> want]
<1>3. obj' = [obj EXCEPT ![NextSlot] = Made(Id(r), settings, window, want, kept)]
  BY <1>2
<1>4. KeptFits(kept)
  BY DEF KeptFits, RecordFields
<1> HIDE DEF body, settings, window, want, kept
<1> QED BY <1>3, <1>4

\* Objects that are made have no calls, and those that are registered keep theirs.
LEMMA MakeAnswers ==
  ASSUME IInv, IInv', AnswersInv, NEW r \in Requests, OpenBuild(r) \/ Create(r)
  PROVE  AnswersInv'
<1>1. FreeSlots # {} /\ UNCHANGED <<bound, waiting, asked, log, page, approved, ran, sent, told>>
  BY DEF OpenBuild, Create, talk
<1>2. \E settings, window, want, kept :
        obj' = [obj EXCEPT ![NextSlot] = Made(Id(r), settings, window, want, kept)]
  <2>1. CASE OpenBuild(r)
    BY <2>1 DEF OpenBuild
  <2>2. CASE Create(r)
    BY <2>2, MadeByCreate
  <2> QED BY <2>1, <2>2
<1>3. PICK settings, window, want, kept :
        obj' = [obj EXCEPT ![NextSlot] = Made(Id(r), settings, window, want, kept)]
  BY <1>2
<1> DEFINE m == Made(Id(r), settings, window, want, kept)
<1>4. m.run.ready = {} /\ m.run.left = {} /\ m.run.st # "asks"
  BY FieldsAre DEF Made
<1>5. obj' = [obj EXCEPT ![NextSlot] = m] /\ NextSlot \in Slots /\ DOMAIN obj = Slots
  BY <1>1, <1>3, NextSlotIs, ObjectsNow DEF Objects
<1> HIDE DEF m
<1>6. \A j \in Slots : Moved(obj, obj', j)
  BY <1>4, <1>5, PlacedMoves
<1>7. Fewer(waiting, waiting') /\ LogOK(bound, log') /\ AskedOK(asked') /\ PageOK(bound, page')
  BY <1>1, SameFewer DEF AnswersInv
<1> QED BY <1>1, <1>6, <1>7, KeepsAnswers

LEMMA RegisterAnswers ==
  ASSUME IInv, IInv', AnswersInv, NEW r \in Requests, Register(r)
  PROVE  AnswersInv'
<1>1. /\ Id(r) \in Ids /\ entry[Id(r)] \in Slots \union {0} /\ req[r].slot \in Slots \union {0}
      /\ UNCHANGED <<bound, waiting, asked, page, approved, ran, sent, told>>
  BY RequestsAre DEF IInv, Types, Entries, RequestOK, Register, history
<1>2. (\A j \in Slots : Moved(obj, obj', j)) /\ LogOK(bound, log')
  <2>1. CASE entry[Id(r)] # 0
    <3>1. Served(Joined(r), entry[Id(r)])
      BY <2>1 DEF Register, Proceed
    <3> QED BY <1>1, <2>1, <3>1, ServedAnswers
  <2>2. CASE entry[Id(r)] = 0
    <3>1. obj' = [obj EXCEPT ![req[r].slot].heard = TRUE] /\ (log' = <<>> \/ log' = log)
      BY <2>2 DEF Register
    <3>2. \A j \in Slots : obj'[j].id = obj[j].id /\ obj'[j].run = obj[j].run
      BY <3>1, ObjectsNow, FieldsAre DEF Objects, ObjectOK
    <3>3. LogOK(bound, <<>>)
      <4>1. PICK S : S = {}
        OBVIOUS
      <4>2. <<>> \in Seq(S) /\ \A e \in S : EventOK(bound, e)
        BY <4>1
      <4> QED BY <4>2 DEF LogOK
    <3> QED BY <3>1, <3>2, <3>3, SameRunMoves DEF AnswersInv
  <2> QED BY <2>1, <2>2
<1>3. Fewer(waiting, waiting') /\ AskedOK(asked') /\ PageOK(bound, page')
  BY <1>1, SameFewer DEF AnswersInv
<1> QED BY <1>1, <1>2, <1>3, KeepsAnswers

LEMMA BoundAnswers ==
  ASSUME IInv, IInv', AnswersInv, NEW r \in Requests, Bound(r)
  PROVE  AnswersInv'
<1>1. /\ \E R : Served(R, req[r].slot)
      /\ UNCHANGED <<bound, waiting, asked, page, approved, ran, sent, told>>
  BY DEF Bound, Proceed, history
<1>2. req[r].slot \in Slots
  BY DEF IInv, Held, AtStep, Bound
<1>3. (\A j \in Slots : Moved(obj, obj', j)) /\ LogOK(bound, log')
  BY <1>1, <1>2, ServedAnswers
<1>4. Fewer(waiting, waiting') /\ AskedOK(asked') /\ PageOK(bound, page')
  BY <1>1, SameFewer DEF AnswersInv
<1> QED BY <1>1, <1>3, <1>4, KeepsAnswers

LEMMA HandledAnswers ==
  ASSUME IInv, IInv', AnswersInv, NEW r \in Requests, Handled(r)
  PROVE  AnswersInv'
<1>1. CASE OpenActive(r)
  BY <1>1, OpenActiveAnswers
<1>2. CASE Abort(r)
  BY <1>2, AbortAnswers
<1>3. CASE \/ OpenJoins(r) \/ OpenStart(r) \/ OpenMissing(r)
           \/ DeleteMissing(r) \/ Reparent(r) \/ Erase(r)
  <2>1. UNCHANGED <<bound, obj>> /\ UNCHANGED talk
    BY <1>3 DEF OpenJoins, OpenStart, OpenMissing, DeleteMissing, Reparent, Erase
  <2> QED BY <2>1, QuietAnswers
<1>4. CASE OpenBuild(r) \/ Create(r)
  BY <1>4, MakeAnswers
<1>5. CASE Register(r)
  BY <1>5, RegisterAnswers
<1>6. CASE Bound(r)
  BY <1>6, BoundAnswers
<1>7. CASE DeleteIdle(r)
  BY <1>7, DeleteIdleAnswers
<1>8. CASE DeleteBusy(r)
  BY <1>8, DeleteBusyAnswers
<1> QED BY <1>1, <1>2, <1>3, <1>4, <1>5, <1>6, <1>7, <1>8 DEF Handled

-----------------------------------------------------------------------------
(* Where approvals are on *)

Allows(config) == "approval" \in Enabled(Read(config).extensions)

\* A scenario in which no session that makes calls is made with its approvals off: the
\* user has not switched them off for it, and it is none that POST /api/agent/new makes
\* of a preset, where they can be.
Careful(b) ==
  \A id \in Ids : b.script[id] # <<>> =>
    /\ \A r \in DOMAIN b.requests : b.requests[r].do = "create" => b.requests[r].id # id
    /\ b.files[id] # Null => Allows(b.files[id].config)

\* Then its objects have them on, and its file says so for those that are made of it.
RecordOn(record) == record # Null => DOMAIN record = RecordFields /\ Allows(record.config)
ObjectOn(o) == "approval" \in o.settings.loaded /\ o.kept = Null
Guarded(b, f, o) ==
  /\ DOMAIN f = Ids
  /\ \A i \in Slots : KeptFits(o[i].kept)
  /\ Careful(b) => \A id \in Ids : b.script[id] # <<>> =>
       RecordOn(f[id]) /\ \A i \in Slots : o[i].id = id => ObjectOn(o[i])

\* An object is one of the same session as before, or nothing.
SameSessions(o, p) ==
  \A i \in Slots : \/ p[i].id = Null /\ p[i].kept = Null
                   \/ /\ p[i].id = o[i].id /\ p[i].settings = o[i].settings
                      /\ o[i].kept = Null => p[i].kept = Null
                      /\ KeptFits(o[i].kept) => KeptFits(p[i].kept)

LEMMA AlikeSame ==
  ASSUME NEW o, NEW p, Alike(o, p)
  PROVE  SameSessions(o, p)
BY DEF Alike, SameSessions

LEMMA SameTwice ==
  ASSUME NEW o, NEW q, NEW p, SameSessions(o, q), SameSessions(q, p)
  PROVE  SameSessions(o, p)
<1>1. KeptFits(Null)
  BY DEF KeptFits
<1> QED BY <1>1 DEF SameSessions

LEMMA GuardedStays ==
  ASSUME NEW b, NEW f, NEW o, NEW p, Guarded(b, f, o), SameSessions(o, p)
  PROVE  Guarded(b, f, p)
<1>1. ASSUME Careful(b), NEW id \in Ids, NEW i \in Slots, p[i].id = id, b.script[id] # <<>>
      PROVE  ObjectOn(p[i])
  <2>1. /\ p[i].id = o[i].id /\ p[i].settings = o[i].settings
        /\ o[i].kept = Null => p[i].kept = Null
    BY <1>1, RegistryAssumption DEF SameSessions
  <2> QED BY <1>1, <2>1 DEF Guarded, ObjectOn
<1>2. KeptFits(Null)
  BY DEF KeptFits
<1>3. \A i \in Slots : KeptFits(p[i].kept)
  BY <1>2 DEF Guarded, SameSessions
<1> QED BY <1>1, <1>3 DEF Guarded

\* A step of a turn.
LEMMA RunSame ==
  ASSUME NEW o, Objects(o), NEW i, NEW run, NEW p, p = [o EXCEPT ![i].run = run]
  PROVE  SameSessions(o, p)
BY FieldsAre DEF Objects, ObjectOK, SameSessions

LEMMA HeardSame ==
  ASSUME NEW o, Objects(o), NEW i, NEW x, NEW y,
         NEW p, p = [o EXCEPT ![i].heard = x] \/ p = [o EXCEPT ![i].heard = x, ![i].state = y]
  PROVE  SameSessions(o, p)
BY FieldsAre DEF Objects, ObjectOK, SameSessions

LEMMA HaltSame ==
  ASSUME IInv, NEW all, NEW J, NEW p, p = Stopped(Settled(obj, all, FALSE), J)
  PROVE  Objects(p) /\ SameSessions(obj, p)
<1> DEFINE o == Settled(obj, all, FALSE)
<1>1. Objects(o) /\ Alike(obj, o)
  BY ObjectsNow, RefusedMoves
<1>2. p = Stopped(o, J)
  OBVIOUS
<1> HIDE DEF o
<1>3. Objects(p) /\ Alike(o, p)
  BY <1>1, <1>2, StoppedMoves
<1> QED BY <1>1, <1>3, AlikeSame, SameTwice

LEMMA SettledSame ==
  ASSUME IInv, NEW ws, NEW yes \in BOOLEAN, NEW p, p = Settled(obj, ws, yes)
  PROVE  SameSessions(obj, p)
BY ObjectsNow, SettledIs, AlikeSame

LEMMA PlacedGuarded ==
  ASSUME NEW b, NEW f, NEW o, DOMAIN o = Slots, Guarded(b, f, o), NEW i, NEW x,
         KeptFits(x.kept), Careful(b) /\ x.id \in Ids /\ b.script[x.id] # <<>> => ObjectOn(x),
         NEW p, p = [o EXCEPT ![i] = x]
  PROVE  Guarded(b, f, p)
BY DEF Guarded

LEMMA RecordsGuarded ==
  ASSUME NEW b, NEW f, NEW o, Guarded(b, f, o), NEW g, DOMAIN g = Ids,
         Careful(b) => \A id \in Ids : b.script[id] # <<>> /\ RecordOn(f[id]) => RecordOn(g[id])
  PROVE  Guarded(b, g, o)
BY DEF Guarded

LEMMA SwitchedOn ==
  ASSUME NEW r, NEW record, RecordOn(record)
  PROVE  RecordOn(Switched(r, record))
BY DEF RecordOn, Switched, RecordFields

LEMMA ServedGuarded ==
  ASSUME IInv, Guarded(bound, file, obj), NEW R, NEW i \in Slots, Served(R, i)
  PROVE  Guarded(bound, file', obj')
<1> DEFINE o == IF Prompts(R) THEN Prompted(obj, i) ELSE obj
<1>1. Objects(o) /\ SameSessions(obj, o) /\ (obj[i].kept # Null <=> o[i].kept # Null)
  <2>1. CASE Prompts(R)
    <3>1. Objects(o) /\ Alike(obj, o)
      BY <2>1, ObjectsNow, PromptedMoves
    <3>2. o[i].kept = obj[i].kept
      BY <2>1, ObjectsNow, FieldsAre DEF Prompted, Objects, ObjectOK
    <3> HIDE DEF o
    <3> QED BY <3>1, <3>2, AlikeSame
  <2>2. CASE ~Prompts(R)
    BY <2>2, ObjectsNow DEF SameSessions
  <2> QED BY <2>1, <2>2
<1>2. \/ obj' = o /\ file' = file
      \/ obj[i].kept # Null /\ file' = file /\ \E r \in R : obj' = [o EXCEPT ![i].kept = Switched(r, @)]
      \/ obj' = o /\ \E r \in R : file' = [file EXCEPT ![obj[i].id] = Switched(r, @)]
  BY DEF Served, Models
<1> HIDE DEF o
<1>3. Guarded(bound, file, o)
  BY <1>1, GuardedStays
<1>4. CASE obj' = o /\ file' = file
  BY <1>3, <1>4
<1>5. CASE obj[i].kept # Null /\ file' = file /\ \E r \in R : obj' = [o EXCEPT ![i].kept = Switched(r, @)]
  <2>1. PICK kept : /\ obj' = [o EXCEPT ![i].kept = kept]
                    /\ KeptFits(o[i].kept) => KeptFits(kept)
    BY <1>5, SwitchedFits
  <2>2. SameSessions(o, obj')
    BY <1>1, <1>5, <2>1, FieldsAre DEF Objects, ObjectOK, SameSessions
  <2> QED BY <1>3, <1>5, <2>2, GuardedStays
<1>6. CASE obj' = o /\ \E r \in R : file' = [file EXCEPT ![obj[i].id] = Switched(r, @)]
  <2>1. PICK r \in R : file' = [file EXCEPT ![obj[i].id] = Switched(r, @)]
    BY <1>6
  <2>2. DOMAIN file = Ids
    BY DEF Guarded
  <2>3. ASSUME NEW id \in Ids, RecordOn(file[id]) PROVE RecordOn(file'[id])
    BY <2>1, <2>2, <2>3, SwitchedOn
  <2> QED BY <1>3, <1>6, <2>1, <2>2, <2>3, RecordsGuarded
<1> QED BY <1>2, <1>4, <1>5, <1>6

\* Sessions that are opened have what their file says, and none that makes calls is created.
LEMMA OpenedIs ==
  ASSUME NEW config, NEW window
  PROVE  /\ Opened(config, window).loaded = Enabled(Read(config).extensions)
         /\ config = Null => "approval" \in Opened(config, window).loaded
<1>1. Opened(config, window).loaded = Enabled(Read(config).extensions)
  BY DEF Opened, Assembled
<1>2. "approval" \in ExtensionKeys
  <2>1. "approval" \in CapabilityKeys /\ ExtensionKey["approval"] = "approval"
    BY DEF CapabilityKeys, ExtensionKey
  <2> QED BY <2>1 DEF ExtensionKeys
<1>3. config = Null => Read(config).extensions = Null
  BY DEF Read, NoConfig
<1>4. config = Null => "approval" \in Enabled(Read(config).extensions)
  BY <1>2, <1>3 DEF Enabled, On
<1> QED BY <1>1, <1>4

LEMMA OpenBuildGuarded ==
  ASSUME IInv, Guarded(bound, file, obj), NEW r \in Requests, OpenBuild(r)
  PROVE  Guarded(bound, file', obj')
<1> DEFINE f == file[Id(r)]
           m == Made(Id(r), Opened(f.config, WindowOf(f.models)), WindowOf(f.models), f.want, Null)
<1>1. f # Null /\ obj' = [obj EXCEPT ![NextSlot] = m] /\ file' = file /\ Id(r) \in Ids
  BY RequestsAre DEF OpenBuild, IInv, Types
<1>2. m.id = Id(r) /\ m.kept = Null /\ m.settings = Opened(f.config, WindowOf(f.models))
  BY DEF Made
<1>3. Careful(bound) /\ bound.script[Id(r)] # <<>> => Allows(f.config)
  BY <1>1 DEF Guarded, RecordOn
<1>4. KeptFits(m.kept) /\ (Careful(bound) /\ bound.script[m.id] # <<>> => ObjectOn(m))
  BY <1>2, <1>3, OpenedIs DEF ObjectOn, Allows, KeptFits
<1> HIDE DEF m, f
<1>5. DOMAIN obj = Slots
  BY ObjectsNow DEF Objects
<1> QED BY <1>1, <1>4, <1>5, PlacedGuarded

LEMMA CreateGuarded ==
  ASSUME IInv, Guarded(bound, file, obj), NEW r \in Requests, Create(r)
  PROVE  Guarded(bound, file', obj')
<1>1. /\ Id(r) \in Ids /\ file' = file /\ DOMAIN obj = Slots
      /\ Careful(bound) => bound.script[Id(r)] = <<>>
  <2>1. r \in DOMAIN bound.requests /\ Id(r) \in Ids /\ bound.requests[r].do = "create"
    BY RequestsAre, RegistryAssumption DEF IInv, Types, Requests, Create, Kind
  <2> QED BY <2>1, ObjectsNow DEF Careful, Create, Objects, Id
<1>2. PICK settings, window, want, kept :
        /\ obj' = [obj EXCEPT ![NextSlot] = Made(Id(r), settings, window, want, kept)]
        /\ KeptFits(kept)
  BY MadeByCreate
<1> DEFINE m == Made(Id(r), settings, window, want, kept)
<1>3. m.id = Id(r) /\ m.kept = kept
  BY DEF Made
<1>4. /\ obj' = [obj EXCEPT ![NextSlot] = m] /\ KeptFits(m.kept)
      /\ Careful(bound) => bound.script[m.id] = <<>>
  BY <1>1, <1>2, <1>3
<1> HIDE DEF m
<1> QED BY <1>1, <1>4, PlacedGuarded

\* A child has the settings of its parent, which makes calls.
LEMMA DelegateGuarded ==
  ASSUME IInv, Careful(bound) => AnswersInv, Guarded(bound, file, obj), NEW i \in Slots, Delegate(i)
  PROVE  Guarded(bound, file', obj')
<1>1. PICK n \in Left(i, "subagent") :
        \/ obj' = Returned(obj, i, n)
        \/ /\ FreeSlots # {}
           /\ obj' = Prompted([obj EXCEPT ![NextSlot] =
                                 [Made("kid", obj[i].settings, obj[i].window, Null, Null)
                                    EXCEPT !.heard = TRUE]],
                              NextSlot)
  BY DEF Delegate
<1>2. file' = file
  BY DEF Delegate
<1>3. CASE obj' = Returned(obj, i, n)
  BY <1>2, <1>3, ObjectsNow, ReturnedMoves, AlikeSame, GuardedStays
<1>4. CASE /\ FreeSlots # {}
           /\ obj' = Prompted([obj EXCEPT ![NextSlot] =
                                 [Made("kid", obj[i].settings, obj[i].window, Null, Null)
                                    EXCEPT !.heard = TRUE]],
                              NextSlot)
  <2>1. n \in obj[i].run.left /\ Busy(i)
    BY DEF Left, Busy
  <2>2. ASSUME Careful(bound) PROVE obj[i].id \in Ids /\ bound.script[obj[i].id] # <<>>
    <3>1. n \in 1 .. Len(bound.script[obj[i].id])
      BY <2>1, <2>2 DEF AnswersInv, Allowed
    <3>2. obj[i].id \in Ids
      BY <2>1, TurnIds
    <3> QED BY <3>1, <3>2
  <2>3. Careful(bound) => "approval" \in obj[i].settings.loaded
    BY <2>2 DEF Guarded, ObjectOn
  <2> DEFINE x == [Made("kid", obj[i].settings, obj[i].window, Null, Null) EXCEPT !.heard = TRUE]
             s == NextSlot
             o == [obj EXCEPT ![s] = x]
  <2>4. s \in Slots
    BY <1>4, NextSlotIs
  <2>5. (Careful(bound) => ObjectOn(x)) /\ ObjectOK(x) /\ KeptFits(x.kept)
    BY <2>3, FieldsAre DEF Made, ObjectOK, Ids, ObjectOn, KeptFits
  <2>6. obj' = Prompted(o, s)
    BY <1>4
  <2> HIDE DEF x, s
  <2>7. DOMAIN obj = Slots
    BY ObjectsNow DEF Objects
  <2>8. Guarded(bound, file, o) /\ Objects(o)
    <3>1. Guarded(bound, file, o)
      BY <2>5, <2>7, PlacedGuarded
    <3>2. Objects(o)
      BY <2>4, <2>5, <2>7, ObjectsNow DEF Objects
    <3> QED BY <3>1, <3>2
  <2> HIDE DEF o
  <2>9. SameSessions(o, obj')
    BY <2>4, <2>6, <2>8, PromptedMoves, AlikeSame
  <2> QED BY <1>2, <2>8, <2>9, GuardedStays
<1> QED BY <1>1, <1>3, <1>4

LEMMA ChildEndsGuarded ==
  ASSUME IInv, Guarded(bound, file, obj), NEW i \in Slots, ChildEnds(i)
  PROVE  Guarded(bound, file', obj')
<1>1. PICK j \in Slots : \E n : obj' = Returned([obj EXCEPT ![i] = Blank], j, n)
  BY DEF ChildEnds
<1>2. PICK n : obj' = Returned([obj EXCEPT ![i] = Blank], j, n)
  BY <1>1
<1> DEFINE o == [obj EXCEPT ![i] = Blank]
<1>3. Objects(o) /\ SameSessions(obj, o)
  BY BlankOK, ObjectsNow DEF Objects, SameSessions, Blank
<1>4. obj' = Returned(o, j, n)
  BY <1>2
<1> HIDE DEF o
<1>5. SameSessions(obj, obj')
  BY <1>3, <1>4, ReturnedMoves, AlikeSame, SameTwice
<1>6. file' = file
  BY DEF ChildEnds
<1> QED BY <1>5, <1>6, GuardedStays

\* The file is only written of what an object keeps, and one that makes calls keeps nothing.
LEMMA TurnEndsGuarded ==
  ASSUME IInv, Guarded(bound, file, obj), NEW i \in Slots, TurnEnds(i)
  PROVE  Guarded(bound, file', obj')
<1>1. PICK state : obj' = [obj EXCEPT ![i].run = Quiet, ![i].kept = Null, ![i].state = state]
  BY DEF TurnEnds
<1>2. SameSessions(obj, obj')
  BY <1>1, ObjectsNow, FieldsAre DEF Objects, ObjectOK, SameSessions
<1>3. Guarded(bound, file, obj')
  BY <1>2, GuardedStays
<1>4. /\ obj[i].kept = Null => file' = file
      /\ obj[i].kept # Null => file' = [file EXCEPT ![obj[i].id] = obj[i].kept]
  BY DEF TurnEnds
<1>5. ASSUME Careful(bound), NEW id \in Ids, bound.script[id] # <<>> PROVE file'[id] = file[id]
  <2>1. obj[i].id = id => obj[i].kept = Null
    BY <1>5 DEF Guarded, ObjectOn
  <2> QED BY <1>4, <2>1 DEF Guarded
<1>6. DOMAIN file' = Ids
  BY <1>4 DEF Guarded
<1> QED BY <1>3, <1>5, <1>6, RecordsGuarded

LEMMA HandledGuarded ==
  ASSUME IInv, Guarded(bound, file, obj), NEW r \in Requests, Handled(r)
  PROVE  Guarded(bound, file', obj')
<1>0. Id(r) \in Ids /\ entry[Id(r)] \in Slots \union {0}
  BY RequestsAre DEF IInv, Types, Entries
<1>1. CASE OpenActive(r)
  <2>1. entry[Id(r)] \in Slots /\ Served({r}, entry[Id(r)])
    BY <1>0, <1>1 DEF OpenActive, Proceed
  <2> QED BY <2>1, ServedGuarded
<1>2. CASE Abort(r)
  <2>1. file' = file /\ \E all, J : obj' = Stopped(Settled(obj, all, FALSE), J)
    BY <1>2 DEF Abort, Halt
  <2> QED BY <2>1, HaltSame, GuardedStays
<1>3. CASE OpenJoins(r) \/ OpenStart(r) \/ OpenMissing(r) \/ DeleteMissing(r)
  BY <1>3 DEF OpenJoins, OpenStart, OpenMissing, DeleteMissing
<1>4. CASE OpenBuild(r)
  BY <1>4, OpenBuildGuarded
<1>5. CASE Create(r)
  BY <1>5, CreateGuarded
<1>6. CASE Register(r)
  <2>1. CASE entry[Id(r)] # 0
    <3>1. entry[Id(r)] \in Slots /\ Served(Joined(r), entry[Id(r)])
      BY <1>0, <1>6, <2>1 DEF Register, Proceed
    <3> QED BY <3>1, ServedGuarded
  <2>2. CASE entry[Id(r)] = 0
    <3>1. file' = file /\ obj' = [obj EXCEPT ![req[r].slot].heard = TRUE]
      BY <1>6, <2>2 DEF Register
    <3>2. SameSessions(obj, obj')
      BY <3>1, ObjectsNow, HeardSame
    <3> QED BY <3>1, <3>2, GuardedStays
  <2> QED BY <2>1, <2>2
<1>7. CASE Bound(r)
  <2>1. PICK R : Served(R, req[r].slot)
    BY <1>7 DEF Bound, Proceed
  <2>2. req[r].slot \in Slots
    BY <1>7 DEF Bound, IInv, Held, AtStep
  <2> QED BY <2>1, <2>2, ServedGuarded
<1>8. CASE DeleteIdle(r)
  <2> DEFINE i == entry[Id(r)]
             o == Settled(obj, CancelSession(Id(r)), FALSE)
  <2>1. obj' = obj \/ obj' = [o EXCEPT ![i].heard = FALSE, ![i].state = "disposed"]
    BY <1>8 DEF DeleteIdle
  <2>2. Objects(o) /\ SameSessions(obj, o)
    BY ObjectsNow, RefusedMoves, AlikeSame
  <2> HIDE DEF i, o
  <2>3. SameSessions(obj, obj')
    <3>1. CASE obj' = obj
      BY <3>1 DEF SameSessions
    <3>2. CASE obj' = [o EXCEPT ![i].heard = FALSE, ![i].state = "disposed"]
      <4>1. SameSessions(o, obj')
        BY <2>2, <3>2, HeardSame
      <4> QED BY <2>2, <4>1, SameTwice
    <3> QED BY <2>1, <3>1, <3>2
  <2>4. file' = file
    BY <1>8 DEF DeleteIdle
  <2> QED BY <2>3, <2>4, GuardedStays
<1>9. CASE DeleteBusy(r)
  <2> DEFINE i == entry[Id(r)]
             J == Aborted(i)
             all == CancelSession(Id(r)) \union Listening(J)
             o == Stopped(Settled(obj, all, FALSE), J)
  <2>1. obj' = [o EXCEPT ![i].heard = FALSE] /\ file' = file
    BY <1>9 DEF DeleteBusy
  <2>2. Objects(o) /\ SameSessions(obj, o)
    BY HaltSame
  <2> HIDE DEF i, J, all, o
  <2>3. SameSessions(o, obj')
    BY <2>1, <2>2, HeardSame
  <2> QED BY <2>1, <2>2, <2>3, SameTwice, GuardedStays
<1>10. CASE Reparent(r)
  <2>1. \/ UNCHANGED file
        \/ \E c \in req[r].todo : file[c] # Null /\ file' = [file EXCEPT ![c].parent = ParentOf(r)]
    BY <1>10 DEF Reparent
  <2>2. DOMAIN file' = Ids
    BY <2>1 DEF Guarded
  <2>3. ASSUME NEW id \in Ids, RecordOn(file[id]) PROVE RecordOn(file'[id])
    <3>1. CASE UNCHANGED file
      BY <2>3, <3>1
    <3>2. CASE \E c \in req[r].todo : file[c] # Null /\ file' = [file EXCEPT ![c].parent = ParentOf(r)]
      <4>1. PICK c : file[c] # Null /\ file' = [file EXCEPT ![c].parent = ParentOf(r)]
        BY <3>2
      <4>2. CASE c = id
        <5>1. file'[id] = [file[id] EXCEPT !.parent = ParentOf(r)]
          BY <4>1, <4>2 DEF Guarded
        <5>2. DOMAIN file'[id] = RecordFields /\ file'[id].config = file[id].config
          BY <2>3, <4>1, <4>2, <5>1 DEF RecordOn, RecordFields
        <5> QED BY <2>3, <4>1, <4>2, <5>2 DEF RecordOn
      <4>3. CASE c # id
        BY <2>3, <4>1, <4>3 DEF Guarded
      <4> QED BY <4>2, <4>3
    <3> QED BY <2>1, <3>1, <3>2
  <2>4. Guarded(bound, file', obj)
    BY <2>2, <2>3, RecordsGuarded
  <2> QED BY <1>10, <2>4 DEF Reparent
<1>11. CASE Erase(r)
  <2>1. file' = [file EXCEPT ![Id(r)] = Null] /\ obj' = obj
    BY <1>11 DEF Erase
  <2>2. DOMAIN file' = Ids /\ \A id \in Ids : file'[id] = Null \/ file'[id] = file[id]
    BY <2>1 DEF Guarded
  <2>3. \A id \in Ids : RecordOn(file[id]) => RecordOn(file'[id])
    BY <2>2 DEF RecordOn
  <2>4. Guarded(bound, file', obj)
    BY <2>2, <2>3, RecordsGuarded
  <2> QED BY <2>1, <2>4
<1> QED BY <1>1, <1>2, <1>3, <1>4, <1>5, <1>6, <1>7, <1>8, <1>9, <1>10, <1>11 DEF Handled

LEMMA TurnGuarded ==
  ASSUME IInv, Careful(bound) => AnswersInv, Guarded(bound, file, obj), NEW i \in Slots,
         \/ Prepare(i) \/ RequestApproval(i) \/ Skip(i) \/ Launch(i)
         \/ Execute(i) \/ AskUser(i) \/ Delegate(i) \/ ChildEnds(i) \/ TurnEnds(i)
  PROVE  Guarded(bound, file', obj')
<1>1. CASE Prepare(i) \/ RequestApproval(i) \/ Skip(i) \/ Launch(i)
  <2>1. file' = file
    BY <1>1 DEF Prepare, RequestApproval, Skip, Launch
  <2>2. PICK run : obj' = [obj EXCEPT ![i].run = run]
    <3>1. DOMAIN obj[i] = Fields /\ DOMAIN obj = Slots
      BY ObjectsNow DEF Objects, ObjectOK
    <3>2. CASE Prepare(i)
      BY <3>2 DEF Prepare
    <3>3. CASE Skip(i)
      BY <3>3 DEF Skip
    <3>4. CASE RequestApproval(i)
      <4>1. obj' = [obj EXCEPT ![i].run = [obj[i].run EXCEPT !.st = "asks"]]
        BY <3>1, <3>4, FieldsAre DEF RequestApproval
      <4> QED BY <4>1
    <3>5. CASE Launch(i)
      <4>1. obj' = [obj EXCEPT ![i].run = [obj[i].run EXCEPT !.st = "exec", !.left = obj[i].run.ready]]
        BY <3>1, <3>5, FieldsAre DEF Launch
      <4> QED BY <4>1
    <3> QED BY <1>1, <3>2, <3>3, <3>4, <3>5
  <2>3. SameSessions(obj, obj')
    BY <2>2, ObjectsNow, RunSame
  <2> QED BY <2>1, <2>3, GuardedStays
<1>2. CASE Execute(i) \/ AskUser(i)
  <2>1. file' = file /\ (obj' = obj \/ \E n : obj' = Returned(obj, i, n))
    BY <1>2 DEF Execute, AskUser
  <2>2. obj' # obj => Alike(obj, obj')
    BY <2>1, ObjectsNow, ReturnedMoves
  <2> QED BY <2>1, <2>2, AlikeSame, GuardedStays
<1>3. CASE Delegate(i)
  BY <1>3, DelegateGuarded
<1>4. CASE ChildEnds(i)
  BY <1>4, ChildEndsGuarded
<1>5. CASE TurnEnds(i)
  BY <1>5, TurnEndsGuarded
<1> QED BY <1>1, <1>2, <1>3, <1>4, <1>5

LEMMA NextGuarded ==
  ASSUME IInv, Careful(bound) => AnswersInv, Guarded(bound, file, obj), [Next]_vars
  PROVE  Guarded(bound, file', obj')
<1>1. CASE \E r \in Requests : Handled(r)
  BY <1>1, HandledGuarded
<1>2. CASE \E i \in Slots :
             \/ Prepare(i) \/ RequestApproval(i) \/ Skip(i) \/ Launch(i)
             \/ Execute(i) \/ AskUser(i) \/ Delegate(i) \/ ChildEnds(i) \/ TurnEnds(i)
  BY <1>2, TurnGuarded
<1>3. CASE \E w \in ToSet(waiting) : ApprovalTimeout(w)
  <2>1. file' = file /\ \E ws : obj' = Settled(obj, ws, FALSE)
    BY <1>3 DEF ApprovalTimeout
  <2>2. PICK no \in BOOLEAN : no = FALSE
    OBVIOUS
  <2>3. \E ws : obj' = Settled(obj, ws, no)
    BY <2>1, <2>2
  <2> QED BY <2>1, <2>3, SettledSame, GuardedStays
<1>4. CASE \E yes \in BOOLEAN : Approve(yes)
  <2>1. file' = file /\ \E yes \in BOOLEAN : \E ws : obj' = Settled(obj, ws, yes)
    BY <1>4 DEF Approve, ApproveTool
  <2> QED BY <2>1, SettledSame, GuardedStays
<1>5. CASE (\E id \in Ids : QuestionTimeout(id)) \/ \E picks \in Picks : Answer(picks)
  <2>1. file' = file /\ (obj' = obj \/ \E i \in Slots : \E n : obj' = Returned(obj, i, n))
    BY <1>5 DEF QuestionTimeout, Answer, AnswerQuestion, Answers
  <2>2. obj' # obj => Alike(obj, obj')
    BY <2>1, ObjectsNow, ReturnedMoves
  <2> QED BY <2>1, <2>2, AlikeSame, GuardedStays
<1>6. CASE Crash
  <2>1. file' = file /\ obj' = [i \in Slots |-> Blank]
    BY <1>6 DEF Crash
  <2>2. SameSessions(obj, obj')
    BY <2>1 DEF SameSessions, Blank
  <2> QED BY <2>1, <2>2, GuardedStays
<1>7. CASE ReadEvent \/ Reload \/ LoadAnswered \/ LoadShown \/ ApproveReturns
             \/ AnswerReturns \/ Rest \/ UNCHANGED vars
  <2>1. file' = file /\ obj' = obj
    BY <1>7 DEF ReadEvent, Reload, LoadAnswered, LoadShown, ApproveReturns, AnswerReturns, Rest, vars
  <2> QED BY <2>1
<1> QED BY <1>1, <1>2, <1>3, <1>4, <1>5, <1>6, <1>7 DEF Next

LEMMA NextAnswers ==
  ASSUME IInv, IInv', ApprovalIsOn, AnswersInv, [Next]_vars
  PROVE  AnswersInv'
<1>1. CASE \E r \in Requests : Handled(r)
  BY <1>1, HandledAnswers
<1>2. CASE \E i \in Slots : Prepare(i) \/ RequestApproval(i) \/ Skip(i) \/ Launch(i)
  BY <1>2, PrepareAnswers, RequestApprovalAnswers, SkipAnswers, LaunchAnswers
<1>3. CASE \E i \in Slots : Execute(i) \/ AskUser(i) \/ Delegate(i) \/ ChildEnds(i) \/ TurnEnds(i)
  BY <1>3, ExecuteAnswers, AskUserAnswers, DelegateAnswers, ChildEndsAnswers, TurnEndsAnswers
<1>4. CASE \E w \in ToSet(waiting) : ApprovalTimeout(w)
  BY <1>4, ApprovalTimeoutAnswers
<1>5. CASE \E id \in Ids : QuestionTimeout(id)
  BY <1>5, QuestionTimeoutAnswers
<1>6. CASE \E yes \in BOOLEAN : Approve(yes)
  BY <1>6, ApproveAnswers
<1>7. CASE \E picks \in Picks : Answer(picks)
  BY <1>7, AnswerAnswers
<1>8. CASE Crash
  BY <1>8, CrashAnswers
<1>9. CASE ReadEvent \/ Reload \/ LoadAnswered \/ LoadShown \/ ApproveReturns
             \/ AnswerReturns \/ Rest \/ UNCHANGED vars
  BY <1>9, ReadEventAnswers, ReloadAnswers, LoadAnswers, ReturnsAnswers
<1> QED BY <1>1, <1>2, <1>3, <1>4, <1>5, <1>6, <1>7, <1>8, <1>9 DEF Next

-----------------------------------------------------------------------------
(* At the start, and for ever *)

ApprovedInv == IInv /\ Guarded(bound, file, obj) /\ (Careful(bound) => AnswersInv)

LEMMA BoundStays ==
  ASSUME [Next]_vars
  PROVE  bound' = bound
<1>1. CASE \E r \in Requests : Handled(r)
  <2>1. PICK r \in Requests : Handled(r)
    BY <1>1
  <2>2. CASE \/ OpenActive(r) \/ Abort(r) \/ OpenJoins(r) \/ OpenStart(r) \/ OpenMissing(r)
             \/ OpenBuild(r) \/ Register(r) \/ Bound(r)
    BY <2>2 DEF OpenActive, Abort, OpenJoins, OpenStart, OpenMissing, OpenBuild, Register, Bound
  <2>3. CASE \/ Create(r) \/ DeleteMissing(r) \/ DeleteIdle(r) \/ DeleteBusy(r)
             \/ Reparent(r) \/ Erase(r)
    BY <2>3 DEF Create, DeleteMissing, DeleteIdle, DeleteBusy, Reparent, Erase
  <2> QED BY <2>1, <2>2, <2>3 DEF Handled
<1>2. CASE \E i \in Slots :
             \/ Prepare(i) \/ RequestApproval(i) \/ Skip(i) \/ Launch(i)
             \/ Execute(i) \/ AskUser(i) \/ Delegate(i) \/ ChildEnds(i) \/ TurnEnds(i)
  BY <1>2 DEF Prepare, RequestApproval, Skip, Launch, Execute, AskUser, Delegate, ChildEnds,
              TurnEnds
<1>3. CASE \/ \E w \in ToSet(waiting) : ApprovalTimeout(w)
           \/ \E id \in Ids : QuestionTimeout(id)
           \/ \E yes \in BOOLEAN : Approve(yes)
           \/ \E picks \in Picks : Answer(picks)
           \/ Crash
  BY <1>3 DEF ApprovalTimeout, QuestionTimeout, Approve, Answer, Crash
<1>4. CASE ReadEvent \/ Reload \/ LoadAnswered \/ LoadShown \/ ApproveReturns
             \/ AnswerReturns \/ Rest \/ UNCHANGED vars
  BY <1>4 DEF ReadEvent, Reload, LoadAnswered, LoadShown, ApproveReturns, AnswerReturns, Rest, vars
<1> QED BY <1>1, <1>2, <1>3, <1>4 DEF Next

LEMMA ApprovedInit == Init => ApprovedInv
<1> SUFFICES ASSUME Init PROVE ApprovedInv
  OBVIOUS
<1>1. IInv /\ bound \in Scenarios /\ Objects(obj)
  BY InitOk, ObjectsNow DEF IInv, Types
<1> DEFINE made == Made(Watched, Opened(Null, bound.window), bound.window, Null, Null)
           m == [made EXCEPT !.heard = TRUE]
<1>2. /\ made.run = Quiet /\ made.kept = Null
      /\ made.settings = Opened(Null, bound.window) /\ made.id = Watched
  BY DEF Made
<1>3. m.run = Quiet /\ ObjectOn(m)
  <2>1. m.run = Quiet /\ m.kept = Null /\ m.settings = Opened(Null, bound.window)
    BY <1>2 DEF Made
  <2> HIDE DEF m
  <2> QED BY <2>1, OpenedIs DEF ObjectOn
<1>4. obj = [i \in Slots |-> IF i = 1 /\ bound.open THEN m ELSE Blank]
  BY DEF Init
<1> HIDE DEF made, m
<1>5. ASSUME NEW i \in Slots
      PROVE  /\ obj[i].run = Quiet /\ obj[i].kept = Null
             /\ obj[i].id = Null \/ ObjectOn(obj[i])
  BY <1>3, <1>4, BlankOK DEF Blank, ObjectOn
<1>6. Allowed(bound, obj, approved)
  BY <1>5, FieldsAre DEF Allowed
<1>7. WaitersSaid(bound, obj, waiting) /\ AskedOK(asked) /\ RunsAsAnswered
  BY DEF Init, WaitersSaid, AskedOK, NobodyAsked, RunsAsAnswered
<1>8. LogOK(bound, log)
  <2>1. PICK S : S = {}
    OBVIOUS
  <2>2. log \in Seq(S) /\ \A e \in S : EventOK(bound, e)
    BY <2>1 DEF Init
  <2> QED BY <2>2 DEF LogOK
<1>9. PageOK(bound, page)
  BY FreshOK DEF Init
<1>10. Guarded(bound, file, obj)
  <2>1. file = bound.files
    BY DEF Init
  <2>2. DOMAIN file = Ids
    BY <1>1, <2>1, RegistryAssumption
  <2>3. ASSUME Careful(bound), NEW id \in Ids, bound.script[id] # <<>> PROVE RecordOn(file[id])
    BY <1>1, <2>1, <2>3, RegistryAssumption DEF Careful, RecordOn, RecordFields
  <2>4. \A id \in Ids : \A i \in Slots : obj[i].id = id => ObjectOn(obj[i])
    BY <1>5, RegistryAssumption
  <2>5. \A i \in Slots : KeptFits(obj[i].kept)
    BY <1>5 DEF KeptFits
  <2> QED BY <2>2, <2>3, <2>4, <2>5 DEF Guarded
<1> QED BY <1>1, <1>6, <1>7, <1>8, <1>9, <1>10 DEF ApprovedInv, AnswersInv

LEMMA ApprovedNext == ApprovedInv /\ [Next]_vars => ApprovedInv'
<1> SUFFICES ASSUME ApprovedInv, [Next]_vars PROVE ApprovedInv'
  OBVIOUS
<1>1. IInv /\ IInv'
  BY NextOk DEF ApprovedInv
<1>2. bound' = bound
  BY BoundStays
<1>3. Guarded(bound, file, obj) /\ (Careful(bound) => AnswersInv)
  BY DEF ApprovedInv
<1>4. Guarded(bound, file', obj')
  BY <1>1, <1>3, NextGuarded
<1>5. ASSUME Careful(bound) PROVE AnswersInv'
  <2>1. ApprovalIsOn
    <3> SUFFICES ASSUME NEW i \in Slots, Busy(i), Script(i) # <<>>
                 PROVE  "approval" \in obj[i].settings.loaded
      BY DEF ApprovalIsOn
    <3>1. obj[i].id \in Ids /\ bound.script[obj[i].id] # <<>>
      BY <1>1, TurnIds
    <3> QED BY <1>3, <1>5, <3>1 DEF Guarded, ObjectOn
  <2> QED BY <1>1, <1>3, <1>5, <2>1, NextAnswers
<1> QED BY <1>1, <1>2, <1>4, <1>5 DEF ApprovedInv

LEMMA ApprovedFollows == ApprovedInv => (Careful(bound) => RunsAsAnswered)
BY DEF ApprovedInv, AnswersInv

\* A command that any rule matches is executed only after a user has approved this very
\* call in a dialog that showed the worst of its risks, and what the model is told of a
\* question is what the user has entered: for every scenario in which no session that makes
\* calls has its approvals switched off, any number of sessions, requests, waiters and pages
\* that overlap (requestApproval, decide, settle, abort, remove, answer_question).
THEOREM CommandsAreApproved == Spec => [](Careful(bound) => RunsAsAnswered)
<1> QED BY ApprovedInit, ApprovedNext, ApprovedFollows, PTL DEF Spec

-----------------------------------------------------------------------------
(* The tree of the files *)

\* A number for every session that grows from parent to child.
Grows(files, age) ==
  \A c \in Ids : (files[c] # Null /\ files[c].parent # Null) => age[files[c].parent] < age[c]

\* The files a scenario starts with: a parent is a session that has a file, and nobody is
\* a forebear of its own.
Rooted(b) ==
  /\ \A c \in Ids : (b.files[c] # Null /\ b.files[c].parent # Null) =>
       b.files[c].parent \in Ids /\ b.files[b.files[c].parent] # Null
  /\ \E age \in [Ids -> Nat] : Grows(b.files, age)
Age(b) == CHOOSE age \in [Ids -> Nat] : Grows(b.files, age)

\* Every parent has a file and is older.
FilesOK(f, age) ==
  /\ DOMAIN f = Ids /\ Grows(f, age)
  /\ \A c \in Ids : f[c] # Null =>
       /\ DOMAIN f[c] = RecordFields
       /\ f[c].parent # Null => f[c].parent \in Ids /\ f[f[c].parent] # Null

\* Null, which stands for no file, is neither a file nor a line of the listing.
NullIsNoFile == DOMAIN Null \notin {RecordFields, {"parent", "active"}}

\* What the removal q of the session d works from: the parent in its listing is still there
\* and older than d, and d's children are all among those it has yet to move.
Unmoved(q, d) == IF q.pc = "heirs" THEN q.todo ELSE Heirs(q.snap, d)
Heir(q, d) == q.snap[d].parent
RemovalOK(q, d, f, age) ==
  q.pc \in {"remove", "heirs"} =>
    /\ Heir(q, d) # Null => Heir(q, d) \in Ids /\ f[Heir(q, d)] # Null /\ age[Heir(q, d)] < age[d]
    /\ \A c \in Unmoved(q, d) : c \in Ids /\ age[d] < age[c]
    /\ \A c \in Ids : (f[c] # Null /\ f[c].parent = d) => c \in Unmoved(q, d)

Lineage(b, f, qs) ==
  /\ FilesOK(f, Age(b))
  /\ \A r \in DOMAIN qs : RemovalOK(qs[r], b.requests[r].id, f, Age(b))

\* The scenarios of one request after the other over such files.
Forest == Rooted(bound) /\ bound.serial

\* No file is gone and nobody has a new parent.
SameParents(f, g) ==
  /\ DOMAIN g = Ids
  /\ \A c \in Ids :
       /\ f[c] # Null => g[c] # Null
       /\ g[c] # Null =>
            /\ DOMAIN g[c] = RecordFields
            /\ g[c].parent = Null \/ (f[c] # Null /\ g[c].parent = f[c].parent)

LEMMA AgeIs ==
  ASSUME NEW b, Rooted(b)
  PROVE  Age(b) \in [Ids -> Nat] /\ Grows(b.files, Age(b))
BY DEF Rooted, Age

LEMMA FilesStay ==
  ASSUME NEW f, NEW g, NEW age, FilesOK(f, age), SameParents(f, g)
  PROVE  FilesOK(g, age)
<1>1. DOMAIN g = Ids
  BY DEF SameParents
<1>2. ASSUME NEW c \in Ids, g[c] # Null
      PROVE  /\ DOMAIN g[c] = RecordFields
             /\ g[c].parent # Null => /\ g[c].parent \in Ids /\ g[g[c].parent] # Null
                                      /\ age[g[c].parent] < age[c]
  <2>1. DOMAIN g[c] = RecordFields /\ (g[c].parent = Null \/ (f[c] # Null /\ g[c].parent = f[c].parent))
    BY <1>2 DEF SameParents
  <2>2. ASSUME g[c].parent # Null
        PROVE  /\ g[c].parent \in Ids /\ f[g[c].parent] # Null
               /\ age[g[c].parent] < age[c]
    BY <2>1, <2>2 DEF FilesOK, Grows
  <2> QED BY <2>1, <2>2 DEF SameParents
<1> QED BY <1>1, <1>2 DEF FilesOK, Grows

LEMMA RemovalStays ==
  ASSUME NEW f, NEW g, NEW age, NEW q, NEW d \in Ids, RemovalOK(q, d, f, age), SameParents(f, g)
  PROVE  RemovalOK(q, d, g, age)
<1>1. d # Null
  BY RegistryAssumption
<1>2. \A c \in Ids : (g[c] # Null /\ g[c].parent = d) => f[c] # Null /\ f[c].parent = d
  BY <1>1 DEF SameParents
<1>3. \A c \in Ids : f[c] # Null => g[c] # Null
  BY DEF SameParents
<1> QED BY <1>2, <1>3 DEF RemovalOK

\* A step that leaves the parents alone, and starts no removal or goes on with one.
LEMMA CalmStep ==
  ASSUME IInv, IInv', bound' = bound, Lineage(bound, file, req), SameParents(file, file'),
         \A r \in Requests : req'[r] = req[r] \/ req'[r].pc \notin {"remove", "heirs"}
  PROVE  Lineage(bound, file', req')
<1>1. FilesOK(file', Age(bound))
  BY FilesStay DEF Lineage
<1>2. DOMAIN req = Requests /\ DOMAIN req' = Requests
  BY DEF IInv, Types, Requests
<1>3. ASSUME NEW r \in Requests PROVE RemovalOK(req'[r], bound.requests[r].id, file', Age(bound))
  <2>1. CASE req'[r] = req[r]
    <3>1. bound.requests[r].id \in Ids
      BY RequestsAre DEF IInv, Types, Id
    <3>2. RemovalOK(req'[r], bound.requests[r].id, file, Age(bound))
      BY <1>2, <2>1 DEF Lineage
    <3> QED BY <3>1, <3>2, RemovalStays
  <2>2. CASE req'[r].pc \notin {"remove", "heirs"}
    BY <2>2 DEF RemovalOK
  <2> QED BY <1>3, <2>1, <2>2
<1> QED BY <1>1, <1>2, <1>3 DEF Lineage

LEMMA SameFiles ==
  ASSUME NEW f, NEW age, FilesOK(f, age)
  PROVE  SameParents(f, f)
BY DEF FilesOK, SameParents

\* A change of the model adds to the models of a file.
LEMMA ServedParents ==
  ASSUME NullIsNoFile, FilesOK(file, Age(bound)), NEW R, NEW i \in Slots, Served(R, i)
  PROVE  SameParents(file, file')
<1>1. file' = file \/ \E r \in R : file' = [file EXCEPT ![obj[i].id] = Switched(r, @)]
  BY DEF Served, Models
<1>2. CASE file' = file
  BY <1>2, SameFiles
<1>3. CASE \E r \in R : file' = [file EXCEPT ![obj[i].id] = Switched(r, @)]
  <2>1. PICK r \in R : file' = [file EXCEPT ![obj[i].id] = Switched(r, @)]
    BY <1>3
  <2>2. DOMAIN file = Ids /\ \A c \in Ids : file[c] # Null => DOMAIN file[c] = RecordFields
    BY DEF FilesOK
  <2>3. DOMAIN file' = Ids
        /\ \A c \in Ids : file'[c] = file[c] \/ file'[c] = Switched(r, file[c])
    BY <2>1, <2>2
  <2>4. ASSUME NEW c \in Ids
        PROVE  /\ file[c] = Null => Switched(r, file[c]) = Null
               /\ file[c] # Null => /\ Switched(r, file[c]) # Null
                                    /\ DOMAIN Switched(r, file[c]) = RecordFields
                                    /\ Switched(r, file[c]).parent = file[c].parent
    <3>1. CASE file[c] = Null
      BY <3>1 DEF Switched
    <3>2. CASE file[c] # Null
      <4> DEFINE m == Append(file[c].models, bound.other)
                 x == [file[c] EXCEPT !.models = m]
      <4>1. Switched(r, file[c]) = file[c] \/ Switched(r, file[c]) = x
        BY DEF Switched
      <4> HIDE DEF m
      <4>2. DOMAIN x = RecordFields /\ x.parent = file[c].parent
        BY <2>2, <3>2 DEF RecordFields
      <4>3. x # Null
        BY <4>2 DEF NullIsNoFile
      <4> QED BY <2>2, <3>2, <4>1, <4>2, <4>3
    <3> QED BY <3>1, <3>2
  <2> QED BY <2>2, <2>3, <2>4 DEF SameParents
<1> QED BY <1>1, <1>2, <1>3

\* The end of a turn writes the file of a session that has had none, which has no parent.
LEMMA TurnEndsTree ==
  ASSUME IInv, IInv', bound' = bound, Guarded(bound, file, obj), Lineage(bound, file, req),
         NEW i \in Slots, TurnEnds(i)
  PROVE  Lineage(bound, file', req')
<1> DEFINE age == Age(bound)
           id == obj[i].id
           removers == {r \in Requests : req[r].pc = "remove" /\ req[r].slot = i}
<1>1. /\ obj[i].kept # Null => file' = [file EXCEPT ![id] = obj[i].kept]
      /\ obj[i].kept = Null => file' = file
      /\ KeptFits(obj[i].kept)
  BY DEF TurnEnds, Guarded
<1>2. FilesOK(file, age)
  BY DEF Lineage
<1>3. SameParents(file, file')
  <2>1. CASE obj[i].kept = Null
    BY <1>1, <1>2, <2>1, SameFiles
  <2>2. CASE obj[i].kept # Null
    <3>1. /\ file' = [file EXCEPT ![id] = obj[i].kept]
          /\ DOMAIN obj[i].kept = RecordFields /\ obj[i].kept.parent = Null
      BY <1>1, <2>2 DEF KeptFits
    <3>2. SameParents(file, file)
      BY <1>2, SameFiles
    <3>3. DOMAIN file' = Ids /\ \A c \in Ids : file'[c] = file[c] \/ file'[c] = obj[i].kept
      BY <3>1, <1>2 DEF FilesOK
    <3> QED BY <2>2, <3>1, <3>2, <3>3 DEF SameParents
  <2> QED BY <2>1, <2>2
<1>4. \A r \in Requests :
        /\ r \in removers => req'[r] = [req[r] EXCEPT !.pc = "heirs", !.slot = 0,
                                                      !.todo = Heirs(req[r].snap, id)]
        /\ r \notin removers => req'[r] = req[r] \/ req'[r].pc = "done"
  BY FieldsAre DEF TurnEnds, New
<1>5. DOMAIN req = Requests /\ DOMAIN req' = Requests
  BY DEF IInv, Types, Requests
<1>6. FilesOK(file', age)
  BY <1>2, <1>3, FilesStay
<1> HIDE DEF age
<1>7. ASSUME NEW r \in Requests PROVE RemovalOK(req'[r], bound.requests[r].id, file', age)
  <2>1. Id(r) \in Ids /\ bound.requests[r].id = Id(r)
    BY RequestsAre DEF IInv, Types, Id
  <2>2. RemovalOK(req[r], Id(r), file, age)
    BY <1>5, <2>1 DEF Lineage, age
  <2>3. RemovalOK(req[r], Id(r), file', age)
    BY <1>3, <2>1, <2>2, RemovalStays
  <2>4. CASE r \in removers
    <3>1. req[r].pc = "remove" /\ req[r].slot = i
      BY <2>4
    <3>2. Id(r) = id
      <4>1. entry[Id(r)] = i /\ entry[Id(r)] # 0
        BY <3>1, RegistryAssumption DEF IInv, Held, AtStep
      <4> QED BY <2>1, <4>1 DEF IInv, Held, Registered
    <3>3. /\ req'[r].pc = "heirs" /\ req'[r].snap = req[r].snap
          /\ req'[r].todo = Heirs(req[r].snap, Id(r))
      <4>1. DOMAIN req[r] = {"pc", "slot", "snap", "todo"}
        BY FieldsAre DEF IInv, Types, RequestOK
      <4>2. req'[r] = [req[r] EXCEPT !.pc = "heirs", !.slot = 0, !.todo = Heirs(req[r].snap, Id(r))]
        BY <1>4, <2>4, <3>2
      <4> QED BY <4>1, <4>2
    <3>4. Unmoved(req'[r], Id(r)) = Unmoved(req[r], Id(r)) /\ Heir(req'[r], Id(r)) = Heir(req[r], Id(r))
      BY <3>1, <3>3 DEF Unmoved, Heir
    <3> QED BY <2>1, <2>3, <3>1, <3>4 DEF RemovalOK
  <2>5. CASE r \notin removers
    BY <1>4, <2>1, <2>3, <2>5 DEF RemovalOK
  <2> QED BY <2>4, <2>5
<1> QED BY <1>5, <1>6, <1>7 DEF Lineage, age

\* A removal starts from the files as they are.
LEMMA ListingFits ==
  ASSUME NullIsNoFile, NEW age, FilesOK(file, age), NEW d \in Ids, Listed(d)
  PROVE  /\ Listing[d].parent # Null =>
              Listing[d].parent \in Ids /\ file[Listing[d].parent] # Null /\ age[Listing[d].parent] < age[d]
         /\ \A c \in Heirs(Listing, d) : c \in Ids /\ age[d] < age[c]
         /\ \A c \in Ids : (file[c] # Null /\ file[c].parent = d) => c \in Heirs(Listing, d)
<1>1. d # Null
  BY RegistryAssumption
<1>2. ASSUME NEW c \in Ids
      PROVE  /\ file[c] # Null => Listing[c].parent = file[c].parent /\ Listing[c] # Null
             /\ file[c] = Null /\ Listing[c] # Null => Listing[c].parent = Null
  <2> DEFINE line == PersistedInfo(c)
  <2>1. Listing[c] = IF file[c] # Null THEN line ELSE IF entry[c] # 0 THEN ActiveInfo ELSE Null
    BY DEF Listing, OnDisk
  <2>2. DOMAIN line = {"parent", "active"} /\ line.parent = file[c].parent
    BY DEF PersistedInfo
  <2>3. ActiveInfo.parent = Null
    BY DEF ActiveInfo
  <2> HIDE DEF line
  <2> QED BY <2>1, <2>2, <2>3 DEF NullIsNoFile
<1> QED BY <1>1, <1>2 DEF Heirs, Listed, FilesOK, Grows

LEMMA DeleteTree ==
  ASSUME NullIsNoFile, IInv, IInv', bound' = bound, Lineage(bound, file, req),
         NEW r \in Requests, DeleteIdle(r) \/ DeleteBusy(r)
  PROVE  Lineage(bound, file', req')
<1> DEFINE age == Age(bound)
           d == Id(r)
<1>1. DOMAIN req = Requests /\ DOMAIN req' = Requests
      /\ DOMAIN req[r] = {"pc", "slot", "snap", "todo"}
  BY FieldsAre DEF IInv, Types, Requests, RequestOK
<1>2. /\ file' = file
      /\ \A q \in Requests : q # r => req'[q] = req[q]
      /\ req'[r].snap = Listing
      /\ \/ req'[r].pc = "remove"
         \/ req'[r].pc = "heirs" /\ req'[r].todo = Heirs(Listing, d)
  <2>1. CASE DeleteIdle(r)
    BY <1>1, <2>1 DEF DeleteIdle
  <2>2. CASE DeleteBusy(r)
    BY <1>1, <2>2 DEF DeleteBusy
  <2> QED BY <2>1, <2>2
<1>3. d \in Ids /\ Listed(d) /\ \A q \in Requests : bound.requests[q].id = Id(q)
  <2>1. d \in Ids
    BY RequestsAre DEF IInv, Types, Id
  <2>2. Listed(d)
    <3>1. CASE DeleteIdle(r)
      BY <3>1 DEF DeleteIdle
    <3>2. CASE DeleteBusy(r)
      <4>1. entry[d] # 0
        BY <3>2 DEF DeleteBusy
      <4>2. Listing[d] = PersistedInfo(d) \/ Listing[d] = ActiveInfo
        BY <2>1, <4>1 DEF Listing
      <4>3. DOMAIN Listing[d] = {"parent", "active"}
        BY <4>2 DEF PersistedInfo, ActiveInfo
      <4> QED BY <4>3 DEF Listed, NullIsNoFile
    <3> QED BY <3>1, <3>2
  <2> QED BY <2>1, <2>2 DEF Id
<1>4. FilesOK(file, age)
  BY DEF Lineage
<1> HIDE DEF age, d
<1>5. Heir(req'[r], d) = Listing[d].parent /\ Unmoved(req'[r], d) = Heirs(Listing, d)
  BY <1>2 DEF Heir, Unmoved
<1>6. RemovalOK(req'[r], d, file, age)
  BY <1>3, <1>4, <1>5, ListingFits DEF RemovalOK
<1>7. \A q \in Requests : RemovalOK(req'[q], bound.requests[q].id, file, age)
  BY <1>1, <1>2, <1>3, <1>6 DEF Lineage, age, d
<1> QED BY <1>1, <1>2, <1>4, <1>7 DEF Lineage, age

\* Where requests come one after the other, nothing else is being removed.
LEMMA OneRemoval ==
  ASSUME IInv, bound.serial, NEW r \in Requests, NEW q \in Requests, q # r,
         req[r].pc = "heirs"
  PROVE  req[q].pc \notin {"remove", "heirs"}
<1>1. r \in Nat /\ q \in Nat /\ InTurn
  BY RequestsAre DEF IInv, Types, Held
<1>2. CASE q < r
  <2>1. Over(q)
    BY <1>1, <1>2 DEF InTurn
  <2> QED BY <2>1 DEF Over
<1>3. CASE r < q
  <2>1. req[q].pc # "new" => Over(r)
    BY <1>1, <1>3 DEF InTurn
  <2> QED BY <2>1 DEF Over
<1> QED BY <1>1, <1>2, <1>3

\* A child of the session becomes one of the session's parent, which is older.
LEMMA ReparentTree ==
  ASSUME NullIsNoFile, IInv, IInv', bound' = bound, bound.serial, Lineage(bound, file, req),
         Age(bound) \in [Ids -> Nat], NEW r \in Requests, Reparent(r)
  PROVE  Lineage(bound, file', req')
<1> DEFINE age == Age(bound)
           d == Id(r)
           p == ParentOf(r)
<1>1. DOMAIN req = Requests /\ DOMAIN req' = Requests
      /\ DOMAIN req[r] = {"pc", "slot", "snap", "todo"}
  BY FieldsAre DEF IInv, Types, Requests, RequestOK
<1>2. d \in Ids /\ d # Null /\ \A q \in Requests : bound.requests[q].id = Id(q)
  BY RequestsAre, RegistryAssumption DEF IInv, Types, Id
<1>3. req[r].pc = "heirs" /\ FilesOK(file, age) /\ RemovalOK(req[r], d, file, age)
  BY <1>1, <1>2 DEF Reparent, Lineage
<1>4. PICK c \in req[r].todo :
        \/ file[c] = Null /\ req' = FailedAll({r}) /\ file' = file
        \/ /\ file[c] # Null /\ file' = [file EXCEPT ![c].parent = p]
           /\ req' = [req EXCEPT ![r].todo = @ \ {c}]
  BY DEF Reparent
<1>5. CASE file[c] = Null /\ req' = FailedAll({r}) /\ file' = file
  <2>1. \A q \in Requests : req'[q] = req[q] \/ req'[q].pc \notin {"remove", "heirs"}
    BY <1>5, FieldsAre DEF FailedAll, New
  <2>2. SameParents(file, file')
    BY <1>3, <1>5, SameFiles
  <2> QED BY <2>1, <2>2, CalmStep
<1>6. CASE /\ file[c] # Null /\ file' = [file EXCEPT ![c].parent = p]
           /\ req' = [req EXCEPT ![r].todo = @ \ {c}]
  <2>1. /\ p = Heir(req[r], d) /\ Unmoved(req[r], d) = req[r].todo
        /\ p # Null => p \in Ids /\ file[p] # Null /\ age[p] < age[d]
        /\ \A x \in req[r].todo : x \in Ids /\ age[d] < age[x]
        /\ \A x \in Ids : (file[x] # Null /\ file[x].parent = d) => x \in req[r].todo
    BY <1>3 DEF RemovalOK, Heir, Unmoved, ParentOf
  <2>2. age \in [Ids -> Nat]
    OBVIOUS
  <2> HIDE DEF age, d, p
  <2>3. c \in Ids /\ DOMAIN file = Ids /\ DOMAIN file[c] = RecordFields
    BY <1>3, <1>6, <2>1 DEF FilesOK
  <2>4. /\ DOMAIN file' = Ids /\ \A x \in Ids : x # c => file'[x] = file[x]
        /\ file'[c] = [file[c] EXCEPT !.parent = p]
    BY <1>6, <2>3
  <2>5. DOMAIN file'[c] = RecordFields /\ file'[c].parent = p /\ file'[c] # Null
    <3>1. DOMAIN file'[c] = RecordFields /\ file'[c].parent = p
      BY <2>3, <2>4 DEF RecordFields
    <3> QED BY <3>1 DEF NullIsNoFile
  <2>6. \A x \in Ids : file[x] # Null => file'[x] # Null
    BY <2>4, <2>5
  <2>7. p # Null => age[p] < age[c] /\ p # d
    BY <1>2, <2>1, <2>2, <2>3
  <2>8. FilesOK(file', age)
    <3>1. ASSUME NEW x \in Ids, file'[x] # Null
          PROVE  /\ DOMAIN file'[x] = RecordFields
                 /\ file'[x].parent # Null => /\ file'[x].parent \in Ids
                                              /\ file'[file'[x].parent] # Null
                                              /\ age[file'[x].parent] < age[x]
      <4>1. CASE x = c
        BY <2>1, <2>5, <2>6, <2>7, <4>1
      <4>2. CASE x # c
        BY <1>3, <2>4, <2>6, <3>1, <4>2 DEF FilesOK, Grows
      <4> QED BY <4>1, <4>2
    <3> QED BY <2>4, <3>1 DEF FilesOK, Grows
  <2>9. /\ req'[r].pc = "heirs" /\ req'[r].snap = req[r].snap /\ req'[r].todo = req[r].todo \ {c}
        /\ \A q \in Requests : q # r => req'[q] = req[q]
    BY <1>1, <1>3, <1>6
  <2>10. RemovalOK(req'[r], d, file', age)
    <3>1. Heir(req'[r], d) = p /\ Unmoved(req'[r], d) = req[r].todo \ {c}
      BY <2>1, <2>9 DEF Heir, Unmoved
    <3>2. \A x \in Ids : (file'[x] # Null /\ file'[x].parent = d) => x \in req[r].todo \ {c}
      BY <1>2, <2>1, <2>4, <2>5, <2>7
    <3> QED BY <2>1, <2>6, <3>1, <3>2 DEF RemovalOK
  <2>11. ASSUME NEW q \in Requests PROVE RemovalOK(req'[q], bound.requests[q].id, file', age)
    <3>1. CASE q = r
      BY <1>2, <2>10, <3>1 DEF d
    <3>2. CASE q # r
      BY <1>3, <2>9, <3>2, OneRemoval DEF RemovalOK
    <3> QED BY <3>1, <3>2
  <2> QED BY <1>1, <2>8, <2>11 DEF Lineage, age
<1> QED BY <1>4, <1>5, <1>6

\* When all children are moved, the session is nobody's parent.
LEMMA EraseTree ==
  ASSUME IInv, IInv', bound' = bound, bound.serial, Lineage(bound, file, req),
         NEW r \in Requests, Erase(r)
  PROVE  Lineage(bound, file', req')
<1> DEFINE age == Age(bound)
           d == Id(r)
<1>1. DOMAIN req = Requests /\ DOMAIN req' = Requests
  BY DEF IInv, Types, Requests
<1>2. d \in Ids /\ d # Null /\ \A q \in Requests : bound.requests[q].id = Id(q)
  BY RequestsAre, RegistryAssumption DEF IInv, Types, Id
<1>3. req[r].pc = "heirs" /\ req[r].todo = {} /\ FilesOK(file, age) /\ RemovalOK(req[r], d, file, age)
  BY <1>1, <1>2 DEF Erase, MayErase, Lineage
<1>4. file' = [file EXCEPT ![d] = Null]
  BY DEF Erase
<1>5. req'[r].pc \in {"done", "failed"} /\ \A q \in Requests : q # r => req'[q] = req[q]
  BY FieldsAre DEF Erase, FailedAll, Finished, New
<1> HIDE DEF age, d
<1>6. \A x \in Ids : file[x] # Null => file[x].parent # d
  BY <1>3 DEF RemovalOK, Unmoved
<1>7. /\ DOMAIN file' = Ids /\ file'[d] = Null
      /\ \A x \in Ids : x # d => file'[x] = file[x]
  BY <1>2, <1>3, <1>4 DEF FilesOK
<1>8. FilesOK(file', age)
  <2>1. ASSUME NEW x \in Ids, file'[x] # Null
        PROVE  /\ DOMAIN file'[x] = RecordFields
               /\ file'[x].parent # Null => /\ file'[x].parent \in Ids
                                            /\ file'[file'[x].parent] # Null
                                            /\ age[file'[x].parent] < age[x]
    <3>1. x # d /\ file'[x] = file[x] /\ file[x] # Null
      BY <1>7, <2>1
    <3> QED BY <1>3, <1>6, <1>7, <3>1 DEF FilesOK, Grows
  <2> QED BY <1>7, <2>1 DEF FilesOK, Grows
<1>9. ASSUME NEW q \in Requests PROVE RemovalOK(req'[q], bound.requests[q].id, file', age)
  <2>1. CASE q = r
    BY <1>5, <2>1 DEF RemovalOK
  <2>2. CASE q # r
    BY <1>3, <1>5, <2>2, OneRemoval DEF RemovalOK
  <2> QED BY <2>1, <2>2
<1> QED BY <1>1, <1>8, <1>9 DEF Lineage, age

LEMMA HandledTree ==
  ASSUME NullIsNoFile, IInv, IInv', bound' = bound, bound.serial, Lineage(bound, file, req),
         Age(bound) \in [Ids -> Nat], NEW r \in Requests, Handled(r)
  PROVE  Lineage(bound, file', req')
<1>1. FilesOK(file, Age(bound))
  BY DEF Lineage
<1>2. SameParents(file, file)
  BY <1>1, SameFiles
<1>3. DOMAIN req = Requests /\ entry[Id(r)] \in Slots \union {0}
  BY RequestsAre DEF IInv, Types, Entries
<1> DEFINE Calm == \A q \in Requests : req'[q] = req[q] \/ req'[q].pc \notin {"remove", "heirs"}
<1>4. ASSUME NEW R, req' = Finished(R) \/ req' = FailedAll(R) PROVE Calm
  BY <1>4, FieldsAre DEF Finished, FailedAll, New
<1>5. CASE OpenActive(r)
  <2>1. entry[Id(r)] \in Slots /\ Served({r}, entry[Id(r)]) /\ req' = Finished({r})
    BY <1>3, <1>5 DEF OpenActive, Proceed
  <2>2. Calm
    BY <1>4, <2>1
  <2>3. SameParents(file, file')
    BY <1>1, <2>1, ServedParents
  <2> QED BY <2>2, <2>3, CalmStep
<1>6. CASE Abort(r) \/ OpenJoins(r) \/ OpenStart(r) \/ OpenBuild(r) \/ Create(r)
  <2>1. file' = file /\ \E pc \in {"abort", "join", "list", "built"} :
          \/ req' = To(r, pc) \/ \E i : req' = [req EXCEPT ![r].pc = pc, ![r].slot = i]
    BY <1>6 DEF Abort, OpenJoins, OpenStart, OpenBuild, Create
  <2>2. Calm
    BY <1>3, <2>1, FieldsAre DEF To, IInv, Types, RequestOK
  <2> QED BY <1>2, <2>1, <2>2, CalmStep
<1>7. CASE OpenMissing(r) \/ DeleteMissing(r)
  <2>1. file' = file /\ \E R : req' = FailedAll(R)
    BY <1>7 DEF OpenMissing, DeleteMissing
  <2>2. Calm
    BY <1>4, <2>1
  <2> QED BY <1>2, <2>1, <2>2, CalmStep
<1>8. CASE Register(r)
  <2>1. CASE entry[Id(r)] # 0
    <3>1. entry[Id(r)] \in Slots /\ Served(Joined(r), entry[Id(r)]) /\ req' = Finished(Joined(r))
      BY <1>3, <1>8, <2>1 DEF Register, Proceed
    <3>2. Calm
      BY <1>4, <3>1
    <3>3. SameParents(file, file')
      BY <1>1, <3>1, ServedParents
    <3> QED BY <3>2, <3>3, CalmStep
  <2>2. CASE entry[Id(r)] = 0
    <3>1. file' = file /\ req' = [req EXCEPT ![r].pc = "bind"]
      BY <1>8, <2>2 DEF Register, To
    <3>2. Calm
      BY <1>3, <3>1, FieldsAre DEF IInv, Types, RequestOK
    <3> QED BY <1>2, <3>1, <3>2, CalmStep
  <2> QED BY <2>1, <2>2
<1>9. CASE Bound(r)
  <2>1. PICK R : Served(R, req[r].slot) /\ req' = Finished(R)
    BY <1>9 DEF Bound, Proceed
  <2>2. req[r].slot \in Slots
    BY <1>9 DEF Bound, IInv, Held, AtStep
  <2>3. Calm
    BY <1>4, <2>1
  <2>4. SameParents(file, file')
    BY <1>1, <2>1, <2>2, ServedParents
  <2> QED BY <2>3, <2>4, CalmStep
<1>10. CASE DeleteIdle(r) \/ DeleteBusy(r)
  BY <1>10, DeleteTree
<1>11. CASE Reparent(r)
  BY <1>11, ReparentTree
<1>12. CASE Erase(r)
  BY <1>12, EraseTree
<1> QED BY <1>5, <1>6, <1>7, <1>8, <1>9, <1>10, <1>11, <1>12 DEF Handled

LEMMA NextTree ==
  ASSUME NullIsNoFile, IInv, IInv', Guarded(bound, file, obj), Forest, Lineage(bound, file, req),
         [Next]_vars
  PROVE  Lineage(bound, file', req')
<1>1. bound' = bound /\ bound.serial /\ Age(bound) \in [Ids -> Nat]
  BY BoundStays, AgeIs DEF Forest
<1>2. SameParents(file, file)
  BY SameFiles DEF Lineage
<1>3. CASE \E r \in Requests : Handled(r)
  BY <1>1, <1>3, HandledTree
<1>4. CASE \E i \in Slots : TurnEnds(i)
  BY <1>1, <1>4, TurnEndsTree
<1>5. CASE Crash
  <2>1. file' = file /\ \A q \in Requests : req'[q] = req[q] \/ req'[q].pc = "failed"
    BY <1>5, FieldsAre DEF Crash, New
  <2> QED BY <1>1, <1>2, <2>1, CalmStep
<1>6. CASE file' = file /\ req' = req
  BY <1>1, <1>2, <1>6, CalmStep
<1>7. CASE \E i \in Slots :
             \/ Prepare(i) \/ RequestApproval(i) \/ Skip(i) \/ Launch(i)
             \/ Execute(i) \/ AskUser(i) \/ Delegate(i) \/ ChildEnds(i)
  BY <1>6, <1>7 DEF Prepare, RequestApproval, Skip, Launch, Execute, AskUser, Delegate, ChildEnds
<1>8. CASE \/ \E w \in ToSet(waiting) : ApprovalTimeout(w)
           \/ \E id \in Ids : QuestionTimeout(id)
           \/ \E yes \in BOOLEAN : Approve(yes)
           \/ \E picks \in Picks : Answer(picks)
  BY <1>6, <1>8 DEF ApprovalTimeout, QuestionTimeout, Approve, Answer
<1>9. CASE ReadEvent \/ Reload \/ LoadAnswered \/ LoadShown \/ ApproveReturns
             \/ AnswerReturns \/ Rest \/ UNCHANGED vars
  BY <1>6, <1>9 DEF ReadEvent, Reload, LoadAnswered, LoadShown, ApproveReturns, AnswerReturns, Rest, vars
<1> QED BY <1>3, <1>4, <1>5, <1>7, <1>8, <1>9 DEF Next

\* The invariant of all three theorems.
TreeInv == ApprovedInv /\ (Forest => Lineage(bound, file, req))

LEMMA TreeInit == Init => TreeInv
<1> SUFFICES ASSUME Init PROVE TreeInv
  OBVIOUS
<1>1. ApprovedInv /\ bound \in Scenarios /\ file = bound.files
  BY ApprovedInit DEF Init
<1>2. ASSUME Forest PROVE Lineage(bound, file, req)
  <2>1. Age(bound) \in [Ids -> Nat] /\ Grows(bound.files, Age(bound))
    BY <1>2, AgeIs DEF Forest
  <2>2. FilesOK(file, Age(bound))
    BY <1>1, <1>2, <2>1, RegistryAssumption DEF FilesOK, Forest, Rooted, RecordFields
  <2>3. req = [r \in Requests |-> New] /\ New.pc = "new"
    BY DEF Init, New
  <2>4. \A r \in DOMAIN req : req[r].pc \notin {"remove", "heirs"}
    BY <2>3
  <2> QED BY <2>2, <2>4 DEF Lineage, RemovalOK
<1> QED BY <1>1, <1>2 DEF TreeInv

LEMMA TreeNext ==
  ASSUME NullIsNoFile
  PROVE  TreeInv /\ [Next]_vars => TreeInv'
<1> SUFFICES ASSUME TreeInv, [Next]_vars PROVE TreeInv'
  OBVIOUS
<1>1. ApprovedInv /\ ApprovedInv'
  BY ApprovedNext DEF TreeInv
<1>2. IInv /\ IInv' /\ Guarded(bound, file, obj)
  BY <1>1 DEF ApprovedInv
<1>3. bound' = bound /\ (Forest' <=> Forest)
  BY BoundStays DEF Forest
<1>4. Forest => Lineage(bound, file', req')
  BY <1>2, NextTree DEF TreeInv
<1> QED BY <1>1, <1>3, <1>4 DEF TreeInv

LEMMA TreeFollows == TreeInv => (Forest => TreeWhole)
BY DEF TreeInv, Lineage, FilesOK, TreeWhole

\* A session's parent is always a session that exists: whatever deletions, one after the
\* other, overlap with turns that write their file, changes of the model and restarts at any
\* point between two headers, for every tree of sessions (reparentAndDelete).
THEOREM DeletionsKeepTheTree ==
  ASSUME NullIsNoFile
  PROVE  Spec => [](Forest => TreeWhole)
<1> QED BY TreeInit, TreeNext, TreeFollows, PTL DEF Spec

-----------------------------------------------------------------------------
(* Sessions and their presets *)

\* What a body or a line says is what was asked for.
Asked(c, want) ==
  /\ c.extensions \in [ExtensionKeys -> BOOLEAN] /\ c.tools \in OrNull(SUBSET BuiltinTools)
  /\ c.compaction \in OrNull(Compaction)
  /\ c.compaction # Null => c.compaction.reserve > 0
  /\ want.can = CapabilitiesOf(c.extensions, c.mcp)
  /\ want.servers = c.mcp /\ want.tools = c.tools
  /\ (want.prompt = "") = (c.prompt = Null)
  /\ want.capped => ~Stock(c.extensions)
  /\ want.off => c.compaction # Null /\ ~c.compaction.enabled

LEMMA ResolvedIs ==
  ASSUME NEW c \in Compaction, c.reserve > 0, NEW w \in Windows
  PROVE  /\ Resolved(c, w) \in Compaction /\ Resolved(c, w).reserve > 0
         /\ Resolved(c, w).enabled = c.enabled
         /\ w # Null /\ c.enabled => w - Resolved(c, w).reserve <= Smaller(w, Trigger)
<1>1. CASE ~c.enabled \/ w = Null
  BY <1>1 DEF Resolved
<1>2. CASE c.enabled /\ w # Null
  <2> DEFINE reserve == IF w > Trigger THEN Larger(c.reserve, w - Trigger) ELSE c.reserve
             keep == Smaller(c.keep, Larger(0, w - reserve - KeepMargin))
  <2>1. w \in Int /\ c.reserve \in Int /\ c.keep \in Int /\ c.enabled = TRUE
    BY <1>2 DEF Windows, OrNull, Compaction
  <2>2. reserve \in Int /\ reserve > 0 /\ w - reserve <= Smaller(w, Trigger)
    BY <2>1 DEF Larger, Smaller, Trigger
  <2>3. keep \in Int
    BY <2>1, <2>2 DEF Larger, Smaller, KeepMargin
  <2>4. Resolved(c, w) = [enabled |-> TRUE, reserve |-> reserve, keep |-> keep]
    BY <1>2 DEF Resolved
  <2> HIDE DEF reserve, keep
  <2>5. /\ Resolved(c, w) \in Compaction /\ Resolved(c, w).reserve = reserve
        /\ Resolved(c, w).enabled = TRUE
    BY <2>2, <2>3, <2>4 DEF Compaction
  <2> QED BY <2>1, <2>2, <2>5
<1> QED BY <1>1, <1>2

LEMMA CompactedIs ==
  ASSUME NEW e, NEW c \in OrNull(Compaction), c # Null => c.reserve > 0, NEW w \in Windows
  PROVE  LET k == Compacted(e, c, w)
         IN /\ k \in OrNull(Compaction) /\ (k # Null => k.reserve > 0)
            /\ c # Null => k # Null /\ k.enabled = c.enabled
            /\ ~Stock(e) => /\ k # Null
                            /\ w # Null /\ k.enabled => w - k.reserve <= Smaller(w, Trigger)
<1>1. CASE Stock(e)
  BY <1>1 DEF Compacted
<1>2. CASE ~Stock(e)
  <2> DEFINE d == IF c = Null THEN Defaults ELSE c
  <2>1. d \in Compaction /\ d.reserve > 0 /\ (c # Null => d = c)
    BY DEF OrNull, Compaction, Defaults
  <2>2. Compacted(e, c, w) = Resolved(d, w)
    BY <1>2 DEF Compacted
  <2> HIDE DEF d
  <2>3. /\ Resolved(d, w) \in Compaction /\ Resolved(d, w).reserve > 0
        /\ Resolved(d, w).enabled = d.enabled
        /\ w # Null /\ d.enabled => w - Resolved(d, w).reserve <= Smaller(w, Trigger)
    BY <2>1, ResolvedIs
  <2>4. Resolved(d, w) # Null
    BY <2>3, SettingsAssumption
  <2> QED BY <1>2, <2>1, <2>2, <2>3, <2>4 DEF OrNull
<1> QED BY <1>1, <1>2

\* A session that is assembled of it, for whatever window, is what was asked for.
LEMMA AskedFits ==
  ASSUME NEW c, NEW want, Asked(c, want), NEW w \in Windows
  PROVE  Fits(Assembled(c.extensions, c.tools, c.prompt,
                        Compacted(c.extensions, c.compaction, w), c.mcp), want, w)
<1> DEFINE k == Compacted(c.extensions, c.compaction, w)
           s == Assembled(c.extensions, c.tools, c.prompt, k, c.mcp)
<1>0. c.compaction \in OrNull(Compaction) /\ (c.compaction # Null => c.compaction.reserve > 0)
  BY DEF Asked
<1>1. /\ k \in OrNull(Compaction) /\ (k # Null => k.reserve > 0)
      /\ c.compaction # Null => k # Null /\ k.enabled = c.compaction.enabled
      /\ ~Stock(c.extensions) => /\ k # Null
                                 /\ w # Null /\ k.enabled => w - k.reserve <= Smaller(w, Trigger)
  BY <1>0, CompactedIs
<1> HIDE DEF k
<1>2. /\ s.can = CapabilitiesOf(c.extensions, c.mcp) /\ s.servers = c.mcp /\ s.prompt = c.prompt
      /\ s.compaction = k /\ s.tools = WithInlineTools(c.tools, c.extensions, c.mcp)
  BY DEF Assembled
<1> HIDE DEF s
<1> DEFINE inline == InlineTools(c.extensions, c.mcp)
<1>3. inline \subseteq ServerTools
  BY DEF InlineTools, ServerTools
<1>4. s.tools = IF c.tools = Null THEN Null ELSE c.tools \union inline
  BY <1>2 DEF WithInlineTools
<1> HIDE DEF inline
<1>5. c.tools # Null => s.tools # Null /\ s.tools \ ServerTools = c.tools
  <2> SUFFICES ASSUME c.tools # Null PROVE s.tools # Null /\ s.tools \ ServerTools = c.tools
    OBVIOUS
  <2>1. c.tools \subseteq BuiltinTools
    BY DEF Asked, OrNull
  <2>2. s.tools \in SUBSET (BuiltinTools \union ServerTools)
    BY <1>3, <1>4, <2>1
  <2>3. s.tools # Null
    BY <2>2, SettingsAssumption
  <2>4. BuiltinTools \intersect ServerTools = {}
    BY SettingsAssumption
  <2> QED BY <1>3, <1>4, <2>1, <2>3, <2>4
<1>6. (want.tools = Null) = (s.tools = Null)
  BY <1>4, <1>5 DEF Asked
<1>7. want.off => s.compaction # Null /\ ~s.compaction.enabled
  BY <1>1, <1>2 DEF Asked
<1>8. (want.capped /\ w # Null /\ s.compaction.enabled) =>
        w - s.compaction.reserve <= Smaller(w, Trigger)
  BY <1>1, <1>2 DEF Asked
<1>9. s.can = want.can /\ s.servers = want.servers /\ (want.prompt = "") = (s.prompt = Null)
  BY <1>2 DEF Asked
<1>10. want.tools # Null => s.tools \ ServerTools = want.tools
  BY <1>5 DEF Asked
<1>11. Fits(s, want, w)
  BY <1>6, <1>7, <1>8, <1>9, <1>10 DEF Fits
<1> QED BY <1>11 DEF s, k

\* The line of a session says what its body did.
LEMMA LineIsAsked ==
  ASSUME NEW body, NEW want, Asked(body, want), body.window \in Windows,
         body.prompt \in OrNull(Texts), body.mcp \in OrNull(SUBSET STRING)
  PROVE  Asked(Line(body), want) /\ Line(body) # Null
<1> DEFINE k == Compacted(body.extensions, body.compaction, body.window)
           c == ConfigOf(body)
<1>0. /\ body.compaction \in OrNull(Compaction)
      /\ body.compaction # Null => body.compaction.reserve > 0
  BY DEF Asked
<1>1. /\ k \in OrNull(Compaction) /\ (k # Null => k.reserve > 0)
      /\ body.compaction # Null => k # Null /\ k.enabled = body.compaction.enabled
  BY <1>0, CompactedIs
<1> HIDE DEF k
<1>2. c = [extensions |-> body.extensions, tools |-> body.tools, prompt |-> body.prompt,
           compaction |-> k, mcp |-> body.mcp]
  BY DEF ConfigOf, k
<1> HIDE DEF c
<1>3. /\ c.extensions = body.extensions /\ c.tools = body.tools /\ c.prompt = body.prompt
      /\ c.compaction = k /\ c.mcp = body.mcp
  BY <1>2
<1>4. c \in SessionLine
  BY <1>1, <1>2 DEF SessionLine, Asked
<1>5. c # Null
  BY <1>4, SettingsAssumption
<1>6. c # NoConfig
  <2>1. c.extensions # Null
    BY <1>3, SettingsAssumption DEF Asked
  <2> QED BY <2>1 DEF NoConfig
<1>7. Line(body) = c
  BY <1>6 DEF Line, c
<1>8. Asked(c, want)
  BY <1>1, <1>3 DEF Asked
<1> QED BY <1>5, <1>7, <1>8

\* A preset that is asked for.
AskedPreset ==
  [able : [CapabilityKeys -> BOOLEAN], tools : OrNull(SUBSET BuiltinTools), prompt : Texts,
   compaction : OrNull(Compaction), mcp : OrNull(SUBSET STRING)]

\* A preset that can be switched off in the form comes back from it switched off.
OffIsOff(p) == p.compaction # Null /\ ~p.compaction.enabled => p.compaction = Strategies.off

LEMMA ExtensionsAre ==
  ASSUME NEW able \in [CapabilityKeys -> BOOLEAN]
  PROVE  /\ Extensions(able) \in [ExtensionKeys -> BOOLEAN]
         /\ \A k \in CapabilityKeys : On(Extensions(able), ExtensionKey[k]) = able[k]
         /\ Stock(Extensions(able)) = ~\E k \in CapabilityKeys : able[k]
<1>1. \A k, l \in CapabilityKeys : ExtensionKey[k] = ExtensionKey[l] => k = l
  BY DEF CapabilityKeys, ExtensionKey
<1>2. ASSUME NEW k \in CapabilityKeys
      PROVE  (CHOOSE l \in CapabilityKeys : ExtensionKey[l] = ExtensionKey[k]) = k
  BY <1>1
<1>3. ASSUME NEW e \in ExtensionKeys
      PROVE  (CHOOSE l \in CapabilityKeys : ExtensionKey[l] = e) \in CapabilityKeys
  BY DEF ExtensionKeys
<1>4. Extensions(able) \in [ExtensionKeys -> BOOLEAN]
  BY <1>3 DEF Extensions
<1>5. \A k \in CapabilityKeys : ExtensionKey[k] \in ExtensionKeys
  BY DEF ExtensionKeys
<1>6. \A k \in CapabilityKeys : Extensions(able)[ExtensionKey[k]] = able[k]
  BY <1>2, <1>5 DEF Extensions
<1>7. Extensions(able) # Null
  BY <1>4, SettingsAssumption
<1>8. \A e \in ExtensionKeys : On(Extensions(able), e) = Extensions(able)[e]
  BY <1>7 DEF On
<1>9. Stock(Extensions(able)) = ~\E k \in CapabilityKeys : able[k]
  BY <1>5, <1>6, <1>8 DEF Stock, Enabled, ExtensionKeys
<1> QED BY <1>4, <1>5, <1>6, <1>8, <1>9

LEMMA PresetsAre ==
  ASSUME NEW b \in Scenarios, NEW preset \in Presets(b.stored),
         \A p \in b.stored : OffIsOff(p)
  PROVE  preset \in AskedPreset /\ OffIsOff(preset)
<1>1. CodingAgent \in AskedPreset /\ OffIsOff(CodingAgent)
  <2>1. Strategies.auto \in Compaction /\ Strategies.auto.enabled = TRUE
    BY DEF Strategies, Compaction
  <2>2. AllOn \in [CapabilityKeys -> BOOLEAN] /\ {"read", "bash"} \in SUBSET BuiltinTools
    BY DEF AllOn, BuiltinTools
  <2>3. CodingAgent = [able |-> AllOn, tools |-> {"read", "bash"}, prompt |-> "",
                       compaction |-> Strategies.auto, mcp |-> Null]
    BY DEF CodingAgent, Preset
  <2>4. CodingAgent \in AskedPreset /\ CodingAgent.compaction.enabled = TRUE
    <3>1. /\ {"read", "bash"} \in OrNull(SUBSET BuiltinTools) /\ Null \in OrNull(SUBSET STRING)
          /\ Strategies.auto \in OrNull(Compaction) /\ "" \in Texts
      BY <2>1, <2>2 DEF OrNull, Texts
    <3> QED BY <2>1, <2>2, <2>3, <3>1 DEF AskedPreset
  <2> QED BY <2>4 DEF OffIsOff
<1>2. Minimal \in AskedPreset /\ OffIsOff(Minimal)
  <2> DEFINE none == [k \in CapabilityKeys |-> FALSE]
  <2>1. none \in [CapabilityKeys -> BOOLEAN]
    OBVIOUS
  <2>2. Minimal = [able |-> none, tools |-> Null, prompt |-> "", compaction |-> Null, mcp |-> {}]
    BY DEF Minimal, Preset
  <2> HIDE DEF none
  <2>3. Minimal \in AskedPreset /\ Minimal.compaction = Null
    <3>1. /\ Null \in OrNull(SUBSET BuiltinTools) /\ {} \in OrNull(SUBSET STRING)
          /\ Null \in OrNull(Compaction) /\ "" \in Texts
      BY DEF OrNull, Texts
    <3> QED BY <2>1, <2>2, <3>1 DEF AskedPreset
  <2> QED BY <2>3 DEF OffIsOff
<1>3. ASSUME NEW p \in b.stored PROVE Parsed(p) \in AskedPreset /\ OffIsOff(Parsed(p))
  <2>1. p \in StoredPreset /\ OffIsOff(p)
    BY SettingsAssumption
  <2> DEFINE able == IF p.able = Null THEN AllOn ELSE p.able
  <2>2. able \in [CapabilityKeys -> BOOLEAN]
    BY <2>1 DEF StoredPreset, OrNull, AllOn
  <2>3. Parsed(p) = [p EXCEPT !.able = able]
    BY DEF Parsed
  <2> HIDE DEF able
  <2>4. Parsed(p) \in AskedPreset /\ Parsed(p).compaction = p.compaction
    BY <2>1, <2>2, <2>3 DEF StoredPreset, AskedPreset
  <2> QED BY <2>1, <2>4 DEF OffIsOff
<1>4. preset \in {CodingAgent, Minimal} \/ \E p \in b.stored : preset = Parsed(p)
  BY DEF Presets
<1> QED BY <1>1, <1>2, <1>3, <1>4

\* The form gives back what it was given, but for a compaction of no strategy.
LEMMA FormKeeps ==
  ASSUME NEW p \in AskedPreset
  PROVE  LET q == Input(Draft(p))
         IN /\ q \in AskedPreset
            /\ q.able = p.able /\ q.tools = p.tools /\ q.prompt = p.prompt /\ q.mcp = p.mcp
            /\ q.compaction = p.compaction \/ q.compaction = Null
            /\ p.compaction = Strategies.off => q.compaction = p.compaction
<1> DEFINE d == Draft(p)
           q == Input(d)
           s == StrategyOf(p.compaction)
<1>1. /\ d.able = p.able /\ d.prompt = p.prompt /\ d.strategy = s
      /\ d.toolMode = Mode(p.tools, "list") /\ d.tools = Ticked(p.tools)
      /\ d.mcpMode = Mode(p.mcp, "custom") /\ d.mcp = Ticked(p.mcp)
  BY DEF Draft
<1> HIDE DEF d, s
<1>2. Names(d.toolMode, d.tools) = p.tools
  BY <1>1 DEF Names, Mode, Ticked
<1>3. Names(d.mcpMode, d.mcp) = p.mcp
  BY <1>1 DEF Names, Mode, Ticked
<1> DEFINE c == IF d.strategy = "follow" THEN Null ELSE Strategies[d.strategy]
           same == {x \in DOMAIN Strategies : Strategies[x] = p.compaction}
<1>4. s = IF same = {} THEN "follow" ELSE CHOOSE x \in same : TRUE
  BY DEF s, StrategyOf
<1>5. DOMAIN Strategies = {"auto", "off", "aggressive", "conservative"}
  BY DEF Strategies
<1>6. same # {} => s \in same
  BY <1>4
<1>7. c = p.compaction \/ c = Null
  <2>1. same # {} => Strategies[s] = p.compaction /\ s # "follow"
    BY <1>5, <1>6
  <2>2. same = {} => s = "follow"
    BY <1>4
  <2> QED BY <1>1, <2>1, <2>2
<1>8. p.compaction = Strategies.off => c = p.compaction
  <2> SUFFICES ASSUME p.compaction = Strategies.off PROVE c = p.compaction
    OBVIOUS
  <2>1. "off" \in same
    BY <1>5
  <2>2. Strategies[s] = p.compaction /\ s # "follow"
    BY <1>5, <1>6, <2>1
  <2> QED BY <1>1, <2>2
<1> HIDE DEF c, same
<1>9. q = [able |-> p.able, tools |-> p.tools, prompt |-> p.prompt, compaction |-> c, mcp |-> p.mcp]
  BY <1>1, <1>2, <1>3 DEF Input, Preset, c
<1> HIDE DEF q
<1>10. c \in OrNull(Compaction)
  BY <1>7 DEF OrNull, AskedPreset
<1>11. q \in AskedPreset /\ q.able = p.able /\ q.tools = p.tools /\ q.prompt = p.prompt /\ q.mcp = p.mcp
       /\ q.compaction = c
  BY <1>9, <1>10 DEF AskedPreset
<1> QED BY <1>7, <1>8, <1>11 DEF q, d

\* The body that is made of a preset asks for what the preset does.
LEMMA BodyIsAsked ==
  ASSUME NEW p \in AskedPreset, NEW q \in AskedPreset, NEW w \in Windows,
         q.able = p.able, q.tools = p.tools, q.prompt = p.prompt, q.mcp = p.mcp,
         p.compaction # Null /\ ~p.compaction.enabled => q.compaction = p.compaction,
         Positive(q.compaction)
  PROVE  LET body == Body(q, w)
         IN /\ Asked(body, Chosen(p)) /\ body.window = w
            /\ body.prompt \in OrNull(Texts) /\ body.mcp \in OrNull(SUBSET STRING)
<1> DEFINE body == Body(q, w)
           want == Chosen(p)
           e == Extensions(q.able)
<1>1. /\ body.extensions = e /\ body.tools = q.tools /\ body.compaction = q.compaction
      /\ body.mcp = q.mcp /\ body.window = w
      /\ body.prompt = IF q.prompt = "" THEN Null ELSE q.prompt
  BY DEF Body
<1> HIDE DEF body
<1>2. /\ want.can = [on |-> {k \in CapabilityKeys : p.able[k]}, mcp |-> p.mcp # {}]
      /\ want.tools = p.tools /\ want.prompt = p.prompt /\ want.servers = p.mcp
      /\ want.capped = \E k \in CapabilityKeys : p.able[k]
      /\ want.off = (p.compaction # Null /\ ~p.compaction.enabled)
  BY DEF Chosen
<1> HIDE DEF want
<1>3. q.able \in [CapabilityKeys -> BOOLEAN]
  BY DEF AskedPreset
<1>4. /\ e \in [ExtensionKeys -> BOOLEAN]
      /\ \A k \in CapabilityKeys : On(e, ExtensionKey[k]) = q.able[k]
      /\ Stock(e) = ~\E k \in CapabilityKeys : q.able[k]
  BY <1>3, ExtensionsAre
<1> HIDE DEF e
<1>5. CapabilitiesOf(e, q.mcp) = [on |-> {k \in CapabilityKeys : q.able[k]}, mcp |-> q.mcp # {}]
  <2>1. {k \in CapabilityKeys : On(e, ExtensionKey[k])} = {k \in CapabilityKeys : q.able[k]}
    BY <1>4
  <2> QED BY <2>1 DEF CapabilitiesOf
<1>6. want.can = CapabilitiesOf(body.extensions, body.mcp)
  BY <1>1, <1>2, <1>5
<1>7. body.prompt \in OrNull(Texts) /\ (want.prompt = "") = (body.prompt = Null)
  <2>1. q.prompt \in Texts /\ q.prompt # Null
    BY SettingsAssumption DEF AskedPreset
  <2>2. body.prompt \in OrNull(Texts)
    BY <1>1, <2>1 DEF OrNull
  <2>3. (want.prompt = "") <=> (body.prompt = Null)
    BY <1>1, <1>2, <2>1
  <2> QED BY <2>2, <2>3
<1>8. /\ body.tools \in OrNull(SUBSET BuiltinTools) /\ body.compaction \in OrNull(Compaction)
      /\ body.mcp \in OrNull(SUBSET STRING) /\ (body.compaction # Null => body.compaction.reserve > 0)
  BY <1>1 DEF AskedPreset, Positive
<1>9. want.off => body.compaction # Null /\ ~body.compaction.enabled
  BY <1>1, <1>2
<1>10. want.capped => ~Stock(body.extensions)
  BY <1>1, <1>2, <1>4
<1>11. Asked(body, want)
  BY <1>1, <1>2, <1>4, <1>6, <1>7, <1>8, <1>9, <1>10 DEF Asked
<1> QED BY <1>1, <1>7, <1>8, <1>11 DEF body, want

-----------------------------------------------------------------------------
(* What a session keeps *)

\* A file, or what will be one, that has the session's preset in its line.
RecordKeeps(record) ==
  record # Null =>
    /\ DOMAIN record = RecordFields /\ record.models \in Seq(Windows)
    /\ record.want # Null => /\ record.config # Null /\ Readable(record.config)
                             /\ Asked(record.config, record.want)

\* Scenarios whose presets can be kept: one that is switched off has the numbers of the form's
\* strategy, the window leaves each something to keep, and so do the files of the start.
Keepable(b) ==
  /\ \A p \in b.stored : OffIsOff(p)
  /\ \A preset \in Presets(b.stored), known \in BOOLEAN : \A saved \in Versions(preset) :
       Readable(Line(Body(Restored(saved, known), b.window)))
  /\ \A id \in Ids : RecordKeeps(b.files[id])

FitsItsPreset(o) == o.want # Null => Fits(o.settings, o.want, o.window)
SettingsKept(f, o) ==
  /\ DOMAIN f = Ids /\ \A id \in Ids : RecordKeeps(f[id])
  /\ \A i \in Slots : /\ RecordKeeps(o[i].kept)
                      /\ o[i].state = "live" => FitsItsPreset(o[i])

\* A live object was one before, and is made as it was.
SameMaking(o, p) ==
  \A i \in Slots :
    /\ RecordKeeps(o[i].kept) => RecordKeeps(p[i].kept)
    /\ p[i].state = "live" =>
         /\ o[i].state = "live" /\ p[i].settings = o[i].settings
         /\ p[i].want = o[i].want /\ p[i].window = o[i].window

\* The session of a body keeps it.
LEMMA CreatedKeeps ==
  ASSUME bound \in Scenarios, Keepable(bound), NEW r, Create(r)
  PROVE  \E m : /\ obj' = [obj EXCEPT ![NextSlot] = m]
                /\ RecordKeeps(m.kept) /\ FitsItsPreset(m)
<1>1. PICK preset \in Presets(bound.stored), known \in BOOLEAN : \E saved \in Versions(preset) :
        LET body == Body(Restored(saved, known), bound.window)
            want == Chosen(Selected(preset, known))
        IN /\ Accepts(body)
           /\ obj' = [obj EXCEPT ![NextSlot] =
                     Made(Id(r), Created(body), body.window, want,
                          [parent |-> Null, config |-> Line(body), models |-> <<body.window>>,
                           want |-> want])]
  BY DEF Create
<1>2. PICK saved \in Versions(preset) :
        LET body == Body(Restored(saved, known), bound.window)
            want == Chosen(Selected(preset, known))
        IN /\ Accepts(body)
           /\ obj' = [obj EXCEPT ![NextSlot] =
                     Made(Id(r), Created(body), body.window, want,
                          [parent |-> Null, config |-> Line(body), models |-> <<body.window>>,
                           want |-> want])]
  BY <1>1
<1> DEFINE p == Selected(preset, known)
           q == Restored(saved, known)
           body == Body(q, bound.window)
           want == Chosen(p)
           kept == [parent |-> Null, config |-> Line(body), models |-> <<body.window>>,
                    want |-> want]
           m == Made(Id(r), Created(body), body.window, want, kept)
<1>3. obj' = [obj EXCEPT ![NextSlot] = m] /\ Accepts(body)
  BY <1>2
<1>4. Readable(Line(body))
  BY DEF Keepable
<1>5. preset \in AskedPreset /\ OffIsOff(preset) /\ CodingAgent \in AskedPreset
      /\ CodingAgent.compaction # Null /\ CodingAgent.compaction.enabled = TRUE
  <2>1. preset \in AskedPreset /\ OffIsOff(preset)
    BY PresetsAre DEF Keepable
  <2>2. CodingAgent \in Presets(bound.stored)
    BY DEF Presets
  <2>3. CodingAgent \in AskedPreset
    BY <2>2, PresetsAre DEF Keepable
  <2>4. CodingAgent.compaction = Strategies.auto /\ Strategies.auto.enabled = TRUE
    BY DEF CodingAgent, Preset, Strategies
  <2>5. Strategies.auto \in Compaction
    BY DEF Strategies, Compaction
  <2>6. CodingAgent.compaction # Null
    BY <2>4, <2>5, SettingsAssumption
  <2> QED BY <2>1, <2>3, <2>4, <2>6
<1>6. /\ p \in AskedPreset /\ q \in AskedPreset
      /\ q.able = p.able /\ q.tools = p.tools /\ q.prompt = p.prompt /\ q.mcp = p.mcp
      /\ p.compaction # Null /\ ~p.compaction.enabled => q.compaction = p.compaction
  <2>1. CASE ~known
    <3>1. p = CodingAgent /\ q = [CodingAgent EXCEPT !.compaction = Null]
      BY <2>1 DEF Selected, Restored
    <3>2. Null \in OrNull(Compaction)
      BY DEF OrNull
    <3> HIDE DEF p, q
    <3> QED BY <1>5, <3>1, <3>2 DEF AskedPreset
  <2>2. CASE known
    <3>1. p = preset /\ q = saved
      BY <2>2 DEF Selected, Restored
    <3>2. saved = preset \/ saved = Input(Draft(preset))
      BY DEF Versions
    <3>3. CASE saved = preset
      BY <1>5, <3>1, <3>3
    <3>4. CASE saved = Input(Draft(preset))
      <4> DEFINE x == Input(Draft(preset))
      <4>1. /\ x \in AskedPreset
            /\ x.able = preset.able /\ x.tools = preset.tools
            /\ x.prompt = preset.prompt /\ x.mcp = preset.mcp
            /\ preset.compaction = Strategies.off => x.compaction = preset.compaction
        BY <1>5, FormKeeps
      <4> HIDE DEF x, p, q
      <4> QED BY <1>5, <3>1, <3>4, <4>1 DEF OffIsOff, x
    <3> QED BY <3>2, <3>3, <3>4
  <2> QED BY <2>1, <2>2
<1> HIDE DEF p, q
<1>7. bound.window \in Windows /\ body.compaction = q.compaction
  BY SettingsAssumption DEF Body
<1>8. Positive(q.compaction)
  BY <1>3, <1>7 DEF Accepts
<1>9. /\ Asked(body, want) /\ body.window = bound.window
      /\ body.prompt \in OrNull(Texts) /\ body.mcp \in OrNull(SUBSET STRING)
  BY <1>6, <1>7, <1>8, BodyIsAsked
<1> HIDE DEF body, want
<1>10. Asked(Line(body), want) /\ Line(body) # Null
  BY <1>7, <1>9, LineIsAsked
<1>11. Fits(Created(body), want, body.window)
  BY <1>7, <1>9, AskedFits DEF Created
<1>12. /\ m.kept = kept /\ m.settings = Created(body) /\ m.want = want /\ m.window = body.window
  BY DEF Made
<1>13. RecordKeeps(kept)
  <2>1. /\ kept.config = Line(body) /\ kept.want = want /\ DOMAIN kept = RecordFields
        /\ kept.models = <<body.window>>
    BY DEF RecordFields
  <2> HIDE DEF kept
  <2>2. kept.models \in Seq(Windows)
    BY <1>7, <1>9, <2>1
  <2> QED BY <1>4, <1>10, <2>1, <2>2 DEF RecordKeeps
<1> HIDE DEF m, kept
<1>14. RecordKeeps(m.kept) /\ FitsItsPreset(m)
  BY <1>11, <1>12, <1>13 DEF FitsItsPreset
<1> QED BY <1>3, <1>14

\* A session that is opened is what its file says.
LEMMA OpenedKeeps ==
  ASSUME NEW f, f # Null, RecordKeeps(f), NEW w, w = WindowOf(f.models)
  PROVE  f.want # Null => Fits(Opened(f.config, w), f.want, w)
<1> SUFFICES ASSUME f.want # Null PROVE Fits(Opened(f.config, w), f.want, w)
  OBVIOUS
<1>1. /\ f.models \in Seq(Windows) /\ f.config # Null /\ Readable(f.config)
      /\ Asked(f.config, f.want)
  BY DEF RecordKeeps
<1>2. w \in Windows
  <2>1. CASE f.models = <<>>
    BY <2>1 DEF WindowOf, Windows, OrNull
  <2>2. CASE f.models # <<>>
    BY <1>1, <2>2 DEF WindowOf, Last
  <2> QED BY <2>1, <2>2
<1>3. Read(f.config) = f.config
  BY <1>1 DEF Read
<1> QED BY <1>1, <1>2, <1>3, AskedFits DEF Opened

LEMMA NothingKeeps == RecordKeeps(Null)
BY DEF RecordKeeps

LEMMA MakingStays ==
  ASSUME NEW f, NEW o, NEW p, SettingsKept(f, o), SameMaking(o, p)
  PROVE  SettingsKept(f, p)
<1>1. ASSUME NEW i \in Slots
      PROVE  RecordKeeps(p[i].kept) /\ (p[i].state = "live" => FitsItsPreset(p[i]))
  <2>1. RecordKeeps(o[i].kept) /\ (o[i].state = "live" => FitsItsPreset(o[i]))
    BY DEF SettingsKept
  <2> QED BY <2>1 DEF SameMaking, FitsItsPreset
<1> QED BY <1>1 DEF SettingsKept

LEMMA MakingTwice ==
  ASSUME NEW o, NEW q, NEW p, SameMaking(o, q), SameMaking(q, p)
  PROVE  SameMaking(o, p)
BY DEF SameMaking

\* Steps of turns.
LEMMA RunsOnly ==
  ASSUME NEW o, Objects(o), NEW p,
         \A i \in Slots : p[i] = o[i] \/ \E run : Turned(o[i], p[i], run)
  PROVE  SameMaking(o, p)
<1> SUFFICES ASSUME NEW i \in Slots
             PROVE  /\ p[i].kept = o[i].kept /\ p[i].state = o[i].state
                    /\ p[i].settings = o[i].settings
                    /\ p[i].want = o[i].want /\ p[i].window = o[i].window
  BY DEF SameMaking
<1>1. DOMAIN o[i] = Fields
  BY DEF Objects, ObjectOK
<1> QED BY <1>1, FieldsAre DEF Turned

LEMMA RunMaking ==
  ASSUME NEW o, Objects(o), NEW i, NEW run, NEW p, p = [o EXCEPT ![i].run = run]
  PROVE  SameMaking(o, p)
<1>1. \A j \in Slots : p[j] = o[j] \/ Turned(o[j], p[j], run)
  BY DEF Objects, Turned
<1> QED BY <1>1, RunsOnly

LEMMA SettledMaking ==
  ASSUME NEW o, Objects(o), NEW ws, NEW yes \in BOOLEAN
  PROVE  Objects(Settled(o, ws, yes)) /\ SameMaking(o, Settled(o, ws, yes))
<1> DEFINE p == Settled(o, ws, yes)
<1>1. \A i \in Slots : p[i] = o[i] \/ Turned(o[i], p[i], Answered(o[i].run, yes))
  BY DEF Settled, Turned
<1>2. Objects(p)
  BY SettledIs
<1> HIDE DEF p
<1>3. SameMaking(o, p)
  BY <1>1, RunsOnly
<1> QED BY <1>2, <1>3 DEF p

LEMMA StoppedMaking ==
  ASSUME NEW o, Objects(o), NEW J
  PROVE  Objects(Stopped(o, J)) /\ SameMaking(o, Stopped(o, J))
<1> DEFINE p == Stopped(o, J)
<1>1. ASSUME NEW i \in Slots PROVE p[i] = o[i] \/ \E run : Turned(o[i], p[i], run)
  <2> DEFINE gone == {n \in o[i].run.left : /\ Script(i)[n].kind = "ask_user"
                                            /\ asked[o[i].id] # Null
                                            /\ asked[o[i].id].at = n}
             run == [o[i].run EXCEPT !.stop = TRUE, !.left = @ \ gone]
  <2>1. ObjectOK(o[i])
    BY DEF Objects
  <2>2. CASE i \in J
    <3>1. Turned(o[i], p[i], run)
      BY <2>1, <2>2, FieldsAre DEF Stopped, ObjectOK, Turned
    <3> HIDE DEF run, p
    <3> QED BY <3>1
  <2>3. CASE i \notin J
    BY <2>3 DEF Stopped
  <2> QED BY <2>2, <2>3
<1>2. Objects(p)
  BY StoppedIs
<1> HIDE DEF p
<1>3. SameMaking(o, p)
  BY <1>1, RunsOnly
<1> QED BY <1>2, <1>3 DEF p

LEMMA HaltMaking ==
  ASSUME IInv, NEW all, NEW J, NEW p, p = Stopped(Settled(obj, all, FALSE), J)
  PROVE  Objects(p) /\ SameMaking(obj, p)
<1> DEFINE o == Settled(obj, all, FALSE)
<1>1. PICK no \in BOOLEAN : no = FALSE
  OBVIOUS
<1>2. Objects(o) /\ SameMaking(obj, o)
  BY <1>1, ObjectsNow, SettledMaking
<1>3. p = Stopped(o, J)
  OBVIOUS
<1> HIDE DEF o
<1>4. Objects(p) /\ SameMaking(o, p)
  BY <1>2, <1>3, StoppedMaking
<1> QED BY <1>2, <1>4, MakingTwice

LEMMA ReturnedMaking ==
  ASSUME NEW o, Objects(o), NEW i, NEW n
  PROVE  SameMaking(o, Returned(o, i, n))
<1> DEFINE p == Returned(o, i, n)
<1>1. ASSUME NEW j \in Slots PROVE p[j] = o[j] \/ \E run : Turned(o[j], p[j], run)
  <2>1. ObjectOK(o[j]) /\ DOMAIN o = Slots
    BY DEF Objects
  <2> DEFINE run == [o[j].run EXCEPT !.left = @ \ {n}]
  <2>2. p[j] = o[j] \/ Turned(o[j], p[j], run)
    BY <2>1, FieldsAre DEF Returned, ObjectOK, Turned
  <2> HIDE DEF run, p
  <2> QED BY <2>2
<1> HIDE DEF p
<1>2. SameMaking(o, p)
  BY <1>1, RunsOnly
<1> QED BY <1>2 DEF p

LEMMA PromptedMaking ==
  ASSUME NEW o, Objects(o), NEW i
  PROVE  SameMaking(o, Prompted(o, i))
<1>1. CASE o[i].run.st = "idle"
  <2>1. Prompted(o, i) = [o EXCEPT ![i].run = [Quiet EXCEPT !.st = "prep"]]
    BY <1>1 DEF Prompted
  <2> QED BY <2>1, RunMaking
<1>2. CASE o[i].run.st # "idle"
  BY <1>2 DEF Prompted, SameMaking
<1> QED BY <1>1, <1>2

\* A session that is disposed, or heard no more.
LEMMA HeardMaking ==
  ASSUME NEW o, Objects(o), NEW i, NEW x,
         NEW p, \/ p = [o EXCEPT ![i].heard = x]
                \/ p = [o EXCEPT ![i].heard = x, ![i].state = "disposed"]
  PROVE  SameMaking(o, p)
BY FieldsAre DEF Objects, ObjectOK, SameMaking

LEMMA PlacedKeeps ==
  ASSUME NEW f, NEW o, DOMAIN o = Slots, SettingsKept(f, o), NEW i, NEW x,
         RecordKeeps(x.kept), x.state = "live" => FitsItsPreset(x),
         NEW p, p = [o EXCEPT ![i] = x]
  PROVE  SettingsKept(f, p)
BY DEF SettingsKept

LEMMA FilesKeep ==
  ASSUME NEW f, NEW o, SettingsKept(f, o), NEW g, DOMAIN g = Ids,
         \A id \in Ids : RecordKeeps(f[id]) => RecordKeeps(g[id])
  PROVE  SettingsKept(g, o)
BY DEF SettingsKept

\* A change of the model leaves the line as it is.
LEMMA SwitchedKeeps ==
  ASSUME bound \in Scenarios, NEW r, NEW record, RecordKeeps(record)
  PROVE  RecordKeeps(Switched(r, record))
<1>1. CASE Switched(r, record) = record
  BY <1>1
<1>2. CASE Switched(r, record) # record
  <2> DEFINE s == [record EXCEPT !.models = Append(@, bound.other)]
  <2>1. record # Null /\ Switched(r, record) = s
    BY <1>2 DEF Switched
  <2>2. /\ DOMAIN record = RecordFields /\ record.models \in Seq(Windows)
        /\ record.want # Null => /\ record.config # Null /\ Readable(record.config)
                                 /\ Asked(record.config, record.want)
    BY <2>1 DEF RecordKeeps
  <2>3. Append(record.models, bound.other) \in Seq(Windows)
    BY <2>2, SettingsAssumption
  <2>4. /\ DOMAIN s = RecordFields /\ s.models = Append(record.models, bound.other)
        /\ s.want = record.want /\ s.config = record.config
    BY <2>2 DEF RecordFields
  <2> HIDE DEF s
  <2> QED BY <2>1, <2>2, <2>3, <2>4 DEF RecordKeeps
<1> QED BY <1>1, <1>2

LEMMA ServedKeeps ==
  ASSUME IInv, SettingsKept(file, obj), NEW R, NEW i \in Slots, Served(R, i)
  PROVE  SettingsKept(file', obj')
<1> DEFINE o == IF Prompts(R) THEN Prompted(obj, i) ELSE obj
<1>0. bound \in Scenarios
  BY DEF IInv, Types
<1>1. Objects(o) /\ SameMaking(obj, o)
  <2>1. CASE Prompts(R)
    BY <2>1, ObjectsNow, PromptedMoves, PromptedMaking
  <2>2. CASE ~Prompts(R)
    BY <2>2, ObjectsNow DEF SameMaking
  <2> QED BY <2>1, <2>2
<1>2. \/ obj' = o /\ file' = file
      \/ file' = file /\ \E r \in R : obj' = [o EXCEPT ![i].kept = Switched(r, @)]
      \/ obj' = o /\ \E r \in R : file' = [file EXCEPT ![obj[i].id] = Switched(r, @)]
  BY DEF Served, Models
<1> HIDE DEF o
<1>3. SettingsKept(file, o)
  BY <1>1, MakingStays
<1>4. CASE obj' = o /\ file' = file
  BY <1>3, <1>4
<1>5. CASE file' = file /\ \E r \in R : obj' = [o EXCEPT ![i].kept = Switched(r, @)]
  <2>1. PICK kept : /\ obj' = [o EXCEPT ![i].kept = kept]
                    /\ RecordKeeps(o[i].kept) => RecordKeeps(kept)
    BY <1>0, <1>5, SwitchedKeeps
  <2>2. SameMaking(o, obj')
    BY <1>1, <2>1, FieldsAre DEF Objects, ObjectOK, SameMaking
  <2> QED BY <1>3, <1>5, <2>2, MakingStays
<1>6. CASE obj' = o /\ \E r \in R : file' = [file EXCEPT ![obj[i].id] = Switched(r, @)]
  <2>1. PICK r \in R : file' = [file EXCEPT ![obj[i].id] = Switched(r, @)]
    BY <1>6
  <2>2. DOMAIN file = Ids
    BY DEF SettingsKept
  <2>3. ASSUME NEW id \in Ids, RecordKeeps(file[id]) PROVE RecordKeeps(file'[id])
    BY <1>0, <2>1, <2>2, <2>3, SwitchedKeeps
  <2> QED BY <1>3, <1>6, <2>1, <2>2, <2>3, FilesKeep
<1> QED BY <1>2, <1>4, <1>5, <1>6

LEMMA OpenBuildKeeps ==
  ASSUME IInv, SettingsKept(file, obj), NEW r \in Requests, OpenBuild(r)
  PROVE  SettingsKept(file', obj')
<1> DEFINE f == file[Id(r)]
           w == WindowOf(f.models)
           m == Made(Id(r), Opened(f.config, w), w, f.want, Null)
<1>1. f # Null /\ obj' = [obj EXCEPT ![NextSlot] = m] /\ file' = file /\ Id(r) \in Ids
  BY RequestsAre DEF OpenBuild, IInv, Types
<1>2. RecordKeeps(f)
  BY <1>1 DEF SettingsKept
<1>3. /\ m.kept = Null /\ m.settings = Opened(f.config, w) /\ m.want = f.want
      /\ m.window = w
  BY DEF Made
<1>4. DOMAIN obj = Slots
  BY ObjectsNow DEF Objects
<1> HIDE DEF m, f
<1>5. f.want # Null => Fits(Opened(f.config, w), f.want, w)
  BY <1>1, <1>2, OpenedKeeps
<1> HIDE DEF w
<1>6. RecordKeeps(m.kept) /\ FitsItsPreset(m)
  BY <1>3, <1>5, NothingKeeps DEF FitsItsPreset
<1> QED BY <1>1, <1>4, <1>6, PlacedKeeps

LEMMA CreateKeeps ==
  ASSUME IInv, Keepable(bound), SettingsKept(file, obj), NEW r \in Requests, Create(r)
  PROVE  SettingsKept(file', obj')
<1>1. file' = file /\ DOMAIN obj = Slots /\ bound \in Scenarios
  BY ObjectsNow DEF Create, Objects, IInv, Types
<1>2. PICK m : /\ obj' = [obj EXCEPT ![NextSlot] = m]
               /\ RecordKeeps(m.kept) /\ FitsItsPreset(m)
  BY <1>1, CreatedKeeps
<1> QED BY <1>1, <1>2, PlacedKeeps

\* A child of a turn has its parent's settings, and no preset of its own.
LEMMA DelegateKeeps ==
  ASSUME IInv, SettingsKept(file, obj), NEW i \in Slots, Delegate(i)
  PROVE  SettingsKept(file', obj')
<1> DEFINE made == Made("kid", obj[i].settings, obj[i].window, Null, Null)
           m == [made EXCEPT !.heard = TRUE]
           o == [obj EXCEPT ![NextSlot] = m]
<1>1. file' = file /\ ((\E n : obj' = Returned(obj, i, n)) \/ (FreeSlots # {} /\ obj' = Prompted(o, NextSlot)))
  BY DEF Delegate
<1>2. CASE \E n : obj' = Returned(obj, i, n)
  BY <1>1, <1>2, ObjectsNow, ReturnedMaking, MakingStays
<1>3. CASE FreeSlots # {} /\ obj' = Prompted(o, NextSlot)
  <2>1. made.kept = Null /\ made.want = Null /\ DOMAIN made = Fields /\ made.id = "kid"
        /\ made.state = "live" /\ made.run = Quiet
    BY FieldsAre DEF Made
  <2> HIDE DEF made
  <2>2. /\ m.kept = Null /\ m.want = Null /\ DOMAIN m = Fields /\ m.id = "kid"
        /\ m.state = "live" /\ m.run = Quiet /\ m.heard = TRUE
    BY <2>1, FieldsAre
  <2> HIDE DEF m
  <2>3. ObjectOK(m)
    BY <2>2, FieldsAre DEF ObjectOK, Ids
  <2>4. Objects(o)
    BY <2>3, ObjectsNow DEF Objects
  <2>5. SettingsKept(file, o)
    BY <2>2, ObjectsNow, NothingKeeps, PlacedKeeps DEF Objects, FitsItsPreset
  <2> HIDE DEF o
  <2>6. SameMaking(o, obj')
    BY <1>3, <2>4, PromptedMaking
  <2> QED BY <1>1, <2>5, <2>6, MakingStays
<1> QED BY <1>1, <1>2, <1>3

LEMMA ChildEndsKeeps ==
  ASSUME IInv, SettingsKept(file, obj), NEW i \in Slots, ChildEnds(i)
  PROVE  SettingsKept(file', obj')
<1> DEFINE o == [obj EXCEPT ![i] = Blank]
<1>1. file' = file /\ \E j, n : obj' = Returned(o, j, n)
  BY DEF ChildEnds
<1>2. Objects(o)
  BY BlankOK, ObjectsNow DEF Objects
<1>3. SettingsKept(file, o)
  <2>1. Blank.kept = Null /\ Blank.state # "live"
    BY DEF Blank
  <2> QED BY <2>1, ObjectsNow, NothingKeeps, PlacedKeeps DEF Objects
<1> HIDE DEF o
<1>4. SameMaking(o, obj')
  BY <1>1, <1>2, ReturnedMaking
<1> QED BY <1>1, <1>3, <1>4, MakingStays

\* The file of a session is what it has kept.
LEMMA TurnEndsKeeps ==
  ASSUME IInv, SettingsKept(file, obj), NEW i \in Slots, TurnEnds(i)
  PROVE  SettingsKept(file', obj')
<1> DEFINE removers == {r \in Requests : req[r].pc = "remove" /\ req[r].slot = i}
<1>1. PICK state : /\ state = obj[i].state \/ state = "disposed"
                   /\ obj' = [obj EXCEPT ![i].run = Quiet, ![i].kept = Null, ![i].state = state]
  <2> DEFINE state == IF removers # {} THEN "disposed" ELSE obj[i].state
  <2>1. DOMAIN obj[i] = Fields /\ DOMAIN obj = Slots
    BY ObjectsNow DEF Objects, ObjectOK
  <2>2. obj' = [obj EXCEPT ![i].run = Quiet, ![i].kept = Null, ![i].state = state]
    BY <2>1, FieldsAre DEF TurnEnds
  <2>3. state = obj[i].state \/ state = "disposed"
    OBVIOUS
  <2> HIDE DEF state
  <2> QED BY <2>2, <2>3
<1>2. SameMaking(obj, obj')
  BY <1>1, ObjectsNow, FieldsAre, NothingKeeps DEF Objects, ObjectOK, SameMaking
<1>3. SettingsKept(file, obj')
  BY <1>2, MakingStays
<1>4. /\ obj[i].kept = Null => file' = file
      /\ obj[i].kept # Null => file' = [file EXCEPT ![obj[i].id] = obj[i].kept]
      /\ RecordKeeps(obj[i].kept) /\ DOMAIN file = Ids
  BY DEF TurnEnds, SettingsKept
<1>5. DOMAIN file' = Ids /\ \A id \in Ids : file'[id] = file[id] \/ file'[id] = obj[i].kept
  BY <1>4
<1> QED BY <1>3, <1>4, <1>5, FilesKeep

LEMMA ReparentKeeps ==
  ASSUME SettingsKept(file, obj), NEW r, Reparent(r)
  PROVE  SettingsKept(file', obj')
<1>1. DOMAIN file = Ids /\ \A id \in Ids : RecordKeeps(file[id])
  BY DEF SettingsKept
<1>2. \/ UNCHANGED file
      \/ \E c \in req[r].todo : file[c] # Null /\ file' = [file EXCEPT ![c].parent = ParentOf(r)]
  BY DEF Reparent
<1>3. DOMAIN file' = Ids
  BY <1>1, <1>2
<1>4. ASSUME NEW id \in Ids PROVE RecordKeeps(file'[id])
  <2>1. CASE UNCHANGED file
    BY <1>1, <2>1
  <2>2. CASE \E c \in req[r].todo : file[c] # Null /\ file' = [file EXCEPT ![c].parent = ParentOf(r)]
    <3>1. PICK c : file[c] # Null /\ file' = [file EXCEPT ![c].parent = ParentOf(r)]
      BY <2>2
    <3>2. CASE c = id
      <4>1. file'[id] = [file[id] EXCEPT !.parent = ParentOf(r)] /\ file[id] # Null
        BY <1>1, <3>1, <3>2
      <4>2. DOMAIN file[id] = RecordFields
        BY <1>1, <4>1 DEF RecordKeeps
      <4>3. /\ DOMAIN file'[id] = RecordFields /\ file'[id].config = file[id].config
            /\ file'[id].models = file[id].models /\ file'[id].want = file[id].want
        BY <4>1, <4>2 DEF RecordFields
      <4> QED BY <1>1, <4>1, <4>3 DEF RecordKeeps
    <3>3. CASE c # id
      BY <1>1, <3>1, <3>3
    <3> QED BY <3>2, <3>3
  <2> QED BY <1>2, <2>1, <2>2
<1>5. SettingsKept(file', obj)
  BY <1>3, <1>4, FilesKeep
<1> QED BY <1>5 DEF Reparent

LEMMA HandledKeeps ==
  ASSUME IInv, Keepable(bound), SettingsKept(file, obj), NEW r \in Requests, Handled(r)
  PROVE  SettingsKept(file', obj')
<1>0. Id(r) \in Ids /\ entry[Id(r)] \in Slots \union {0}
  BY RequestsAre DEF IInv, Types, Entries
<1>1. CASE OpenActive(r)
  <2>1. entry[Id(r)] \in Slots /\ Served({r}, entry[Id(r)])
    BY <1>0, <1>1 DEF OpenActive, Proceed
  <2> QED BY <2>1, ServedKeeps
<1>2. CASE Abort(r)
  <2>1. file' = file /\ \E all, J : obj' = Stopped(Settled(obj, all, FALSE), J)
    BY <1>2 DEF Abort, Halt
  <2> QED BY <2>1, HaltMaking, MakingStays
<1>3. CASE OpenJoins(r) \/ OpenStart(r) \/ OpenMissing(r) \/ DeleteMissing(r)
  BY <1>3 DEF OpenJoins, OpenStart, OpenMissing, DeleteMissing
<1>4. CASE OpenBuild(r)
  BY <1>4, OpenBuildKeeps
<1>5. CASE Create(r)
  BY <1>5, CreateKeeps
<1>6. CASE Register(r)
  <2>1. CASE entry[Id(r)] # 0
    <3>1. entry[Id(r)] \in Slots /\ Served(Joined(r), entry[Id(r)])
      BY <1>0, <1>6, <2>1 DEF Register, Proceed
    <3> QED BY <3>1, ServedKeeps
  <2>2. CASE entry[Id(r)] = 0
    <3>1. file' = file /\ obj' = [obj EXCEPT ![req[r].slot].heard = TRUE]
      BY <1>6, <2>2 DEF Register
    <3>2. SameMaking(obj, obj')
      BY <3>1, ObjectsNow, HeardMaking
    <3> QED BY <3>1, <3>2, MakingStays
  <2> QED BY <2>1, <2>2
<1>7. CASE Bound(r)
  <2>1. PICK R : Served(R, req[r].slot)
    BY <1>7 DEF Bound, Proceed
  <2>2. req[r].slot \in Slots
    BY <1>7 DEF Bound, IInv, Held, AtStep
  <2> QED BY <2>1, <2>2, ServedKeeps
<1>8. CASE DeleteIdle(r)
  <2> DEFINE i == entry[Id(r)]
             o == Settled(obj, CancelSession(Id(r)), FALSE)
  <2>1. obj' = obj \/ obj' = [o EXCEPT ![i].heard = FALSE, ![i].state = "disposed"]
    BY <1>8 DEF DeleteIdle
  <2>2. Objects(o) /\ SameMaking(obj, o)
    <3>1. PICK no \in BOOLEAN : no = FALSE
      OBVIOUS
    <3> QED BY <3>1, ObjectsNow, SettledMaking
  <2> HIDE DEF i, o
  <2>3. SameMaking(obj, obj')
    <3>1. CASE obj' = obj
      BY <3>1 DEF SameMaking
    <3>2. CASE obj' = [o EXCEPT ![i].heard = FALSE, ![i].state = "disposed"]
      <4>1. SameMaking(o, obj')
        BY <2>2, <3>2, HeardMaking
      <4> QED BY <2>2, <4>1, MakingTwice
    <3> QED BY <2>1, <3>1, <3>2
  <2>4. file' = file
    BY <1>8 DEF DeleteIdle
  <2> QED BY <2>3, <2>4, MakingStays
<1>9. CASE DeleteBusy(r)
  <2> DEFINE i == entry[Id(r)]
             J == Aborted(i)
             all == CancelSession(Id(r)) \union Listening(J)
             o == Stopped(Settled(obj, all, FALSE), J)
  <2>1. obj' = [o EXCEPT ![i].heard = FALSE] /\ file' = file
    BY <1>9 DEF DeleteBusy
  <2>2. Objects(o) /\ SameMaking(obj, o)
    BY HaltMaking
  <2> HIDE DEF i, J, all, o
  <2>3. SameMaking(o, obj')
    BY <2>1, <2>2, HeardMaking
  <2> QED BY <2>1, <2>2, <2>3, MakingTwice, MakingStays
<1>10. CASE Reparent(r)
  BY <1>10, ReparentKeeps
<1>11. CASE Erase(r)
  <2>1. file' = [file EXCEPT ![Id(r)] = Null] /\ obj' = obj
    BY <1>11 DEF Erase
  <2>2. DOMAIN file' = Ids /\ \A id \in Ids : file'[id] = Null \/ file'[id] = file[id]
    BY <2>1 DEF SettingsKept
  <2>3. SettingsKept(file', obj)
    BY <2>2, NothingKeeps, FilesKeep
  <2> QED BY <2>1, <2>3
<1> QED BY <1>1, <1>2, <1>3, <1>4, <1>5, <1>6, <1>7, <1>8, <1>9, <1>10, <1>11 DEF Handled

LEMMA TurnKeeps ==
  ASSUME IInv, SettingsKept(file, obj), NEW i \in Slots,
         \/ Prepare(i) \/ RequestApproval(i) \/ Skip(i) \/ Launch(i)
         \/ Execute(i) \/ AskUser(i) \/ Delegate(i) \/ ChildEnds(i) \/ TurnEnds(i)
  PROVE  SettingsKept(file', obj')
<1>1. CASE Prepare(i) \/ RequestApproval(i) \/ Skip(i) \/ Launch(i)
  <2>1. file' = file
    BY <1>1 DEF Prepare, RequestApproval, Skip, Launch
  <2>2. PICK run : obj' = [obj EXCEPT ![i].run = run]
    <3>1. DOMAIN obj[i] = Fields /\ DOMAIN obj = Slots
      BY ObjectsNow DEF Objects, ObjectOK
    <3>2. CASE Prepare(i)
      BY <3>2 DEF Prepare
    <3>3. CASE Skip(i)
      BY <3>3 DEF Skip
    <3>4. CASE RequestApproval(i)
      <4>1. obj' = [obj EXCEPT ![i].run = [obj[i].run EXCEPT !.st = "asks"]]
        BY <3>1, <3>4, FieldsAre DEF RequestApproval
      <4> QED BY <4>1
    <3>5. CASE Launch(i)
      <4>1. obj' = [obj EXCEPT ![i].run = [obj[i].run EXCEPT !.st = "exec", !.left = obj[i].run.ready]]
        BY <3>1, <3>5, FieldsAre DEF Launch
      <4> QED BY <4>1
    <3> QED BY <1>1, <3>2, <3>3, <3>4, <3>5
  <2>3. SameMaking(obj, obj')
    BY <2>2, ObjectsNow, RunMaking
  <2> QED BY <2>1, <2>3, MakingStays
<1>2. CASE Execute(i) \/ AskUser(i)
  <2>1. file' = file /\ (obj' = obj \/ \E n : obj' = Returned(obj, i, n))
    BY <1>2 DEF Execute, AskUser
  <2>2. obj' # obj => SameMaking(obj, obj')
    BY <2>1, ObjectsNow, ReturnedMaking
  <2> QED BY <2>1, <2>2, MakingStays
<1>3. CASE Delegate(i)
  BY <1>3, DelegateKeeps
<1>4. CASE ChildEnds(i)
  BY <1>4, ChildEndsKeeps
<1>5. CASE TurnEnds(i)
  BY <1>5, TurnEndsKeeps
<1> QED BY <1>1, <1>2, <1>3, <1>4, <1>5

LEMMA NextKeeps ==
  ASSUME IInv, Keepable(bound), SettingsKept(file, obj), [Next]_vars
  PROVE  SettingsKept(file', obj')
<1>1. CASE \E r \in Requests : Handled(r)
  BY <1>1, HandledKeeps
<1>2. CASE \E i \in Slots :
             \/ Prepare(i) \/ RequestApproval(i) \/ Skip(i) \/ Launch(i)
             \/ Execute(i) \/ AskUser(i) \/ Delegate(i) \/ ChildEnds(i) \/ TurnEnds(i)
  BY <1>2, TurnKeeps
<1>3. CASE \/ \E w \in ToSet(waiting) : ApprovalTimeout(w)
           \/ \E yes \in BOOLEAN : Approve(yes)
  <2>1. file' = file /\ \E yes \in BOOLEAN : \E ws : obj' = Settled(obj, ws, yes)
    <3>1. CASE \E w \in ToSet(waiting) : ApprovalTimeout(w)
      <4>1. PICK no \in BOOLEAN : no = FALSE
        OBVIOUS
      <4>2. file' = file /\ \E ws : obj' = Settled(obj, ws, no)
        BY <3>1, <4>1 DEF ApprovalTimeout
      <4> QED BY <4>2
    <3>2. CASE \E yes \in BOOLEAN : Approve(yes)
      BY <3>2 DEF Approve, ApproveTool
    <3> QED BY <1>3, <3>1, <3>2
  <2>2. SameMaking(obj, obj')
    BY <2>1, ObjectsNow, SettledMaking
  <2> QED BY <2>1, <2>2, MakingStays
<1>4. CASE (\E id \in Ids : QuestionTimeout(id)) \/ \E picks \in Picks : Answer(picks)
  <2>1. file' = file /\ (obj' = obj \/ \E i \in Slots : \E n : obj' = Returned(obj, i, n))
    BY <1>4 DEF QuestionTimeout, Answer, AnswerQuestion, Answers
  <2>2. obj' # obj => SameMaking(obj, obj')
    BY <2>1, ObjectsNow, ReturnedMaking
  <2> QED BY <2>1, <2>2, MakingStays
<1>5. CASE Crash
  <2>1. file' = file /\ obj' = [i \in Slots |-> Blank]
    BY <1>5 DEF Crash
  <2>2. Blank.kept = Null /\ Blank.state # "live"
    BY DEF Blank
  <2>3. SameMaking(obj, obj')
    BY <2>1, <2>2, NothingKeeps DEF SameMaking
  <2> QED BY <2>1, <2>3, MakingStays
<1>6. CASE ReadEvent \/ Reload \/ LoadAnswered \/ LoadShown \/ ApproveReturns
             \/ AnswerReturns \/ Rest \/ UNCHANGED vars
  <2>1. file' = file /\ obj' = obj
    BY <1>6 DEF ReadEvent, Reload, LoadAnswered, LoadShown, ApproveReturns, AnswerReturns, Rest, vars
  <2> QED BY <2>1
<1> QED BY <1>1, <1>2, <1>3, <1>4, <1>5, <1>6 DEF Next

KeptInv == IInv /\ (Keepable(bound) => SettingsKept(file, obj))

LEMMA KeptInit == Init => KeptInv
<1> SUFFICES ASSUME Init PROVE KeptInv
  OBVIOUS
<1>1. IInv /\ bound \in Scenarios /\ file = bound.files
  BY InitOk DEF Init
<1>2. DOMAIN file = Ids
  BY <1>1, RegistryAssumption
<1> DEFINE made == Made(Watched, Opened(Null, bound.window), bound.window, Null, Null)
           m == [made EXCEPT !.heard = TRUE]
<1>3. made.want = Null /\ made.kept = Null
  BY DEF Made
<1>4. m.want = Null /\ m.kept = Null
  BY <1>3 DEF Made
<1>5. obj = [i \in Slots |-> IF i = 1 /\ bound.open THEN m ELSE Blank]
  BY DEF Init
<1> HIDE DEF made, m
<1>6. \A i \in Slots : obj[i].want = Null /\ obj[i].kept = Null
  BY <1>4, <1>5 DEF Blank
<1>7. Keepable(bound) => SettingsKept(file, obj)
  BY <1>1, <1>2, <1>6, NothingKeeps DEF Keepable, SettingsKept, FitsItsPreset
<1> QED BY <1>1, <1>7 DEF KeptInv

LEMMA KeptNext == KeptInv /\ [Next]_vars => KeptInv'
<1> SUFFICES ASSUME KeptInv, [Next]_vars PROVE KeptInv'
  OBVIOUS
<1>1. IInv /\ IInv' /\ bound' = bound
  BY NextOk, BoundStays DEF KeptInv
<1>2. Keepable(bound) => SettingsKept(file', obj')
  BY <1>1, NextKeeps DEF KeptInv
<1> QED BY <1>1, <1>2 DEF KeptInv

LEMMA KeptFollows == KeptInv => (Keepable(bound) => ReopenKeepsSettings)
BY DEF KeptInv, SettingsKept, FitsItsPreset, ReopenKeepsSettings, Live

\* A session has the abilities, servers and tools its preset asks for, and no longer a
\* context, when it is made and whenever it is opened again: for all presets that can be
\* kept, any requests that overlap, changes of the model and restarts (sessionConfigOf, open).
THEOREM SettingsSurvive == Spec => [](Keepable(bound) => ReopenKeepsSettings)
<1> QED BY KeptInit, KeptNext, KeptFollows, PTL DEF Spec
=============================================================================
