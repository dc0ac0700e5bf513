------------------------ MODULE McpConnections_proofs ------------------------
(***************************************************************************)
(* For any workspaces, sessions, servers and files: where calls of sync()  *)
(* that cut cannot meet, the pool holds every connection once, what is     *)
(* saved reaches every session, a registered tool leads to its server, and *)
(* the page tells what is so.  Such calls meet where two sessions of a     *)
(* workspace that is not the page's load again after a change of the       *)
(* user's file.                                                            *)
(***************************************************************************)
EXTENDS McpConnections, SequenceTheorems, FiniteSetTheorems, TLAPS

\* The files stay as they are; or there is one request at a time, and no two sessions
\* with servers share a workspace other than the page's.
Calm(b) ==
    \/ b.changes = 0
    \/ /\ ~b.overlap
       /\ \A s, t \in Sessions :
             b.allowed[s] # {} /\ b.allowed[t] # {} /\ b.cwd[s] = b.cwd[t] /\ s # t
               => b.cwd[s] = PageCwd

Goals == [Servers -> Resolved \cup {None}]
SyncCall == [pc : {"idle", "due", "closing", "connecting", "done"}, cwd : Cwds \cup {None},
             cut : SUBSET Servers, want : SUBSET Servers, at : Slots \cup {0}, goal : Goals]
Working(r) == sync[r].pc \in {"closing", "connecting"}
Busy == {"listing", "asking", "cutting", "renewing"}
Desired(c) == Effective(files, c)

\* A pool and its objects: an object is in the pool or nobody's, no two have the same
\* key, and the status says whether there is a client.
Shape(p, k) ==
    /\ p \in Seq(Slots) /\ k \in [Slots -> Managed \cup {Blank}]
    /\ \A i \in Slots : i \in Range(p) <=> k[i] \in Managed
    /\ \A i, j \in DOMAIN p :
          k[p[i]].cwd = k[p[j]].cwd /\ k[p[i]].name = k[p[j]].name => i = j
    /\ \A i \in Slots : /\ k[i].status = "connected" <=> k[i].client
                        /\ k[i].live /\ ~k[i].client => k[i].status = "connecting"

\* What is being connected is so by one call, and it is in that call's workspace.
Handed(k, sy, callers) ==
    /\ \A i \in Slots : k[i].status = "connecting" =>
          \E r \in callers : sy[r].pc = "connecting" /\ sy[r].at = i
    /\ \A r \in callers : sy[r].pc = "connecting" =>
          /\ sy[r].at \in Slots
          /\ k[sy[r].at].status = "connecting" /\ k[sy[r].at].cwd = sy[r].cwd
    /\ \A r, q \in callers : sy[r].pc = "connecting" /\ sy[q].pc = "connecting"
                               /\ sy[r].at = sy[q].at => r = q

OutdatedIn(p, k, c, goal) ==
    {n \in Servers : LET i == Held(p, k, c, n) IN
        i # 0 /\ (n \notin Enabled(goal) \/ goal[n] # k[i].made)}

\* A call under way: what it still has to cut is what its goal has outdated, and what
\* it does not look at any more is there.
Ready(call, p, k) ==
    /\ call.cwd \in Cwds
    /\ call.cut = OutdatedIn(p, k, call.cwd, call.goal)
    /\ call.want \subseteq Enabled(call.goal)
    /\ \A n \in Enabled(call.goal) :
          n \in call.want \/ (call.cut = {} /\ Held(p, k, call.cwd, n) # 0)
GoalOf(r) == IF r = "page" /\ (page.op = "cutting" \/ up = "closing") THEN Nothing
             ELSE Desired(sync[r].cwd)
CallsReady ==
    \A r \in Callers : Working(r) =>
        /\ Ready(sync[r], pool, conn)
        /\ sync[r].goal = GoalOf(r)
        /\ sync[r].pc = "closing" =>
              sync[r].cut # {} /\ \A n \in First(sync[r].cut) : sync[r].at = Held(pool, conn, sync[r].cwd, n)
        /\ sync[r].pc = "connecting" => sync[r].cut = {}

\* Who may be at work when.
Control ==
    /\ sync \in [Callers -> SyncCall] /\ changes \in Nat
    /\ \A r \in Callers : sync[r].pc = "idle" => sync[r] = Idle
    /\ sync["page"].pc # "due"
    /\ page.op \notin Busy /\ up # "closing" => sync["page"] = Idle
    /\ page.op \in Busy => sync["page"].pc \in {"closing", "connecting", "done"}
                           /\ sync["page"].cwd = PageCwd
    /\ up # "up" => page.op = "shut" /\ \A s \in Sessions : sync[s] = Idle /\ tools[s] = None
    /\ up = "closing" \/ page.op = "cutting" => sync["page"].pc # "connecting"
    /\ up = "down" => pool = <<>>
    /\ \A s \in Sessions : sync[s].pc # "idle" => bound.allowed[s] # {}
    /\ \A s \in Sessions : Working(s) \/ sync[s].pc = "done" => sync[s].cwd = bound.cwd[s]
    /\ bound.changes = 0 => page.op \in {"shut", "listing", "shown"}
    /\ ~bound.overlap /\ page.op \in Busy => \A s \in Sessions : sync[s] = Idle
    /\ ~bound.overlap /\ page.op \in {"shut", "shown"} =>
          \A s, t \in Sessions : sync[s] # Idle /\ sync[t] # Idle => s = t
    /\ ~bound.overlap /\ page.op \in {"reloading", "refreshed"} =>
          \A s \in Sessions : sync[s] # Idle => IsOpen(s)

\* Where a session may share its workspace, nothing is out of date, but while the page
\* itself cuts it.
InPlace ==
    \A c \in Cwds : (bound.changes = 0 \/ c = PageCwd) /\ Outdated(c, Desired(c)) # {} =>
        c = PageCwd /\ page.op = "asking" /\ sync["page"].pc = "closing"

Complete(c) == /\ Outdated(c, Desired(c)) = {}
               /\ \A n \in Enabled(Desired(c)) : Held(pool, conn, c, n) # 0
Still(c) == Complete(c) /\ \A r \in Callers : Working(r) => sync[r].cwd # c

SettledSession(s) ==
    LET c == bound.cwd[s] IN
    /\ Still(c)
    /\ tools[s] = Allowed(s, IndexOf(pool, conn, c)) /\ index[c] = IndexOf(pool, conn, c)

\* One request at a time: when a call is through, its workspace is as the files say and
\* stays so.
Settled ==
    /\ \A s \in Sessions :
          /\ IsOpen(s) /\ bound.allowed[s] # {} /\ sync[s] = Idle
          /\ page.op \notin {"asking", "cutting", "renewing"}
          => SettledSession(s)
    /\ \A r \in Callers :
          sync[r].pc = "done" /\ ~(r = "page" /\ (page.op = "cutting" \/ up = "closing"))
            => Still(sync[r].cwd)
    /\ page.op \in {"shown", "reloading", "refreshed"} => Still(PageCwd)
    /\ page.op = "shown" => page.list = View(PageCwd)

PoolPart == Shape(pool, conn) /\ Handed(conn, sync, Callers) /\ CallsReady /\ Control /\ InPlace
IInv == TypeOK /\ PoolPart /\ (~bound.overlap => Settled)
-----------------------------------------------------------------------------
(* What is under a key. *)

\* An object in the pool is a slot and has a key.
LEMMA Entry ==
    ASSUME NEW p, NEW k, Shape(p, k), NEW i \in Range(p)
    PROVE  /\ i \in Slots /\ i # 0
           /\ k[i].cwd \in Cwds /\ k[i].name \in Servers /\ k[i].made \in Resolved
           /\ k[i].status \in {"connecting", "connected", "error"}
           /\ k[i].client \in BOOLEAN /\ k[i].live \in BOOLEAN
<1>1. i \in Slots
  BY DEF Shape, Range
<1>2. k[i] \in Managed
  BY <1>1 DEF Shape
<1> QED
  BY <1>1, <1>2, McpAssumption DEF Managed

\* What is not in the pool is blank.
LEMMA NoEntry ==
    ASSUME NEW p, NEW k, Shape(p, k), NEW i \in Slots
    PROVE  /\ i \notin Range(p) <=> k[i] = Blank
           /\ k[i] = Blank <=> k[i].cwd \notin Cwds
<1>1. Blank \notin Managed /\ Blank.cwd \notin Cwds
  BY McpAssumption DEF Blank, Managed
<1>2. k[i] \in Managed => k[i].cwd \in Cwds
  BY DEF Managed
<1> QED
  BY <1>1, <1>2 DEF Shape

\* Two objects in the pool with the same key are one.
LEMMA OneUnderKey ==
    ASSUME NEW p, NEW k, Shape(p, k), NEW i \in Range(p), NEW j \in Range(p),
           k[i].cwd = k[j].cwd, k[i].name = k[j].name
    PROVE  i = j
BY DEF Shape, Range

\* Held gives the object under the key, and 0 only if there is none.
LEMMA HeldFacts ==
    ASSUME NEW p, NEW k, Shape(p, k), NEW c, NEW n
    PROVE  /\ Held(p, k, c, n) # 0 => /\ Held(p, k, c, n) \in Range(p)
                                      /\ k[Held(p, k, c, n)].cwd = c
                                      /\ k[Held(p, k, c, n)].name = n
           /\ \A i \in Range(p) : k[i].cwd = c /\ k[i].name = n => Held(p, k, c, n) = i
           /\ Held(p, k, c, n) \in Slots \cup {0}
<1> DEFINE S == {i \in Range(p) : k[i].cwd = c /\ k[i].name = n}
<1>1. CASE S = {}
  BY <1>1 DEF Held
<1>2. CASE S # {}
  <2>1. Held(p, k, c, n) \in S
    BY <1>2 DEF Held
  <2>2. Held(p, k, c, n) \in Slots /\ Held(p, k, c, n) # 0
    BY <2>1, Entry
  <2>3. \A i \in S : Held(p, k, c, n) = i
    BY <2>1, OneUnderKey
  <2> QED
    BY <2>1, <2>2, <2>3
<1> QED
  BY <1>1, <1>2

\* The files' configuration for a workspace.
LEMMA EffectiveType ==
    ASSUME NEW f \in [Files -> ConfigFile], NEW c \in Cwds
    PROVE  Effective(f, c) \in Goals
BY DEF Effective, Goals, Files, ConfigFile, Resolved

LEMMA EnabledType ==
    ASSUME NEW goal \in Goals
    PROVE  Enabled(goal) \subseteq Servers /\ \A n \in Enabled(goal) : goal[n] \in Resolved
BY DEF Enabled, Goals

LEMMA NothingEnabled ==
    Nothing \in Goals /\ Enabled(Nothing) = {}
BY DEF Nothing, Goals, Enabled

\* The least is one.
LEMMA FirstIsOne ==
    ASSUME NEW S \in SUBSET Nat, NEW m \in First(S), NEW n \in First(S)
    PROVE  m \in S /\ m = n
BY DEF First
-----------------------------------------------------------------------------
(* What a step leaves of a workspace's part of the pool. *)

SameKeys(p, k, p2, k2, c) ==
    /\ \A i \in Slots : i \in Range(p) /\ k[i].cwd = c <=> i \in Range(p2) /\ k2[i].cwd = c
    /\ \A i \in Range(p) : k[i].cwd = c => k2[i].name = k[i].name /\ k2[i].made = k[i].made
SameEntries(p, k, p2, k2, c) ==
    /\ SameKeys(p, k, p2, k2, c)
    /\ \A i \in Range(p) : k[i].cwd = c =>
          k2[i].status = k[i].status /\ k2[i].client = k[i].client
    /\ \A x, y \in Range(p) : k[x].cwd = c /\ k[y].cwd = c =>
          (Before(p, x, y) <=> Before(p2, x, y))

LEMMA SameKeysHeld ==
    ASSUME NEW p, NEW k, NEW p2, NEW k2, Shape(p, k), Shape(p2, k2), NEW c, SameKeys(p, k, p2, k2, c)
    PROVE  /\ \A n : Held(p2, k2, c, n) = Held(p, k, c, n)
           /\ \A goal : OutdatedIn(p2, k2, c, goal) = OutdatedIn(p, k, c, goal)
<1>1. ASSUME NEW n PROVE Held(p2, k2, c, n) = Held(p, k, c, n)
  <2>1. CASE Held(p, k, c, n) # 0
    <3>1. Held(p, k, c, n) \in Slots
      BY <2>1, HeldFacts
    <3> QED
      BY <2>1, <3>1, HeldFacts DEF SameKeys
  <2>2. CASE Held(p2, k2, c, n) # 0
    <3>1. Held(p2, k2, c, n) \in Slots
      BY <2>2, HeldFacts
    <3>2. Held(p2, k2, c, n) \in Range(p) /\ k[Held(p2, k2, c, n)].cwd = c
      BY <2>2, <3>1, HeldFacts DEF SameKeys
    <3>3. k[Held(p2, k2, c, n)].name = n
      BY <2>2, <3>2, HeldFacts DEF SameKeys
    <3> QED
      BY <3>2, <3>3, HeldFacts
  <2> QED
    BY <2>1, <2>2
<1>2. \A n : Held(p, k, c, n) # 0 =>
          k2[Held(p, k, c, n)].made = k[Held(p, k, c, n)].made
  BY HeldFacts DEF SameKeys
<1> QED
  BY <1>1, <1>2 DEF OutdatedIn

LEMMA SameEntriesNamed ==
    ASSUME NEW p, NEW k, NEW p2, NEW k2, Shape(p, k), Shape(p2, k2), NEW c, NEW among,
           SameEntries(p, k, p2, k2, c)
    PROVE  Named(p2, k2, c, among) = Named(p, k, c, among)
<1> DEFINE shown(pp, kk) == {i \in Range(pp) : /\ kk[i].cwd = c /\ kk[i].status = "connected"
                                              /\ kk[i].name \in among}
           seen(pp, kk, i) == {x \in shown(pp, kk) : /\ bound.base[kk[x].name] = bound.base[kk[i].name]
                                                    /\ Before(pp, x, i)}
           tool(pp, kk, i) == [full |-> <<bound.base[kk[i].name], Cardinality(seen(pp, kk, i))>>,
                               server |-> kk[i].name]
<1>1. Named(p, k, c, among) = {tool(p, k, i) : i \in shown(p, k)}
  BY DEF Named
<1>2. Named(p2, k2, c, among) = {tool(p2, k2, i) : i \in shown(p2, k2)}
  BY DEF Named
<1>3. shown(p, k) = shown(p2, k2) /\ \A i \in shown(p, k) : k2[i].name = k[i].name
  BY Entry DEF SameEntries, SameKeys
<1>4. \A i, x \in shown(p, k) : Before(p, x, i) <=> Before(p2, x, i)
  BY DEF SameEntries
<1>5. \A i \in shown(p, k) : seen(p, k, i) = seen(p2, k2, i)
  BY <1>3, <1>4
<1>6. \A i \in shown(p, k) : tool(p, k, i) = tool(p2, k2, i)
  BY <1>3, <1>5
<1> HIDE DEF shown, tool
<1> QED
  BY <1>1, <1>2, <1>3, <1>6
-----------------------------------------------------------------------------
(* Putting an object into the pool and taking one out. *)

LEMMA AppendFacts ==
    ASSUME NEW p \in Seq(Slots), NEW i \in Slots, i \notin Range(p)
    PROVE  /\ Append(p, i) \in Seq(Slots) /\ Range(Append(p, i)) = Range(p) \cup {i}
           /\ \A x, y \in Range(p) : Before(p, x, y) <=> Before(Append(p, i), x, y)
<1> DEFINE a == Append(p, i)
<1>1. a \in Seq(Slots) /\ DOMAIN a = 1 .. Len(p) + 1 /\ DOMAIN p = 1 .. Len(p) /\ Len(p) \in Nat
  OBVIOUS
<1>2. a[Len(p) + 1] = i /\ \A j \in 1 .. Len(p) : a[j] = p[j]
  OBVIOUS
<1> HIDE DEF a
<1>3. Range(a) = Range(p) \cup {i}
  <2>1. \A x \in Range(a) : x \in Range(p) \cup {i}
    BY <1>1, <1>2 DEF Range
  <2>2. i \in Range(a) /\ \A x \in Range(p) : x \in Range(a)
    BY <1>1, <1>2 DEF Range
  <2> QED
    BY <2>1, <2>2
<1>4. ASSUME NEW x \in Range(p), NEW y \in Range(p)
      PROVE  Before(p, x, y) <=> Before(a, x, y)
  <2>1. \A j \in DOMAIN a : a[j] = x \/ a[j] = y => j \in 1 .. Len(p)
    BY <1>1, <1>2
  <2> QED
    BY <1>1, <1>2, <2>1 DEF Before
<1> QED
  BY <1>1, <1>3, <1>4 DEF a

LEMMA WithoutFacts ==
    ASSUME NEW p \in Seq(Slots), NEW i \in Range(p), \A a, b \in DOMAIN p : p[a] = p[b] => a = b
    PROVE  /\ Without(p, i) \in Seq(Slots) /\ Range(Without(p, i)) = Range(p) \ {i}
           /\ \A a, b \in DOMAIN Without(p, i) : Without(p, i)[a] = Without(p, i)[b] => a = b
           /\ \A x, y \in Range(p) \ {i} : Before(p, x, y) <=> Before(Without(p, i), x, y)
<1> DEFINE j == CHOOSE l \in DOMAIN p : p[l] = i
           w == Without(p, i)
           L == Len(p)
<1>1. j \in 1 .. L /\ p[j] = i /\ L \in Nat /\ DOMAIN p = 1 .. L
  BY DEF Range
<1> HIDE DEF j
<1>2. w = SubSeq(p, 1, j - 1) \o SubSeq(p, j + 1, L)
  BY DEF Without, RemoveAt, j
<1>3. /\ w \in Seq(Slots) /\ Len(w) = L - 1 /\ DOMAIN w = 1 .. L - 1
      /\ \A l \in 1 .. L - 1 : w[l] = IF l < j THEN p[l] ELSE p[l + 1]
  <2> DEFINE u == SubSeq(p, 1, j - 1)
             v == SubSeq(p, j + 1, L)
  <2>1. u \in Seq(Slots) /\ Len(u) = j - 1 /\ \A l \in 1 .. j - 1 : u[l] = p[l]
    BY <1>1
  <2>2. v \in Seq(Slots) /\ Len(v) = L - j
    <3>1. j + 1 \in 1 .. L + 1 /\ L \in j .. L
      BY <1>1
    <3> QED
      BY <1>1, <3>1, SubSeqProperties
  <2>3. \A l \in 1 .. L - j : v[l] = p[j + l]
    BY <1>1, SubSeqProperties
  <2> HIDE DEF u, v
  <2>4. w = u \o v
    BY <1>2 DEF u, v
  <2> HIDE DEF w
  <2>5. w \in Seq(Slots) /\ Len(w) = L - 1 /\ DOMAIN w = 1 .. L - 1
    <3>1. w \in Seq(Slots) /\ Len(w) = Len(u) + Len(v)
      BY <2>1, <2>2, <2>4, ConcatProperties
    <3>2. Len(w) = L - 1
      BY <1>1, <2>1, <2>2, <3>1
    <3> QED
      BY <3>1, <3>2
  <2>6. \A l \in 1 .. L - 1 : w[l] = IF l < j THEN p[l] ELSE p[l + 1]
    <3> TAKE l \in 1 .. L - 1
    <3>1. CASE l < j
      BY <1>1, <2>1, <2>2, <2>4, <3>1
    <3>2. CASE ~(l < j)
      <4>1. w[l] = v[l - (j - 1)] /\ l - (j - 1) \in 1 .. L - j
        BY <1>1, <2>1, <2>2, <2>4, <3>2
      <4>2. j + (l - (j - 1)) = l + 1
        BY <1>1
      <4> QED
        BY <2>3, <3>2, <4>1, <4>2
    <3> QED
      BY <3>1, <3>2
  <2> QED
    BY <2>5, <2>6
<1> HIDE DEF w
<1>4. Range(w) = Range(p) \ {i}
  <2>1. ASSUME NEW x \in Range(w) PROVE x \in Range(p) /\ x # i
    <3>1. PICK l \in 1 .. L - 1 : w[l] = x
      BY <1>3, <2>1 DEF Range
    <3> DEFINE to == IF l < j THEN l ELSE l + 1
    <3>2. to \in 1 .. L /\ to # j /\ p[to] = x
      BY <1>1, <1>3, <3>1
    <3> QED
      BY <1>1, <3>2 DEF Range
  <2>2. ASSUME NEW x \in Range(p), x # i PROVE x \in Range(w)
    <3>1. PICK l \in 1 .. L : p[l] = x
      BY <1>1 DEF Range
    <3>2. l < j \/ l > j
      BY <1>1, <2>2, <3>1
    <3>3. CASE l < j
      BY <1>1, <1>3, <3>1, <3>3 DEF Range
    <3>4. CASE l > j
      <4>1. l - 1 \in 1 .. L - 1 /\ w[l - 1] = p[l]
        BY <1>1, <1>3, <3>1, <3>4
      <4> QED
        BY <1>3, <3>1, <4>1 DEF Range
    <3> QED
      BY <3>2, <3>3, <3>4
  <2> QED
    BY <2>1, <2>2
<1>5. \A a, b \in DOMAIN w : w[a] = w[b] => a = b
  BY <1>1, <1>3
<1>6. ASSUME NEW x \in Range(p) \ {i}, NEW y \in Range(p) \ {i}
      PROVE  Before(p, x, y) <=> Before(w, x, y)
  <2>1. ASSUME Before(p, x, y) PROVE Before(w, x, y)
    <3>1. PICK a \in 1 .. L, b \in 1 .. L : a <= b /\ p[a] = x /\ p[b] = y
      BY <1>1, <2>1 DEF Before
    <3>2. a # j /\ b # j
      BY <1>1, <3>1
    <3> DEFINE to(l) == IF l < j THEN l ELSE l - 1
    <3>3. to(a) \in DOMAIN w /\ to(b) \in DOMAIN w /\ to(a) <= to(b)
      BY <1>1, <1>3, <3>1, <3>2
    <3>4. w[to(a)] = x /\ w[to(b)] = y
      BY <1>1, <1>3, <3>1, <3>2
    <3> QED
      BY <3>3, <3>4 DEF Before
  <2>2. ASSUME Before(w, x, y) PROVE Before(p, x, y)
    <3>1. PICK a \in 1 .. L - 1, b \in 1 .. L - 1 : a <= b /\ w[a] = x /\ w[b] = y
      BY <1>3, <2>2 DEF Before
    <3> DEFINE to(l) == IF l < j THEN l ELSE l + 1
    <3>2. to(a) \in DOMAIN p /\ to(b) \in DOMAIN p /\ to(a) <= to(b)
      BY <1>1, <3>1
    <3>3. p[to(a)] = x /\ p[to(b)] = y
      BY <1>1, <1>3, <3>1
    <3> QED
      BY <3>2, <3>3 DEF Before
  <2> QED
    BY <2>1, <2>2
<1> QED
  BY <1>3, <1>4, <1>5, <1>6 DEF w
-----------------------------------------------------------------------------
(* A call goes on, from a pool p and objects k that its step has left. *)

\* What holds of the call and the pool afterwards.
Outcome(q, c, goal) ==
    /\ sync' \in [Callers -> SyncCall] /\ \A r \in Callers \ {q} : sync'[r] = sync[r]
    /\ sync'[q].cwd = c /\ sync'[q].pc \in {"closing", "connecting", "done"}
    /\ Shape(pool', conn') /\ Handed(conn', sync', Callers)
    /\ sync'[q].pc # "done" => Ready(sync'[q], pool', conn') /\ sync'[q].goal = goal
    /\ sync'[q].pc = "closing" =>
          /\ sync'[q].cut # {}
          /\ \A n \in First(sync'[q].cut) : sync'[q].at = Held(pool', conn', c, n)
    /\ sync'[q].pc = "connecting" => sync'[q].cut = {} /\ Enabled(goal) # {}
    /\ sync'[q].pc = "done" =>
          /\ OutdatedIn(pool', conn', c, goal) = {}
          /\ \A n \in Enabled(goal) : Held(pool', conn', c, n) # 0

\* What it has not touched.
Grown(p, k, q, c, goal) ==
    /\ \A d \in Cwds \ {c} : SameEntries(p, k, pool', conn', d)
    /\ OutdatedIn(pool', conn', c, goal) = OutdatedIn(p, k, c, goal)
    /\ \A n \in Servers : Held(p, k, c, n) # 0 => Held(pool', conn', c, n) # 0
    /\ OutdatedIn(p, k, c, goal) = {} /\ (\A n \in Enabled(goal) : Held(p, k, c, n) # 0)
         => sync'[q].pc = "done" /\ pool' = p /\ conn' = k
    /\ Enabled(goal) = {} => pool' = p /\ conn' = k

LEMMA SameIsSame ==
    ASSUME NEW p, NEW k, NEW c
    PROVE  SameEntries(p, k, p, k, c)
BY DEF SameEntries, SameKeys

LEMMA CutSteps ==
    ASSUME NEW q \in Callers, NEW call \in SyncCall, sync \in [Callers -> SyncCall],
           NEW p, NEW k, Shape(p, k), Handed(k, sync, Callers \ {q}), Ready(call, p, k),
           call.cut # {}, Cut(q, call, p, k)
    PROVE  Outcome(q, call.cwd, call.goal) /\ Grown(p, k, q, call.cwd, call.goal)
<1>1. PICK n \in First(call.cut) :
          sync' = [sync EXCEPT ![q] = [call EXCEPT !.pc = "closing", !.at = Held(p, k, call.cwd, n)]]
  BY DEF Cut
<1> DEFINE new == [call EXCEPT !.pc = "closing", !.at = Held(p, k, call.cwd, n)]
<1>2. pool' = p /\ conn' = k
  BY DEF Cut
<1>3. new \in SyncCall
  BY HeldFacts DEF SyncCall
<1>4. new.pc = "closing" /\ new.cwd = call.cwd /\ new.cut = call.cut /\ new.want = call.want
      /\ new.goal = call.goal /\ new.at = Held(p, k, call.cwd, n)
  BY DEF SyncCall
<1> HIDE DEF new
<1>5. sync' \in [Callers -> SyncCall] /\ sync'[q] = new /\ \A r \in Callers \ {q} : sync'[r] = sync[r]
  BY <1>1, <1>3 DEF new
<1>6. \A m \in First(call.cut) : m = n
  BY <1>1, FirstIsOne, McpAssumption DEF SyncCall
<1>7. Handed(k, sync', Callers)
  BY <1>4, <1>5 DEF Handed
<1>8. Ready(new, p, k)
  BY <1>4 DEF Ready
<1>9. Outcome(q, call.cwd, call.goal)
  BY <1>2, <1>4, <1>5, <1>6, <1>7, <1>8 DEF Outcome
<1>10. Grown(p, k, q, call.cwd, call.goal)
  BY <1>2, SameIsSame DEF Grown, Ready
<1> QED
  BY <1>9, <1>10

LEMMA FinishSteps ==
    ASSUME NEW q \in Callers, NEW call \in SyncCall, sync \in [Callers -> SyncCall],
           NEW p, NEW k, Shape(p, k), Handed(k, sync, Callers \ {q}), Ready(call, p, k),
           call.cut = {}, {n \in call.want : Held(p, k, call.cwd, n) = 0} = {}, Finish(q, call, p, k)
    PROVE  Outcome(q, call.cwd, call.goal) /\ Grown(p, k, q, call.cwd, call.goal)
<1> DEFINE new == [call EXCEPT !.pc = "done", !.want = {}, !.goal = Nothing]
<1>1. sync' = [sync EXCEPT ![q] = new] /\ pool' = p /\ conn' = k
  BY DEF Finish
<1>2. new \in SyncCall /\ new.pc = "done" /\ new.cwd = call.cwd
  BY NothingEnabled DEF SyncCall
<1> HIDE DEF new
<1>3. sync' \in [Callers -> SyncCall] /\ sync'[q] = new /\ \A r \in Callers \ {q} : sync'[r] = sync[r]
  BY <1>1, <1>2
<1>4. Handed(k, sync', Callers)
  BY <1>2, <1>3 DEF Handed
<1>5. \A n \in Enabled(call.goal) : Held(p, k, call.cwd, n) # 0
  BY DEF Ready
<1>6. OutdatedIn(p, k, call.cwd, call.goal) = {}
  BY DEF Ready
<1>7. Outcome(q, call.cwd, call.goal)
  BY <1>1, <1>2, <1>3, <1>4, <1>5, <1>6 DEF Outcome
<1>8. Grown(p, k, q, call.cwd, call.goal)
  BY <1>1, <1>2, <1>3, SameIsSame DEF Grown
<1> QED
  BY <1>7, <1>8

LEMMA ConnectSteps ==
    ASSUME NEW q \in Callers, NEW call \in SyncCall, sync \in [Callers -> SyncCall],
           NEW p, NEW k, Shape(p, k), Handed(k, sync, Callers \ {q}), Ready(call, p, k),
           call.cut = {},
           NEW n \in First({m \in call.want : Held(p, k, call.cwd, m) = 0}), Connect(q, call, n, p, k)
    PROVE  Outcome(q, call.cwd, call.goal) /\ Grown(p, k, q, call.cwd, call.goal)
<1> DEFINE c == call.cwd
           goal == call.goal
           new(i) == [call EXCEPT !.pc = "connecting", !.at = i, !.want = {m \in call.want : m > n}]
           entry == [cwd |-> call.cwd, name |-> n, made |-> call.goal[n],
                     status |-> "connecting", client |-> FALSE, live |-> TRUE]
<1>1. PICK i \in First(Free(q, k)) :
          /\ sync' = [sync EXCEPT ![q] = new(i)]
          /\ pool' = Append(p, i) /\ conn' = [k EXCEPT ![i] = entry]
  BY DEF Connect
<1>2. i \in Slots /\ k[i] = Blank /\ \A r \in Callers \ {q} : sync[r].at # i
  BY <1>1 DEF First, Free
<1>3. /\ n \in call.want /\ Held(p, k, c, n) = 0 /\ n \in Enabled(goal) /\ n \in Servers
      /\ \A m \in call.want : Held(p, k, c, m) = 0 => n <= m
  BY EnabledType DEF First, Ready, SyncCall
<1>4. i \notin Range(p)
  BY <1>2, NoEntry
<1>5. entry \in Managed /\ entry.cwd = c /\ entry.name = n /\ entry.made = goal[n]
      /\ entry.status = "connecting" /\ entry.client = FALSE /\ entry.live = TRUE
  BY <1>3, EnabledType DEF Managed, Ready, SyncCall
<1>6. new(i) \in SyncCall /\ new(i).pc = "connecting" /\ new(i).cwd = c /\ new(i).cut = {}
      /\ new(i).at = i /\ new(i).goal = goal /\ new(i).want = {m \in call.want : m > n}
  BY <1>2 DEF SyncCall
<1> HIDE DEF new, entry
<1>7. sync' \in [Callers -> SyncCall] /\ sync'[q] = new(i) /\ \A r \in Callers \ {q} : sync'[r] = sync[r]
  BY <1>1, <1>6
<1>8. p \in Seq(Slots) /\ k \in [Slots -> Managed \cup {Blank}]
  BY DEF Shape
<1>9. conn' \in [Slots -> Managed \cup {Blank}] /\ conn'[i] = entry /\ \A j \in Slots \ {i} : conn'[j] = k[j]
  BY <1>1, <1>2, <1>5, <1>8
<1>10. /\ pool' \in Seq(Slots) /\ Range(pool') = Range(p) \cup {i}
       /\ \A x, y \in Range(p) : Before(p, x, y) <=> Before(pool', x, y)
  BY <1>1, <1>2, <1>4, <1>8, AppendFacts
<1>11. \A j \in Range(p) : j \in Slots /\ j # i /\ conn'[j] = k[j]
  BY <1>4, <1>9, Entry
<1>12. \A j \in Range(p) : ~(k[j].cwd = c /\ k[j].name = n)
  BY <1>3, HeldFacts, Entry
<1>13. Shape(pool', conn')
  <2>1. \A j \in Slots : j \in Range(pool') <=> conn'[j] \in Managed
    BY <1>5, <1>9, <1>10 DEF Shape
  <2>2. \A a, b \in DOMAIN pool' : conn'[pool'[a]].cwd = conn'[pool'[b]].cwd
                                  /\ conn'[pool'[a]].name = conn'[pool'[b]].name => a = b
    <3>1. DOMAIN pool' = 1 .. Len(p) + 1 /\ DOMAIN p = 1 .. Len(p) /\ Len(p) \in Nat
          /\ pool'[Len(p) + 1] = i /\ \A a \in 1 .. Len(p) : pool'[a] = p[a]
      BY <1>1, <1>8
    <3>2. \A a \in 1 .. Len(p) : p[a] \in Range(p)
      BY <3>1 DEF Range
    <3> TAKE a, b \in DOMAIN pool'
    <3>3. CASE a \in 1 .. Len(p) /\ b \in 1 .. Len(p)
      BY <1>11, <3>1, <3>2, <3>3 DEF Shape
    <3>4. CASE a = Len(p) + 1 /\ b \in 1 .. Len(p)
      BY <1>5, <1>9, <1>11, <1>12, <3>1, <3>2, <3>4
    <3>5. CASE a \in 1 .. Len(p) /\ b = Len(p) + 1
      BY <1>5, <1>9, <1>11, <1>12, <3>1, <3>2, <3>5
    <3> QED
      BY <3>1, <3>3, <3>4, <3>5
  <2>3. \A j \in Slots : /\ conn'[j].status = "connected" <=> conn'[j].client
                         /\ conn'[j].live /\ ~conn'[j].client => conn'[j].status = "connecting"
    BY <1>5, <1>9 DEF Shape
  <2> QED
    BY <1>9, <1>10, <2>1, <2>2, <2>3 DEF Shape
<1>14. Handed(conn', sync', Callers)
  <2>1. \A r \in Callers \ {q} : sync'[r].pc = "connecting" => sync'[r].at \in Slots \ {i}
    BY <1>2, <1>7 DEF Handed
  <2>2. \A j \in Slots : conn'[j].status = "connecting" =>
          \E r \in Callers : sync'[r].pc = "connecting" /\ sync'[r].at = j
    BY <1>6, <1>7, <1>9 DEF Handed
  <2>3. \A r \in Callers : sync'[r].pc = "connecting" =>
          /\ sync'[r].at \in Slots
          /\ conn'[sync'[r].at].status = "connecting" /\ conn'[sync'[r].at].cwd = sync'[r].cwd
    BY <1>2, <1>5, <1>6, <1>7, <1>9, <2>1 DEF Handed
  <2>4. \A r, t \in Callers : sync'[r].pc = "connecting" /\ sync'[t].pc = "connecting"
                               /\ sync'[r].at = sync'[t].at => r = t
    BY <1>6, <1>7, <2>1 DEF Handed
  <2> QED
    BY <2>2, <2>3, <2>4 DEF Handed
<1>15. \A m \in Servers : Held(p, k, c, m) # 0 => Held(pool', conn', c, m) = Held(p, k, c, m)
  BY <1>10, <1>11, <1>13, HeldFacts
<1>16. Held(pool', conn', c, n) = i /\ i # 0
  BY <1>5, <1>9, <1>10, <1>13, HeldFacts, Entry
<1>17. \A m \in Servers : m # n /\ Held(pool', conn', c, m) # 0 => Held(p, k, c, m) # 0
  <2> SUFFICES ASSUME NEW m \in Servers, m # n, Held(pool', conn', c, m) # 0
               PROVE  Held(p, k, c, m) # 0
    OBVIOUS
  <2> DEFINE h == Held(pool', conn', c, m)
  <2>1. h \in Range(pool') /\ conn'[h].cwd = c /\ conn'[h].name = m
    BY <1>13, HeldFacts
  <2>2. h \in Range(p)
    BY <1>5, <1>9, <1>10, <2>1
  <2>3. Held(p, k, c, m) = h
    BY <1>11, <2>1, <2>2, HeldFacts
  <2> QED
    BY <2>3
<1>18. OutdatedIn(pool', conn', c, goal) = OutdatedIn(p, k, c, goal)
  <2>1. n \notin OutdatedIn(pool', conn', c, goal) /\ n \notin OutdatedIn(p, k, c, goal)
    BY <1>3, <1>5, <1>9, <1>16 DEF OutdatedIn
  <2>2. \A m \in Servers : Held(p, k, c, m) # 0 => conn'[Held(p, k, c, m)] = k[Held(p, k, c, m)]
    BY <1>11, HeldFacts
  <2>3. ASSUME NEW m \in Servers, m # n
        PROVE  m \in OutdatedIn(pool', conn', c, goal) <=> m \in OutdatedIn(p, k, c, goal)
    <3>1. CASE Held(p, k, c, m) # 0
      BY <1>15, <2>2, <3>1 DEF OutdatedIn
    <3>2. CASE Held(p, k, c, m) = 0
      BY <1>17, <2>3, <3>2 DEF OutdatedIn
    <3> QED
      BY <3>1, <3>2
  <2> QED
    BY <2>1, <2>3 DEF OutdatedIn
<1>19. Ready(sync'[q], pool', conn')
  <2>1. \A m \in Enabled(goal) : m \in new(i).want \/ Held(pool', conn', c, m) # 0
    <3> TAKE m \in Enabled(goal)
    <3>1. m \in Servers /\ m \in Nat /\ n \in Nat
      BY <1>3, EnabledType, McpAssumption DEF SyncCall
    <3>2. CASE Held(p, k, c, m) # 0
      BY <1>15, <3>1, <3>2
    <3>3. CASE Held(p, k, c, m) = 0
      <4>1. m \in call.want /\ n <= m
        BY <1>3, <3>3 DEF Ready
      <4> QED
        BY <1>6, <1>16, <3>1, <4>1
    <3> QED
      BY <3>2, <3>3
  <2>2. new(i).want \subseteq Enabled(goal) /\ c \in Cwds
    BY <1>6 DEF Ready
  <2>3. OutdatedIn(pool', conn', c, goal) = {}
    BY <1>18 DEF Ready
  <2> QED
    BY <1>6, <1>7, <2>1, <2>2, <2>3 DEF Ready
<1>20. ASSUME NEW d \in Cwds \ {c} PROVE SameEntries(p, k, pool', conn', d)
  <2>1. SameKeys(p, k, pool', conn', d)
    BY <1>5, <1>9, <1>10, <1>11 DEF SameKeys
  <2> QED
    BY <1>10, <1>11, <2>1 DEF SameEntries
<1>21. Outcome(q, c, goal)
  BY <1>3, <1>6, <1>7, <1>13, <1>14, <1>19 DEF Outcome
<1>22. Grown(p, k, q, c, goal)
  BY <1>3, <1>6, <1>7, <1>15, <1>18, <1>20 DEF Grown
<1> QED
  BY <1>21, <1>22

LEMMA OnwardSteps ==
    ASSUME NEW q \in Callers, NEW call \in SyncCall, sync \in [Callers -> SyncCall],
           NEW p, NEW k, Shape(p, k), Handed(k, sync, Callers \ {q}), Ready(call, p, k),
           Onward(q, call, p, k)
    PROVE  Outcome(q, call.cwd, call.goal) /\ Grown(p, k, q, call.cwd, call.goal)
BY CutSteps, FinishSteps, ConnectSteps DEF Onward

LEMMA SameEntriesTrans ==
    ASSUME NEW p, NEW k, NEW p2, NEW k2, NEW p3, NEW k3, NEW c,
           Shape(p, k), Shape(p2, k2), SameEntries(p, k, p2, k2, c), SameEntries(p2, k2, p3, k3, c)
    PROVE  SameEntries(p, k, p3, k3, c)
<1>1. \A i \in Range(p) : i \in Slots
  BY Entry
<1>2. \A i \in Range(p) : k[i].cwd = c => i \in Range(p2) /\ k2[i].cwd = c
  BY <1>1 DEF SameEntries, SameKeys
<1>3. SameKeys(p, k, p3, k3, c)
  BY <1>1, <1>2 DEF SameEntries, SameKeys
<1> QED
  BY <1>2, <1>3 DEF SameEntries

\* As much of Grown as also holds when a connection has been made.
Kept(c, goal) ==
    /\ \A d \in Cwds \ {c} : SameEntries(pool, conn, pool', conn', d)
    /\ OutdatedIn(pool', conn', c, goal) = OutdatedIn(pool, conn, c, goal)
    /\ \A n \in Servers : Held(pool, conn, c, n) # 0 => Held(pool', conn', c, n) # 0

LEMMA StartSteps ==
    ASSUME Shape(pool, conn), Handed(conn, sync, Callers), sync \in [Callers -> SyncCall],
           NEW q \in Callers, ~Working(q), NEW c \in Cwds, NEW goal \in Goals, StartSync(q, c, goal)
    PROVE  Outcome(q, c, goal) /\ Grown(pool, conn, q, c, goal) /\ Kept(c, goal)
<1> DEFINE call == Call(c, Outdated(c, goal), Enabled(goal), goal)
<1>1. call \in SyncCall /\ call.cwd = c /\ call.goal = goal /\ call.want = Enabled(goal)
      /\ call.cut = OutdatedIn(pool, conn, c, goal)
  BY EnabledType DEF Call, SyncCall, Outdated, OutdatedIn
<1>2. Onward(q, call, pool, conn)
  BY DEF StartSync
<1> HIDE DEF call
<1>3. Handed(conn, sync, Callers \ {q})
  BY DEF Handed, Working
<1>4. Ready(call, pool, conn)
  BY <1>1 DEF Ready
<1>5. Outcome(q, c, goal) /\ Grown(pool, conn, q, c, goal)
  BY <1>1, <1>2, <1>3, <1>4, OnwardSteps
<1> QED
  BY <1>5 DEF Kept, Grown

LEMMA EndedSteps ==
    ASSUME Shape(pool, conn), Handed(conn, sync, Callers), sync \in [Callers -> SyncCall], CallsReady,
           NEW q \in Callers, NEW ok \in BOOLEAN, Ended(q, ok)
    PROVE  Outcome(q, sync[q].cwd, sync[q].goal) /\ Kept(sync[q].cwd, sync[q].goal)
<1> DEFINE c == sync[q].cwd
           goal == sync[q].goal
           at == sync[q].at
           entry == [conn[at] EXCEPT !.status = IF ok THEN "connected" ELSE "error", !.client = ok, !.live = ok]
           told == [conn EXCEPT ![at].status = IF ok THEN "connected" ELSE "error",
                                ![at].client = ok, ![at].live = ok]
           call == [sync[q] EXCEPT !.at = 0]
<1>1. sync[q].pc = "connecting" /\ sync[q] \in SyncCall
  BY DEF Ended
<1>2. /\ at \in Slots /\ conn[at].status = "connecting" /\ conn[at].cwd = c
      /\ \A r \in Callers \ {q} : sync[r].pc = "connecting" => sync[r].at # at
  BY <1>1 DEF Handed
<1>3. c \in Cwds
  BY <1>1 DEF CallsReady, Working, Ready
<1>4. at \in Range(pool) /\ conn[at] \in Managed
  BY <1>2, <1>3, NoEntry DEF Shape
<1>5. Onward(q, call, pool, told)
  BY <1>4 DEF Ended
<1>6. entry \in Managed /\ entry.cwd = c /\ entry.name = conn[at].name /\ entry.made = conn[at].made
      /\ entry.client = ok /\ entry.live = ok
      /\ entry.status = (IF ok THEN "connected" ELSE "error")
  BY <1>2, <1>4 DEF Managed
<1>7. conn \in [Slots -> Managed \cup {Blank}]
  BY DEF Shape
<1>8. told = [conn EXCEPT ![at] = entry]
  BY <1>2, <1>7
<1>9. told \in [Slots -> Managed \cup {Blank}] /\ told[at] = entry /\ \A i \in Slots \ {at} : told[i] = conn[i]
  BY <1>2, <1>6, <1>7, <1>8
<1>10. call \in SyncCall /\ call.cwd = c /\ call.goal = goal /\ call.cut = sync[q].cut /\ call.want = sync[q].want
  BY <1>1 DEF SyncCall
<1> HIDE DEF entry, told, call
<1>11. \A i \in Slots : told[i].cwd = conn[i].cwd /\ told[i].name = conn[i].name /\ told[i].made = conn[i].made
  BY <1>2, <1>6, <1>9
<1>12. Shape(pool, told)
  <2>1. \A i \in DOMAIN pool : pool[i] \in Slots
    BY DEF Shape
  <2>2. \A i \in Slots : /\ told[i].status = "connected" <=> told[i].client
                         /\ told[i].live /\ ~told[i].client => told[i].status = "connecting"
    BY <1>6, <1>9 DEF Shape
  <2> QED
    BY <1>4, <1>6, <1>9, <1>11, <2>1, <2>2 DEF Shape
<1>13. Handed(told, sync, Callers \ {q})
  <2>1. told[at].status # "connecting"
    BY <1>6, <1>9
  <2> QED
    BY <1>2, <1>9, <2>1 DEF Handed
<1>14. \A d : SameKeys(pool, conn, pool, told, d)
  BY <1>11, Entry DEF SameKeys
<1>15. \A n : Held(pool, told, c, n) = Held(pool, conn, c, n)
  BY <1>12, <1>14, SameKeysHeld
<1>16. OutdatedIn(pool, told, c, goal) = OutdatedIn(pool, conn, c, goal)
  BY <1>12, <1>14, SameKeysHeld
<1>17. Ready(call, pool, told)
  <2>1. Ready(sync[q], pool, conn)
    BY <1>1 DEF CallsReady, Working
  <2> QED
    BY <1>10, <1>15, <1>16, <2>1 DEF Ready
<1>18. Outcome(q, c, goal) /\ Grown(pool, told, q, c, goal)
  <2>1. Outcome(q, call.cwd, call.goal) /\ Grown(pool, told, q, call.cwd, call.goal)
    BY <1>5, <1>10, <1>12, <1>13, <1>17, OnwardSteps
  <2> QED
    BY <1>10, <2>1
<1>19. ASSUME NEW d \in Cwds \ {c} PROVE SameEntries(pool, conn, pool', conn', d)
  <2>1. SameEntries(pool, conn, pool, told, d)
    BY <1>2, <1>9, <1>14, Entry DEF SameEntries
  <2>2. SameEntries(pool, told, pool', conn', d)
    BY <1>18 DEF Grown
  <2> QED
    BY <1>12, <2>1, <2>2, SameEntriesTrans
<1> QED
  BY <1>15, <1>16, <1>18, <1>19 DEF Kept, Grown

\* The object a call has closed is out of the pool, if no other call is at work there.
LEMMA ClosedSteps ==
    ASSUME Shape(pool, conn), Handed(conn, sync, Callers), sync \in [Callers -> SyncCall], CallsReady,
           NEW q \in Callers, Closed(q),
           \A r \in Callers \ {q} : Working(r) => sync[r].cwd # sync[q].cwd
    PROVE  /\ Outcome(q, sync[q].cwd, sync[q].goal)
           /\ \A d \in Cwds \ {sync[q].cwd} : SameEntries(pool, conn, pool', conn', d)
           /\ Enabled(sync[q].goal) = {} =>
                 \A g : OutdatedIn(pool', conn', sync[q].cwd, g)
                          \subseteq OutdatedIn(pool, conn, sync[q].cwd, g)
<1> DEFINE c == sync[q].cwd
           goal == sync[q].goal
           at == sync[q].at
<1>1. PICK n \in First(sync[q].cut) :
        LET call == sync[q]
            old == Held(pool, conn, call.cwd, n)
            shut == IF call.at # 0 /\ conn[call.at].client
                    THEN [conn EXCEPT ![call.at].live = FALSE, ![call.at].client = FALSE] ELSE conn
            rest == Without(pool, old)
            kept == [i \in Slots |-> IF i \notin Range(rest) /\ ~shut[i].live THEN Blank ELSE shut[i]]
        IN  /\ call.pc = "closing"
            /\ Onward(q, [call EXCEPT !.cut = @ \ {n}, !.at = 0], rest, kept)
  BY DEF Closed
<1> DEFINE shut == IF at # 0 /\ conn[at].client
                   THEN [conn EXCEPT ![at].live = FALSE, ![at].client = FALSE] ELSE conn
           rest == Without(pool, at)
           kept == [i \in Slots |-> IF i \notin Range(rest) /\ ~shut[i].live THEN Blank ELSE shut[i]]
           call == [sync[q] EXCEPT !.cut = @ \ {n}, !.at = 0]
<1>2. sync[q].pc = "closing" /\ sync[q] \in SyncCall
  BY <1>1
<1>3. /\ Ready(sync[q], pool, conn) /\ c \in Cwds
      /\ n \in sync[q].cut /\ at = Held(pool, conn, c, n) /\ n \in OutdatedIn(pool, conn, c, goal)
  BY <1>1, <1>2 DEF CallsReady, Working, Ready, First
<1>4. at # 0 /\ at \in Range(pool) /\ conn[at].cwd = c /\ conn[at].name = n /\ at \in Slots /\ n \in Servers
  BY <1>3, HeldFacts, Entry DEF OutdatedIn
<1>5. Onward(q, call, rest, kept)
  BY <1>1, <1>3
<1>6. conn \in [Slots -> Managed \cup {Blank}] /\ pool \in Seq(Slots)
  BY DEF Shape
<1>7. conn[at].status # "connecting"
  BY <1>2, <1>4 DEF Handed, Working
<1>8. ~shut[at].live /\ \A i \in Slots \ {at} : shut[i] = conn[i]
  <2>1. CASE conn[at].client
    <3>1. conn[at] \in Managed
      BY <1>4 DEF Shape
    <3> QED
      BY <1>4, <1>6, <2>1, <3>1 DEF Managed
  <2>2. CASE ~conn[at].client
    BY <1>4, <1>7, <2>2 DEF Shape
  <2> QED
    BY <2>1, <2>2
<1>9. /\ rest \in Seq(Slots) /\ Range(rest) = Range(pool) \ {at}
      /\ \A a, b \in DOMAIN rest : rest[a] = rest[b] => a = b
      /\ \A x, y \in Range(pool) \ {at} : Before(pool, x, y) <=> Before(rest, x, y)
  <2>1. \A a, b \in DOMAIN pool : pool[a] = pool[b] => a = b
    BY DEF Shape
  <2> QED
    BY <1>4, <1>6, <2>1, WithoutFacts
<1> HIDE DEF shut, rest
<1>10. kept = [conn EXCEPT ![at] = Blank]
  <2>1. kept[at] = Blank
    BY <1>4, <1>8, <1>9
  <2>2. ASSUME NEW i \in Slots \ {at} PROVE kept[i] = conn[i]
    <3>1. CASE i \in Range(pool)
      BY <1>8, <1>9, <2>2, <3>1
    <3>2. CASE i \notin Range(pool)
      <4>1. conn[i] = Blank /\ ~Blank.live
        BY <2>2, <3>2, NoEntry DEF Blank
      <4> QED
        BY <1>8, <1>9, <2>2, <3>2, <4>1
    <3> QED
      BY <3>1, <3>2
  <2> QED
    BY <1>6, <2>1, <2>2
<1> HIDE DEF kept
<1>11. kept \in [Slots -> Managed \cup {Blank}] /\ kept[at] = Blank /\ \A i \in Slots \ {at} : kept[i] = conn[i]
  BY <1>4, <1>6, <1>10
<1>12. call \in SyncCall /\ call.cwd = c /\ call.goal = goal /\ call.cut = sync[q].cut \ {n}
       /\ call.want = sync[q].want
  BY <1>2 DEF SyncCall
<1> HIDE DEF call
<1>13. Blank \notin Managed /\ Blank.status = "error" /\ Blank.client = FALSE /\ Blank.live = FALSE
  BY McpAssumption DEF Blank, Managed
<1>14. Shape(rest, kept)
  <2>1. \A i \in Slots : i \in Range(rest) <=> kept[i] \in Managed
    BY <1>9, <1>11, <1>13 DEF Shape
  <2>2. \A a, b \in DOMAIN rest : kept[rest[a]].cwd = kept[rest[b]].cwd
                                /\ kept[rest[a]].name = kept[rest[b]].name => a = b
    <3> SUFFICES ASSUME NEW a \in DOMAIN rest, NEW b \in DOMAIN rest,
                        kept[rest[a]].cwd = kept[rest[b]].cwd, kept[rest[a]].name = kept[rest[b]].name
                 PROVE  rest[a] = rest[b]
      BY <1>9
    <3>1. rest[a] \in Range(rest) /\ rest[b] \in Range(rest)
      BY DEF Range
    <3>2. rest[a] \in Range(pool) \ {at} /\ rest[b] \in Range(pool) \ {at}
      BY <1>9, <3>1
    <3>3. rest[a] \in Slots /\ rest[b] \in Slots
      BY <3>2, Entry
    <3> QED
      BY <1>11, <3>2, <3>3, OneUnderKey
  <2>3. \A i \in Slots : /\ kept[i].status = "connected" <=> kept[i].client
                         /\ kept[i].live /\ ~kept[i].client => kept[i].status = "connecting"
    BY <1>11, <1>13 DEF Shape
  <2> QED
    BY <1>9, <1>11, <2>1, <2>2, <2>3 DEF Shape
<1>15. Handed(kept, sync, Callers \ {q})
  BY <1>2, <1>7, <1>11, <1>13 DEF Handed
<1>16. Held(rest, kept, c, n) = 0
  <2>1. ~\E i \in Range(rest) : kept[i].cwd = c /\ kept[i].name = n
    <3> SUFFICES ASSUME NEW i \in Range(rest), kept[i].cwd = c, kept[i].name = n PROVE FALSE
      OBVIOUS
    <3>1. i \in Range(pool) /\ i # at /\ i \in Slots
      BY <1>9, Entry
    <3> QED
      BY <1>4, <1>11, <3>1, OneUnderKey
  <2> QED
    BY <1>14, <2>1, HeldFacts
<1>17. ASSUME NEW m, m # n
       PROVE  /\ Held(rest, kept, c, m) = Held(pool, conn, c, m)
              /\ Held(pool, conn, c, m) # 0 => kept[Held(pool, conn, c, m)] = conn[Held(pool, conn, c, m)]
  <2>1. CASE Held(pool, conn, c, m) # 0
    <3>1. /\ Held(pool, conn, c, m) \in Range(pool) /\ Held(pool, conn, c, m) \in Slots
          /\ conn[Held(pool, conn, c, m)].cwd = c /\ conn[Held(pool, conn, c, m)].name = m
      BY <2>1, HeldFacts, Entry
    <3>2. Held(pool, conn, c, m) # at
      BY <1>4, <1>17, <3>1
    <3>3. kept[Held(pool, conn, c, m)] = conn[Held(pool, conn, c, m)]
      BY <1>11, <3>1, <3>2
    <3> QED
      BY <1>9, <1>14, <3>1, <3>2, <3>3, HeldFacts
  <2>2. CASE Held(rest, kept, c, m) # 0
    <3> DEFINE h == Held(rest, kept, c, m)
    <3>1. h \in Range(rest) /\ kept[h].cwd = c /\ kept[h].name = m
      BY <1>14, <2>2, HeldFacts
    <3> HIDE DEF h
    <3>2. h \in Range(pool) /\ h # at /\ h \in Slots
      BY <1>9, <3>1, Entry
    <3>3. conn[h].cwd = c /\ conn[h].name = m
      BY <1>11, <3>1, <3>2
    <3>4. Held(pool, conn, c, m) = h
      BY <3>2, <3>3, HeldFacts
    <3>5. kept[h] = conn[h]
      BY <1>11, <3>2
    <3> QED
      BY <3>4, <3>5 DEF h
  <2> QED
    BY <2>1, <2>2
<1>18. \A g : OutdatedIn(rest, kept, c, g) = OutdatedIn(pool, conn, c, g) \ {n}
  <2> TAKE g
  <2>1. n \notin OutdatedIn(rest, kept, c, g)
    BY <1>16 DEF OutdatedIn
  <2>2. ASSUME NEW m \in Servers, m # n
        PROVE  m \in OutdatedIn(rest, kept, c, g) <=> m \in OutdatedIn(pool, conn, c, g)
    BY <1>17, <2>2 DEF OutdatedIn
  <2> QED
    BY <2>1, <2>2 DEF OutdatedIn
<1>19. Ready(call, rest, kept)
  <2>1. call.cut = OutdatedIn(rest, kept, c, goal)
    BY <1>3, <1>12, <1>18 DEF Ready
  <2>2. \A m \in Enabled(goal) : m \in call.want
    BY <1>3, <1>12 DEF Ready
  <2>3. call.want \subseteq Enabled(goal)
    BY <1>3, <1>12 DEF Ready
  <2> QED
    BY <1>3, <1>12, <2>1, <2>2, <2>3 DEF Ready
<1>20. Outcome(q, c, goal) /\ Grown(rest, kept, q, c, goal)
  <2>1. Outcome(q, call.cwd, call.goal) /\ Grown(rest, kept, q, call.cwd, call.goal)
    BY <1>5, <1>12, <1>14, <1>15, <1>19, OnwardSteps
  <2> QED
    BY <1>12, <2>1
<1>21. ASSUME NEW d \in Cwds \ {c} PROVE SameEntries(pool, conn, pool', conn', d)
  <2>1. SameEntries(pool, conn, rest, kept, d)
    <3>1. SameKeys(pool, conn, rest, kept, d)
      BY <1>4, <1>9, <1>11, Entry DEF SameKeys
    <3> QED
      BY <1>4, <1>9, <1>11, <3>1, Entry DEF SameEntries
  <2>2. SameEntries(rest, kept, pool', conn', d)
    BY <1>20 DEF Grown
  <2> QED
    BY <1>14, <2>1, <2>2, SameEntriesTrans
<1> QED
  BY <1>18, <1>20, <1>21 DEF Grown
-----------------------------------------------------------------------------
(* Which calls are at work at the same time. *)

LEMMA ScenarioType ==
    ASSUME TypeOK
    PROVE  /\ bound.cwd \in [Sessions -> Cwds] /\ bound.allowed \in [Sessions -> SUBSET Servers]
           /\ bound.templates \subseteq Servers /\ bound.overlap \in BOOLEAN /\ bound.changes \in Nat
           /\ files \in [Files -> ConfigFile]
BY McpAssumption DEF TypeOK

\* A call cuts only after a change: for the page, or in another workspace.
LEMMA ClosingWhere ==
    ASSUME TypeOK, PoolPart, NEW r \in Callers, sync[r].pc = "closing"
    PROVE  /\ up = "up" => /\ bound.changes # 0
                           /\ r = "page" => page.op \in {"asking", "cutting"}
                           /\ r # "page" /\ ~bound.overlap => sync[r].cwd # PageCwd
           /\ up # "up" => r = "page"
<1> USE DEF PoolPart
<1>1. Working(r) /\ sync[r].cut # {}
  BY DEF Working, CallsReady
<1>2. /\ sync[r].cwd \in Cwds /\ sync[r].goal = GoalOf(r)
      /\ sync[r].cut = Outdated(sync[r].cwd, sync[r].goal)
  BY <1>1 DEF CallsReady, Ready, Outdated, OutdatedIn
<1>3. sync[r] # Idle
  BY DEF Idle
<1>4. CASE up # "up"
  BY <1>3, <1>4 DEF Control, Callers
<1>5. CASE up = "up" /\ r = "page"
  <2>1. page.op \in Busy /\ sync[r].cwd = PageCwd
    BY <1>3, <1>5 DEF Control
  <2>2. page.op # "cutting" => page.op = "asking"
    BY <1>1, <1>2, <1>5, <2>1 DEF InPlace, GoalOf
  <2> QED
    BY <1>5, <2>2 DEF Control
<1>6. CASE up = "up" /\ r # "page"
  <2>1. r \in Sessions /\ sync[r].goal = Desired(sync[r].cwd)
    BY <1>2, <1>6 DEF GoalOf, Callers
  <2>2. bound.changes = 0 \/ sync[r].cwd = PageCwd => page.op = "asking"
    BY <1>1, <1>2, <2>1 DEF InPlace
  <2> QED
    BY <1>3, <1>6, <2>1, <2>2 DEF Control, Busy
<1> QED
  BY <1>4, <1>5, <1>6

\* Where a call cuts, no other is at work.
LEMMA CutsAlone ==
    ASSUME TypeOK, PoolPart, Calm(bound), NEW q \in Callers, sync[q].pc = "closing",
           NEW r \in Callers \ {q}, Working(r)
    PROVE  sync[r].cwd # sync[q].cwd
<1> USE DEF PoolPart
<1>1. sync[q] # Idle /\ sync[r] # Idle /\ sync[q].pc # "idle" /\ sync[r].pc # "idle" /\ Working(q)
  BY DEF Idle, Working
<1>2. up = "up"
  BY <1>1, ClosingWhere DEF Control, Callers
<1>3. bound.changes # 0 /\ ~bound.overlap
  BY <1>2, ClosingWhere DEF Calm
<1>4. q # "page" /\ r # "page"
  BY <1>1, <1>2, <1>3 DEF Control, Callers
<1>5. q \in Sessions /\ r \in Sessions /\ sync[q].cwd # PageCwd
  BY <1>2, <1>3, <1>4, ClosingWhere DEF Callers
<1>6. sync[q].cwd = bound.cwd[q] /\ sync[r].cwd = bound.cwd[r]
      /\ bound.allowed[q] # {} /\ bound.allowed[r] # {}
  BY <1>1, <1>5 DEF Control
<1> QED
  BY <1>3, <1>5, <1>6 DEF Calm

\* Two calls at work want what the files say.
LEMMA TwoAtWork ==
    ASSUME TypeOK, PoolPart, Calm(bound), NEW q \in Callers, sync[q] # Idle,
           NEW r \in Callers \ {q}, Working(r)
    PROVE  up = "up" /\ page.op # "cutting" /\ sync[r].goal = Desired(sync[r].cwd)
<1> USE DEF PoolPart
<1>1. sync[r] # Idle /\ sync[r].pc # "idle"
  BY DEF Idle, Working
<1>2. up = "up"
  BY <1>1 DEF Control, Callers
<1>3. page.op # "cutting"
  <2>1. CASE bound.changes = 0
    BY <2>1 DEF Control
  <2>2. CASE ~bound.overlap
    BY <1>1, <2>2 DEF Control, Callers, Busy
  <2> QED
    BY <2>1, <2>2 DEF Calm
<1> QED
  BY <1>2, <1>3 DEF CallsReady, GoalOf

\* What one call leaves to the others.
LEMMA CallMoves ==
    ASSUME TypeOK, PoolPart, NEW q \in Callers, NEW c \in Cwds, NEW goal, Outcome(q, c, goal),
           \A d \in Cwds \ {c} : SameEntries(pool, conn, pool', conn', d),
           sync'[q].pc # "done" => goal = GoalOf(q)',
           \A r \in Callers \ {q} : Working(r) => GoalOf(r)' = GoalOf(r),
           \A r \in Callers \ {q} : Working(r) /\ sync[r].cwd = c =>
               sync[r].pc = "connecting" /\ sync[r].goal = goal /\ Kept(c, goal)
    PROVE  CallsReady'
<1> USE DEF PoolPart
<1> SUFFICES ASSUME NEW r \in Callers, Working(r)'
             PROVE  /\ Ready(sync'[r], pool', conn')
                    /\ sync'[r].goal = GoalOf(r)'
                    /\ sync'[r].pc = "closing" =>
                          /\ sync'[r].cut # {}
                          /\ \A n \in First(sync'[r].cut) :
                                sync'[r].at = Held(pool', conn', sync'[r].cwd, n)
                    /\ sync'[r].pc = "connecting" => sync'[r].cut = {}
  BY DEF CallsReady
<1>1. CASE r = q
  BY <1>1 DEF Outcome, Working
<1>2. CASE r # q
  <2>1. sync'[r] = sync[r] /\ Working(r)
    BY <1>2 DEF Outcome, Working
  <2>2. /\ Ready(sync[r], pool, conn) /\ sync[r].goal = GoalOf(r) /\ sync[r].cwd \in Cwds
        /\ sync[r].pc = "closing" => sync[r].cut # {} /\ \A n \in First(sync[r].cut) :
              sync[r].at = Held(pool, conn, sync[r].cwd, n)
        /\ sync[r].pc = "connecting" => sync[r].cut = {}
    BY <2>1 DEF CallsReady, Ready
  <2>3. GoalOf(r)' = GoalOf(r)
    BY <1>2, <2>1
  <2>4. CASE sync[r].cwd # c
    <3>1. SameKeys(pool, conn, pool', conn', sync[r].cwd)
      BY <2>2, <2>4 DEF SameEntries
    <3>2. Shape(pool, conn) /\ Shape(pool', conn')
      BY DEF Outcome
    <3>3. \A n : Held(pool', conn', sync[r].cwd, n) = Held(pool, conn, sync[r].cwd, n)
      BY <3>1, <3>2, SameKeysHeld
    <3>4. OutdatedIn(pool', conn', sync[r].cwd, sync[r].goal) = OutdatedIn(pool, conn, sync[r].cwd, sync[r].goal)
      BY <3>1, <3>2, SameKeysHeld
    <3>5. Ready(sync[r], pool', conn')
      BY <2>2, <3>3, <3>4 DEF Ready
    <3> QED
      BY <2>1, <2>2, <2>3, <3>3, <3>5
  <2>5. CASE sync[r].cwd = c
    <3>1. sync[r].pc = "connecting" /\ sync[r].goal = goal /\ Kept(c, goal)
      BY <1>2, <2>1, <2>5
    <3>2. goal \in Goals
      <4>1. sync[r] \in SyncCall
        BY DEF Control
      <4> QED
        BY <3>1, <4>1 DEF SyncCall
    <3>3. Ready(sync[r], pool', conn')
      BY <2>2, <2>5, <3>1, <3>2, EnabledType DEF Ready, Kept
    <3> QED
      BY <2>1, <2>2, <2>3, <3>1, <3>3
  <2> QED
    BY <2>4, <2>5
<1> QED
  BY <1>1, <1>2
-----------------------------------------------------------------------------
(* Types. *)

\* The number of a tool counts connected servers of its workspace, so it is one of theirs.
LEMMA NamedType ==
    ASSUME NEW p, NEW k, Shape(p, k), NEW c, NEW among
    PROVE  Named(p, k, c, among) \subseteq ToolEntry
<1> DEFINE shown == {i \in Range(p) : k[i].cwd = c /\ k[i].status = "connected" /\ k[i].name \in among}
           seen(i) == {x \in shown : bound.base[k[x].name] = bound.base[k[i].name] /\ Before(p, x, i)}
           tool(i) == [full |-> <<bound.base[k[i].name], Cardinality(seen(i))>>, server |-> k[i].name]
<1>1. Named(p, k, c, among) = {tool(i) : i \in shown}
  BY DEF Named
<1>2. ASSUME NEW i \in shown PROVE tool(i) \in ToolEntry
  <2>1. i \in Range(p) /\ k[i].name \in Servers
    BY <1>2, Entry
  <2>2. i \in seen(i)
    <3>1. PICK a \in DOMAIN p : p[a] = i
      BY <2>1 DEF Range
    <3>2. a <= a
      BY <3>1 DEF Shape
    <3> QED
      BY <1>2, <3>1, <3>2 DEF Before
  <2> DEFINE S == seen(i)
             f == [x \in S |-> k[x].name]
  <2>3. f \in Injection(S, Servers)
    <3>1. \A x \in S : x \in Range(p) /\ k[x].cwd = c /\ k[x].name \in Servers
      BY Entry
    <3>2. \A x, y \in S : k[x].name = k[y].name => x = y
      BY <3>1, OneUnderKey
    <3> HIDE DEF S
    <3> QED
      BY <3>1, <3>2 DEF Injection, IsInjective
  <2>4. S # {}
    BY <2>2
  <2> HIDE DEF S, f
  <2>5. IsFiniteSet(S) /\ Cardinality(S) <= Cardinality(Servers)
    BY <2>3, FS_Injection, McpAssumption
  <2>6. Cardinality(S) \in Nat /\ Cardinality(S) # 0 /\ Cardinality(Servers) \in Nat
    BY <2>4, <2>5, FS_CardinalityType, FS_EmptySet, McpAssumption
  <2>7. Cardinality(S) \in 1..Cardinality(Servers)
    BY <2>5, <2>6
  <2>8. <<bound.base[k[i].name], Cardinality(S)>> \in
           {<<bound.base[n], m>> : n \in Servers, m \in 1..Cardinality(Servers)}
    BY <2>1, <2>7
  <2> QED
    BY <2>1, <2>8 DEF ToolEntry, S
<1> QED
  BY <1>1, <1>2

LEMMA IndexType ==
    ASSUME TypeOK, PoolPart, NEW c
    PROVE  IndexOf(pool, conn, c) \subseteq ToolEntry /\ \A s : Allowed(s, IndexOf(pool, conn, c)) \subseteq ToolEntry
BY NamedType DEF PoolPart, IndexOf, Allowed

LEMMA ViewType ==
    ASSUME TypeOK, PoolPart, NEW c \in Cwds
    PROVE  View(c) \subseteq Views
<1> DEFINE goal == Effective(files, c)
           status(n) == LET i == Held(pool, conn, c, n) IN
                          IF ~goal[n].config.enabled THEN "disabled"
                          ELSE IF i = 0 THEN "connecting" ELSE conn[i].status
           row(n) == [name |-> n, is |-> goal[n], status |-> status(n)]
<1>1. View(c) = {row(n) : n \in {m \in Servers : goal[m] # None}}
  BY DEF View
<1>2. goal \in Goals
  BY EffectiveType DEF TypeOK
<1> HIDE DEF goal
<1>3. ASSUME NEW n \in Servers, goal[n] # None PROVE row(n) \in Views
  <2>1. goal[n] \in Resolved
    BY <1>2, <1>3 DEF Goals
  <2>2. Held(pool, conn, c, n) # 0 => conn[Held(pool, conn, c, n)].status \in {"connecting", "connected", "error"}
    BY HeldFacts, Entry DEF PoolPart
  <2>3. status(n) \in {"disabled", "connecting", "connected", "error"}
    BY <2>2
  <2> HIDE DEF status
  <2> QED
    BY <2>1, <2>3 DEF Views
<1> HIDE DEF row
<1> QED
  BY <1>1, <1>3

LEMMA TypeMoves ==
    ASSUME TypeOK, NEW q \in Callers, NEW c, NEW goal, Outcome(q, c, goal),
           files' \in [Files -> ConfigFile], page' \in [op : PageSteps, list : SUBSET Views],
           UNCHANGED <<bound, index, tools, up>>
    PROVE  TypeOK'
<1>1. Range(pool') \subseteq Slots /\ conn' \in [Slots -> Managed \cup {Blank}]
  BY DEF Outcome, Shape, Range
<1>2. \A r \in Callers : sync'[r].pc \in {"idle", "due", "closing", "connecting", "done"}
  BY DEF Outcome, SyncCall
<1>3. ToolEntry' = ToolEntry
  BY DEF ToolEntry
<1> QED
  BY <1>1, <1>2, <1>3 DEF TypeOK
-----------------------------------------------------------------------------
(* What stays as it is in the other workspaces. *)

LEMMA OutdatedIsIn ==
    ASSUME NEW c, NEW goal
    PROVE  /\ Outdated(c, goal) = OutdatedIn(pool, conn, c, goal)
           /\ Outdated(c, goal)' = OutdatedIn(pool', conn', c, goal)
BY DEF Outdated, OutdatedIn

\* A call that closes nothing outdates nothing.
LEMMA PlaceStays ==
    ASSUME PoolPart, NEW q \in Callers, NEW c \in Cwds, NEW goal, Outcome(q, c, goal), Kept(c, goal),
           bound.changes = 0 \/ c = PageCwd => goal = Desired(c),
           ~(page.op = "asking" /\ sync["page"].pc = "closing"),
           UNCHANGED <<bound, files>>
    PROVE  InPlace'
<1> SUFFICES ASSUME NEW d \in Cwds, bound.changes = 0 \/ d = PageCwd
             PROVE  Outdated(d, Desired(d))' = {}
  BY DEF InPlace
<1>1. Outdated(d, Desired(d)) = {}
  BY DEF PoolPart, InPlace
<1>2. Desired(d)' = Desired(d)
  BY DEF Desired
<1>3. OutdatedIn(pool', conn', d, Desired(d)) = OutdatedIn(pool, conn, d, Desired(d))
  <2>1. CASE d = c
    BY <2>1 DEF Kept
  <2>2. CASE d # c
    <3>1. SameKeys(pool, conn, pool', conn', d)
      BY <2>2 DEF Kept, SameEntries
    <3> QED
      BY <3>1, SameKeysHeld DEF PoolPart, Outcome
  <2> QED
    BY <2>1, <2>2
<1> QED
  BY <1>1, <1>2, <1>3 DEF Outdated, OutdatedIn

\* A workspace with nothing to do whose entries stay keeps its index and its view.
LEMMA StillSame ==
    ASSUME Shape(pool, conn), Shape(pool', conn'), NEW d \in Cwds, SameEntries(pool, conn, pool', conn', d),
           \A r \in Callers : Working(r)' => sync'[r].cwd # d,
           UNCHANGED <<bound, files>>, Still(d)
    PROVE  /\ Still(d)' /\ IndexOf(pool, conn, d)' = IndexOf(pool, conn, d)
           /\ View(d)' = View(d)
<1>1. Desired(d)' = Desired(d) /\ Effective(files, d)' = Effective(files, d)
  BY DEF Desired
<1>2. SameKeys(pool, conn, pool', conn', d)
  BY DEF SameEntries
<1>3. \A n : Held(pool', conn', d, n) = Held(pool, conn, d, n)
  BY <1>2, SameKeysHeld
<1>4. \A g : OutdatedIn(pool', conn', d, g) = OutdatedIn(pool, conn, d, g)
  BY <1>2, SameKeysHeld
<1>5. Complete(d)'
  BY <1>1, <1>3, <1>4 DEF Still, Complete, Outdated, OutdatedIn
<1>6. Named(pool', conn', d, Servers) = Named(pool, conn, d, Servers)
  BY SameEntriesNamed
<1>7. Named(pool, conn, d, Servers)' = Named(pool', conn', d, Servers)
  BY DEF Named
<1>8. \A n : Held(pool, conn, d, n) # 0 =>
          conn'[Held(pool, conn, d, n)].status = conn[Held(pool, conn, d, n)].status
  BY HeldFacts DEF SameEntries
<1>9. View(d)' = View(d)
  BY <1>1, <1>3, <1>8 DEF View
<1> QED
  BY <1>5, <1>6, <1>7, <1>9 DEF Still, IndexOf

\* So does every one where a call that has nothing to do there changes nothing.
LEMMA StillStays ==
    ASSUME PoolPart, NEW q \in Callers, NEW c \in Cwds, NEW goal, Outcome(q, c, goal),
           \A d \in Cwds \ {c} : SameEntries(pool, conn, pool', conn', d),
           Still(c) => sync'[q].pc = "done" /\ pool' = pool /\ conn' = conn,
           UNCHANGED <<bound, files>>, NEW d \in Cwds, Still(d)
    PROVE  /\ Still(d)' /\ IndexOf(pool, conn, d)' = IndexOf(pool, conn, d)
           /\ View(d)' = View(d)
<1>1. Shape(pool, conn) /\ Shape(pool', conn')
  BY DEF PoolPart, Outcome
<1>2. SameEntries(pool, conn, pool', conn', d)
  BY SameIsSame DEF Still
<1>3. \A r \in Callers : Working(r)' => sync'[r].cwd # d
  BY DEF Still, Working, Outcome
<1> QED
  BY <1>1, <1>2, <1>3, StillSame

\* One request at a time: no two calls are at work in a workspace.
LEMMA NoSharing ==
    ASSUME TypeOK, PoolPart, Settled, Calm(bound), ~bound.overlap,
           NEW q \in Callers, sync[q] # Idle, NEW r \in Callers \ {q}, Working(r)
    PROVE  sync[r].cwd # (IF q = "page" THEN PageCwd ELSE bound.cwd[q])
<1>1. sync[r] # Idle /\ sync[r].pc # "idle" /\ sync[q].pc # "idle"
  BY DEF Idle, Working, PoolPart, Control
<1>2. up = "up"
  BY TwoAtWork
<1>3. q # "page" /\ r # "page"
  BY <1>1, <1>2 DEF PoolPart, Control, Callers
<1>4. q \in Sessions /\ r \in Sessions /\ page.op \notin Busy
  BY <1>1, <1>3 DEF PoolPart, Control, Callers
<1>5. page.op \in {"reloading", "refreshed"}
  BY <1>1, <1>4 DEF PoolPart, Control, TypeOK, PageSteps, Busy
<1>6. sync[r].cwd = bound.cwd[r] /\ bound.allowed[r] # {} /\ bound.allowed[q] # {}
  BY <1>1, <1>4 DEF PoolPart, Control
<1>7. sync[r].cwd # PageCwd
  BY <1>5 DEF Settled, Still
<1>8. ASSUME bound.cwd[r] = bound.cwd[q] PROVE FALSE
  <2>1. bound.cwd[r] = PageCwd \/ bound.changes = 0
    BY <1>4, <1>6, <1>8 DEF Calm
  <2>2. bound.changes # 0
    BY <1>5 DEF PoolPart, Control
  <2> QED
    BY <1>6, <1>7, <2>1, <2>2
<1> QED
  BY <1>3, <1>6, <1>8

LEMMA SettledMoves ==
    ASSUME TypeOK, PoolPart, Settled, NEW q \in Callers, NEW c \in Cwds, NEW goal, Outcome(q, c, goal),
           \A d \in Cwds \ {c} : SameEntries(pool, conn, pool', conn', d),
           Still(c) => sync'[q].pc = "done" /\ pool' = pool /\ conn' = conn,
           sync'[q].pc = "done" /\ ~(q = "page" /\ (page'.op = "cutting" \/ up = "closing")) =>
               goal = Desired(c) /\ \A r \in Callers \ {q} : Working(r) => sync[r].cwd # c,
           \/ page' = page
           \/ q = "page" /\ page'.op = "listing" /\ page.op \notin {"asking", "cutting", "renewing"},
           UNCHANGED <<bound, files, tools, index, up>>
    PROVE  Settled'
<1>1. \A d \in Cwds : Still(d) => Still(d)' /\ IndexOf(pool, conn, d)' = IndexOf(pool, conn, d)
                                  /\ View(d)' = View(d)
  BY StillStays
<1>2. PageCwd \in Cwds /\ bound.cwd \in [Sessions -> Cwds]
  BY ScenarioType, McpAssumption
<1>3. ASSUME NEW s \in Sessions, IsOpen(s)', bound'.allowed[s] # {}, sync'[s] = Idle,
             page'.op \notin {"asking", "cutting", "renewing"}
      PROVE  SettledSession(s)'
  <2>1. s # q /\ sync[s] = Idle
    <3>1. sync'[q].pc # "idle" /\ Idle.pc = "idle"
      BY DEF Outcome, Idle
    <3>2. s # q /\ s \in Callers
      BY <1>3, <3>1 DEF Callers
    <3> QED
      BY <1>3, <3>2 DEF Outcome
  <2>2. page.op \notin {"asking", "cutting", "renewing"}
    BY <1>3
  <2>3. SettledSession(s)
    BY <1>3, <2>1, <2>2 DEF Settled, IsOpen
  <2> DEFINE d == bound.cwd[s]
  <2>4. d \in Cwds /\ Still(d) /\ tools[s] = Allowed(s, IndexOf(pool, conn, d))
        /\ index[d] = IndexOf(pool, conn, d)
    BY <1>2, <2>3 DEF SettledSession
  <2>5. Still(d)' /\ IndexOf(pool, conn, d)' = IndexOf(pool, conn, d)
    BY <1>1, <2>4
  <2>6. Allowed(s, IndexOf(pool, conn, d))' = Allowed(s, IndexOf(pool, conn, d))
    BY <2>5 DEF Allowed
  <2> QED
    BY <2>4, <2>5, <2>6 DEF SettledSession
<1>4. ASSUME NEW r \in Callers, sync'[r].pc = "done",
             ~(r = "page" /\ (page'.op = "cutting" \/ up' = "closing"))
      PROVE  Still(sync[r].cwd)'
  <2>1. CASE r = q
    <3>1. sync'[r].cwd = c /\ goal = Desired(c) /\ \A t \in Callers \ {q} : Working(t) => sync[t].cwd # c
      BY <1>4, <2>1 DEF Outcome
    <3>2. OutdatedIn(pool', conn', c, goal) = {} /\ \A n \in Enabled(goal) : Held(pool', conn', c, n) # 0
      BY <1>4, <2>1 DEF Outcome
    <3>3. \A t \in Callers : Working(t)' => sync'[t].cwd # c
      BY <1>4, <2>1, <3>1 DEF Outcome, Working
    <3>4. Desired(c)' = Desired(c)
      BY DEF Desired
    <3> QED
      BY <3>1, <3>2, <3>3, <3>4 DEF Still, Complete, Outdated, OutdatedIn
  <2>2. CASE r # q
    <3>1. sync'[r] = sync[r]
      BY <2>2 DEF Outcome
    <3>2. ~(r = "page" /\ (page.op = "cutting" \/ up = "closing"))
      BY <1>4, <2>2
    <3>3. Still(sync[r].cwd)
      BY <1>4, <3>1, <3>2 DEF Settled
    <3>4. sync[r].cwd \in Cwds
      BY <1>2, <1>4, <3>1 DEF PoolPart, Control, Callers, Busy, Idle
    <3> QED
      BY <1>1, <3>1, <3>3, <3>4
  <2> QED
    BY <2>1, <2>2
<1>5. page'.op \in {"shown", "reloading", "refreshed"} => Still(PageCwd)'
  BY <1>1, <1>2 DEF Settled
<1>6. page'.op = "shown" => page'.list = View(PageCwd)'
  BY <1>1, <1>2 DEF Settled
<1> QED
  BY <1>3, <1>4, <1>5, <1>6 DEF Settled
-----------------------------------------------------------------------------
(* Every step keeps the invariant: first the calls under way. *)

LEMMA ControlMoves ==
    ASSUME TypeOK, PoolPart, NEW q \in Callers, NEW c, NEW goal, Outcome(q, c, goal),
           sync[q] # Idle, c = IF q = "page" /\ page.op \in Busy THEN PageCwd ELSE sync[q].cwd,
           q # "page" => c = bound.cwd[q],
           q = "page" /\ (up = "closing" \/ page.op = "cutting") => Enabled(goal) = {},
           UNCHANGED <<bound, tools, page, up, changes>>
    PROVE  Control'
<1> USE DEF PoolPart
<1>1. sync'[q].pc \in {"closing", "connecting", "done"} /\ sync'[q].cwd = c
      /\ \A r \in Callers \ {q} : sync'[r] = sync[r]
  BY DEF Outcome
<1>2. sync' \in [Callers -> SyncCall] /\ changes' \in Nat /\ sync[q].pc # "idle"
  BY DEF Outcome, Control
<1>3. up # "down"
  BY <1>2 DEF Control, Callers, Busy, Idle
<1>4. /\ \A r \in Callers : sync'[r].pc = "idle" => sync'[r] = Idle
      /\ sync'["page"].pc # "due"
      /\ \A r \in Callers : sync'[r] # Idle => sync[r] # Idle
  BY <1>1 DEF Control, Callers
<1>5. /\ page.op \notin Busy /\ up # "closing" => sync'["page"] = Idle
      /\ page.op \in Busy => sync'["page"].pc \in {"closing", "connecting", "done"}
                             /\ sync'["page"].cwd = PageCwd
  BY <1>1 DEF Control, Callers
<1>6. up = "closing" \/ page.op = "cutting" => sync'["page"].pc # "connecting"
  BY <1>1 DEF Control, Callers, Outcome
<1>7. /\ up # "up" => page.op = "shut" /\ \A s \in Sessions : sync'[s] = Idle /\ tools[s] = None
      /\ ~bound.overlap /\ page.op \in Busy => \A s \in Sessions : sync'[s] = Idle
      /\ ~bound.overlap /\ page.op \in {"shut", "shown"} =>
            \A s, t \in Sessions : sync'[s] # Idle /\ sync'[t] # Idle => s = t
      /\ ~bound.overlap /\ page.op \in {"reloading", "refreshed"} =>
            \A s \in Sessions : sync'[s] # Idle => IsOpen(s)
  BY <1>4 DEF Control, Callers
<1>8. /\ \A s \in Sessions : sync'[s].pc # "idle" => bound.allowed[s] # {}
      /\ \A s \in Sessions : Working(s)' \/ sync'[s].pc = "done" => sync'[s].cwd = bound.cwd[s]
  <2>1. \A s \in Sessions : s # "page" /\ s \in Callers
    BY McpAssumption DEF Callers
  <2> QED
    BY <1>1, <1>2, <2>1 DEF Control, Working
<1>9. bound.changes = 0 => page.op \in {"shut", "listing", "shown"}
  BY DEF Control
<1> QED
  BY <1>2, <1>3, <1>4, <1>5, <1>6, <1>7, <1>8, <1>9 DEF Control, IsOpen

LEMMA ClosedKeeps ==
    ASSUME IInv, Calm(bound), NEW q \in Callers, Closed(q)
    PROVE  IInv'
<1> DEFINE c == sync[q].cwd
           goal == sync[q].goal
<1>1. TypeOK /\ PoolPart /\ sync[q].pc = "closing" /\ Working(q) /\ sync[q] # Idle /\ sync[q].pc # "idle"
      /\ UNCHANGED <<bound, files, index, tools, page, up, changes>>
  BY DEF IInv, Closed, Working, Idle
<1>2. \A r \in Callers \ {q} : Working(r) => sync[r].cwd # c
  BY <1>1, CutsAlone
<1>3. /\ Outcome(q, c, goal)
      /\ \A d \in Cwds \ {c} : SameEntries(pool, conn, pool', conn', d)
      /\ Enabled(goal) = {} => \A g : OutdatedIn(pool', conn', c, g) \subseteq OutdatedIn(pool, conn, c, g)
  BY <1>1, <1>2, ClosedSteps DEF PoolPart, Control
<1>4. c \in Cwds /\ goal = GoalOf(q) /\ Outdated(c, goal) # {}
  BY <1>1 DEF PoolPart, CallsReady, Ready, Outdated, OutdatedIn
<1>5. \A r \in Callers : sync'[r].cwd = sync[r].cwd => GoalOf(r)' = GoalOf(r)
  BY <1>1 DEF GoalOf, Desired
<1>6. CallsReady'
  <2>1. \A r \in Callers \ {q} : GoalOf(r)' = GoalOf(r)
    BY <1>3, <1>5 DEF Outcome
  <2>2. goal = GoalOf(q)'
    BY <1>3, <1>4, <1>5 DEF Outcome
  <2> HIDE DEF c, goal
  <2> QED
    BY <1>1, <1>2, <1>3, <1>4, <2>1, <2>2, CallMoves
<1>7. Control'
  <2>1. q = "page" /\ page.op \in Busy => c = PageCwd
    BY <1>1 DEF PoolPart, Control
  <2>2. q # "page" => c = bound.cwd[q]
    BY <1>1 DEF PoolPart, Control, Callers
  <2>3. q = "page" /\ (up = "closing" \/ page.op = "cutting") => Enabled(goal) = {}
    BY <1>4, NothingEnabled DEF GoalOf
  <2> QED
    BY <1>1, <1>3, <2>1, <2>2, <2>3, ControlMoves
<1>8. InPlace'
  <2> SUFFICES ASSUME NEW d \in Cwds, bound.changes = 0 \/ d = PageCwd, Outdated(d, Desired(d))' # {}
               PROVE  d = PageCwd /\ page.op = "asking" /\ sync'["page"].pc = "closing"
    BY <1>1 DEF InPlace
  <2>1. Desired(d)' = Desired(d)
    BY <1>1 DEF Desired
  <2>2. CASE d # c
    <3>1. SameKeys(pool, conn, pool', conn', d)
      BY <1>3, <2>2 DEF SameEntries
    <3>2. OutdatedIn(pool', conn', d, Desired(d)) = OutdatedIn(pool, conn, d, Desired(d))
      BY <1>1, <1>3, <3>1, SameKeysHeld DEF PoolPart, Outcome
    <3>3. Outdated(d, Desired(d)) # {}
      BY <2>1, <3>2 DEF Outdated, OutdatedIn
    <3>4. d = PageCwd /\ page.op = "asking" /\ sync["page"].pc = "closing"
      BY <1>1, <3>3 DEF PoolPart, InPlace
    <3>5. q # "page"
      BY <1>1, <2>2, <3>4 DEF PoolPart, Control, Busy
    <3> QED
      BY <1>3, <3>4, <3>5 DEF Outcome, Callers
  <2>3. CASE d = c /\ goal = Desired(d)
    <3>1. OutdatedIn(pool', conn', c, goal) # {}
      BY <2>1, <2>3 DEF Outdated, OutdatedIn
    <3>2. sync'[q].pc = "closing"
      BY <1>3, <3>1 DEF Outcome, Ready
    <3>3. page.op = "asking" /\ d = PageCwd /\ sync["page"].pc = "closing"
      BY <1>1, <1>4, <2>3 DEF PoolPart, InPlace
    <3>4. q = "page"
      BY <1>1, <1>2, <2>3, <3>3 DEF PoolPart, Control, Busy, Working, Callers
    <3> QED
      BY <3>2, <3>3, <3>4
  <2>4. CASE d = c /\ goal # Desired(d)
    <3>1. q = "page" /\ (page.op = "cutting" \/ up = "closing") /\ goal = Nothing
      BY <1>4, <2>4 DEF GoalOf
    <3>2. page.op # "asking"
      BY <1>1, <3>1 DEF PoolPart, Control
    <3>3. OutdatedIn(pool, conn, d, Desired(d)) = {}
      BY <1>1, <3>2, OutdatedIsIn DEF PoolPart, InPlace
    <3>4. OutdatedIn(pool', conn', d, Desired(d)) = {}
      BY <1>3, <2>4, <3>1, <3>3, NothingEnabled
    <3> QED
      BY <2>1, <3>4 DEF Outdated, OutdatedIn
  <2> QED
    BY <2>2, <2>3, <2>4
<1>9. TypeOK'
  BY <1>1, <1>3, TypeMoves DEF TypeOK
<1>10. ASSUME ~bound.overlap PROVE Settled'
  <2>1. Settled
    BY <1>10 DEF IInv
  <2>2. ~Still(c)
    BY <1>1 DEF Still
  <2>3. ~(q = "page" /\ (page.op = "cutting" \/ up = "closing")) => goal = Desired(c)
    BY <1>4 DEF GoalOf
  <2> QED
    BY <1>1, <1>2, <1>3, <1>4, <2>1, <2>2, <2>3, SettledMoves
<1> QED
  BY <1>1, <1>3, <1>6, <1>7, <1>8, <1>9, <1>10 DEF IInv, PoolPart, Outcome

LEMMA EndedKeeps ==
    ASSUME IInv, Calm(bound), NEW q \in Callers, NEW ok \in BOOLEAN, Ended(q, ok)
    PROVE  IInv'
<1> DEFINE c == sync[q].cwd
           goal == sync[q].goal
<1>1. TypeOK /\ PoolPart /\ sync[q].pc = "connecting" /\ Working(q) /\ sync[q] # Idle /\ sync[q].pc # "idle"
      /\ UNCHANGED <<bound, files, index, tools, page, up, changes>>
  BY DEF IInv, Ended, Working, Idle
<1>2. Outcome(q, c, goal) /\ Kept(c, goal)
  BY <1>1, EndedSteps DEF PoolPart, Control
<1>3. c \in Cwds /\ goal = GoalOf(q)
  BY <1>1 DEF PoolPart, CallsReady, Ready
<1>4. goal = Desired(c) /\ ~(q = "page" /\ (page.op = "cutting" \/ up = "closing"))
  BY <1>1, <1>3 DEF GoalOf, PoolPart, Control
<1>5. \A r \in Callers : sync'[r].cwd = sync[r].cwd => GoalOf(r)' = GoalOf(r)
  BY <1>1 DEF GoalOf, Desired
<1>6. CallsReady'
  <2>1. \A r \in Callers \ {q} : GoalOf(r)' = GoalOf(r)
    BY <1>2, <1>5 DEF Outcome
  <2>2. goal = GoalOf(q)'
    BY <1>2, <1>3, <1>5 DEF Outcome
  <2>3. ASSUME NEW r \in Callers \ {q}, Working(r), sync[r].cwd = c
        PROVE  sync[r].pc = "connecting" /\ sync[r].goal = goal
    <3>1. sync[r].pc # "closing"
      BY <1>1, <2>3, CutsAlone
    <3>2. sync[r].goal = Desired(sync[r].cwd)
      BY <1>1, <2>3, TwoAtWork
    <3> QED
      BY <1>4, <2>3, <3>1, <3>2 DEF Working
  <2>4. \A d \in Cwds \ {c} : SameEntries(pool, conn, pool', conn', d)
    BY <1>2 DEF Kept
  <2> HIDE DEF c, goal
  <2> QED
    BY <1>1, <1>2, <1>3, <2>1, <2>2, <2>3, <2>4, CallMoves
<1>7. Control'
  <2>1. q = "page" /\ page.op \in Busy => c = PageCwd
    BY <1>1 DEF PoolPart, Control
  <2>2. q # "page" => c = bound.cwd[q]
    BY <1>1 DEF PoolPart, Control, Callers
  <2> QED
    BY <1>1, <1>2, <1>4, <2>1, <2>2, ControlMoves
<1>8. InPlace'
  <2>1. ASSUME page.op = "asking", sync["page"].pc = "closing" PROVE FALSE
    <3>1. q # "page" /\ q \in Sessions
      BY <1>1, <2>1 DEF Callers
    <3>2. bound.changes # 0
      BY <1>1, <2>1 DEF PoolPart, Control
    <3>3. ~bound.overlap
      BY <3>2 DEF Calm, IInv
    <3> QED
      BY <1>1, <2>1, <3>1, <3>3 DEF PoolPart, Control, Busy
  <2> QED
    BY <1>1, <1>2, <1>3, <1>4, <2>1, PlaceStays
<1>9. TypeOK'
  BY <1>1, <1>2, TypeMoves DEF TypeOK
<1>10. ASSUME ~bound.overlap PROVE Settled'
  <2>1. Settled
    BY <1>10 DEF IInv
  <2>2. ~Still(c)
    BY <1>1 DEF Still
  <2>3. c = IF q = "page" THEN PageCwd ELSE bound.cwd[q]
    BY <1>1, <1>4 DEF PoolPart, Control, Callers
  <2>4. \A r \in Callers \ {q} : Working(r) => sync[r].cwd # c
    BY <1>1, <1>10, <2>1, <2>3, NoSharing
  <2>5. \A d \in Cwds \ {c} : SameEntries(pool, conn, pool', conn', d)
    BY <1>2 DEF Kept
  <2> HIDE DEF c, goal
  <2> QED
    BY <1>1, <1>2, <1>3, <1>4, <2>1, <2>2, <2>4, <2>5, SettledMoves
<1> QED
  BY <1>1, <1>2, <1>6, <1>7, <1>8, <1>9, <1>10 DEF IInv, PoolPart, Outcome
-----------------------------------------------------------------------------
(* ... then what begins a call. *)

\* The calls that are at work where a session begins want what it wants.
LEMMA BeginKeeps ==
    ASSUME IInv, Calm(bound), NEW s \in Sessions, Begin(s)
    PROVE  IInv'
<1> DEFINE c == bound.cwd[s]
           goal == Desired(c)
<1>1. /\ TypeOK /\ PoolPart /\ sync[s].pc = "due" /\ sync[s] # Idle /\ ~Working(s) /\ s \in Callers
      /\ s # "page" /\ StartSync(s, c, goal)
      /\ UNCHANGED <<bound, files, index, tools, page, up, changes>>
  BY McpAssumption DEF IInv, Begin, Ensure, Working, Idle, Callers, Desired
<1>2. c \in Cwds /\ goal \in Goals
  BY <1>1, ScenarioType, EffectiveType DEF Desired
<1>3. up = "up"
  BY <1>1 DEF PoolPart, Control
<1>4. Outcome(s, c, goal) /\ Grown(pool, conn, s, c, goal) /\ Kept(c, goal)
  BY <1>1, <1>2, StartSteps DEF PoolPart, Control
<1>5. ~bound.overlap => page.op \notin Busy
  BY <1>1 DEF PoolPart, Control
<1>6. ASSUME NEW r \in Callers \ {s}, Working(r), sync[r].cwd = c
      PROVE  sync[r].pc = "connecting" /\ sync[r].goal = goal
  <2>1. sync[r].goal = Desired(sync[r].cwd) /\ page.op # "cutting"
    BY <1>1, <1>6, TwoAtWork
  <2>2. ASSUME sync[r].pc = "closing" PROVE FALSE
    <3>1. bound.changes # 0 /\ ~bound.overlap
      BY <1>1, <1>3, <2>2, ClosingWhere DEF Calm
    <3>2. r # "page" /\ r \in Sessions
      BY <1>1, <1>3, <1>5, <2>2, <3>1, ClosingWhere DEF Callers, Busy
    <3>3. sync[r].cwd # PageCwd
      BY <1>1, <1>3, <2>2, <3>1, <3>2, ClosingWhere
    <3>4. sync[r].cwd = bound.cwd[r] /\ bound.allowed[r] # {} /\ bound.allowed[s] # {}
      BY <1>1, <1>6, <2>2, <3>2 DEF PoolPart, Control
    <3> QED
      BY <1>6, <3>1, <3>2, <3>3, <3>4 DEF Calm
  <2> QED
    BY <1>6, <2>1, <2>2 DEF Working
<1>7. CallsReady'
  <2>1. \A r \in Callers \ {s} : GoalOf(r)' = GoalOf(r)
    BY <1>1, <1>4 DEF Outcome, GoalOf, Desired
  <2>2. goal = GoalOf(s)'
    BY <1>1, <1>4 DEF Outcome, GoalOf, Desired
  <2>3. \A d \in Cwds \ {c} : SameEntries(pool, conn, pool', conn', d)
    BY <1>4 DEF Kept
  <2> HIDE DEF c, goal
  <2> QED
    BY <1>1, <1>2, <1>4, <1>6, <2>1, <2>2, <2>3, CallMoves
<1>8. Control'
  <2> USE DEF PoolPart
  <2>1. sync'[s].pc \in {"closing", "connecting", "done"} /\ sync'[s].cwd = c
        /\ \A r \in Callers \ {s} : sync'[r] = sync[r]
    BY <1>4 DEF Outcome
  <2>2. sync' \in [Callers -> SyncCall] /\ changes' \in Nat /\ sync'["page"] = sync["page"]
    BY <1>1, <1>4, <2>1 DEF Outcome, Control, Callers
  <2>3. \A r \in Callers : /\ sync'[r].pc = "idle" => sync'[r] = Idle
                           /\ sync'[r] # Idle => sync[r] # Idle
    BY <1>1, <2>1 DEF Control
  <2>4. /\ \A t \in Sessions : sync'[t].pc # "idle" => bound.allowed[t] # {}
        /\ \A t \in Sessions : Working(t)' \/ sync'[t].pc = "done" => sync'[t].cwd = bound.cwd[t]
    BY <1>1, <2>1 DEF Control, Working, Callers
  <2>5. /\ ~bound.overlap /\ page.op \in Busy => \A t \in Sessions : sync'[t] = Idle
        /\ ~bound.overlap /\ page.op \in {"shut", "shown"} =>
              \A r, t \in Sessions : sync'[r] # Idle /\ sync'[t] # Idle => r = t
        /\ ~bound.overlap /\ page.op \in {"reloading", "refreshed"} =>
              \A t \in Sessions : sync'[t] # Idle => IsOpen(t)
    BY <1>1, <1>5, <2>3 DEF Control, Callers
  <2> QED
    BY <1>1, <1>3, <2>2, <2>3, <2>4, <2>5 DEF Control, IsOpen
<1>9. InPlace'
  <2>1. ASSUME page.op = "asking" PROVE FALSE
    <3>1. bound.changes # 0
      BY <1>1, <2>1 DEF PoolPart, Control
    <3> QED
      BY <1>5, <2>1, <3>1 DEF Calm, IInv, Busy
  <2> HIDE DEF c
  <2> QED
    BY <1>1, <1>2, <1>4, <2>1, PlaceStays
<1>10. TypeOK'
  BY <1>1, <1>4, TypeMoves DEF TypeOK
<1>11. ASSUME ~bound.overlap PROVE Settled'
  <2>1. Settled
    BY <1>11 DEF IInv
  <2>2. \A r \in Callers \ {s} : Working(r) => sync[r].cwd # c
    BY <1>1, <1>11, <2>1, NoSharing
  <2>3. Still(c) => sync'[s].pc = "done" /\ pool' = pool /\ conn' = conn
    BY <1>4, OutdatedIsIn DEF Still, Complete, Grown
  <2>4. \A d \in Cwds \ {c} : SameEntries(pool, conn, pool', conn', d)
    BY <1>4 DEF Kept
  <2> HIDE DEF c
  <2> QED
    BY <1>1, <1>2, <1>4, <2>1, <2>2, <2>3, <2>4, SettledMoves
<1> QED
  BY <1>1, <1>4, <1>7, <1>8, <1>9, <1>10, <1>11 DEF IInv, PoolPart, Outcome

\* The page's own call leaves every other as it is.
LEMMA PageControl ==
    ASSUME TypeOK, PoolPart, NEW goal, Outcome("page", PageCwd, goal), up = "up",
           page.op \in {"shut", "shown", "reloading", "refreshed", "cutting"},
           page'.op \in Busy, bound.changes = 0 => page'.op = "listing",
           ~bound.overlap => \A s \in Sessions : sync[s] = Idle,
           page'.op = "cutting" => Enabled(goal) = {},
           changes' \in Nat, UNCHANGED <<bound, tools, up>>
    PROVE  Control'
<1> USE DEF PoolPart
<1>1. /\ sync'["page"].pc \in {"closing", "connecting", "done"} /\ sync'["page"].cwd = PageCwd
      /\ \A s \in Sessions : sync'[s] = sync[s]
  BY McpAssumption DEF Outcome, Callers
<1>2. sync' \in [Callers -> SyncCall] /\ Callers = Sessions \cup {"page"} /\ "page" \notin Sessions
  BY McpAssumption DEF Outcome, Callers
<1>3. page'.op = "cutting" => sync'["page"].pc # "connecting"
  BY DEF Outcome
<1>4. page'.op \notin {"shut", "shown", "reloading", "refreshed"} /\ ("shut" \notin Busy)
  BY DEF Busy
<1>5. \A r \in Callers : sync'[r].pc = "idle" => sync'[r] = Idle
  BY <1>1, <1>2 DEF Control
<1>6. /\ \A s \in Sessions : sync'[s].pc # "idle" => bound.allowed[s] # {}
      /\ \A s \in Sessions : Working(s)' \/ sync'[s].pc = "done" => sync'[s].cwd = bound.cwd[s]
  BY <1>1 DEF Control, Working
<1>7. ~bound.overlap => \A s \in Sessions : sync'[s] = Idle
  BY <1>1
<1> QED
  BY <1>1, <1>2, <1>3, <1>4, <1>5, <1>6, <1>7 DEF Control

\* The page loads its list.
LEMMA ListingKeeps ==
    ASSUME IInv, Calm(bound), up = "up", page.op \in {"shut", "shown", "reloading"}, sync["page"] = Idle,
           ~bound.overlap => \A s \in Sessions : sync[s] = Idle,
           page' = [page EXCEPT !.op = "listing"], Ensure("page", PageCwd),
           UNCHANGED <<bound, files, index, tools, up, changes>>
    PROVE  IInv'
<1> DEFINE c == PageCwd
           goal == Desired(c)
           q == "page"
<1>1. /\ TypeOK /\ PoolPart /\ ~Working(q) /\ q \in Callers /\ StartSync(q, c, goal)
      /\ c \in Cwds /\ goal \in Goals
  BY McpAssumption, EffectiveType DEF IInv, Ensure, Working, Idle, Callers, Desired, TypeOK
<1>2. page' \in [op : PageSteps, list : SUBSET Views] /\ page'.op = "listing" /\ page.op # "cutting"
  BY <1>1 DEF TypeOK, PageSteps
<1>3. Outcome(q, c, goal) /\ Grown(pool, conn, q, c, goal) /\ Kept(c, goal)
  BY <1>1, StartSteps DEF PoolPart, Control
<1>4. ASSUME NEW r \in Callers \ {q}, Working(r)
      PROVE  sync[r].pc = "connecting" /\ sync[r].goal = Desired(sync[r].cwd) /\ bound.overlap
  <2>1. r \in Sessions /\ sync[r] # Idle
    BY <1>4 DEF Callers, Working, Idle
  <2>2. bound.overlap /\ bound.changes = 0
    BY <2>1 DEF Calm
  <2>3. sync[r].pc # "closing"
    BY <1>1, <2>2, ClosingWhere
  <2>4. r # "page" /\ sync[r].goal = GoalOf(r)
    BY <1>1, <1>4, <2>1, McpAssumption DEF PoolPart, CallsReady
  <2> QED
    BY <1>4, <2>2, <2>3, <2>4 DEF Working, GoalOf
<1>5. CallsReady'
  <2>1. \A r \in Callers \ {q} : GoalOf(r)' = GoalOf(r)
    BY <1>3 DEF Outcome, GoalOf, Desired
  <2>2. goal = GoalOf(q)'
    BY <1>2, <1>3 DEF Outcome, GoalOf, Desired
  <2>3. \A d \in Cwds \ {c} : SameEntries(pool, conn, pool', conn', d)
    BY <1>3 DEF Kept
  <2>4. \A r \in Callers \ {q} : Working(r) /\ sync[r].cwd = c =>
            sync[r].pc = "connecting" /\ sync[r].goal = goal
    BY <1>4
  <2> HIDE DEF c, goal, q
  <2> QED
    BY <1>1, <1>3, <2>1, <2>2, <2>3, <2>4, CallMoves
<1>6. Control'
  BY <1>1, <1>2, <1>3, PageControl DEF Busy, PoolPart, Control
<1>7. InPlace'
  <2>1. page.op # "asking"
    OBVIOUS
  <2> HIDE DEF q
  <2> QED
    BY <1>1, <1>3, <2>1, PlaceStays
<1>8. TypeOK'
  BY <1>1, <1>2, <1>3, TypeMoves DEF TypeOK
<1>9. ASSUME ~bound.overlap PROVE Settled'
  <2>1. Settled
    BY <1>9 DEF IInv
  <2>2. \A r \in Callers \ {q} : Working(r) => sync[r].cwd # c
    BY <1>4, <1>9
  <2>3. Still(c) => sync'[q].pc = "done" /\ pool' = pool /\ conn' = conn
    BY <1>3, OutdatedIsIn DEF Still, Complete, Grown
  <2>4. \A d \in Cwds \ {c} : SameEntries(pool, conn, pool', conn', d)
    BY <1>3 DEF Kept
  <2>5. page.op \notin {"asking", "cutting", "renewing"}
    OBVIOUS
  <2> HIDE DEF c
  <2> QED
    BY <1>1, <1>2, <1>3, <2>1, <2>2, <2>3, <2>4, <2>5, SettledMoves
<1> QED
  BY <1>1, <1>3, <1>5, <1>6, <1>7, <1>8, <1>9 DEF IInv, PoolPart, Outcome

LEMMA LoadKeeps ==
    ASSUME IInv, Calm(bound), Load
    PROVE  IInv'
<1>1. up = "up" /\ (~bound.overlap => \A s \in Sessions : sync[s] = Idle)
  BY DEF Load, MayStart, Quiet, Callers
<1> QED
  BY <1>1, ListingKeeps DEF Load

\* A request of the page that cuts: nobody else is at work.
LEMMA RequestKeeps ==
    ASSUME IInv, Calm(bound), up = "up", page.op \in {"shut", "shown", "cutting"}, ~Working("page"),
           bound.changes # 0, \A s \in Sessions : sync[s] = Idle,
           page' \in [op : PageSteps, list : SUBSET Views], page'.op \in {"asking", "cutting", "renewing"},
           files' \in [Files -> ConfigFile], page'.op # "asking" => files' = files,
           StartSync("page", PageCwd, IF page'.op = "cutting" THEN Nothing ELSE Desired(PageCwd)'),
           changes' \in Nat, UNCHANGED <<bound, index, tools, up>>
    PROVE  IInv'
<1> DEFINE c == PageCwd
           goal == IF page'.op = "cutting" THEN Nothing ELSE Desired(PageCwd)'
           q == "page"
<1>1. TypeOK /\ PoolPart /\ q \in Callers /\ StartSync(q, c, goal) /\ c \in Cwds
  BY McpAssumption DEF IInv, Callers
<1>2. goal \in Goals
  <2>1. Effective(files', c) \in Goals
    BY <1>1, EffectiveType
  <2>2. Desired(PageCwd)' = Effective(files', c)
    BY DEF Desired
  <2> QED
    BY <2>1, <2>2, NothingEnabled
<1>3. Outcome(q, c, goal) /\ Grown(pool, conn, q, c, goal) /\ Kept(c, goal)
  BY <1>1, <1>2, StartSteps DEF PoolPart, Control
<1>4. \A r \in Callers \ {q} : r \in Sessions /\ ~Working(r) /\ sync[r] = Idle
  BY DEF Callers, Working, Idle
<1>5. CallsReady'
  <2>1. goal = GoalOf(q)'
    BY <1>3 DEF Outcome, GoalOf, Desired
  <2>2. \A d \in Cwds \ {c} : SameEntries(pool, conn, pool', conn', d)
    BY <1>3 DEF Kept
  <2> HIDE DEF c, goal, q
  <2> QED
    BY <1>1, <1>3, <1>4, <2>1, <2>2, CallMoves
<1>6. Control'
  BY <1>1, <1>3, NothingEnabled, PageControl DEF Busy
<1>7. InPlace'
  <2> SUFFICES ASSUME Outdated(c, Desired(c))' # {}
               PROVE  page'.op = "asking" /\ sync'["page"].pc = "closing"
    BY DEF InPlace
  <2>1. Outdated(c, Desired(c))' = OutdatedIn(pool', conn', c, Desired(c)')
    BY DEF Outdated, OutdatedIn
  <2>2. CASE page'.op = "asking"
    <3>1. goal = Desired(c)'
      BY <2>2
    <3> HIDE DEF goal, c
    <3> QED
      BY <1>3, <2>1, <2>2, <3>1 DEF Outcome, Ready
  <2>3. CASE page'.op # "asking"
    <3>1. Desired(c)' = Desired(c)
      BY <2>3 DEF Desired
    <3>2. OutdatedIn(pool, conn, c, Desired(c)) = {}
      BY <1>1, OutdatedIsIn DEF PoolPart, InPlace
    <3>3. CASE page'.op = "cutting"
      BY <1>3, <2>1, <3>1, <3>2, <3>3, NothingEnabled DEF Grown
    <3>4. CASE page'.op # "cutting"
      BY <1>3, <2>1, <3>1, <3>2, <3>4 DEF Kept
    <3> QED
      BY <3>3, <3>4
  <2> QED
    BY <2>2, <2>3
<1>8. TypeOK'
  BY <1>1, <1>3, TypeMoves DEF TypeOK
<1>9. ASSUME ~bound.overlap PROVE Settled'
  <2>1. \A r \in Callers \ {q} : sync'[r].pc # "done" /\ ~Working(r)'
    BY <1>3, <1>4 DEF Outcome, Working, Idle
  <2>2. ASSUME sync'[q].pc = "done", page'.op # "cutting" PROVE Still(c)'
    <3>1. goal = Desired(c)'
      BY <2>2
    <3>2. ~Working(q)'
      BY <2>2 DEF Working
    <3>3. Complete(c)'
      <4> HIDE DEF c, goal
      <4> QED
        BY <1>3, <2>2, <3>1 DEF Outcome, Complete, Outdated, OutdatedIn
    <3> QED
      BY <2>1, <3>2, <3>3 DEF Still
  <2>3. sync'[q].cwd = c
    BY <1>3 DEF Outcome
  <2> QED
    BY <2>1, <2>2, <2>3 DEF Settled
<1> QED
  BY <1>1, <1>3, <1>5, <1>6, <1>7, <1>8, <1>9 DEF IInv, PoolPart, Outcome

\* Writing a file: upsert() and remove(), with what they are given.
LEMMA WriteKeeps ==
    ASSUME IInv, Calm(bound), NEW scope, NEW n \in Servers, NEW config \in Configs \cup {None},
           Write(scope, n, config)
    PROVE  IInv'
<1> DEFINE f == IF scope = "user" THEN "user" ELSE PageCwd
<1>1. TypeOK /\ PoolPart /\ bound.changes \in Nat /\ changes \in Nat
  BY ScenarioType DEF IInv, PoolPart, Control
<1>2. /\ up = "up" /\ page.op = "shown" /\ sync["page"] = Idle /\ changes < bound.changes
      /\ changes' = changes + 1 /\ files' = [files EXCEPT ![f][n] = config]
      /\ page' = [page EXCEPT !.op = "asking"]
      /\ StartSync("page", PageCwd, Effective(files', PageCwd))
      /\ UNCHANGED <<bound, index, tools, up>>
  BY DEF Write, MayStart
<1>3. bound.changes # 0 /\ changes' \in Nat
  BY <1>1, <1>2
<1>4. \A s \in Sessions : sync[s] = Idle
  BY <1>3 DEF Calm, Write, MayStart, Quiet, Callers
<1>5. files' \in [Files -> ConfigFile]
  <2>1. f \in Files
    BY McpAssumption DEF Files
  <2> HIDE DEF f
  <2> QED
    BY <1>1, <1>2, <2>1 DEF TypeOK, ConfigFile
<1>6. page' \in [op : PageSteps, list : SUBSET Views] /\ page'.op = "asking"
  BY <1>1, <1>2 DEF TypeOK, PageSteps
<1>7. Desired(PageCwd)' = Effective(files', PageCwd) /\ ~Working("page")
  BY <1>2 DEF Desired, Working, Idle
<1> HIDE DEF f
<1> QED
  BY <1>2, <1>3, <1>4, <1>5, <1>6, <1>7, RequestKeeps

LEMMA ChangesKeep ==
    ASSUME IInv, Calm(bound), Save \/ Toggle \/ RemoveServer \/ AddFromTemplate
    PROVE  IInv'
<1>1. /\ bound.templates \subseteq Servers
      /\ \A e \in page.list : e.name \in Servers /\ e.is.config \in Configs
  BY ScenarioType DEF IInv, TypeOK, Views, Resolved
<1>2. CASE Save
  BY <1>2, WriteKeeps DEF Save
<1>3. CASE Toggle
  <2>1. PICK e \in page.list : Write(e.is.scope, e.name, [e.is.config EXCEPT !.enabled = ~@])
    BY <1>3 DEF Toggle
  <2>2. [e.is.config EXCEPT !.enabled = ~@] \in Configs
    BY <1>1, <2>1 DEF Configs
  <2> QED
    BY <1>1, <2>1, <2>2, WriteKeeps
<1>4. CASE RemoveServer
  BY <1>1, <1>4, WriteKeeps DEF RemoveServer
<1>5. CASE AddFromTemplate
  <2>1. [enabled |-> TRUE, print |-> CHOOSE x \in Prints : TRUE] \in Configs
    BY McpAssumption DEF Configs
  <2> QED
    BY <1>1, <1>5, <2>1, WriteKeeps DEF AddFromTemplate
<1> QED
  BY <1>2, <1>3, <1>4, <1>5

\* refresh(): everything is cut, then connected again.
LEMMA RefreshKeeps ==
    ASSUME IInv, Calm(bound), Refresh
    PROVE  IInv'
<1>1. TypeOK /\ PoolPart /\ bound.changes \in Nat /\ changes \in Nat
  BY ScenarioType DEF IInv, PoolPart, Control
<1>2. bound.changes # 0 /\ changes' \in Nat
  BY <1>1 DEF Refresh
<1>3. \A s \in Sessions : sync[s] = Idle
  BY <1>2 DEF Calm, Refresh, MayStart, Quiet, Callers
<1>4. page' \in [op : PageSteps, list : SUBSET Views] /\ page'.op = "cutting" /\ ~Working("page")
  BY <1>1 DEF TypeOK, PageSteps, Refresh, Working, Idle
<1>5. /\ up = "up" /\ page.op = "shut" /\ files' = files /\ StartSync("page", PageCwd, Nothing)
      /\ UNCHANGED <<bound, index, tools, up>>
  BY DEF Refresh, MayStart
<1>6. files' \in [Files -> ConfigFile]
  BY <1>1, <1>5 DEF TypeOK
<1> QED
  BY <1>2, <1>3, <1>4, <1>5, <1>6, RequestKeeps

LEMMA ReconnectKeeps ==
    ASSUME IInv, Calm(bound), Reconnect
    PROVE  IInv'
<1>1. TypeOK /\ PoolPart /\ page.op = "cutting"
  BY DEF IInv, Reconnect
<1>2. up = "up" /\ bound.changes # 0 /\ changes \in Nat
  BY <1>1 DEF PoolPart, Control, TypeOK
<1>3. \A s \in Sessions : sync[s] = Idle
  BY <1>1, <1>2 DEF Calm, PoolPart, Control, Busy
<1>4. page' \in [op : PageSteps, list : SUBSET Views] /\ page'.op = "renewing" /\ ~Working("page")
  BY <1>1 DEF TypeOK, PageSteps, Reconnect, Working
<1>5. /\ files' = files /\ StartSync("page", PageCwd, Desired(PageCwd)')
      /\ UNCHANGED <<bound, index, tools, up, changes>>
  BY DEF Reconnect, Ensure, Desired
<1>6. files' \in [Files -> ConfigFile]
  BY <1>1, <1>5 DEF TypeOK
<1> QED
  BY <1>1, <1>2, <1>3, <1>4, <1>5, <1>6, RequestKeeps
-----------------------------------------------------------------------------
(* ... then the steps that leave the pool as it is. *)

\* Where the calls at work go on as they were, the pool's part of the invariant stays.
LEMMA RestMoves ==
    ASSUME TypeOK, PoolPart, UNCHANGED <<bound, files, pool, conn>>,
           sync' \in [Callers -> SyncCall],
           \A r \in Callers : Working(r) \/ Working(r)' => sync'[r] = sync[r] /\ GoalOf(r)' = GoalOf(r),
           page' = page \/ ~(page.op = "asking" /\ sync["page"].pc = "closing")
    PROVE  /\ Shape(pool', conn') /\ Handed(conn', sync', Callers) /\ CallsReady' /\ InPlace'
           /\ \A d \in Cwds : /\ IndexOf(pool, conn, d)' = IndexOf(pool, conn, d)
                              /\ View(d)' = View(d) /\ (Still(d) => Still(d)')
<1> USE DEF PoolPart
<1>1. \A r \in Callers : sync[r].pc = "connecting" \/ sync'[r].pc = "connecting" => sync'[r] = sync[r]
  BY DEF Working
<1>2. Shape(pool', conn') /\ Handed(conn', sync', Callers)
  BY <1>1 DEF Handed
<1>3. \A d \in Cwds : Desired(d)' = Desired(d) /\ Outdated(d, Desired(d))' = Outdated(d, Desired(d))
  BY DEF Desired, Outdated
<1>4. CallsReady'
  <2> SUFFICES ASSUME NEW r \in Callers, Working(r)'
               PROVE  /\ Ready(sync'[r], pool', conn')
                      /\ sync'[r].goal = GoalOf(r)'
                      /\ sync'[r].pc = "closing" =>
                            /\ sync'[r].cut # {}
                            /\ \A n \in First(sync'[r].cut) :
                                  sync'[r].at = Held(pool', conn', sync'[r].cwd, n)
                      /\ sync'[r].pc = "connecting" => sync'[r].cut = {}
    BY DEF CallsReady
  <2>1. sync'[r] = sync[r] /\ GoalOf(r)' = GoalOf(r) /\ Working(r)
    BY DEF Working
  <2> QED
    BY <2>1 DEF CallsReady
<1>5. InPlace'
  <2> SUFFICES ASSUME NEW d \in Cwds, bound.changes = 0 \/ d = PageCwd, Outdated(d, Desired(d))' # {}
               PROVE  d = PageCwd /\ page'.op = "asking" /\ sync'["page"].pc = "closing"
    BY DEF InPlace
  <2>1. d = PageCwd /\ page.op = "asking" /\ sync["page"].pc = "closing"
    BY <1>3 DEF InPlace
  <2> QED
    BY <2>1 DEF Working, Callers
<1>6. \A d \in Cwds : Still(d) => Still(d)'
  BY <1>3 DEF Still, Complete, Working
<1> QED
  BY <1>2, <1>4, <1>5, <1>6 DEF IndexOf, Named, View

\* What a step that does not touch the calls at work has to keep besides.
LEMMA RestKeeps ==
    ASSUME IInv, TypeOK', Control', UNCHANGED <<bound, files, pool, conn>>,
           \A r \in Callers : Working(r) \/ Working(r)' => sync'[r] = sync[r] /\ GoalOf(r)' = GoalOf(r),
           page' = page \/ ~(page.op = "asking" /\ sync["page"].pc = "closing"),
           ~bound.overlap /\ Settled => Settled'
    PROVE  IInv'
<1>1. TypeOK /\ PoolPart /\ sync' \in [Callers -> SyncCall]
  BY DEF IInv, Control
<1>2. Shape(pool', conn') /\ Handed(conn', sync', Callers) /\ CallsReady' /\ InPlace'
  BY <1>1, RestMoves
<1> QED
  BY <1>2 DEF IInv, PoolPart

\* A session that is settled stays so, also when its workspace's index is built anew.
LEMMA SessionStays ==
    ASSUME TypeOK, PoolPart, UNCHANGED <<bound, files, pool, conn>>,
           sync' \in [Callers -> SyncCall],
           \A r \in Callers : Working(r) \/ Working(r)' => sync'[r] = sync[r] /\ GoalOf(r)' = GoalOf(r),
           page' = page \/ ~(page.op = "asking" /\ sync["page"].pc = "closing"),
           NEW s \in Sessions, SettledSession(s), tools'[s] = tools[s],
           index'[bound.cwd[s]] \in {index[bound.cwd[s]], IndexOf(pool, conn, bound.cwd[s])}
    PROVE  SettledSession(s)'
<1> DEFINE c == bound.cwd[s]
<1>1. c \in Cwds
  BY ScenarioType
<1>2. Still(c) => Still(c)'
  BY <1>1, RestMoves
<1>3. IndexOf(pool, conn, c)' = IndexOf(pool, conn, c)
  BY <1>1, RestMoves
<1>4. Allowed(s, IndexOf(pool, conn, c))' = Allowed(s, IndexOf(pool, conn, c))
  BY <1>3 DEF Allowed
<1> QED
  BY <1>2, <1>3, <1>4 DEF SettledSession

\* A process that ends leaves every entry and its status.
LEMMA DieKeeps ==
    ASSUME IInv, NEW i \in Slots, Die(i)
    PROVE  IInv'
<1>1. TypeOK /\ PoolPart /\ conn[i].live /\ conn[i].client
      /\ conn' = [conn EXCEPT ![i].live = FALSE]
      /\ UNCHANGED <<bound, files, pool, sync, index, tools, page, up, changes>>
  BY DEF IInv, Die
<1>2. conn[i] \in Managed /\ i \in Range(pool)
  BY <1>1, NoEntry DEF PoolPart, Shape, Blank
<1>3. conn' \in [Slots -> Managed \cup {Blank}] /\ conn'[i] \in Managed
      /\ \A j \in Slots : /\ conn'[j].cwd = conn[j].cwd /\ conn'[j].name = conn[j].name
                          /\ conn'[j].made = conn[j].made /\ conn'[j].status = conn[j].status
                          /\ conn'[j].client = conn[j].client
                          /\ j # i => conn'[j] = conn[j]
                          /\ j = i => ~conn'[j].live
  <2>1. [conn[i] EXCEPT !.live = FALSE] \in Managed
    BY <1>2 DEF Managed
  <2>2. conn' = [conn EXCEPT ![i] = [conn[i] EXCEPT !.live = FALSE]] /\ conn \in [Slots -> Managed \cup {Blank}]
    BY <1>1 DEF PoolPart, Shape
  <2>3. /\ [conn[i] EXCEPT !.live = FALSE].cwd = conn[i].cwd /\ [conn[i] EXCEPT !.live = FALSE].name = conn[i].name
        /\ [conn[i] EXCEPT !.live = FALSE].made = conn[i].made
        /\ [conn[i] EXCEPT !.live = FALSE].status = conn[i].status
        /\ [conn[i] EXCEPT !.live = FALSE].client = conn[i].client
        /\ [conn[i] EXCEPT !.live = FALSE].live = FALSE
    BY <1>2 DEF Managed
  <2> QED
    BY <2>1, <2>2, <2>3
<1>4. Shape(pool', conn')
  <2>1. \A a \in DOMAIN pool : pool[a] \in Slots
    BY DEF IInv, PoolPart, Shape
  <2>2. \A a \in DOMAIN pool : conn'[pool[a]].cwd = conn[pool[a]].cwd /\ conn'[pool[a]].name = conn[pool[a]].name
    BY <1>3, <2>1
  <2>3. \A j \in Slots : j \in Range(pool) <=> conn'[j] \in Managed
    BY <1>1, <1>2, <1>3 DEF PoolPart, Shape
  <2>4. \A j \in Slots : /\ conn'[j].status = "connected" <=> conn'[j].client
                         /\ conn'[j].live /\ ~conn'[j].client => conn'[j].status = "connecting"
    BY <1>1, <1>3 DEF PoolPart, Shape
  <2>5. pool \in Seq(Slots) /\ pool' = pool
        /\ \A a, b \in DOMAIN pool :
              conn[pool[a]].cwd = conn[pool[b]].cwd /\ conn[pool[a]].name = conn[pool[b]].name => a = b
    BY <1>1 DEF PoolPart, Shape
  <2>6. \A a, b \in DOMAIN pool :
           conn'[pool[a]].cwd = conn'[pool[b]].cwd /\ conn'[pool[a]].name = conn'[pool[b]].name => a = b
    BY <2>2, <2>5
  <2>7. conn' \in [Slots -> Managed \cup {Blank}]
    BY <1>3
  <2> DEFINE k == conn'
  <2> HIDE DEF k
  <2>8. Shape(pool, k)
    BY <2>3, <2>4, <2>5, <2>6, <2>7 DEF Shape, k
  <2> QED
    BY <2>5, <2>8 DEF k
<1>5. Handed(conn', sync', Callers)
  BY <1>1, <1>3 DEF PoolPart, Handed
<1>6. \A d \in Cwds : SameEntries(pool, conn, pool', conn', d) /\ SameKeys(pool, conn, pool', conn', d)
  <2>1. \A j \in Range(pool) : j \in Slots
    BY <1>1, Entry DEF PoolPart
  <2> QED
    BY <1>1, <1>3, <2>1 DEF SameEntries, SameKeys
<1>7. Shape(pool, conn)
  BY <1>1 DEF PoolPart
<1>8. \A d \in Cwds : /\ \A n : Held(pool', conn', d, n) = Held(pool, conn, d, n)
                      /\ \A g : OutdatedIn(pool', conn', d, g) = OutdatedIn(pool, conn, d, g)
  BY <1>4, <1>6, <1>7, SameKeysHeld
<1>9. CallsReady'
  <2> SUFFICES ASSUME NEW r \in Callers, Working(r)
               PROVE  /\ Ready(sync[r], pool', conn')
                      /\ sync[r].goal = GoalOf(r)
                      /\ sync[r].pc = "closing" =>
                            /\ sync[r].cut # {}
                            /\ \A n \in First(sync[r].cut) :
                                  sync[r].at = Held(pool', conn', sync[r].cwd, n)
                      /\ sync[r].pc = "connecting" => sync[r].cut = {}
    BY <1>1 DEF CallsReady, Working, GoalOf, Desired
  <2>1. sync[r].cwd \in Cwds
    BY <1>1 DEF PoolPart, CallsReady, Ready
  <2>2. Ready(sync[r], pool', conn')
    BY <1>1, <1>8, <2>1 DEF PoolPart, CallsReady, Ready
  <2> QED
    BY <1>1, <1>8, <2>1, <2>2 DEF PoolPart, CallsReady
<1>10. Control'
  BY <1>1 DEF PoolPart, Control, Working, IsOpen
<1>11. InPlace'
  <2>1. ASSUME NEW d \in Cwds PROVE Outdated(d, Desired(d))' = Outdated(d, Desired(d))
    <3>1. Desired(d)' = Desired(d)
      BY <1>1 DEF Desired
    <3>2. OutdatedIn(pool', conn', d, Desired(d)) = OutdatedIn(pool, conn, d, Desired(d))
      BY <1>8
    <3> QED
      BY <3>1, <3>2 DEF Outdated, OutdatedIn
  <2> QED
    BY <1>1, <2>1 DEF PoolPart, InPlace
<1>12. TypeOK'
  BY <1>1, <1>3 DEF TypeOK, ToolEntry
<1>13. ASSUME ~bound.overlap PROVE Settled'
  <2>1. Settled
    BY <1>13 DEF IInv
  <2>2. \A d \in Cwds : Still(d) => Still(d)' /\ IndexOf(pool, conn, d)' = IndexOf(pool, conn, d)
                                   /\ View(d)' = View(d)
    <3>1. \A r \in Callers : Working(r)' => Working(r) /\ sync'[r] = sync[r]
      BY <1>1 DEF Working
    <3>2. \A d \in Cwds : Still(d) => \A r \in Callers : Working(r)' => sync'[r].cwd # d
      BY <3>1 DEF Still
    <3> QED
      BY <1>1, <1>4, <1>6, <1>7, <3>2, StillSame
  <2>3. PageCwd \in Cwds /\ bound.cwd \in [Sessions -> Cwds]
    BY <1>1, ScenarioType, McpAssumption
  <2>4. ASSUME NEW s \in Sessions, SettledSession(s) PROVE SettledSession(s)'
    <3>1. Allowed(s, IndexOf(pool, conn, bound.cwd[s]))' = Allowed(s, IndexOf(pool, conn, bound.cwd[s]))
      BY <1>1, <2>2, <2>3, <2>4 DEF SettledSession, Allowed
    <3> QED
      BY <1>1, <2>2, <2>3, <2>4, <3>1 DEF SettledSession
  <2>5. ASSUME NEW r \in Callers, sync[r].pc = "done", Still(sync[r].cwd),
               ~(r = "page" /\ (page.op = "cutting" \/ up = "closing"))
        PROVE  Still(sync[r].cwd)'
    <3>1. sync[r].cwd \in Cwds
      BY <1>1, <2>3, <2>5 DEF PoolPart, Control, Callers, Busy, Idle
    <3>2. sync'[r].cwd = sync[r].cwd
      BY <1>1
    <3> QED
      BY <1>1, <2>2, <2>5, <3>1 DEF Still
  <2> QED
    BY <1>1, <2>1, <2>2, <2>3, <2>4, <2>5 DEF Settled, IsOpen
<1> QED
  BY <1>1, <1>4, <1>5, <1>9, <1>10, <1>11, <1>12, <1>13 DEF IInv, PoolPart
-----------------------------------------------------------------------------
(* ... the sessions ... *)

LEMMA IdleType == Idle \in SyncCall /\ [Idle EXCEPT !.pc = "due"] \in SyncCall
BY NothingEnabled DEF Idle, SyncCall

LEMMA OpenKeeps ==
    ASSUME IInv, Calm(bound), NEW s \in Sessions, Open(s)
    PROVE  IInv'
<1>1. /\ TypeOK /\ PoolPart /\ MayStart /\ ~IsOpen(s) /\ sync[s] = Idle /\ s \in Callers /\ s # "page"
      /\ UNCHANGED <<bound, files, pool, conn, page, up, changes>>
  BY McpAssumption DEF IInv, Open, Callers
<1>2. CASE bound.allowed[s] = {}
  <2>1. tools' = [tools EXCEPT ![s] = {}] /\ UNCHANGED <<index, sync>>
    BY <1>2 DEF Open
  <2>2. TypeOK'
    BY <1>1, <2>1 DEF TypeOK, ToolEntry
  <2>3. Control'
    BY <1>1, <2>1 DEF PoolPart, Control, Working, IsOpen, MayStart, TypeOK
  <2>4. \A r \in Callers : GoalOf(r)' = GoalOf(r)
    BY <1>1, <2>1 DEF GoalOf, Desired
  <2>5. ASSUME Settled PROVE Settled'
    <3>1. \A t \in Sessions : t # s => (IsOpen(t)' <=> IsOpen(t)) /\ tools'[t] = tools[t]
      BY <1>1, <2>1 DEF IsOpen, TypeOK
    <3>2. ASSUME NEW t \in Sessions, SettledSession(t), t # s PROVE SettledSession(t)'
      BY <1>1, <2>1, <2>4, <3>1, <3>2, SessionStays DEF PoolPart, Control
    <3>3. \A d : Still(d)' = Still(d) /\ View(d)' = View(d)
      BY <1>1, <2>1 DEF Still, Complete, Outdated, Desired, Working, View
    <3> QED
      BY <1>1, <1>2, <2>1, <2>5, <3>1, <3>2, <3>3 DEF Settled
  <2> QED
    BY <1>1, <2>1, <2>2, <2>3, <2>4, <2>5, RestKeeps
<1>3. CASE bound.allowed[s] # {}
  <2> DEFINE c == bound.cwd[s]
             due == [Idle EXCEPT !.pc = "due"]
  <2>1. /\ index' = [index EXCEPT ![c] = IndexOf(pool, conn, c)] /\ sync' = [sync EXCEPT ![s] = due]
        /\ tools' = tools /\ c \in Cwds
    BY <1>1, <1>3, ScenarioType DEF Open, Reindexed
  <2>2. due \in SyncCall /\ due.pc = "due" /\ due # Idle /\ ~Working(s)
    BY <1>1, IdleType DEF Idle, Working
  <2>3. sync' \in [Callers -> SyncCall] /\ sync'[s] = due /\ \A r \in Callers \ {s} : sync'[r] = sync[r]
    BY <1>1, <2>1, <2>2 DEF PoolPart, Control
  <2> HIDE DEF c, due
  <2>4. TypeOK'
    <3>1. IndexOf(pool, conn, c) \in SUBSET ToolEntry /\ ToolEntry' = ToolEntry
      BY <1>1, IndexType DEF ToolEntry
    <3>2. index' \in [Cwds -> SUBSET ToolEntry]
      BY <1>1, <2>1, <3>1 DEF TypeOK
    <3>3. \A r \in Callers : sync'[r].pc \in {"idle", "due", "closing", "connecting", "done"}
      BY <2>3 DEF SyncCall
    <3> QED
      BY <1>1, <2>1, <3>1, <3>2, <3>3 DEF TypeOK
  <2>5. Control'
    <3> USE DEF PoolPart
    <3>1. ~bound.overlap => Quiet
      BY <1>1 DEF MayStart
    <3>2. /\ ~bound.overlap => /\ page.op \in {"shut", "shown"} /\ \A t \in Sessions : t # s => sync'[t] = Idle
          /\ sync'["page"] = sync["page"] /\ up = "up" /\ (page.op \notin Busy \/ bound.overlap)
      BY <1>1, <2>3, <3>1 DEF Quiet, Callers, MayStart, Busy
    <3>3. \A t \in Sessions : t # s => sync'[t] = sync[t]
      BY <2>3 DEF Callers
    <3>4. /\ \A t \in Sessions : sync'[t].pc # "idle" => bound.allowed[t] # {}
          /\ \A t \in Sessions : Working(t)' \/ sync'[t].pc = "done" => sync'[t].cwd = bound.cwd[t]
      BY <1>1, <1>3, <2>2, <2>3, <3>3 DEF Control, Working
    <3>5. \A r \in Callers : sync'[r].pc = "idle" => sync'[r] = Idle
      BY <1>1, <2>2, <2>3 DEF Control
    <3>6. up = "up"
      BY <1>1 DEF MayStart
    <3> QED
      BY <1>1, <2>1, <2>3, <3>2, <3>4, <3>5, <3>6 DEF Control, Busy
  <2>6. \A r \in Callers : Working(r) \/ Working(r)' => sync'[r] = sync[r] /\ GoalOf(r)' = GoalOf(r)
    BY <1>1, <2>2, <2>3 DEF Working, GoalOf, Desired
  <2>7. ASSUME Settled PROVE Settled'
    <3>1. \A d \in Cwds : Still(d) => Still(d)'
      BY <1>1, <2>3, <2>6, RestMoves
    <3>2. \A d \in Cwds : IndexOf(pool, conn, d)' = IndexOf(pool, conn, d) /\ View(d)' = View(d)
      BY <1>1, <2>3, <2>6, RestMoves
    <3>3. PageCwd \in Cwds /\ bound.cwd \in [Sessions -> Cwds] /\ index \in [Cwds -> SUBSET ToolEntry]
      BY <1>1, ScenarioType, McpAssumption DEF TypeOK
    <3>4. ASSUME NEW t \in Sessions, SettledSession(t) PROVE SettledSession(t)'
      <4>1. index'[bound.cwd[t]] \in {index[bound.cwd[t]], IndexOf(pool, conn, bound.cwd[t])}
        BY <2>1, <3>3
      <4> QED
        BY <1>1, <2>1, <2>3, <2>6, <3>4, <4>1, SessionStays
    <3>5. \A r \in Callers : sync'[r].pc = "done" => r # s /\ sync'[r] = sync[r]
      BY <2>2, <2>3
    <3>6. \A r \in Callers : sync[r].pc = "done" => sync[r].cwd \in Cwds \/ (r = "page" /\ up = "closing")
      BY <1>1, <3>3, McpAssumption DEF PoolPart, Control, Callers, Busy, Idle
    <3>7. \A t \in Sessions : sync'[t] = Idle => sync[t] = Idle
      BY <2>2, <2>3 DEF Callers
    <3> QED
      BY <1>1, <2>1, <2>7, <3>1, <3>2, <3>3, <3>4, <3>5, <3>6, <3>7 DEF Settled, IsOpen
  <2> QED
    BY <1>1, <2>4, <2>5, <2>6, <2>7, RestKeeps
<1> QED
  BY <1>2, <1>3

LEMMA RegisterKeeps ==
    ASSUME IInv, Calm(bound), NEW s \in Sessions, Register(s)
    PROVE  IInv'
<1> DEFINE c == bound.cwd[s]
           own == Allowed(s, IndexOf(pool, conn, c))
<1>1. /\ TypeOK /\ PoolPart /\ sync[s].pc = "done" /\ ~Working(s) /\ s \in Callers /\ s # "page"
      /\ UNCHANGED <<bound, files, pool, conn, page, up, changes>>
  BY McpAssumption DEF IInv, Register, Callers, Working
<1>2. /\ index' = [index EXCEPT ![c] = IndexOf(pool, conn, c)] /\ tools' = [tools EXCEPT ![s] = own]
      /\ sync' = [sync EXCEPT ![s] = Idle] /\ c \in Cwds
  BY <1>1, ScenarioType DEF Register, Reindexed
<1>3. sync' \in [Callers -> SyncCall] /\ sync'[s] = Idle /\ \A r \in Callers \ {s} : sync'[r] = sync[r]
  BY <1>1, <1>2, IdleType DEF PoolPart, Control
<1>4. sync[s] # Idle /\ up = "up" /\ sync[s].cwd = c
  BY <1>1 DEF Idle, PoolPart, Control
<1>5. IndexOf(pool, conn, c) \in SUBSET ToolEntry /\ own \in SUBSET ToolEntry /\ ToolEntry' = ToolEntry
  BY <1>1, IndexType DEF ToolEntry
<1> HIDE DEF c, own
<1>6. /\ index' \in [Cwds -> SUBSET ToolEntry] /\ tools' \in [Sessions -> {None} \cup SUBSET ToolEntry]
      /\ tools'[s] = own /\ \A t \in Sessions : t # s => tools'[t] = tools[t]
  BY <1>1, <1>2, <1>5 DEF TypeOK
<1>7. TypeOK'
  <2>1. \A r \in Callers : sync'[r].pc \in {"idle", "due", "closing", "connecting", "done"}
    BY <1>3 DEF SyncCall
  <2> QED
    BY <1>1, <1>5, <1>6, <2>1 DEF TypeOK
<1>8. Control'
  <2> USE DEF PoolPart
  <2>1. /\ \A t \in Sessions : t # s => sync'[t] = sync[t]
        /\ sync'["page"] = sync["page"] /\ Idle.pc = "idle"
    BY <1>1, <1>3 DEF Callers, Idle
  <2>2. \A r \in Callers : /\ sync'[r].pc = "idle" => sync'[r] = Idle
                           /\ sync'[r] # Idle => sync[r] # Idle
    BY <1>1, <1>3 DEF Control
  <2>3. /\ \A t \in Sessions : sync'[t].pc # "idle" => bound.allowed[t] # {}
        /\ \A t \in Sessions : Working(t)' \/ sync'[t].pc = "done" => sync'[t].cwd = bound.cwd[t]
    BY <1>1, <1>3, <2>1 DEF Control, Working
  <2>4. /\ ~bound.overlap /\ page.op \in Busy => \A t \in Sessions : sync'[t] = Idle
        /\ ~bound.overlap /\ page.op \in {"shut", "shown"} =>
              \A r, t \in Sessions : sync'[r] # Idle /\ sync'[t] # Idle => r = t
        /\ ~bound.overlap /\ page.op \in {"reloading", "refreshed"} =>
              \A t \in Sessions : sync'[t] # Idle => tools'[t] # None
    BY <1>1, <1>3, <1>6, <2>1, <2>2 DEF Control, IsOpen, Callers
  <2> QED
    BY <1>1, <1>3, <1>4, <2>1, <2>2, <2>3, <2>4 DEF Control, IsOpen
<1>9. \A r \in Callers : Working(r) \/ Working(r)' => sync'[r] = sync[r] /\ GoalOf(r)' = GoalOf(r)
  BY <1>1, <1>3 DEF Working, GoalOf, Desired, Idle
<1>10. ASSUME Settled PROVE Settled'
  <2>1. \A d \in Cwds : Still(d) => Still(d)'
    BY <1>1, <1>3, <1>9, RestMoves
  <2>2. \A d \in Cwds : IndexOf(pool, conn, d)' = IndexOf(pool, conn, d) /\ View(d)' = View(d)
    BY <1>1, <1>3, <1>9, RestMoves
  <2>3. PageCwd \in Cwds /\ bound.cwd \in [Sessions -> Cwds] /\ index \in [Cwds -> SUBSET ToolEntry]
    BY <1>1, ScenarioType, McpAssumption DEF TypeOK
  <2>4. PICK d \in Cwds : d = c /\ c' = c /\ Still(d) /\ Still(d)'
    <3>1. Still(sync[s].cwd) /\ c' = c
      BY <1>1, <1>10 DEF Settled, c
    <3> QED
      BY <1>2, <1>4, <2>1, <3>1
  <2>5. SettledSession(s)'
    <3>1. own' = own
      BY <1>1, <1>2, <2>2 DEF own, c, Allowed
    <3>2. index'[d] = IndexOf(pool, conn, d) /\ IndexOf(pool, conn, d)' = IndexOf(pool, conn, d)
      BY <1>2, <2>2, <2>3, <2>4
    <3>3. own' = Allowed(s, IndexOf(pool, conn, d))' /\ bound'.cwd[s] = d
      BY <1>1, <2>4 DEF c, own
    <3> QED
      BY <1>6, <2>4, <3>1, <3>2, <3>3 DEF SettledSession
  <2>6. ASSUME NEW t \in Sessions, SettledSession(t), t # s PROVE SettledSession(t)'
    <3>1. index'[bound.cwd[t]] \in {index[bound.cwd[t]], IndexOf(pool, conn, bound.cwd[t])}
      BY <1>2, <2>3
    <3> QED
      BY <1>1, <1>3, <1>6, <1>9, <2>6, <3>1, SessionStays
  <2>7. \A r \in Callers : sync'[r].pc = "done" => r # s /\ sync'[r] = sync[r]
    BY <1>3 DEF Idle
  <2>8. \A r \in Callers : sync[r].pc = "done" => sync[r].cwd \in Cwds \/ (r = "page" /\ up = "closing")
    BY <1>1, <2>3, McpAssumption DEF PoolPart, Control, Callers, Busy, Idle
  <2>9. \A t \in Sessions : t # s => sync'[t] = sync[t] /\ (IsOpen(t)' <=> IsOpen(t))
    BY <1>3, <1>6 DEF Callers, IsOpen
  <2> QED
    BY <1>1, <1>10, <2>1, <2>2, <2>3, <2>5, <2>6, <2>7, <2>8, <2>9 DEF Settled
<1> QED
  BY <1>1, <1>7, <1>8, <1>9, <1>10, RestKeeps

\* Closing and leaving take something away that nothing else refers to.
LEMMA CloseKeeps ==
    ASSUME IInv, NEW s \in Sessions, Close(s)
    PROVE  IInv'
<1>1. /\ TypeOK /\ PoolPart /\ MayStart /\ sync[s] = Idle /\ s \in Callers
      /\ tools' = [tools EXCEPT ![s] = None]
      /\ UNCHANGED <<bound, files, pool, conn, sync, index, page, up, changes>>
  BY DEF IInv, Close, Callers
<1>2. tools' \in [Sessions -> {None} \cup SUBSET ToolEntry] /\ tools'[s] = None
      /\ \A t \in Sessions : t # s => tools'[t] = tools[t]
  BY <1>1 DEF TypeOK
<1>3. TypeOK'
  BY <1>1, <1>2 DEF TypeOK, ToolEntry
<1>4. Control'
  BY <1>1, <1>2 DEF PoolPart, Control, Working, IsOpen, MayStart
<1>5. \A r \in Callers : GoalOf(r)' = GoalOf(r) /\ sync'[r] = sync[r]
  BY <1>1 DEF GoalOf, Desired
<1>6. ASSUME Settled PROVE Settled'
  <2>1. \A d : Still(d)' = Still(d) /\ View(d)' = View(d)
    BY <1>1 DEF Still, Complete, Outdated, Desired, Working, View
  <2>2. ASSUME NEW t \in Sessions, SettledSession(t), t # s PROVE SettledSession(t)'
    BY <1>1, <1>2, <1>5, <2>2, SessionStays DEF PoolPart, Control
  <2> QED
    BY <1>1, <1>2, <1>6, <2>1, <2>2 DEF Settled, IsOpen
<1> QED
  BY <1>1, <1>3, <1>4, <1>5, <1>6, RestKeeps
-----------------------------------------------------------------------------
(* ... the page ... *)

LEMMA LeaveKeeps ==
    ASSUME IInv, Leave
    PROVE  IInv'
<1>1. /\ TypeOK /\ PoolPart /\ page.op = "shown" /\ page' = [op |-> "shut", list |-> {}]
      /\ UNCHANGED <<bound, files, pool, conn, sync, index, tools, up, changes>>
  BY DEF IInv, Leave
<1>2. page' \in [op : PageSteps, list : SUBSET Views]
  BY <1>1 DEF PageSteps
<1>3. TypeOK'
  BY <1>1, <1>2 DEF TypeOK, ToolEntry
<1>4. Control'
  BY <1>1 DEF PoolPart, Control, Working, IsOpen, Busy
<1>5. \A r \in Callers : GoalOf(r)' = GoalOf(r) /\ sync'[r] = sync[r]
  BY <1>1 DEF GoalOf, Desired
<1>6. ASSUME Settled PROVE Settled'
  <2>1. \A d : Still(d)' = Still(d)
    BY <1>1 DEF Still, Complete, Outdated, Desired, Working
  <2>2. ASSUME NEW t \in Sessions, SettledSession(t) PROVE SettledSession(t)'
    BY <1>1, <1>5, <2>2, SessionStays DEF PoolPart, Control
  <2> QED
    BY <1>1, <1>6, <2>1, <2>2 DEF Settled, IsOpen
<1> QED
  BY <1>1, <1>3, <1>4, <1>5, <1>6, RestKeeps

\* The list is shown when the call is through, so it shows what is.
LEMMA ShownKeeps ==
    ASSUME IInv, Shown
    PROVE  IInv'
<1>1. /\ TypeOK /\ PoolPart /\ page.op = "listing" /\ sync["page"].pc = "done"
      /\ sync' = [sync EXCEPT !["page"] = Idle] /\ page' = [op |-> "shown", list |-> View(PageCwd)]
      /\ UNCHANGED <<bound, files, pool, conn, index, tools, up, changes>>
  BY DEF IInv, Shown
<1>2. sync' \in [Callers -> SyncCall] /\ sync'["page"] = Idle
      /\ \A r \in Callers \ {"page"} : sync'[r] = sync[r]
  BY <1>1, IdleType DEF PoolPart, Control, Callers
<1>3. \A t \in Sessions : t # "page" /\ sync'[t] = sync[t]
  BY <1>2, McpAssumption DEF Callers
<1>4. up = "up" /\ sync["page"].cwd = PageCwd /\ PageCwd \in Cwds
  BY <1>1, McpAssumption DEF PoolPart, Control, TypeOK, Busy
<1>5. page' \in [op : PageSteps, list : SUBSET Views]
  BY <1>1, <1>4, ViewType DEF PageSteps
<1>6. TypeOK'
  <2>1. \A r \in Callers : sync'[r].pc \in {"idle", "due", "closing", "connecting", "done"}
    BY <1>2 DEF SyncCall
  <2> QED
    BY <1>1, <1>5, <2>1 DEF TypeOK, ToolEntry
<1>7. Control'
  <2>1. \A r \in Callers : sync'[r].pc = "idle" => sync'[r] = Idle
    BY <1>1, <1>2 DEF PoolPart, Control
  <2> QED
    BY <1>1, <1>2, <1>3, <1>4, <2>1 DEF PoolPart, Control, Working, IsOpen, Busy, Idle
<1>8. \A r \in Callers : Working(r) \/ Working(r)' => sync'[r] = sync[r] /\ GoalOf(r)' = GoalOf(r)
  BY <1>1, <1>2 DEF Working, GoalOf, Desired, Idle
<1>9. ASSUME Settled PROVE Settled'
  <2>1. \A d \in Cwds : Still(d) => Still(d)'
    BY <1>1, <1>2, <1>8, RestMoves
  <2>2. \A d \in Cwds : View(d)' = View(d)
    BY <1>1, <1>2, <1>8, RestMoves
  <2>3. Still(PageCwd) /\ bound.cwd \in [Sessions -> Cwds]
    BY <1>1, <1>4, <1>9, ScenarioType DEF Settled, Callers
  <2>4. ASSUME NEW t \in Sessions, SettledSession(t) PROVE SettledSession(t)'
    BY <1>1, <1>2, <1>8, <2>4, SessionStays
  <2>5. \A r \in Callers : sync'[r].pc = "done" =>
            r \in Sessions /\ sync'[r] = sync[r] /\ sync[r].cwd \in Cwds
    BY <1>1, <1>2, <2>3 DEF Idle, Callers, PoolPart, Control
  <2> QED
    BY <1>1, <1>3, <1>4, <1>9, <2>1, <2>2, <2>3, <2>4, <2>5 DEF Settled, IsOpen
<1> QED
  BY <1>1, <1>6, <1>7, <1>8, <1>9, RestKeeps

\* The page's call is through, so its workspace is settled; the sessions load again.
LEMMA ReloadKeeps ==
    ASSUME IInv, Calm(bound), Reload
    PROVE  IInv'
<1> DEFINE due == [Idle EXCEPT !.pc = "due"]
<1>1. /\ TypeOK /\ PoolPart /\ page.op \in {"asking", "renewing"} /\ sync["page"].pc = "done"
      /\ page' = [page EXCEPT !.op = IF @ = "asking" THEN "reloading" ELSE "refreshed"]
      /\ sync' = [q \in Callers |->
                    IF q = "page" THEN Idle
                    ELSE IF IsOpen(q) /\ bound.allowed[q] # {} THEN due
                    ELSE sync[q]]
      /\ UNCHANGED <<bound, files, pool, conn, index, tools, up, changes>>
  BY DEF IInv, Reload
<1>2. due \in SyncCall /\ due.pc = "due" /\ due # Idle /\ Idle \in SyncCall /\ Idle.pc = "idle"
  BY IdleType DEF Idle
<1> HIDE DEF due
<1>3. /\ sync' \in [Callers -> SyncCall] /\ sync'["page"] = Idle /\ "page" \in Callers
      /\ \A s \in Sessions : /\ s # "page" /\ s \in Callers
                             /\ sync'[s] = IF IsOpen(s) /\ bound.allowed[s] # {} THEN due ELSE sync[s]
  BY <1>1, <1>2, McpAssumption DEF PoolPart, Control, Callers
<1>4. up = "up" /\ sync["page"].cwd = PageCwd /\ PageCwd \in Cwds /\ ~bound.overlap
  BY <1>1, McpAssumption DEF PoolPart, Control, TypeOK, Busy, Calm
<1>5. \A s \in Sessions : sync[s] = Idle
  BY <1>1, <1>4 DEF PoolPart, Control, Busy
<1>6. /\ page' \in [op : PageSteps, list : SUBSET Views] /\ page'.op \in {"reloading", "refreshed"}
      /\ bound.changes # 0
  BY <1>1 DEF TypeOK, PageSteps, PoolPart, Control
<1>7. TypeOK'
  <2>1. \A r \in Callers : sync'[r].pc \in {"idle", "due", "closing", "connecting", "done"}
    BY <1>3 DEF SyncCall
  <2> QED
    BY <1>1, <1>6, <2>1 DEF TypeOK, ToolEntry
<1>8. \A s \in Sessions : /\ sync'[s] = Idle \/ sync'[s] = due
                          /\ sync'[s] = due <=> IsOpen(s) /\ bound.allowed[s] # {}
  BY <1>2, <1>3, <1>5
<1>9. Control'
  <2>1. \A r \in Callers : sync'[r].pc = "idle" => sync'[r] = Idle
    BY <1>2, <1>3, <1>8 DEF Callers
  <2>2. \A s \in Sessions : (sync'[s].pc # "idle" \/ sync'[s] # Idle) => IsOpen(s) /\ bound.allowed[s] # {}
    BY <1>2, <1>8
  <2>3. \A s \in Sessions : ~Working(s)' /\ sync'[s].pc # "done"
    BY <1>2, <1>8 DEF Working
  <2> QED
    BY <1>1, <1>2, <1>3, <1>4, <1>6, <2>1, <2>2, <2>3 DEF PoolPart, Control, IsOpen, Busy
<1>10. \A r \in Callers : ~Working(r) /\ ~Working(r)'
  BY <1>1, <1>2, <1>3, <1>5, <1>8 DEF Working, Callers
<1>11. ASSUME Settled PROVE Settled'
  <2>1. \A d \in Cwds : Still(d) => Still(d)'
    BY <1>1, <1>3, <1>10, RestMoves
  <2>2. Still(PageCwd)
    BY <1>1, <1>3, <1>4, <1>11 DEF Settled
  <2>3. \A s \in Sessions : ~(IsOpen(s)' /\ bound'.allowed[s] # {} /\ sync'[s] = Idle)
    BY <1>1, <1>2, <1>8 DEF IsOpen
  <2>4. \A r \in Callers : sync'[r].pc # "done"
    BY <1>2, <1>3, <1>8 DEF Callers
  <2> QED
    BY <1>4, <1>6, <2>1, <2>2, <2>3, <2>4 DEF Settled
<1> QED
  BY <1>1, <1>7, <1>9, <1>10, <1>11, RestKeeps

LEMMA AnsweredKeeps ==
    ASSUME IInv, Calm(bound), Answered
    PROVE  IInv'
<1>1. /\ TypeOK /\ PoolPart /\ page.op \in {"reloading", "refreshed"}
      /\ \A s \in Sessions : IsOpen(s) => sync[s] = Idle
      /\ UNCHANGED <<bound, files, index, tools, up, changes>>
  BY DEF IInv, Answered
<1>2. up = "up" /\ ~bound.overlap /\ sync["page"] = Idle
  BY <1>1 DEF PoolPart, Control, TypeOK, Busy, Calm
<1>3. \A s \in Sessions : sync[s] = Idle
  BY <1>1, <1>2 DEF PoolPart, Control
<1>4. CASE page.op = "reloading"
  <2>1. page' = [page EXCEPT !.op = "listing"] /\ Ensure("page", PageCwd)
    BY <1>4 DEF Answered
  <2> QED
    BY <1>1, <1>2, <1>3, <1>4, <2>1, ListingKeeps
<1>5. CASE page.op # "reloading"
  <2>1. page' = [page EXCEPT !.op = "shut"] /\ UNCHANGED <<sync, pool, conn>>
    BY <1>5 DEF Answered
  <2>2. page' \in [op : PageSteps, list : SUBSET Views] /\ page'.op = "shut"
    BY <1>1, <2>1 DEF TypeOK, PageSteps
  <2>3. TypeOK'
    BY <1>1, <2>1, <2>2 DEF TypeOK, ToolEntry
  <2>4. Control'
    BY <1>1, <1>2, <1>3, <2>1, <2>2 DEF PoolPart, Control, Working, IsOpen, Busy
  <2>5. \A r \in Callers : GoalOf(r)' = GoalOf(r) /\ sync'[r] = sync[r]
    BY <1>1, <1>5, <2>1, <2>2 DEF GoalOf, Desired
  <2>6. ASSUME Settled PROVE Settled'
    <3>1. \A d : Still(d)' = Still(d)
      BY <1>1, <2>1 DEF Still, Complete, Outdated, Desired, Working
    <3>2. ASSUME NEW t \in Sessions, SettledSession(t) PROVE SettledSession(t)'
      BY <1>1, <2>1, <2>5, <3>2, SessionStays DEF PoolPart, Control
    <3> QED
      BY <1>1, <1>2, <2>1, <2>2, <2>6, <3>1, <3>2 DEF Settled, IsOpen
  <2> QED
    BY <1>1, <2>1, <2>3, <2>4, <2>5, <2>6, RestKeeps
<1> QED
  BY <1>4, <1>5
-----------------------------------------------------------------------------
(* ... and the shutdown. *)

LEMMA ShutDownKeeps ==
    ASSUME IInv, ShutDown
    PROVE  IInv'
<1>1. /\ TypeOK /\ PoolPart /\ up = "up" /\ up' = "closing" /\ tools' = [s \in Sessions |-> None]
      /\ page' = [op |-> "shut", list |-> {}] /\ \A q \in Callers : sync[q] = Idle
      /\ UNCHANGED <<bound, files, pool, conn, sync, index, changes>>
  BY DEF IInv, ShutDown, MayStart, Quiet
<1>2. TypeOK'
  <2>1. page' \in [op : PageSteps, list : SUBSET Views]
    BY <1>1 DEF PageSteps
  <2> QED
    BY <1>1, <2>1 DEF TypeOK, ToolEntry
<1>3. \A q \in Callers : ~Working(q) /\ ~Working(q)' /\ sync'[q] = Idle /\ Idle.pc = "idle"
  BY <1>1 DEF Working, Idle
<1>4. Control'
  <2>1. Callers = Sessions \cup {"page"}
    BY DEF Callers
  <2> QED
    BY <1>1, <1>3, <2>1 DEF PoolPart, Control, Working, IsOpen, Busy
<1>5. Settled'
  BY <1>1, <1>3 DEF Settled, IsOpen
<1>6. ~(page.op = "asking" /\ sync["page"].pc = "closing")
  BY <1>1 DEF Callers, Idle
<1> QED
  BY <1>1, <1>2, <1>3, <1>4, <1>5, <1>6, RestKeeps

LEMMA DisposeKeeps ==
    ASSUME IInv, Dispose
    PROVE  IInv'
<1> DEFINE c == conn[Head(pool)].cwd
           q == "page"
<1>1. /\ TypeOK /\ PoolPart /\ up = "closing" /\ pool # <<>> /\ ~Working(q) /\ q \in Callers
      /\ StartSync(q, c, Nothing)
      /\ UNCHANGED <<bound, files, index, tools, page, up, changes>>
  BY DEF IInv, Dispose, Callers, Working
<1>2. c \in Cwds
  <2>1. Head(pool) \in Range(pool)
    <3>1. pool \in Seq(Slots)
      BY <1>1 DEF PoolPart, Shape
    <3>2. 1 \in DOMAIN pool /\ Head(pool) = pool[1]
      BY <1>1, <3>1
    <3> QED
      BY <3>2 DEF Range
  <2> QED
    BY <1>1, <2>1, Entry DEF PoolPart
<1>3. Outcome(q, c, Nothing) /\ pool' = pool /\ conn' = conn
  <2> HIDE DEF c
  <2> QED
    BY <1>1, <1>2, NothingEnabled, StartSteps DEF PoolPart, Control, Grown
<1>4. page.op = "shut" /\ \A s \in Sessions : sync[s] = Idle /\ tools[s] = None /\ sync'[s] = Idle /\ s # "page"
  BY <1>1, <1>3, McpAssumption DEF PoolPart, Control, Callers, Outcome
<1>5. \A r \in Callers \ {q} : r \in Sessions /\ ~Working(r) /\ sync'[r] = Idle /\ Idle.pc = "idle"
  BY <1>4 DEF Callers, Working, Idle
<1>6. CallsReady'
  <2>1. Nothing = GoalOf(q)'
    BY <1>1 DEF GoalOf
  <2>2. \A d \in Cwds : SameEntries(pool, conn, pool', conn', d)
    BY <1>3, SameIsSame
  <2> HIDE DEF c, q
  <2> QED
    BY <1>1, <1>2, <1>3, <1>5, <2>1, <2>2, CallMoves
<1>7. Control'
  <2>1. sync' \in [Callers -> SyncCall] /\ sync'[q].pc \in {"closing", "done"}
    BY <1>3, NothingEnabled DEF Outcome
  <2>2. \A r \in Callers : sync'[r].pc = "idle" => sync'[r] = Idle
    BY <1>5, <2>1
  <2> QED
    BY <1>1, <1>4, <1>5, <2>1, <2>2 DEF PoolPart, Control, Working, IsOpen, Busy
<1>8. InPlace'
  <2>1. \A d \in Cwds : Outdated(d, Desired(d))' = Outdated(d, Desired(d))
    BY <1>1, <1>3 DEF Outdated, Desired
  <2> QED
    BY <1>1, <1>4, <2>1 DEF PoolPart, InPlace
<1>9. TypeOK'
  <2>1. page' \in [op : PageSteps, list : SUBSET Views] /\ files' \in [Files -> ConfigFile]
    BY <1>1 DEF TypeOK
  <2> QED
    BY <1>1, <1>3, <2>1, TypeMoves
<1>10. Settled'
  BY <1>1, <1>4, <1>5 DEF Settled, IsOpen
<1> QED
  BY <1>1, <1>3, <1>6, <1>7, <1>8, <1>9, <1>10 DEF IInv, PoolPart, Outcome

LEMMA DisposedKeeps ==
    ASSUME IInv, Disposed
    PROVE  IInv'
<1>1. /\ TypeOK /\ PoolPart /\ up = "closing" /\ up' = "down" /\ pool = <<>>
      /\ sync' = [sync EXCEPT !["page"] = Idle] /\ index' = [c \in Cwds |-> {}]
      /\ UNCHANGED <<bound, files, pool, conn, tools, page, changes>>
  BY DEF IInv, Disposed
<1>2. page.op = "shut" /\ \A s \in Sessions : sync[s] = Idle /\ tools[s] = None /\ s # "page"
  BY <1>1, McpAssumption DEF PoolPart, Control
<1>3. sync' \in [Callers -> SyncCall] /\ \A r \in Callers : sync'[r] = Idle
  BY <1>1, <1>2, IdleType DEF PoolPart, Control, Callers
<1>4. ~Working("page")
  <2> SUFFICES ASSUME Working("page") PROVE FALSE
    OBVIOUS
  <2>1. "page" \in Callers
    BY DEF Callers
  <2>2. sync["page"].pc = "closing"
    BY <1>1 DEF Working, PoolPart, Control
  <2>3. /\ sync["page"].cut # {}
        /\ sync["page"].cut = OutdatedIn(pool, conn, sync["page"].cwd, sync["page"].goal)
    BY <1>1, <2>1, <2>2 DEF PoolPart, CallsReady, Ready, Working
  <2>4. \A n : Held(pool, conn, sync["page"].cwd, n) = 0
    <3>1. Range(pool) = {}
      BY <1>1 DEF Range
    <3> QED
      BY <3>1 DEF Held
  <2> QED
    BY <2>3, <2>4 DEF OutdatedIn
<1>5. \A r \in Callers : ~Working(r) /\ ~Working(r)' /\ sync'[r].pc = "idle"
  BY <1>2, <1>3, <1>4 DEF Callers, Working, Idle
<1>6. TypeOK'
  <2>1. index' \in [Cwds -> SUBSET ToolEntry]
    BY <1>1
  <2>2. \A r \in Callers : sync'[r].pc \in {"idle", "due", "closing", "connecting", "done"}
    BY <1>5
  <2> QED
    BY <1>1, <2>1, <2>2 DEF TypeOK, ToolEntry
<1>7. Control'
  <2>1. Callers = Sessions \cup {"page"}
    BY DEF Callers
  <2> QED
    BY <1>1, <1>2, <1>3, <1>5, <2>1 DEF PoolPart, Control, IsOpen, Busy
<1>8. Settled'
  BY <1>1, <1>2, <1>5 DEF Settled, IsOpen
<1> QED
  BY <1>1, <1>5, <1>6, <1>7, <1>8, RestKeeps

LEMMA StartUpKeeps ==
    ASSUME IInv, StartUp
    PROVE  IInv'
<1>1. /\ TypeOK /\ PoolPart /\ up = "down" /\ up' = "up"
      /\ UNCHANGED <<bound, files, pool, conn, sync, index, tools, page, changes>>
  BY DEF IInv, StartUp
<1>2. page.op = "shut" /\ \A s \in Sessions : sync[s] = Idle /\ tools[s] = None
  BY <1>1 DEF PoolPart, Control
<1>3. \A r \in Callers : ~Working(r) /\ ~Working(r)' /\ sync[r] = Idle /\ sync[r].pc = "idle"
  <2>1. sync["page"] = Idle
    BY <1>1, <1>2 DEF PoolPart, Control, Busy
  <2>2. \A r \in Callers : sync[r] = Idle /\ sync'[r] = sync[r] /\ Idle.pc = "idle"
    BY <1>1, <1>2, <2>1 DEF Callers, Idle
  <2> QED
    BY <2>2 DEF Working
<1>4. TypeOK'
  BY <1>1 DEF TypeOK, ToolEntry
<1>5. Control'
  <2>1. Callers = Sessions \cup {"page"}
    BY DEF Callers
  <2> QED
    BY <1>1, <1>2, <1>3, <2>1 DEF PoolPart, Control, IsOpen, Busy, Working
<1>6. Settled'
  BY <1>1, <1>2, <1>3 DEF Settled, IsOpen
<1> QED
  BY <1>1, <1>3, <1>4, <1>5, <1>6, RestKeeps
-----------------------------------------------------------------------------
(* The inductive invariant. *)

LEMMA Begins ==
    ASSUME Init
    PROVE  IInv
<1>1. /\ bound \in Scenarios /\ pool = <<>> /\ conn = [i \in Slots |-> Blank]
      /\ sync = [q \in Callers |-> Idle] /\ index = [c \in Cwds |-> {}]
      /\ tools = [s \in Sessions |-> None] /\ page = [op |-> "shut", list |-> {}]
      /\ up = "up" /\ changes = 0
      /\ files = [f \in Files |-> IF f = "user" THEN bound.user ELSE Nothing]
  BY DEF Init
<1>2. Range(pool) = {} /\ pool \in Seq(Slots)
  BY <1>1 DEF Range
<1>3. \A c, n : Held(pool, conn, c, n) = 0
  BY <1>2 DEF Held
<1>4. Callers = Sessions \cup {"page"} /\ \A r \in Callers : sync[r] = Idle /\ ~Working(r) /\ sync[r].pc = "idle"
  BY <1>1 DEF Working, Idle, Callers
<1>5. TypeOK
  <2>1. files \in [Files -> ConfigFile]
    <3>1. bound.user \in ConfigFile /\ Nothing \in ConfigFile
      BY <1>1, McpAssumption DEF ConfigFile, Configs, Nothing
    <3> QED
      BY <1>1, <3>1
  <2>2. page \in [op : PageSteps, list : SUBSET Views]
    BY <1>1 DEF PageSteps
  <2> QED
    BY <1>1, <1>2, <1>4, <2>1, <2>2 DEF TypeOK
<1>6. Shape(pool, conn)
  <2>1. Blank \notin Managed /\ Blank.status = "error" /\ ~Blank.client /\ ~Blank.live
    BY McpAssumption DEF Blank, Managed
  <2>2. DOMAIN pool = {}
    BY <1>1
  <2> QED
    BY <1>1, <1>2, <2>1, <2>2 DEF Shape
<1>7. Handed(conn, sync, Callers)
  BY <1>1, <1>4 DEF Handed, Blank
<1>8. CallsReady
  BY <1>4 DEF CallsReady
<1>9. Control
  <2>1. sync \in [Callers -> SyncCall]
    BY <1>1, IdleType
  <2> QED
    BY <1>1, <1>4, <2>1, McpAssumption DEF Control, Busy
<1>10. InPlace
  BY <1>3 DEF InPlace, Outdated
<1>11. Settled
  BY <1>1, <1>4 DEF Settled, IsOpen
<1> QED
  BY <1>5, <1>6, <1>7, <1>8, <1>9, <1>10, <1>11 DEF IInv, PoolPart

LEMMA StepKeeps ==
    ASSUME IInv, Calm(bound), Next
    PROVE  IInv'
<1>1. ASSUME NEW q \in Callers, Closed(q) \/ Connected(q) \/ Refused(q) PROVE IInv'
  BY <1>1, ClosedKeeps, EndedKeeps DEF Connected, Refused
<1>2. ASSUME NEW s \in Sessions, Open(s) \/ Begin(s) \/ Register(s) \/ Close(s) PROVE IInv'
  BY <1>2, OpenKeeps, BeginKeeps, RegisterKeeps, CloseKeeps
<1>3. ASSUME NEW i \in Slots, Die(i) PROVE IInv'
  BY <1>3, DieKeeps
<1>4. CASE Load
  BY <1>4, LoadKeeps
<1>5. CASE Shown
  BY <1>5, ShownKeeps
<1>6. CASE Leave
  BY <1>6, LeaveKeeps
<1>7. CASE Save \/ Toggle \/ RemoveServer \/ AddFromTemplate
  BY <1>7, ChangesKeep
<1>8. CASE Refresh
  BY <1>8, RefreshKeeps
<1>9. CASE Reconnect
  BY <1>9, ReconnectKeeps
<1>10. CASE Reload
  BY <1>10, ReloadKeeps
<1>11. CASE Answered
  BY <1>11, AnsweredKeeps
<1>12. CASE ShutDown
  BY <1>12, ShutDownKeeps
<1>13. CASE Dispose
  BY <1>13, DisposeKeeps
<1>14. CASE Disposed
  BY <1>14, DisposedKeeps
<1>15. CASE StartUp
  BY <1>15, StartUpKeeps
<1> QED
  BY <1>1, <1>2, <1>3, <1>4, <1>5, <1>6, <1>7, <1>8, <1>9, <1>10, <1>11, <1>12, <1>13, <1>14, <1>15 DEF Next

LEMMA StutterKeeps ==
    ASSUME IInv, UNCHANGED vars
    PROVE  IInv'
<1>1. /\ TypeOK /\ PoolPart
      /\ UNCHANGED <<bound, files, pool, conn, sync, index, tools, page, up, changes>>
  BY DEF IInv, vars
<1>2. TypeOK'
  BY <1>1 DEF TypeOK, ToolEntry
<1>3. Control'
  BY <1>1 DEF PoolPart, Control, Working, IsOpen
<1>4. \A r \in Callers : GoalOf(r)' = GoalOf(r) /\ sync'[r] = sync[r]
  BY <1>1 DEF GoalOf, Desired
<1>5. ASSUME Settled PROVE Settled'
  <2>1. \A d : Still(d)' = Still(d) /\ View(d)' = View(d)
    BY <1>1 DEF Still, Complete, Outdated, Desired, Working, View
  <2>2. ASSUME NEW t \in Sessions, SettledSession(t) PROVE SettledSession(t)'
    BY <1>1, <1>4, <2>2, SessionStays DEF PoolPart, Control
  <2> QED
    BY <1>1, <1>5, <2>1, <2>2 DEF Settled, IsOpen
<1> QED
  BY <1>1, <1>2, <1>3, <1>4, <1>5, RestKeeps

\* The scenario never changes.
LEMMA ScenarioStays == Spec => [][bound' = bound]_vars
<1>1. ASSUME [Next]_vars PROVE bound' = bound
  <2>1. CASE UNCHANGED vars
    BY <2>1 DEF vars
  <2>2. CASE Next
    BY <2>2 DEF Next, Closed, Connected, Refused, Ended, Open, Begin, Register, Close, Die, Load, Shown,
        Leave, Save, Toggle, RemoveServer, AddFromTemplate, Write, Refresh, Reconnect, Reload, Answered,
        ShutDown, Dispose, Disposed, StartUp
  <2> QED
    BY <1>1, <2>1, <2>2
<1>2. [Next]_vars => [bound' = bound]_vars
  BY <1>1
<1> QED
  BY <1>2, PTL DEF Spec
-----------------------------------------------------------------------------
(* What the invariant means for the pool, the sessions and the page. *)

LEMMA InvariantHolds == Spec => [](Calm(bound) => IInv)
<1>1. Init => (Calm(bound) => IInv)
  BY Begins
<1>2. (Calm(bound) => IInv) /\ [Next]_vars /\ [bound' = bound]_vars => (Calm(bound) => IInv)'
  <2> SUFFICES ASSUME Calm(bound) => IInv, [Next]_vars, [bound' = bound]_vars, Calm(bound)'
               PROVE  IInv'
    OBVIOUS
  <2>1. bound' = bound
    BY DEF vars
  <2>2. Calm(bound)
    BY <2>1 DEF Calm
  <2> QED
    BY <2>2, StepKeeps, StutterKeeps
<1> QED
  BY <1>1, <1>2, ScenarioStays, PTL DEF Spec

LEMMA PoolIsRight ==
    ASSUME IInv
    PROVE  PoolInv
<1>1. ASSUME NEW i \in Slots, conn[i].live PROVE i \in Range(pool)
  BY <1>1, NoEntry DEF IInv, PoolPart, Blank
<1> QED
  BY <1>1 DEF IInv, PoolPart, Shape, PoolInv, OneConnection

LEMMA ChangeArrives ==
    ASSUME IInv
    PROVE  ChangeIsEverywhere
<1> SUFFICES ASSUME Quiet, ~bound.overlap, up = "up", NEW s \in Sessions, IsOpen(s), bound.allowed[s] # {}
             PROVE  /\ Outdated(bound.cwd[s], Effective(files, bound.cwd[s])) = {}
                    /\ \A n \in Enabled(Effective(files, bound.cwd[s])) : Held(pool, conn, bound.cwd[s], n) # 0
                    /\ tools[s] = Allowed(s, IndexOf(pool, conn, bound.cwd[s]))
  BY DEF ChangeIsEverywhere
<1>1. SettledSession(s)
  BY DEF IInv, Settled, Quiet, Callers
<1> QED
  BY <1>1 DEF SettledSession, Still, Complete, Desired

\* An entry of the index is the tool of a connected server.
LEMMA IndexIs ==
    ASSUME NEW p, NEW k, NEW c, NEW e \in IndexOf(p, k, c)
    PROVE  \E i \in Range(p) : k[i].cwd = c /\ k[i].status = "connected" /\ k[i].name = e.server
<1> DEFINE shown == {i \in Range(p) : k[i].cwd = c /\ k[i].status = "connected" /\ k[i].name \in Servers}
           number(i) == Cardinality({x \in shown : /\ bound.base[k[x].name] = bound.base[k[i].name]
                                                   /\ Before(p, x, i)})
<1>1. IndexOf(p, k, c) = {[full |-> <<bound.base[k[i].name], number(i)>>, server |-> k[i].name] : i \in shown}
  BY DEF IndexOf, Named
<1> HIDE DEF number
<1>2. PICK i \in shown : e = [full |-> <<bound.base[k[i].name], number(i)>>, server |-> k[i].name]
  BY <1>1
<1> QED
  BY <1>2

\* No two tools of a workspace have the same name: of two with the same cleaned name
\* the later has counted the earlier.
LEMMA NamesDiffer ==
    ASSUME NEW p, NEW k, Shape(p, k), NEW c, NEW e \in IndexOf(p, k, c), NEW g \in IndexOf(p, k, c),
           e.full = g.full
    PROVE  e.server = g.server
<1> DEFINE shown == {i \in Range(p) : k[i].cwd = c /\ k[i].status = "connected" /\ k[i].name \in Servers}
           seen(i) == {x \in shown : bound.base[k[x].name] = bound.base[k[i].name] /\ Before(p, x, i)}
           tool(i) == [full |-> <<bound.base[k[i].name], Cardinality(seen(i))>>, server |-> k[i].name]
<1>1. IndexOf(p, k, c) = {tool(i) : i \in shown}
  BY DEF IndexOf, Named
<1>2. PICK i \in shown, j \in shown : e = tool(i) /\ g = tool(j)
  BY <1>1
<1>3. bound.base[k[i].name] = bound.base[k[j].name] /\ Cardinality(seen(i)) = Cardinality(seen(j))
  BY <1>2
<1>4. DOMAIN p = 1 .. Len(p) /\ Len(p) \in Nat /\ \A x, y \in DOMAIN p : p[x] = p[y] => x = y
  BY DEF Shape
<1>5. PICK a \in DOMAIN p, b \in DOMAIN p : p[a] = i /\ p[b] = j
  BY <1>2 DEF Range
<1>6. \A x \in shown : \E y \in DOMAIN p : p[y] = x
  BY DEF Range
<1>7. \A x, y \in DOMAIN p : Before(p, p[x], p[y]) <=> x <= y
  BY <1>4 DEF Before
<1>8. IsFiniteSet(shown)
  <2> DEFINE f == [x \in shown |-> k[x].name]
  <2>1. \A x \in shown : x \in Range(p) /\ k[x].cwd = c /\ k[x].name \in Servers
    OBVIOUS
  <2>2. \A x, y \in shown : k[x].name = k[y].name => x = y
    BY <2>1, OneUnderKey
  <2> HIDE DEF shown
  <2>3. f \in Injection(shown, Servers)
    BY <2>1, <2>2 DEF Injection, IsInjective
  <2> HIDE DEF f
  <2> QED
    BY <2>3, FS_Injection, McpAssumption
<1>9. IsFiniteSet(seen(i)) /\ IsFiniteSet(seen(j))
  <2>1. seen(i) \subseteq shown /\ seen(j) \subseteq shown
    OBVIOUS
  <2> HIDE DEF shown, seen
  <2> QED
    BY <1>8, <2>1, FS_Subset
<1>10. a <= b => seen(i) \subseteq seen(j)
  BY <1>3, <1>4, <1>5, <1>6, <1>7
<1>11. b <= a => seen(j) \subseteq seen(i)
  BY <1>3, <1>4, <1>5, <1>6, <1>7
<1>12. i \in seen(i) /\ j \in seen(j)
  BY <1>2, <1>4, <1>5, <1>7
<1>13. seen(i) = seen(j)
  <2> HIDE DEF seen
  <2>1. a <= b \/ b <= a
    BY <1>4, <1>5
  <2> QED
    BY <1>3, <1>9, <1>10, <1>11, <2>1, FS_Subset
<1>14. a <= b /\ b <= a
  BY <1>5, <1>7, <1>12, <1>13
<1> QED
  BY <1>2, <1>4, <1>5, <1>14

\* A session that may use no server has registered nothing.
Bare == \A s \in Sessions : bound.allowed[s] = {} => tools[s] \in {None, {}}

LEMMA BareStays ==
    ASSUME IInv, Bare, [Next]_vars
    PROVE  Bare'
<1> SUFFICES ASSUME NEW s \in Sessions, bound'.allowed[s] = {}
             PROVE  tools'[s] \in {None, {}}
  BY DEF Bare
<1>1. tools \in [Sessions -> {None} \cup SUBSET ToolEntry]
  BY DEF IInv, TypeOK
<1>2. ASSUME UNCHANGED <<bound, tools>> PROVE tools'[s] \in {None, {}}
  BY <1>2 DEF Bare
<1>3. ASSUME NEW t \in Sessions, Open(t) PROVE tools'[s] \in {None, {}}
  BY <1>1, <1>3 DEF Bare, Open
<1>4. ASSUME NEW t \in Sessions, Register(t) PROVE tools'[s] \in {None, {}}
  <2>1. bound.allowed[t] # {}
    BY <1>4 DEF Register, IInv, PoolPart, Control
  <2> QED
    BY <1>1, <1>4, <2>1 DEF Bare, Register
<1>5. ASSUME NEW t \in Sessions, Close(t) PROVE tools'[s] \in {None, {}}
  BY <1>1, <1>5 DEF Bare, Close
<1>6. CASE ShutDown
  BY <1>6 DEF ShutDown
<1>7. CASE UNCHANGED vars
  BY <1>2, <1>7 DEF vars
<1> QED
  BY <1>2, <1>3, <1>4, <1>5, <1>6, <1>7 DEF Next, Closed, Connected, Refused, Ended, Begin, Die, Load, Shown,
      Leave, Save, Toggle, RemoveServer, AddFromTemplate, Write, Refresh, Reconnect, Reload, Answered,
      Dispose, Disposed, StartUp

LEMMA BareHolds == Spec => [](Calm(bound) => IInv /\ Bare)
<1>1. Init => Bare
  BY DEF Init, Bare
<1>2. (Calm(bound) => Bare) /\ (Calm(bound) => IInv) /\ [Next]_vars /\ [bound' = bound]_vars
        => (Calm(bound) => Bare)'
  <2> SUFFICES ASSUME Calm(bound) => Bare, Calm(bound) => IInv, [Next]_vars, [bound' = bound]_vars,
                      Calm(bound)'
               PROVE  Bare'
    OBVIOUS
  <2>1. bound' = bound
    BY DEF vars
  <2>2. Calm(bound)
    BY <2>1 DEF Calm
  <2> QED
    BY <2>2, BareStays
<1> QED
  BY <1>1, <1>2, InvariantHolds, ScenarioStays, PTL DEF Spec

\* One request at a time: names lead where they were given.
LEMMA ToolsLeadAlone ==
    ASSUME IInv, Bare, ~bound.overlap
    PROVE  ToolsReachTheirServer
<1> SUFFICES ASSUME Quiet, NEW s \in Sessions, IsOpen(s), NEW e \in tools[s]
             PROVE  /\ Resolve(bound.cwd[s], e.full) = {e.server}
                    /\ Reached(bound.cwd[s], {e.server}) = {e.server}
  BY DEF ToolsReachTheirServer
<1> DEFINE c == bound.cwd[s]
<1>1. bound.allowed[s] # {}
  BY DEF Bare, IsOpen
<1>2. SettledSession(s)
  BY <1>1 DEF IInv, Settled, Quiet, Callers
<1>3. e \in IndexOf(pool, conn, c) /\ index[c] = IndexOf(pool, conn, c) /\ Shape(pool, conn)
  BY <1>2 DEF SettledSession, Allowed, IInv, PoolPart
<1>4. Resolve(c, e.full) = {e.server}
  BY <1>3, NamesDiffer DEF Resolve
<1>5. PICK i \in Range(pool) : conn[i].cwd = c /\ conn[i].status = "connected" /\ conn[i].name = e.server
  BY <1>3, IndexIs
<1>6. Held(pool, conn, c, e.server) = i /\ i # 0 /\ conn[i].client
  BY <1>3, <1>5, HeldFacts, Entry DEF Shape
<1>7. Reached(c, {e.server}) = {e.server}
  BY <1>6 DEF Reached
<1> QED
  BY <1>4, <1>7
-----------------------------------------------------------------------------
(* Calls that meet over files that stay: what is connected stays connected. *)

\* No two servers' cleaned names are the same.
Distinct == \A m, n \in Servers : bound.base[m] = bound.base[n] => m = n
Up(c, n) == \E i \in Range(pool) : conn[i].cwd = c /\ conn[i].name = n /\ conn[i].client
Lasting ==
    /\ \A c \in Cwds : \A e \in index[c] : e.full = <<bound.base[e.server], 1>>
    /\ \A s \in Sessions : IsOpen(s) =>
          \A e \in tools[s] : e \in index[bound.cwd[s]] /\ Up(bound.cwd[s], e.server)

\* Then every tool has the number one.
LEMMA IndexDistinct ==
    ASSUME Shape(pool, conn), Distinct, NEW c
    PROVE  IndexOf(pool, conn, c) = {[full |-> <<bound.base[n], 1>>, server |-> n] : n \in {m \in Servers : Up(c, m)}}
<1> DEFINE shown == {i \in Range(pool) : conn[i].cwd = c /\ conn[i].status = "connected" /\ conn[i].name \in Servers}
           seen(i) == {x \in shown : bound.base[conn[x].name] = bound.base[conn[i].name] /\ Before(pool, x, i)}
           tool(i) == [full |-> <<bound.base[conn[i].name], Cardinality(seen(i))>>, server |-> conn[i].name]
           named(n) == [full |-> <<bound.base[n], 1>>, server |-> n]
<1>1. IndexOf(pool, conn, c) = {tool(i) : i \in shown}
  BY DEF IndexOf, Named
<1>2. ASSUME NEW i \in shown PROVE tool(i) = named(conn[i].name)
  <2>1. \A x \in seen(i) : x = i
    BY OneUnderKey DEF Distinct
  <2>2. i \in seen(i)
    <3>1. PICK a \in DOMAIN pool : pool[a] = i
      BY DEF Range
    <3>2. a <= a
      BY <3>1 DEF Shape
    <3> QED
      BY <3>1, <3>2 DEF Before
  <2>3. seen(i) = {i}
    BY <2>1, <2>2
  <2> HIDE DEF seen
  <2> QED
    BY <2>3, FS_Singleton
<1>3. \A n \in Servers : Up(c, n) <=> \E i \in shown : conn[i].name = n
  BY Entry DEF Up, Shape
<1>4. \A i \in shown : conn[i].name \in Servers
  OBVIOUS
<1> HIDE DEF shown, tool, named
<1>5. {tool(i) : i \in shown} = {named(n) : n \in {m \in Servers : Up(c, m)}}
  BY <1>2, <1>3, <1>4
<1> QED
  BY <1>1, <1>5 DEF named

\* sync() leaves what has a client alone, but what it closes.
LEMMA OnwardLeaves ==
    ASSUME NEW p \in Seq(Slots), NEW k \in [Slots -> Managed \cup {Blank}], NEW q, NEW call,
           Onward(q, call, p, k)
    PROVE  Range(p) \subseteq Range(pool') /\ \A i \in Slots : k[i].client => conn'[i] = k[i]
<1>1. CASE pool' = p /\ conn' = k
  BY <1>1
<1>2. ASSUME NEW n, Connect(q, call, n, p, k)
      PROVE  Range(p) \subseteq Range(pool') /\ \A i \in Slots : k[i].client => conn'[i] = k[i]
  <2>1. PICK j \in First(Free(q, k)) :
            pool' = Append(p, j) /\ \E new : conn' = [k EXCEPT ![j] = new]
    BY <1>2 DEF Connect
  <2>2. j \in Slots /\ ~k[j].client
    BY <2>1 DEF First, Free, Blank
  <2>3. Range(p) \subseteq Range(pool')
    <3>1. \A a \in DOMAIN p : a \in DOMAIN pool' /\ pool'[a] = p[a]
      BY <2>1, <2>2
    <3> QED
      BY <3>1 DEF Range
  <2> QED
    BY <2>1, <2>2, <2>3
<1> QED
  BY <1>1, <1>2 DEF Onward, Cut, Finish

LEMMA UpStays ==
    ASSUME NEW k \in [Slots -> Managed \cup {Blank}], pool \in Seq(Slots), NEW q, NEW call,
           Onward(q, call, pool, k), \A i \in Slots : conn[i].client => k[i] = conn[i],
           NEW c, NEW n, Up(c, n)
    PROVE  Up(c, n)'
<1>1. PICK i \in Range(pool) : conn[i].cwd = c /\ conn[i].name = n /\ conn[i].client
  BY DEF Up
<1>2. i \in Slots
  BY DEF Range
<1>3. i \in Range(pool') /\ conn'[i] = conn[i]
  BY <1>1, <1>2, OnwardLeaves
<1> QED
  BY <1>1, <1>3 DEF Up

LEMMA LastingStays ==
    ASSUME IInv, Calm(bound), bound.changes = 0, Distinct, Lasting, [Next]_vars
    PROVE  Lasting'
<1>1. /\ TypeOK /\ PoolPart /\ Shape(pool, conn) /\ changes \in Nat
      /\ pool \in Seq(Slots) /\ conn \in [Slots -> Managed \cup {Blank}]
      /\ page.op \in {"shut", "listing", "shown"}
      /\ up # "up" => \A s \in Sessions : ~IsOpen(s)
  BY DEF IInv, PoolPart, Shape, Control, IsOpen
<1>2. bound.cwd \in [Sessions -> Cwds] /\ index \in [Cwds -> SUBSET ToolEntry]
      /\ tools \in [Sessions -> {None} \cup SUBSET ToolEntry]
  BY <1>1, ScenarioType DEF TypeOK
<1>3. ASSUME UNCHANGED <<bound, index, tools>>,
             up = "up" => \A c \in Cwds, n \in Servers : Up(c, n) => Up(c, n)'
      PROVE  Lasting'
  <2>1. \A s \in Sessions : IsOpen(s)' <=> IsOpen(s)
    BY <1>3 DEF IsOpen
  <2>2. ASSUME NEW s \in Sessions, IsOpen(s), NEW e \in tools[s]
        PROVE  e \in index[bound.cwd[s]] /\ Up(bound.cwd[s], e.server)'
    <3>1. up = "up" /\ bound.cwd[s] \in Cwds /\ e.server \in Servers
      BY <1>1, <1>2, <2>2 DEF ToolEntry, IsOpen
    <3>2. PICK c \in Cwds, n \in Servers : c = bound.cwd[s] /\ n = e.server /\ Up(c, n)
      BY <2>2, <3>1 DEF Lasting
    <3>3. Up(c, n)'
      BY <1>3, <3>1, <3>2
    <3> QED
      BY <1>3, <2>2, <3>2, <3>3 DEF Lasting, Up
  <2> QED
    BY <1>3, <2>1, <2>2 DEF Lasting
<1>4. ASSUME NEW q, NEW c, NEW goal, StartSync(q, c, goal), UNCHANGED <<bound, index, tools>> PROVE Lasting'
  <2>1. \A d \in Cwds, n \in Servers : Up(d, n) => Up(d, n)'
    BY <1>1, <1>4, UpStays DEF StartSync
  <2> QED
    BY <1>3, <1>4, <2>1
<1>5. ASSUME UNCHANGED <<bound, index, tools, pool, conn>> PROVE Lasting'
  BY <1>3, <1>5 DEF Up
<1>6. ASSUME NEW q \in Callers, Closed(q) PROVE Lasting'
  <2>1. up # "up"
    BY <1>1, <1>6, ClosingWhere DEF Closed
  <2> QED
    BY <1>3, <1>6, <2>1 DEF Closed
<1>7. ASSUME NEW q \in Callers, NEW ok \in BOOLEAN, Ended(q, ok) PROVE Lasting'
  <2> DEFINE at == sync[q].at
             told == [conn EXCEPT ![at].status = IF ok THEN "connected" ELSE "error",
                                  ![at].client = ok, ![at].live = ok]
             call == [sync[q] EXCEPT !.at = 0]
  <2>1. at \in Slots /\ conn[at].status = "connecting" /\ conn[at].cwd = sync[q].cwd /\ sync[q].cwd \in Cwds
    BY <1>1, <1>7 DEF Ended, PoolPart, Handed, CallsReady, Working, Ready
  <2>2. ~conn[at].client /\ at \in Range(pool) /\ conn[at] \in Managed
    BY <1>1, <2>1, NoEntry DEF Shape
  <2>3. Onward(q, call, pool, told)
    BY <1>7, <2>2 DEF Ended
  <2>4. told \in [Slots -> Managed \cup {Blank}] /\ \A i \in Slots : conn[i].client => told[i] = conn[i]
    <3>1. [conn[at] EXCEPT !.status = IF ok THEN "connected" ELSE "error", !.client = ok, !.live = ok] \in Managed
      BY <2>2 DEF Managed
    <3>2. told = [conn EXCEPT ![at] =
                     [conn[at] EXCEPT !.status = IF ok THEN "connected" ELSE "error", !.client = ok, !.live = ok]]
      BY <1>1, <2>1, <2>2 DEF Managed
    <3> QED
      BY <1>1, <2>2, <3>1, <3>2
  <2> HIDE DEF told, call
  <2>5. \A d \in Cwds, n \in Servers : Up(d, n) => Up(d, n)'
    BY <1>1, <2>3, <2>4, UpStays
  <2> QED
    BY <1>3, <1>7, <2>5 DEF Ended
<1>8. ASSUME NEW s \in Sessions, tools' \in {tools, [tools EXCEPT ![s] = Allowed(s, IndexOf(pool, conn, bound.cwd[s]))]},
             Reindexed(bound.cwd[s]), UNCHANGED <<bound, pool, conn>>
      PROVE  Lasting'
  <2>1. ASSUME NEW c \in Cwds, NEW e \in IndexOf(pool, conn, c)
        PROVE  e.full = <<bound.base[e.server], 1>> /\ Up(c, e.server)
    BY <1>1, <2>1, IndexDistinct
  <2>2. ASSUME NEW c \in Cwds, NEW e \in index[c], Up(c, e.server) PROVE e \in IndexOf(pool, conn, c)
    <3>1. e \in ToolEntry /\ e.full = <<bound.base[e.server], 1>>
      BY <1>2, <2>2 DEF Lasting
    <3>2. e = [full |-> e.full, server |-> e.server] /\ e.server \in Servers
      BY <3>1 DEF ToolEntry
    <3> QED
      BY <1>1, <2>2, <3>1, <3>2, IndexDistinct
  <2>3. index' = [index EXCEPT ![bound.cwd[s]] = IndexOf(pool, conn, bound.cwd[s])]
    BY <1>8 DEF Reindexed
  <2>4. \A c \in Cwds : index'[c] \in {index[c], IndexOf(pool, conn, c)}
    BY <1>2, <2>3
  <2>5. ASSUME NEW t \in Sessions, IsOpen(t)', NEW e \in tools'[t]
        PROVE  e \in index'[bound.cwd[t]] /\ Up(bound.cwd[t], e.server)
    <3>1. CASE tools'[t] = tools[t]
      <4>1. e \in index[bound.cwd[t]] /\ Up(bound.cwd[t], e.server)
        BY <2>5, <3>1 DEF Lasting, IsOpen
      <4> QED
        BY <1>2, <2>2, <2>4, <4>1
    <3>2. CASE tools'[t] # tools[t]
      <4>1. t = s /\ e \in IndexOf(pool, conn, bound.cwd[s])
        BY <1>2, <1>8, <2>5, <3>2 DEF Allowed
      <4> QED
        BY <1>2, <2>1, <2>3, <4>1
    <3> QED
      BY <3>1, <3>2
  <2>6. \A c \in Cwds : \A e \in index'[c] : e.full = <<bound.base[e.server], 1>>
    BY <2>1, <2>4 DEF Lasting
  <2> QED
    BY <1>8, <2>5, <2>6 DEF Lasting, Up
<1>9. ASSUME NEW s \in Sessions, Open(s) PROVE Lasting'
  <2>1. CASE bound.allowed[s] = {}
    <3>1. tools' = [tools EXCEPT ![s] = {}] /\ UNCHANGED <<bound, index, pool, conn>>
      BY <1>9, <2>1 DEF Open
    <3>2. \A t \in Sessions : \A e \in tools'[t] : IsOpen(t)' => IsOpen(t) /\ e \in tools[t]
      BY <1>2, <3>1 DEF IsOpen
    <3> QED
      BY <3>1, <3>2 DEF Lasting, Up
  <2>2. CASE bound.allowed[s] # {}
    BY <1>8, <1>9, <2>2 DEF Open
  <2> QED
    BY <2>1, <2>2
<1>10. ASSUME NEW s \in Sessions, Register(s) PROVE Lasting'
  BY <1>8, <1>10 DEF Register
<1>11. ASSUME NEW s \in Sessions, Close(s) PROVE Lasting'
  <2>1. tools' = [tools EXCEPT ![s] = None] /\ UNCHANGED <<bound, index, pool, conn>>
    BY <1>11 DEF Close
  <2>2. \A t \in Sessions : IsOpen(t)' => IsOpen(t) /\ tools'[t] = tools[t]
    BY <1>2, <2>1 DEF IsOpen
  <2> QED
    BY <2>1, <2>2 DEF Lasting, Up
<1>12. ASSUME NEW i \in Slots, Die(i) PROVE Lasting'
  <2>1. pool' = pool /\ \A j \in Slots : /\ conn'[j].cwd = conn[j].cwd /\ conn'[j].name = conn[j].name
                                         /\ conn'[j].client = conn[j].client
    <3>1. conn[i] \in Managed
      BY <1>1, <1>12 DEF Die, Blank
    <3>2. conn' = [conn EXCEPT ![i] = [conn[i] EXCEPT !.live = FALSE]] /\ pool' = pool
      BY <1>1, <1>12 DEF Die
    <3>3. /\ [conn[i] EXCEPT !.live = FALSE].cwd = conn[i].cwd
          /\ [conn[i] EXCEPT !.live = FALSE].name = conn[i].name
          /\ [conn[i] EXCEPT !.live = FALSE].client = conn[i].client
      BY <3>1 DEF Managed
    <3> QED
      BY <1>1, <3>2, <3>3
  <2>2. \A j \in Range(pool) : j \in Slots
    BY <1>1 DEF Range
  <2>3. \A d \in Cwds, n \in Servers : Up(d, n) => Up(d, n)'
    BY <2>1, <2>2 DEF Up
  <2> QED
    BY <1>3, <1>12, <2>3 DEF Die
<1>13. CASE ShutDown
  BY <1>13 DEF ShutDown, Lasting, IsOpen
<1>14. CASE Disposed
  BY <1>1, <1>14 DEF Disposed, Lasting, IsOpen
<1>15. CASE UNCHANGED vars
  BY <1>5, <1>15 DEF vars
<1>16. CASE Dispose \/ Load \/ \E s \in Sessions : Begin(s)
  BY <1>4, <1>16 DEF Dispose, Load, Begin, Ensure
<1>17. CASE Shown \/ Leave \/ StartUp
  BY <1>5, <1>17 DEF Shown, Leave, StartUp
<1>18. CASE Save \/ Toggle \/ RemoveServer \/ AddFromTemplate \/ Refresh
  <2>1. changes < bound.changes
    BY <1>18 DEF Save, Toggle, RemoveServer, AddFromTemplate, Write, Refresh
  <2> QED
    BY <1>1, <2>1
<1>19. CASE Reconnect \/ Reload \/ Answered
  BY <1>1, <1>19 DEF Reconnect, Reload, Answered
<1> QED
  BY <1>6, <1>7, <1>9, <1>10, <1>11, <1>12, <1>13, <1>14, <1>15, <1>16, <1>17, <1>18, <1>19
     DEF Next, Connected, Refused

\* Over files that stay, names that differ lead where they were given.
LEMMA ToolsLeadInCrowd ==
    ASSUME IInv, Distinct, Lasting
    PROVE  ToolsReachTheirServer
<1> SUFFICES ASSUME Quiet, NEW s \in Sessions, IsOpen(s), NEW e \in tools[s]
             PROVE  /\ Resolve(bound.cwd[s], e.full) = {e.server}
                    /\ Reached(bound.cwd[s], {e.server}) = {e.server}
  BY DEF ToolsReachTheirServer
<1> DEFINE c == bound.cwd[s]
<1>1. c \in Cwds /\ index[c] \in SUBSET ToolEntry /\ Shape(pool, conn)
  BY ScenarioType DEF IInv, TypeOK, PoolPart
<1>2. e \in index[c] /\ Up(c, e.server)
  BY DEF Lasting
<1>3. \A x \in index[c] : x.full = e.full => x.server = e.server
  <2>1. \A x \in index[c] : x.full = <<bound.base[x.server], 1>> /\ x.server \in Servers
    BY <1>1 DEF Lasting, ToolEntry
  <2> QED
    BY <1>2, <2>1 DEF Distinct
<1>4. Resolve(c, e.full) = {e.server}
  BY <1>2, <1>3 DEF Resolve
<1>5. Held(pool, conn, c, e.server) # 0 /\ conn[Held(pool, conn, c, e.server)].client
  BY <1>1, <1>2, HeldFacts, Entry DEF Up
<1>6. Reached(c, {e.server}) = {e.server}
  BY <1>5 DEF Reached
<1> QED
  BY <1>4, <1>6

LEMMA LastingHolds == Spec => [](Calm(bound) /\ bound.changes = 0 /\ Distinct => IInv /\ Lasting)
<1>1. Init => Lasting
  BY ScenarioType, Begins DEF Init, Lasting, IsOpen
<1> DEFINE Here == Calm(bound) /\ bound.changes = 0 /\ Distinct
<1>2. (Here => Lasting) /\ (Calm(bound) => IInv) /\ [Next]_vars /\ [bound' = bound]_vars => (Here => Lasting)'
  <2> SUFFICES ASSUME Here => Lasting, Calm(bound) => IInv, [Next]_vars, [bound' = bound]_vars, Here'
               PROVE  Lasting'
    OBVIOUS
  <2>1. bound' = bound
    BY DEF vars
  <2>2. Here
    BY <2>1 DEF Calm, Distinct
  <2> QED
    BY <2>2, LastingStays
<1> QED
  BY <1>1, <1>2, InvariantHolds, ScenarioStays, PTL DEF Spec, Here
-----------------------------------------------------------------------------
(* The results. *)

\* The sessions of a workspace share one connection (mcp-client-manager.ts:5): while
\* the files stay, or requests come one at a time and no two sessions share a workspace
\* other than the page's, whatever runs is in the pool, once per workspace and server.
THEOREM PoolIsShared == Spec => [](Calm(bound) => PoolInv)
<1>1. (Calm(bound) => IInv) => (Calm(bound) => PoolInv)
  BY PoolIsRight
<1> QED
  BY <1>1, InvariantHolds, PTL

\* What is saved, switched, removed or cut holds in every session's workspace once the
\* request is answered, and the session offers exactly the tools of that pool.
THEOREM SavedIsEverywhere == Spec => [](Calm(bound) => ChangeIsEverywhere)
<1>1. (Calm(bound) => IInv) => (Calm(bound) => ChangeIsEverywhere)
  BY ChangeArrives
<1> QED
  BY <1>1, InvariantHolds, PTL

\* The page shows the files and the pool as they are (listServers), whoever is opened,
\* closed or reloaded while it is shown.
THEOREM PageIsTrue == Spec => [](Calm(bound) => PageTellsTheTruth)
<1>1. ASSUME IInv PROVE PageTellsTheTruth
  BY <1>1 DEF IInv, Settled, PageTellsTheTruth
<1>2. (Calm(bound) => IInv) => (Calm(bound) => PageTellsTheTruth)
  BY <1>1
<1> QED
  BY <1>2, InvariantHolds, PTL

\* A registered tool leads to its server and that server has a client: when requests
\* come one at a time even if cleaned names are the same, and when sessions are opened
\* in a crowd over files that stay if they are not.
THEOREM NamesLead ==
    Spec => [](Calm(bound) /\ (~bound.overlap \/ Distinct) => ToolsReachTheirServer)
<1>1. ASSUME Calm(bound) => IInv /\ Bare,
             Calm(bound) /\ bound.changes = 0 /\ Distinct => IInv /\ Lasting,
             Calm(bound), ~bound.overlap \/ Distinct
      PROVE  ToolsReachTheirServer
  <2>1. CASE ~bound.overlap
    BY <1>1, <2>1, ToolsLeadAlone
  <2>2. CASE bound.overlap
    <3>1. bound.changes = 0
      BY <1>1, <2>2 DEF Calm
    <3> QED
      BY <1>1, <2>2, <3>1, ToolsLeadInCrowd
  <2> QED
    BY <2>1, <2>2
<1>2. /\ Calm(bound) => IInv /\ Bare
      /\ Calm(bound) /\ bound.changes = 0 /\ Distinct => IInv /\ Lasting
      => (Calm(bound) /\ (~bound.overlap \/ Distinct) => ToolsReachTheirServer)
  BY <1>1
<1> QED
  BY <1>2, BareHolds, LastingHolds, PTL
=============================================================================
