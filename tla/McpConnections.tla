--------------------------- MODULE McpConnections ---------------------------
(***************************************************************************)
(* The MCP servers of the Node service: the two layers of configuration    *)
(* (a user's file and one file per workspace), the pool of connections     *)
(* shared by all sessions of a workspace, the tools every session has      *)
(* registered, the index that leads from a tool's name back to its server, *)
(* and the settings page that edits the files.                             *)
(*                                                                         *)
(* The pool is brought in line with the files by sync(), an async function *)
(* that a session's extension factory runs when the session is opened or   *)
(* reloaded, and that every request of the page runs.  An action of this   *)
(* module is the code between two awaits of it.                            *)
(***************************************************************************)
EXTENDS Naturals, Sequences, SequencesExt, FiniteSetsExt

CONSTANTS
    Cwds,       \* the workspaces; the page is open on PageCwd
    PageCwd,
    Sessions,
    Servers,    \* the configured servers' names, 1 .. n in the files' order
    Prints,     \* what a configuration says besides "enabled"
    Slots,      \* bound: managed server objects alive at the same time
    Scenarios,  \* the situations a run looks at, see Init
    None

\* A server's place in the files is a number; what a scenario gives has its type.
ASSUME McpAssumption ==
    /\ PageCwd \in Cwds /\ None \notin Cwds /\ "user" \notin Cwds /\ "page" \notin Sessions
    /\ Servers \subseteq Nat /\ IsFiniteSet(Servers) /\ Slots \subseteq Nat \ {0} /\ Prints # {}
    /\ None \notin [enabled : BOOLEAN, print : Prints]
    /\ \A b \in Scenarios :
          /\ b.cwd \in [Sessions -> Cwds] /\ b.allowed \in [Sessions -> SUBSET Servers]
          /\ b.user \in [Servers -> [enabled : BOOLEAN, print : Prints] \cup {None}]
          /\ b.templates \subseteq Servers /\ b.overlap \in BOOLEAN /\ b.changes \in Nat

VARIABLES
    bound,      \* the scenario (never changes)
    files,      \* the mcp.json files: the user's and the workspaces'
    pool,       \* McpClientManager.servers: slots in insertion order
    conn,       \* the managed server objects
    sync,       \* the sync() calls under way, one per session and one of the page
    index,      \* McpService.toolIndex, per workspace
    tools,      \* what a session has registered; None while it is closed
    page,       \* McpConfig.vue: what it does and the list it shows
    up,         \* the service: running, shutting down or down
    changes     \* how often the files have been changed

vars == <<bound, files, pool, conn, sync, index, tools, page, up, changes>>

-----------------------------------------------------------------------------
(* Configuration. *)

Files == {"user"} \cup Cwds
Configs == [enabled: BOOLEAN, print: Prints]
ConfigFile == [Servers -> Configs \cup {None}]

\* ResolvedServer and McpServerView, as far as the page uses them
Resolved == [config: Configs, scope: {"user", "workspace"}]

\* effective(): a workspace's entry replaces the user's of the same name.  Its
\* scope is part of what sync() compares.
Effective(f, c) ==
    [n \in Servers |->
        IF f[c][n] # None THEN [config |-> f[c][n], scope |-> "workspace"]
        ELSE IF f["user"][n] # None THEN [config |-> f["user"][n], scope |-> "user"]
        ELSE None]

Enabled(goal) == {n \in Servers : goal[n] # None /\ goal[n].config.enabled}

-----------------------------------------------------------------------------
(* The pool. *)

Blank == [cwd |-> None, name |-> None, made |-> None,
          status |-> "error", client |-> FALSE, live |-> FALSE]
Managed == [cwd: Cwds, name: Servers, made: Resolved,
            status: {"connecting", "connected", "error"}, client: BOOLEAN, live: BOOLEAN]

\* A sync() under way: the names still to cut, the ones still to connect, the
\* object it waits for, and the configuration it was called with.
Nothing == [n \in Servers |-> None]
Idle == [pc |-> "idle", cwd |-> None, cut |-> {}, want |-> {}, at |-> 0, goal |-> Nothing]
Callers == Sessions \cup {"page"}

\* this.servers.get(key): the slot under that key, 0 when there is none
Held(p, k, c, n) ==
    LET S == {i \in Range(p) : k[i].cwd = c /\ k[i].name = n}
    IN  IF S = {} THEN 0 ELSE CHOOSE i \in S : TRUE

\* The pool without an object (the key is deleted).
Without(p, i) ==
    IF i \in Range(p) THEN RemoveAt(p, CHOOSE j \in DOMAIN p : p[j] = i) ELSE p

\* An object nobody has hold of stands for a new one.
Free(q, k) == {i \in Slots : k[i] = Blank /\ \A r \in Callers \ {q} : sync[r].at # i}

\* toolsFor(): every connected server's tool gets its name, a second one whose
\* cleaned name is the same gets a number.  The names are given to the tools of all
\* servers, and the session's own list is applied to the result.
Before(p, x, y) == \E a, b \in DOMAIN p : a <= b /\ p[a] = x /\ p[b] = y
Named(p, k, c, among) ==
    LET shown == {i \in Range(p) : k[i].cwd = c /\ k[i].status = "connected" /\ k[i].name \in among}
        base(i) == bound.base[k[i].name]
        number(i) == Cardinality({x \in shown : base(x) = base(i) /\ Before(p, x, i)})
    IN  {[full |-> <<base(i), number(i)>>, server |-> k[i].name] : i \in shown}
IndexOf(p, k, c) == Named(p, k, c, Servers)
Allowed(s, all) == {e \in all : e.server \in bound.allowed[s]}

\* an entry of the index, and of the tools a session has registered
ToolEntry == [full: {<<bound.base[n], k>> : n \in Servers, k \in 1..Cardinality(Servers)},
              server: Servers]

\* resolveTool(), as far as the index decides; without an entry the name is taken
\* apart, and the pool has no server of that name any more.
Resolve(c, full) == {e.server : e \in {x \in index[c] : x.full = full}}

\* callTool(): the servers of these whose client gets the call, else it is refused
Reached(c, names) == {n \in names : LET i == Held(pool, conn, c, n) IN i # 0 /\ conn[i].client}

\* the first in the order of the files
First(S) == {x \in S : \A y \in S : x <= y}

\* sync() up to its next await: it closes what it has to cut, then connects what is
\* missing.  What it finds under a key it does not have to cut it leaves alone,
\* whatever state that server is in.
Cut(q, call, p, k) ==
    /\ \E n \in First(call.cut) :
          sync' = [sync EXCEPT ![q] = [call EXCEPT !.pc = "closing", !.at = Held(p, k, call.cwd, n)]]
    /\ pool' = p /\ conn' = k
Connect(q, call, n, p, k) ==
    \E i \in First(Free(q, k)) :
        /\ sync' = [sync EXCEPT ![q] = [call EXCEPT !.pc = "connecting", !.at = i,
                                                   !.want = {m \in call.want : m > n}]]
        /\ pool' = Append(p, i)
        /\ conn' = [k EXCEPT ![i] = [cwd |-> call.cwd, name |-> n, made |-> call.goal[n],
                                     status |-> "connecting", client |-> FALSE, live |-> TRUE]]
Finish(q, call, p, k) ==
    /\ sync' = [sync EXCEPT ![q] = [call EXCEPT !.pc = "done", !.want = {}, !.goal = Nothing]]
    /\ pool' = p /\ conn' = k
Call(c, cut, want, goal) ==
    [pc |-> "done", cwd |-> c, cut |-> cut, want |-> want, at |-> 0, goal |-> goal]

\* Fault: what is under a key already is not looked up before connecting.
OnwardFault(q, call, p, k) ==
    IF call.cut # {} THEN Cut(q, call, p, k)
    ELSE IF call.want = {} \/ Free(q, k) = {} THEN Finish(q, call, p, k)
    ELSE \E n \in First(call.want) : Connect(q, call, n, p, k)
Onward(q, call, p, k) ==
    LET missing == {n \in call.want : Held(p, k, call.cwd, n) = 0}
    IN  IF call.cut # {} THEN Cut(q, call, p, k)
        ELSE IF missing = {} THEN Finish(q, call, p, k)
        ELSE \E n \in First(missing) : Connect(q, call, n, p, k)

\* The keys a call with this goal has to cut: no longer configured, switched off,
\* or configured otherwise than when the connection was made.
Outdated(c, goal) ==
    {n \in Servers : LET i == Held(pool, conn, c, n) IN
        i # 0 /\ (n \notin Enabled(goal) \/ goal[n] # conn[i].made)}

StartSync(q, c, goal) ==
    Onward(q, Call(c, Outdated(c, goal), Enabled(goal), goal), pool, conn)
Ensure(q, c) == StartSync(q, c, Effective(files, c))

\* disconnect() is through: the object it took is closed, and the key is deleted,
\* whatever is under it by now.
Closed(q) ==
    \E n \in First(sync[q].cut) :
    LET call == sync[q]
        old == Held(pool, conn, call.cwd, n)
        shut == IF call.at # 0 /\ conn[call.at].client
                THEN [conn EXCEPT ![call.at].live = FALSE, ![call.at].client = FALSE] ELSE conn
        rest == Without(pool, old)
        kept == [i \in Slots |-> IF i \notin Range(rest) /\ ~shut[i].live THEN Blank ELSE shut[i]]
    IN  /\ call.pc = "closing"
        /\ Onward(q, [call EXCEPT !.cut = @ \ {n}, !.at = 0], rest, kept)
        /\ UNCHANGED <<bound, files, index, tools, page, up, changes>>

Ended(q, ok) ==
    LET call == sync[q]
        i == call.at
        told == [conn EXCEPT ![i].status = IF ok THEN "connected" ELSE "error",
                             ![i].client = ok, ![i].live = ok]
        kept == IF ~ok /\ i \notin Range(pool) THEN [conn EXCEPT ![i] = Blank] ELSE told
    IN  /\ call.pc = "connecting"
        /\ Onward(q, [call EXCEPT !.at = 0], pool, kept)
        /\ UNCHANGED <<bound, files, index, tools, page, up, changes>>

Connected(q) == Ended(q, TRUE)
\* the server refuses, lists nothing, or says nothing until withTimeout() gives up
Refused(q) == Ended(q, FALSE)

\* A server's process ends by itself.  Nobody listens for that: its entry stays
\* "connected" until somebody cuts it.
Die(i) ==
    /\ conn[i].live /\ conn[i].client
    /\ conn' = [conn EXCEPT ![i].live = FALSE]
    /\ UNCHANGED <<bound, files, pool, sync, index, tools, page, up, changes>>

-----------------------------------------------------------------------------
(* Sessions. *)

Quiet == (\A q \in Callers : sync[q] = Idle) /\ page.op \in {"shut", "shown"}
MayStart == up = "up" /\ (bound.overlap \/ Quiet)
IsOpen(s) == tools[s] # None
Reindexed(c) == index' = [index EXCEPT ![c] = IndexOf(pool, conn, c)]

\* create() and open() look up the tool names first, which builds the index anew,
\* then load the extensions.  A session whose preset allows no server has none.
Open(s) ==
    /\ MayStart /\ ~IsOpen(s) /\ sync[s] = Idle
    /\ IF bound.allowed[s] = {}
       THEN tools' = [tools EXCEPT ![s] = {}] /\ UNCHANGED <<index, sync>>
       ELSE /\ Reindexed(bound.cwd[s])
            /\ sync' = [sync EXCEPT ![s] = [Idle EXCEPT !.pc = "due"]]
            /\ UNCHANGED tools
    /\ UNCHANGED <<bound, files, pool, conn, page, up, changes>>

\* the extension factory: ensure() ...
Begin(s) ==
    /\ sync[s].pc = "due"
    /\ Ensure(s, bound.cwd[s])
    /\ UNCHANGED <<bound, files, index, tools, page, up, changes>>

\* Fault: names are given to the tools this session may use only.
RegisterFault(s) ==
    LET own == Named(pool, conn, bound.cwd[s], bound.allowed[s]) IN
    /\ sync[s].pc = "done"
    /\ sync' = [sync EXCEPT ![s] = Idle]
    /\ index' = [index EXCEPT ![bound.cwd[s]] = own]
    /\ tools' = [tools EXCEPT ![s] = own]
    /\ UNCHANGED <<bound, files, pool, conn, page, up, changes>>
\* ... then the tools of what is connected
Register(s) ==
    /\ sync[s].pc = "done"
    /\ sync' = [sync EXCEPT ![s] = Idle]
    /\ Reindexed(bound.cwd[s])
    /\ tools' = [tools EXCEPT ![s] = Allowed(s, IndexOf(pool, conn, bound.cwd[s]))]
    /\ UNCHANGED <<bound, files, pool, conn, page, up, changes>>

Close(s) ==
    /\ MayStart /\ IsOpen(s) /\ sync[s] = Idle
    /\ tools' = [tools EXCEPT ![s] = None]
    /\ UNCHANGED <<bound, files, pool, conn, sync, index, page, up, changes>>

-----------------------------------------------------------------------------
(* The page and its requests. *)

PageSteps == {"shut", "listing", "shown", "asking", "reloading", "cutting", "renewing", "refreshed"}
Views == [name: Servers, is: Resolved, status: {"disabled", "connecting", "connected", "error"}]

\* listServers(): the configuration with the state of the pool
View(c) ==
    {[name |-> n, is |-> Effective(files, c)[n],
      status |-> LET i == Held(pool, conn, c, n) IN
                 IF ~Effective(files, c)[n].config.enabled THEN "disabled"
                 ELSE IF i = 0 THEN "connecting" ELSE conn[i].status]
        : n \in {m \in Servers : Effective(files, c)[m] # None}}

\* load(): from here to Shown() the page shows nothing that could be pressed
Load ==
    /\ MayStart /\ page.op \in {"shut", "shown"} /\ sync["page"] = Idle
    /\ page' = [page EXCEPT !.op = "listing"]
    /\ Ensure("page", PageCwd)
    /\ UNCHANGED <<bound, files, index, tools, up, changes>>

Shown ==
    /\ page.op = "listing" /\ sync["page"].pc = "done"
    /\ sync' = [sync EXCEPT !["page"] = Idle]
    /\ page' = [op |-> "shown", list |-> View(PageCwd)]
    /\ UNCHANGED <<bound, files, pool, conn, index, tools, up, changes>>

Leave ==
    /\ up = "up" /\ page.op = "shown"
    /\ page' = [op |-> "shut", list |-> {}]
    /\ UNCHANGED <<bound, files, pool, conn, sync, index, tools, up, changes>>

\* upsert() and remove() rewrite one file as a whole, then ensure() for the page's
\* workspace, whichever file it was.
Write(scope, n, config) ==
    LET f == IF scope = "user" THEN "user" ELSE PageCwd
        written == [files EXCEPT ![f][n] = config]
    IN  /\ MayStart /\ page.op = "shown" /\ sync["page"] = Idle
        /\ changes < bound.changes
        /\ changes' = changes + 1
        /\ files' = written
        /\ page' = [page EXCEPT !.op = "asking"]
        /\ StartSync("page", PageCwd, Effective(written, PageCwd))
        /\ UNCHANGED <<bound, index, tools, up>>

Save == \E scope \in {"user", "workspace"}, n \in Servers, config \in Configs :
            Write(scope, n, config)
\* the switch sends back what the list said, with "enabled" turned round
Toggle == \E e \in page.list :
            Write(e.is.scope, e.name, [e.is.config EXCEPT !.enabled = ~@])
RemoveServer == \E e \in page.list : Write(e.is.scope, e.name, None)
AddFromTemplate == \E n \in bound.templates :
            Write("user", n, [enabled |-> TRUE, print |-> CHOOSE x \in Prints : TRUE])

\* refresh(): everything is cut, then ensure(); no page has a button for it
Refresh ==
    /\ MayStart /\ page.op = "shut" /\ sync["page"] = Idle /\ changes < bound.changes
    /\ changes' = changes + 1
    /\ page' = [page EXCEPT !.op = "cutting"]
    /\ StartSync("page", PageCwd, Nothing)
    /\ UNCHANGED <<bound, files, index, tools, up>>
Reconnect ==
    /\ page.op = "cutting" /\ sync["page"].pc = "done"
    /\ page' = [page EXCEPT !.op = "renewing"]
    /\ Ensure("page", PageCwd)
    /\ UNCHANGED <<bound, files, index, tools, up, changes>>

\* Fault: only the sessions of the page's workspace are loaded again.
ReloadFault ==
    /\ page.op \in {"asking", "renewing"} /\ sync["page"].pc = "done"
    /\ sync' = [q \in Callers |->
                    IF q = "page" THEN Idle
                    ELSE IF /\ IsOpen(q) /\ bound.allowed[q] # {}
                            /\ bound.cwd[q] = PageCwd THEN [Idle EXCEPT !.pc = "due"]
                    ELSE sync[q]]
    /\ page' = [page EXCEPT !.op = IF @ = "asking" THEN "reloading" ELSE "refreshed"]
    /\ UNCHANGED <<bound, files, pool, conn, index, tools, up, changes>>
\* reloadResources(): all open sessions load their extensions again, together
Reload ==
    /\ page.op \in {"asking", "renewing"} /\ sync["page"].pc = "done"
    /\ sync' = [q \in Callers |->
                    IF q = "page" THEN Idle
                    ELSE IF IsOpen(q) /\ bound.allowed[q] # {} THEN [Idle EXCEPT !.pc = "due"]
                    ELSE sync[q]]
    /\ page' = [page EXCEPT !.op = IF @ = "asking" THEN "reloading" ELSE "refreshed"]
    /\ UNCHANGED <<bound, files, pool, conn, index, tools, up, changes>>

\* Fault: the page keeps its list after the answer.
AnsweredFault ==
    /\ page.op \in {"reloading", "refreshed"}
    /\ \A s \in Sessions : IsOpen(s) => sync[s] = Idle
    /\ page' = [page EXCEPT !.op = IF @ = "reloading" THEN "shown" ELSE "shut"]
    /\ UNCHANGED <<bound, files, pool, conn, sync, index, tools, up, changes>>
\* the answer: the page loads its list again
Answered ==
    /\ page.op \in {"reloading", "refreshed"}
    /\ \A s \in Sessions : IsOpen(s) => sync[s] = Idle
    /\ IF page.op = "reloading"
       THEN page' = [page EXCEPT !.op = "listing"] /\ Ensure("page", PageCwd)
       ELSE page' = [page EXCEPT !.op = "shut"] /\ UNCHANGED <<sync, pool, conn>>
    /\ UNCHANGED <<bound, files, index, tools, up, changes>>

-----------------------------------------------------------------------------
(* Shutdown: the sessions first, then the pool, one connection after the other. *)

ShutDown ==
    /\ MayStart /\ Quiet
    /\ up' = "closing"
    /\ tools' = [s \in Sessions |-> None]
    /\ page' = [op |-> "shut", list |-> {}]
    /\ UNCHANGED <<bound, files, pool, conn, sync, index, changes>>
Dispose ==
    /\ up = "closing" /\ pool # <<>> /\ sync["page"].pc \in {"idle", "done"}
    /\ StartSync("page", conn[Head(pool)].cwd, Nothing)
    /\ UNCHANGED <<bound, files, index, tools, page, up, changes>>
Disposed ==
    /\ up = "closing" /\ pool = <<>>
    /\ up' = "down"
    /\ sync' = [sync EXCEPT !["page"] = Idle]
    /\ index' = [c \in Cwds |-> {}]
    /\ UNCHANGED <<bound, files, pool, conn, tools, page, changes>>
StartUp ==
    /\ up = "down"
    /\ up' = "up"
    /\ UNCHANGED <<bound, files, pool, conn, sync, index, tools, page, changes>>

-----------------------------------------------------------------------------
Init ==
    /\ bound \in Scenarios
    /\ files = [f \in Files |-> IF f = "user" THEN bound.user ELSE Nothing]
    /\ pool = <<>>
    /\ conn = [i \in Slots |-> Blank]
    /\ sync = [q \in Callers |-> Idle]
    /\ index = [c \in Cwds |-> {}]
    /\ tools = [s \in Sessions |-> None]
    /\ page = [op |-> "shut", list |-> {}]
    /\ up = "up"
    /\ changes = 0

Next ==
    \/ \E q \in Callers : Closed(q) \/ Connected(q) \/ Refused(q)
    \/ \E s \in Sessions : Open(s) \/ Begin(s) \/ Register(s) \/ Close(s)
    \/ \E i \in Slots : Die(i)
    \/ Load \/ Shown \/ Leave \/ Save \/ Toggle \/ RemoveServer \/ AddFromTemplate
    \/ Refresh \/ Reconnect \/ Reload \/ Answered
    \/ ShutDown \/ Dispose \/ Disposed \/ StartUp

Spec == Init /\ [][Next]_vars

-----------------------------------------------------------------------------
(* Properties. *)

TypeOK ==
    /\ bound \in Scenarios
    /\ files \in [Files -> ConfigFile]
    /\ Range(pool) \subseteq Slots
    /\ conn \in [Slots -> Managed \cup {Blank}]
    /\ \A q \in Callers : sync[q].pc \in {"idle", "due", "closing", "connecting", "done"}
    /\ index \in [Cwds -> SUBSET ToolEntry]
    /\ tools \in [Sessions -> {None} \cup SUBSET ToolEntry]
    /\ page \in [op : PageSteps, list : SUBSET Views]
    /\ up \in {"up", "closing", "down"}

\* The sessions of a workspace share one connection per server: what runs is in
\* the pool, under a key nothing else is under, so nothing is started twice and
\* everything that runs is found when it has to be closed (sync, connect and
\* disconnect of McpClientManager).
OneConnection ==
    /\ \A i \in Slots : conn[i].live => i \in Range(pool)
    /\ \A i, j \in DOMAIN pool :
          conn[pool[i]].cwd = conn[pool[j]].cwd /\ conn[pool[i]].name = conn[pool[j]].name => i = j

PoolInv == TypeOK /\ OneConnection

\* What has been saved holds everywhere once the request has been answered: in the
\* workspace of every session exactly the servers switched on are in the pool, made
\* with the configuration as it is now, and the session offers the tools of all
\* that are connected and allowed to it (upsertServer, then reloadResources).
ChangeIsEverywhere ==
    Quiet /\ ~bound.overlap /\ up = "up" =>
        \A s \in Sessions : IsOpen(s) /\ bound.allowed[s] # {} =>
            LET c == bound.cwd[s]
                goal == Effective(files, c)
            IN  /\ Outdated(c, goal) = {}
                /\ \A n \in Enabled(goal) : Held(pool, conn, c, n) # 0
                /\ tools[s] = Allowed(s, IndexOf(pool, conn, c))

\* A tool a session has registered leads to the server it was registered for, and
\* that server has a client to call, even if two servers' cleaned names are the same,
\* other sessions with other lists have built the index anew since, and connections
\* have come and gone (toolsFor, callTool).
ToolsReachTheirServer ==
    Quiet => \A s \in Sessions : IsOpen(s) =>
        \A e \in tools[s] :
            LET led == Resolve(bound.cwd[s], e.full)
            IN  led = {e.server} /\ Reached(bound.cwd[s], led) = led

\* The page shows what is in the files and what the pool says of it (listServers).
PageTellsTheTruth ==
    Quiet /\ ~bound.overlap /\ page.op = "shown" => page.list = View(PageCwd)
=============================================================================
