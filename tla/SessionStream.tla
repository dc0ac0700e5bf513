---------------------------- MODULE SessionStream ----------------------------
(***************************************************************************)
(* The event stream of one session, from the registry of the server to one *)
(* page of the web client.  The registry numbers the events of the session *)
(* from 1, keeps the newest of them and sends each to the open streams.    *)
(* The page folds them into what it shows, asks for the rest after a cut   *)
(* (Last-Event-ID), and reads the whole session again over REST (a load)   *)
(* when it opens, when a turn ends and after a compaction.                 *)
(***************************************************************************)
EXTENDS Naturals, FiniteSets, Sequences

CONSTANTS MaxReplay,    \* MAX_REPLAY_EVENTS
          MaxEvents,    \* bound: events of each registry entry
          MaxMessages,  \* bound: messages of the session
          MaxLoads,     \* bound: loads under way at once
          MaxRestarts   \* bound: restarts of the server

ASSUME StreamAssumption ==
    /\ MaxReplay \in Nat \ {0} /\ MaxMessages \in Nat /\ MaxLoads \in Nat
    /\ MaxRestarts \in Nat /\ MaxEvents \in [0 .. MaxRestarts -> Nat]

VARIABLES
    log,       \* every event of the registry entry; an event's id is its place in log
    run,       \* idle, busy, or ended: agent_end is out, the SDK has not settled
    asked,     \* a question waits for its answer (UserQuestionBroker)
    stored,    \* number of messages in the session file
    entry,     \* number of restarts, which names the registry entry
    link,      \* the page's stream: off, asking (or waiting to ask), open, ending (the
               \* server has closed it)
    wire,      \* ids of the frames sent and not handled; handled in the order they were sent
    last,      \* lastEventId
    lastEntry, \* the entry that last is an id of
    oldest,    \* the oldest id in the registry's buffer when the page subscribed
    running,   \* stream.running
    question,  \* stream.pendingQuestion is not null
    list,      \* messages
    loads,     \* the calls of loadSession under way
    failed,    \* the newest load has failed
    sending    \* no, posted, accepted: the page's POST of a prompt

server == <<log, run, asked, stored, entry>>
stream == <<link, wire, last, lastEntry, oldest>>
page   == <<running, question, list, loads, failed, sending>>
vars   == <<server, stream, page>>

Kinds   == {"start", "update", "message", "ask", "resolved", "compacted", "end"}
Event(k, m) == [kind |-> k, msg |-> m]
\* a load: the answers of getSession and of getAgentState, empty until they come
Flight  == [newest : BOOLEAN, messages : SUBSET Nat,
            state : SUBSET [streaming : BOOLEAN, asked : BOOLEAN]]

Answered(f) == f.messages # {} /\ f.state # {}
-----------------------------------------------------------------------------
(* The registry.                                                           *)

\* the oldest id that the buffer still holds
Oldest == IF Len(log) > MaxReplay THEN Len(log) - MaxReplay + 1 ELSE 1

Publish(e) ==
    /\ Len(log) < MaxEvents[entry]
    /\ log' = Append(log, e)
    /\ wire' = IF link = "open" THEN wire \cup {Len(log) + 1} ELSE wire

\* an update that another update follows is left out of a replay
Merged(i) == i < Len(log) /\ log[i].kind = "update" /\ log[i + 1].kind = "update"

\* Fault: the first of a run of updates is sent, not the last.
KeepFirstFault(after) ==
    {i \in Oldest .. Len(log) : i > after /\ ~(i - 1 > after /\ i - 1 >= Oldest /\ Merged(i - 1))}

Replay(after) == {i \in Oldest .. Len(log) : i > after /\ ~Merged(i)}

\* What the SDK reports.  Only the registry and the page are checked, so any
\* order of events that a session can produce is taken.
Begin ==
    /\ run # "busy" /\ run' = "busy" /\ Publish(Event("start", 0))
    /\ UNCHANGED <<asked, stored, entry>>

Produce ==
    /\ run = "busy" /\ ~asked
    /\ \/ Publish(Event("update", 0)) /\ UNCHANGED stored
       \/ Publish(Event("compacted", 0)) /\ UNCHANGED stored
       \/ stored < MaxMessages /\ Publish(Event("message", stored + 1)) /\ stored' = stored + 1
    /\ UNCHANGED <<run, asked, entry>>

AskUser ==
    /\ run = "busy" /\ ~asked /\ asked' = TRUE /\ Publish(Event("ask", 0))
    /\ UNCHANGED <<run, stored, entry>>

Resolve ==
    /\ asked /\ asked' = FALSE /\ Publish(Event("resolved", 0))
    /\ UNCHANGED <<run, stored, entry>>

End ==
    /\ run = "busy" /\ ~asked /\ run' = "ended" /\ Publish(Event("end", 0))
    /\ UNCHANGED <<asked, stored, entry>>

Settle == run = "ended" /\ run' = "idle" /\ UNCHANGED <<log, asked, stored, entry, wire>>

\* a compaction that a user asked for, between two turns
Compact ==
    /\ run = "idle" /\ Publish(Event("compacted", 0))
    /\ UNCHANGED <<run, asked, stored, entry>>

Sdk == /\ Begin \/ Produce \/ AskUser \/ Resolve \/ End \/ Settle \/ Compact
       /\ UNCHANGED <<page, link, last, lastEntry, oldest>>
-----------------------------------------------------------------------------
(* The stream.                                                             *)

\* connectEvents: a stream that exists is used again
Connect == link' = (IF link = "off" THEN "asking" ELSE link) /\ UNCHANGED wire

\* the request arrives: AgentRegistry.subscribe, without a pause
Subscribe ==
    /\ link = "asking" /\ link' = "open"
    /\ wire' = Replay(last) /\ oldest' = Oldest
    /\ UNCHANGED <<server, page, last, lastEntry>>

\* the write buffer of a slow page is full: closeStream
DropSlow ==
    /\ link = "open" /\ wire # {} /\ link' = "ending"
    /\ UNCHANGED <<server, page, wire, last, lastEntry, oldest>>

\* the stream breaks, or ends, or goes silent: scheduleReconnect, forceReconnect
Lose ==
    /\ link \in {"open", "ending"} /\ link' = "asking" /\ wire' = {}
    /\ UNCHANGED <<server, page, last, lastEntry, oldest>>

\* the process dies and comes back: no run, no question, no buffer, ids from 1
Restart ==
    /\ entry < MaxRestarts /\ entry' = entry + 1
    /\ log' = <<>> /\ run' = "idle" /\ asked' = FALSE
    /\ link' = IF link = "off" THEN "off" ELSE "asking"
    /\ wire' = {} /\ oldest' = 1
    /\ loads' = {f \in loads : Answered(f)}
    /\ failed' = (failed \/ \E f \in loads \ loads' : f.newest)
    /\ UNCHANGED <<stored, last, lastEntry, running, question, list, sending>>
-----------------------------------------------------------------------------
(* Loads.                                                                  *)

\* A load that a later one overtakes is dropped when it comes in; here at once
\* while an answer is out, for it would be dropped whatever the answer is.
Superseded == {[f EXCEPT !.newest = FALSE] : f \in {g \in loads : Answered(g)}}

StartLoad ==
    /\ Cardinality(Superseded) < MaxLoads
    /\ loads' = Superseded \cup {[newest |-> TRUE, messages |-> {}, state |-> {}]}

\* the server answers one of the requests of load f: the session as it is in its file ...
AnswerDetail(f) ==
    /\ f.messages = {}
    /\ loads' = (loads \ {f}) \cup {[f EXCEPT !.messages = {stored}]}

\* ... or what the session is doing
AnswerState(f) ==
    /\ f.state = {}
    /\ loads' = (loads \ {f}) \cup
                {[f EXCEPT !.state = {[streaming |-> run # "idle", asked |-> asked]}]}

Answer(f) ==
    /\ AnswerDetail(f) \/ AnswerState(f)
    /\ UNCHANGED <<server, stream, running, question, list, failed, sending>>

\* Fault: an older load is applied as well.
LatestFault(f) == Answered(f)
Latest(f) == Answered(f) /\ f.newest

Numbered(n) == [i \in 1 .. n |-> i]

Apply(f) ==
    /\ Latest(f)
    /\ loads' = loads \ {f} /\ failed' = FALSE
    /\ \E n \in f.messages : list' = Numbered(n)
    /\ \E s \in f.state : /\ question' = s.asked /\ running' = s.streaming
                          /\ IF s.streaming THEN Connect ELSE UNCHANGED <<link, wire>>
    /\ UNCHANGED <<server, sending, last, lastEntry, oldest>>

\* a request fails, or the load is no longer the newest and its result is dropped
Forget(f) ==
    /\ loads' = loads \ {f} /\ failed' = (failed \/ f.newest)
    /\ UNCHANGED <<server, stream, running, question, list, sending>>
-----------------------------------------------------------------------------
(* The page.                                                               *)

\* reduceAgentEvent and the rest of handleAgentEvent
Fold(e) ==
    /\ running' = CASE e.kind \in {"start", "update", "ask"} -> TRUE
                    [] e.kind = "end" -> FALSE
                    [] OTHER -> running
    /\ question' = (e.kind = "ask" \/ (question /\ e.kind \notin {"start", "resolved", "end"}))
    /\ list' = IF e.kind = "message" THEN Append(list, e.msg) ELSE list
    /\ IF e.kind \in {"end", "compacted"} THEN StartLoad ELSE UNCHANGED loads

\* readStream takes the next frame
Handle ==
    /\ link \in {"open", "ending"} 
    /\ \E i \in wire : /\ \A j \in wire : i <= j
                      /\ last' = i /\ wire' = wire \ {i} /\ Fold(log[i])
    /\ lastEntry' = entry
    /\ UNCHANGED <<server, link, oldest, failed, sending>>

\* the stream is cut and asks no more
CloseEvents == link' = "off" /\ wire' = {}

\* the watcher of sessionId: the page turns to the session (again)
Open ==
    /\ CloseEvents /\ last' = 0 /\ lastEntry' = entry
    /\ running' = FALSE /\ question' = FALSE /\ list' = <<>>
    /\ StartLoad /\ failed' = FALSE
    /\ UNCHANGED <<server, oldest, sending>>

\* send: the page shows the turn before the server has it
Send ==
    /\ sending = "no" /\ ~running
    /\ sending' = "posted" /\ running' = TRUE /\ question' = FALSE
    /\ UNCHANGED <<server, stream, list, loads, failed>>

\* a session that is busy rejects the prompt after the POST was accepted
Accept ==
    /\ sending = "posted" /\ sending' = "accepted"
    /\ IF run = "idle" THEN Begin ELSE UNCHANGED <<server, wire>>
    /\ UNCHANGED <<link, last, lastEntry, oldest, running, question, list, loads, failed>>

Sent ==
    /\ sending = "accepted" /\ sending' = "no" /\ Connect
    /\ UNCHANGED <<server, last, lastEntry, oldest, running, question, list, loads, failed>>

SendFailed ==
    /\ sending # "no" /\ sending' = "no" /\ running' = FALSE /\ question' = FALSE
    /\ UNCHANGED <<server, stream, list, loads, failed>>
-----------------------------------------------------------------------------
Init ==
    /\ log = <<>> /\ run = "idle" /\ asked = FALSE /\ stored = 0 /\ entry = 0
    /\ link = "off" /\ wire = {} /\ last = 0 /\ lastEntry = 0 /\ oldest = 1
    /\ running = FALSE /\ question = FALSE /\ list = <<>> /\ failed = FALSE /\ sending = "no"
    /\ loads = {[newest |-> TRUE, messages |-> {}, state |-> {}]}

Next ==
    \/ Sdk \/ Restart
    \/ Subscribe \/ DropSlow \/ Lose \/ Handle
    \/ \E f \in loads : Answer(f) \/ Apply(f) \/ Forget(f)
    \/ Open \/ Send \/ Accept \/ Sent \/ SendFailed

Spec == Init /\ [][Next]_vars
-----------------------------------------------------------------------------
TypeOK ==
    /\ log \in Seq([kind : Kinds, msg : Nat]) /\ run \in {"idle", "busy", "ended"}
    /\ asked \in BOOLEAN /\ stored \in Nat /\ entry \in Nat /\ lastEntry \in 0 .. entry
    /\ link \in {"off", "asking", "open", "ending"}
    /\ wire \subseteq 1 .. Len(log) /\ last \in Nat /\ oldest \in Nat
    /\ running \in BOOLEAN /\ question \in BOOLEAN /\ list \in Seq(Nat)
    /\ loads \in SUBSET Flight /\ failed \in BOOLEAN
    /\ sending \in {"no", "posted", "accepted"}
    /\ asked => run = "busy"

\* the events the page has still to see
Due == {i \in 1 .. Len(log) : i >= oldest /\ (lastEntry = entry => i > last) /\ ~Merged(i)}

\* Whatever breaks and however often the page asks again, the open stream
\* carries each event that the page has not handled and that the buffer held
\* when it subscribed, all but updates that a later update replaces (subscribe,
\* publish, readStream), as long as the page's id is one of this entry.
NothingSkipped == link = "open" /\ lastEntry = entry => Due \subseteq wire

\* No event is handled twice or out of order: what is on the wire is newer than
\* what was handled, whatever stream carried that (readStream, subscribe).
NothingTwice == lastEntry = entry => \A i \in wire : i > last

\* "不丢事件" (docs/sse-streaming-render-pipeline.md), and none is told twice: over
\* any number of breaks the stream delivers exactly what the page has still to see,
\* as long as the page's id is one of this entry.
EachOnce == NothingSkipped /\ NothingTwice

\* When the session is idle and the page has handled its last event, loads are
\* over and the newest did not fail, the page shows each message once, in order,
\* and no question, however events, loads and prompts overtook one another
\* (handleAgentEvent, loadSession).
SettledPageIsRight ==
    /\ run = "idle" /\ lastEntry = entry /\ log # <<>> /\ last = Len(log)
    /\ loads = {} /\ ~failed /\ sending = "no"
    => list = Numbered(stored) /\ ~question
=============================================================================
