----------------------------- MODULE AgentLoop -----------------------------
(***************************************************************************)
(* One session of the Python server: AgentRuntime (the loop of provider    *)
(* turns and tool calls), AgentSession (compaction, moves in the tree) and *)
(* the commands that reach them.  asyncio runs one task at a time, and     *)
(* listeners are synchronous, so an action is a stretch of code between    *)
(* two awaits that really suspend: the provider's stream, the wait before  *)
(* a retry, the tools, a summary.                                          *)
(***************************************************************************)
EXTENDS SessionTree

CONSTANTS MaxRetries,  \* RetryPolicy.max_retries
          Calm,        \* clients do not move the leaf, or append to it, while
                       \* a run or a summary is under way
          MaxEntries,  \* bound: entries of the session file
          MaxSettings, \* bound: a file this long gets no more settings and labels
          MaxCalls,    \* bound: tool calls of an answer
          MaxQueue     \* bound: prompts accepted, messages in the two queues

ASSUME LoopAssumption ==
    /\ MaxRetries \in Nat /\ Calm \in BOOLEAN
    /\ MaxEntries \in Nat \ {0} /\ MaxSettings \in Nat /\ MaxCalls \in Nat /\ MaxQueue \in Nat

VARIABLES
    entries,     \* SessionManager._file_entries, without the header
    leaf,        \* SessionManager._leaf_id
    messages,    \* AgentRuntime.messages, each as the entry it comes from
    spilled,     \* answers in the file that an overflow took out of messages
    accepted,    \* prompts accepted whose task has not begun
    run,         \* the run: where it is suspended, and what it has in hand
    cancelled,   \* the task of the run was cancelled and has not resumed
    steering,    \* length of _steering
    followUps,   \* length of _follow_ups
    compaction,  \* {}, or the compaction under way: by whom, prepared what
    moving       \* {}, or the new leaf of the move whose summary is made

vars == <<entries, leaf, messages, spilled, accepted, run, cancelled,
          steering, followUps, compaction, moving>>

Idle == [at |-> "idle", answer |-> 0, calls |-> {}, todo |-> {}, ordered |-> FALSE,
         tries |-> 0, second |-> FALSE]

\* waiting for the provider: the first request of a turn
Asking == [Idle EXCEPT !.at = "streaming"]

Places == {"idle", "streaming", "waiting", "tools", "compacting", "recovering"}
Running == run.at # "idle"

StoreOK ==
    /\ WellFormed(entries) /\ Len(entries) <= MaxEntries
    /\ leaf \in 1 .. Len(entries)
    /\ messages \subseteq 1 .. Len(entries) /\ spilled \subseteq 1 .. Len(entries)

RunOK ==
    /\ run \in [at : Places, answer : 0 .. Len(entries), calls : {1 .. n : n \in 0 .. MaxCalls},
               todo : SUBSET (1 .. MaxCalls), ordered : BOOLEAN,
               tries : 0 .. MaxRetries, second : BOOLEAN]
    /\ cancelled \in BOOLEAN /\ (cancelled => Running)

\* is_compacting, and the run waits for what it compacts
CompactionOK ==
    /\ compaction \subseteq [by : {"run", "user"}, kept : 1 .. Len(entries),
                             covers : SUBSET (1 .. Len(entries))]
    /\ \A c, d \in compaction : c = d
    /\ run.at \in {"compacting", "recovering"} <=> \E c \in compaction : c.by = "run"

TypeOK ==
    /\ StoreOK /\ RunOK /\ CompactionOK
    /\ accepted \in 0 .. MaxQueue /\ steering \in 0 .. MaxQueue /\ followUps \in 0 .. MaxQueue
    /\ moving \subseteq 1 .. Len(entries)
-----------------------------------------------------------------------------
(* The file and the live list.                                             *)

\* the entries news in the file, under the entry place
WriteAt(place, news) ==
    /\ Len(entries) + Len(news) <= MaxEntries
    /\ entries' = Extend(entries, place, news)
    /\ leaf' = IF news = <<>> THEN place ELSE Len(entries) + Len(news)

Write(news) == WriteAt(leaf, news)

\* _append_message: what is written, but for lost, goes to the end of the live list
Keep(lost) == messages' = messages \cup ((Len(entries) + 1 .. Len(entries')) \ lost)

\* Fault: the list is not rebuilt.
RebuildFault == UNCHANGED <<messages, spilled>>

\* messages = build_session_context()["messages"]
Rebuild ==
    /\ messages' = Context(entries', leaf')
    /\ spilled' = {}

Users(n) == [i \in 1 .. n |-> User]
-----------------------------------------------------------------------------
(* The end of a provider turn; the entries news are written first.         *)

\* What the loop does next: steers, then another turn if there were calls,
\* then one follow-up, else the end.
Proceed(news, calls) ==
    \/ /\ steering > 0
       /\ Write(news \o Users(steering))
       /\ steering' = 0 /\ run' = Asking
       /\ UNCHANGED followUps
    \/ /\ steering = 0 /\ calls # {}
       /\ Write(news) /\ run' = Asking
       /\ UNCHANGED <<steering, followUps>>
    \/ /\ steering = 0 /\ calls = {} /\ followUps > 0
       /\ Write(Append(news, User))
       /\ followUps' = followUps - 1 /\ run' = Asking
       /\ UNCHANGED steering
    \/ /\ steering = 0 /\ calls = {} /\ followUps = 0
       /\ Write(news) /\ run' = Idle
       /\ UNCHANGED <<steering, followUps>>

\* a compaction the user asked for
Foreign == {c \in compaction : c.by = "user"}

\* the run holds no compaction, or no more (compact's finally)
Release == compaction' = Foreign

\* compact, up to the request for the summary
Prepare(by) ==
    /\ Foreign = {}
    /\ \E prep \in Preparations(entries', leaf') :
         compaction' = {[by |-> by, kept |-> prep.kept, covers |-> prep.covers]}

\* _emit("turn_end"): a compaction, if the context is near the window and none
\* is under way
EndTurn(news, calls) ==
    \/ Proceed(news, calls) /\ Release
    \/ /\ Write(news) /\ Prepare("run")
       /\ run' = [Idle EXCEPT !.at = "compacting", !.calls = calls]
       /\ UNCHANGED <<steering, followUps>>

\* _execute_tools
StartTools(news, answer, calls) ==
    /\ calls # {}
    /\ Write(news)
    /\ \E ordered \in BOOLEAN :
         run' = [Idle EXCEPT !.at = "tools", !.answer = answer, !.calls = calls,
                             !.todo = calls, !.ordered = ordered]
    /\ Release
    /\ UNCHANGED <<steering, followUps>>
-----------------------------------------------------------------------------
(* The run.                                                                *)
Alive(at) == run.at = at /\ ~cancelled

\* The task of an accepted prompt begins; it fails if a run is under way.
Begin ==
    /\ accepted > 0 /\ accepted' = accepted - 1
    /\ IF Running THEN UNCHANGED <<entries, leaf, messages, run>>
       ELSE Write(<<User>>) /\ Keep({}) /\ run' = Asking
    /\ UNCHANGED <<spilled, cancelled, steering, followUps, compaction, moving>>

\* The stream ends with an answer.
Answered(n) ==
    /\ Alive("streaming")
    /\ \/ StartTools(<<Answer(1 .. n)>>, Len(entries) + 1, 1 .. n)
       \/ n = 0 /\ EndTurn(<<Answer({})>>, {})
    /\ Keep({})
    /\ UNCHANGED <<spilled, accepted, cancelled, moving>>

\* It ends with an answer whose usage is above the window.  The answer leaves the
\* live list; it is used as it is if a compaction is under way or nothing can be cut.
AnsweredOver(n) ==
    /\ Alive("streaming") /\ ~run.second
    /\ LET new == Len(entries) + 1
       IN  /\ \/ /\ Write(<<Answer(1 .. n)>>) /\ Prepare("run")
                 /\ run' = [Idle EXCEPT !.at = "recovering", !.answer = new, !.calls = 1 .. n]
                 /\ UNCHANGED <<steering, followUps>>
              \/ StartTools(<<Answer(1 .. n)>>, new, 1 .. n)
              \/ n = 0 /\ Proceed(<<Answer({})>>, {}) /\ Release
           /\ Keep({new}) /\ spilled' = spilled \cup {new}
    /\ UNCHANGED <<accepted, cancelled, moving>>

\* It ends with an error: a wait and another request if the error is transient
\* and retries are left, else a compaction and one more turn if the context was
\* too long, else the end.  The failed answer stays in the file; it leaves the live
\* list unless the run ends with it.
Failed(transient, overflow) ==
    /\ Alive("streaming")
    /\ Write(<<Blank("failed")>>)
    /\ LET retry   == transient /\ run.tries < MaxRetries
           recover == ~retry /\ overflow /\ ~run.second
       IN  /\ Keep(IF retry \/ recover THEN {Len(entries) + 1} ELSE {})
           /\ \/ /\ retry /\ UNCHANGED compaction
                 /\ run' = [run EXCEPT !.at = "waiting", !.tries = @ + 1]
              \/ /\ recover /\ Prepare("run")
                 /\ run' = [Idle EXCEPT !.at = "recovering"]
              \/ /\ ~retry /\ run' = Idle /\ UNCHANGED compaction
    /\ UNCHANGED <<spilled, accepted, cancelled, steering, followUps, moving>>

\* It raises, or the arguments of a call are not an object: nothing is written.
Raised ==
    /\ Alive("streaming") /\ run' = Idle
    /\ UNCHANGED <<entries, leaf, messages, spilled, accepted, cancelled,
                   steering, followUps, compaction, moving>>

RetryDue ==
    /\ Alive("waiting") /\ run' = [run EXCEPT !.at = "streaming"]
    /\ UNCHANGED <<entries, leaf, messages, spilled, accepted, cancelled,
                   steering, followUps, compaction, moving>>

\* A tool ends, or is refused.  One after the other, each result is written at
\* once; all together, the results are written when the last tool has ended.
ToolEnds(k) ==
    /\ Alive("tools") /\ k \in run.todo
    /\ run.ordered => \A i \in run.todo : k <= i
    /\ LET rest == run.todo \ {k}
           news == IF run.ordered THEN <<Result(run.answer, k)>>
                   ELSE IF rest = {} THEN [i \in run.calls |-> Result(run.answer, i)]
                   ELSE <<>>
       IN  \/ /\ rest # {} /\ Write(news)
              /\ run' = [run EXCEPT !.todo = rest]
              /\ UNCHANGED <<steering, followUps, compaction>>
           \/ rest = {} /\ EndTurn(news, run.calls)
    /\ Keep({})
    /\ UNCHANGED <<spilled, accepted, cancelled, moving>>

\* The summary of a compaction at the end of a turn is there.
Compacted ==
    /\ Alive("compacting")
    /\ \E c \in compaction : Proceed(<<Summary(c)>>, run.calls)
    /\ Rebuild /\ Release
    /\ UNCHANGED <<accepted, cancelled, moving>>

\* It could not be made; the run goes on.
NotCompacted ==
    /\ Alive("compacting")
    /\ Proceed(<<>>, run.calls) /\ Keep({}) /\ Release
    /\ UNCHANGED <<spilled, accepted, cancelled, moving>>

\* The summary after an overflow is there: one more turn, without failed answers.
Recovered ==
    /\ Alive("recovering")
    /\ \E c \in compaction : Write(<<Summary(c)>>)
    /\ messages' = LET all == Context(entries', leaf') IN all \ Of(entries', "failed", all)
    /\ spilled' = {} /\ Release
    /\ run' = [Asking EXCEPT !.second = TRUE]
    /\ UNCHANGED <<accepted, cancelled, steering, followUps, moving>>

\* It could not be made: the answer is used as it is, an error ends the run.
NotRecovered ==
    /\ Alive("recovering")
    /\ \/ /\ run.answer = 0 /\ run' = Idle
          /\ Write(<<>>) /\ Release /\ UNCHANGED <<steering, followUps>>
       \/ run.answer # 0 /\ StartTools(<<>>, run.answer, run.calls)
       \/ run.answer # 0 /\ run.calls = {} /\ EndTurn(<<>>, {})
    /\ Keep({})
    /\ UNCHANGED <<spilled, accepted, cancelled, moving>>

\* The cancellation reaches the run: what its tools did so far is not written.
Stop ==
    /\ Running /\ cancelled
    /\ run' = Idle /\ cancelled' = FALSE /\ Release
    /\ UNCHANGED <<entries, leaf, messages, spilled, accepted, steering, followUps, moving>>
-----------------------------------------------------------------------------
(* Commands.                                                               *)
Quiet == ~Running /\ accepted = 0 /\ compaction = {}

\* send_command("prompt"): the run is started as a task of its own.
Prompt ==
    /\ ~Running /\ accepted < MaxQueue
    /\ Calm => moving = {}
    /\ accepted' = accepted + 1
    /\ UNCHANGED <<entries, leaf, messages, spilled, run, cancelled,
                   steering, followUps, compaction, moving>>

Steer ==
    /\ Running /\ steering + followUps < MaxQueue /\ steering' = steering + 1
    /\ UNCHANGED <<entries, leaf, messages, spilled, accepted, run, cancelled,
                   followUps, compaction, moving>>

FollowUp ==
    /\ Running /\ steering + followUps < MaxQueue /\ followUps' = followUps + 1
    /\ UNCHANGED <<entries, leaf, messages, spilled, accepted, run, cancelled,
                   steering, compaction, moving>>

\* abort; a prompt whose task has not begun is not stopped by it.
Abort ==
    /\ Running /\ cancelled' = TRUE
    /\ UNCHANGED <<entries, leaf, messages, spilled, accepted, run,
                   steering, followUps, compaction, moving>>

RoomForSetting == Len(entries) < MaxSettings

\* set_model, set_thinking_level
Set ==
    /\ RoomForSetting
    /\ Write(<<Setting>>)
    /\ UNCHANGED <<messages, spilled, accepted, run, cancelled,
                   steering, followUps, compaction, moving>>

\* append_custom_message, and the summary a merge appends
AppendCustom ==
    /\ Calm => Quiet /\ moving = {}
    /\ Write(<<Blank("custom")>>) /\ Rebuild
    /\ UNCHANGED <<accepted, run, cancelled, steering, followUps, compaction, moving>>

\* compact, asked for by the user; the request is a task of its own.
Compact ==
    /\ compaction = {}
    /\ Calm => moving = {}
    /\ UNCHANGED <<entries, leaf, messages, spilled, accepted, run, cancelled,
                   steering, followUps, moving>>
    /\ Prepare("user")

\* Its summary is there; it goes where the leaf is by now.
CompactDone ==
    /\ \E c \in Foreign : Write(<<Summary(c)>>)
    /\ Rebuild /\ compaction' = {}
    /\ UNCHANGED <<accepted, run, cancelled, steering, followUps, moving>>

CompactFailed ==
    /\ Foreign # {} /\ compaction' = {}
    /\ UNCHANGED <<entries, leaf, messages, spilled, accepted, run, cancelled,
                   steering, followUps, moving>>

\* abort_compaction: the task that compacts is cancelled, be it the whole run.
AbortCompaction ==
    /\ compaction # {}
    /\ compaction' = IF Foreign = {} THEN compaction ELSE {}
    /\ cancelled' = (cancelled \/ Foreign = {})
    /\ UNCHANGED <<entries, leaf, messages, spilled, accepted, run,
                   steering, followUps, moving>>

\* navigate_tree: the new leaf of a move to target
Landing(target) ==
    IF entries[target].kind \in {"user", "custom"} THEN entries[target].parent ELSE target

MayMove(target) ==
    /\ moving = {} /\ target # leaf
    /\ Calm => Quiet

\* without a summary; a label is an entry of its own
Navigate(target, labels) ==
    /\ MayMove(target)
    /\ WriteAt(Landing(target), labels) /\ Rebuild
    /\ UNCHANGED <<accepted, run, cancelled, steering, followUps, compaction, moving>>

\* with a summary of the messages that are left behind
NavigateSummarised(target) ==
    /\ MayMove(target)
    /\ LET left == Path(entries, leaf) \ Path(entries, target)
       IN  Speaking(entries, left) \ Of(entries, "result", left) # {}
    /\ moving' = {Landing(target)}
    /\ UNCHANGED <<entries, leaf, messages, spilled, accepted, run, cancelled,
                   steering, followUps, compaction>>

MoveDone(labels) ==
    /\ \E place \in moving : WriteAt(place, <<Blank("branch")>> \o labels)
    /\ Rebuild /\ moving' = {}
    /\ UNCHANGED <<accepted, run, cancelled, steering, followUps, compaction>>

\* The summary fails, or abort_branch_summary cancels it.
MoveFailed ==
    /\ moving # {} /\ moving' = {}
    /\ UNCHANGED <<entries, leaf, messages, spilled, accepted, run, cancelled,
                   steering, followUps, compaction>>

\* SessionManager.open: the leaf is the last entry of the file.
Reread == WriteAt(Len(entries), <<>>) /\ Rebuild

\* RegistryEntry.close, or the end of the server: every task is cancelled, and what
\* was queued goes with the agent.
Closed ==
    /\ accepted' = 0 /\ run' = Idle /\ cancelled' = FALSE
    /\ steering' = 0 /\ followUps' = 0 /\ compaction' = {} /\ moving' = {}

\* The session is closed, or lost, and activated again.  The file exists once an
\* answer was appended, and then holds every entry.
Reopen ==
    /\ Of(entries, "answer", 1 .. Len(entries)) \cup Of(entries, "failed", 1 .. Len(entries)) # {}
    /\ Reread /\ Closed
-----------------------------------------------------------------------------
\* The entries of set_model and set_thinking_level at registration count as one.
Init ==
    /\ entries = <<[Setting EXCEPT !.path = {1}]>> /\ leaf = 1
    /\ messages = {} /\ spilled = {}
    /\ accepted = 0 /\ run = Idle /\ cancelled = FALSE
    /\ steering = 0 /\ followUps = 0 /\ compaction = {} /\ moving = {}

Labels == {<<>>} \cup (IF RoomForSetting THEN {<<Setting>>} ELSE {})
Command ==
    \/ Prompt \/ Steer \/ FollowUp \/ Abort \/ Set \/ AppendCustom
    \/ Compact \/ CompactDone \/ CompactFailed \/ AbortCompaction
    \/ \E target \in 1 .. Len(entries) :
          (\E labels \in Labels : Navigate(target, labels)) \/ NavigateSummarised(target)
    \/ \E labels \in Labels : MoveDone(labels)
    \/ MoveFailed \/ Reopen

RunStep ==
    \/ Begin
    \/ \E n \in 0 .. MaxCalls : Answered(n) \/ AnsweredOver(n)
    \/ \E transient, overflow \in BOOLEAN : Failed(transient, overflow)
    \/ Raised \/ RetryDue
    \/ \E k \in 1 .. MaxCalls : ToolEnds(k)
    \/ Compacted \/ NotCompacted \/ Recovered \/ NotRecovered \/ Stop

Next == RunStep \/ Command

Spec == Init /\ [][Next]_vars
-----------------------------------------------------------------------------
(* Properties.                                                             *)

\* The live list is the context of the leaf, but for failed answers and for the
\* answers an overflow took out: whatever is compacted, moved or reopened, the
\* model sees what the file says it sees.
ContextFollowsStore ==
    /\ messages \subseteq Context(entries, leaf)
    /\ \A j \in Context(entries, leaf) \ messages :
         entries[j].kind = "failed" \/ j \in spilled

\* "so that tool calls are not parted from their results" (prepare_compaction):
\* no result is in the live list without the answer that called, unless an
\* overflow took that answer out.
ResultsHaveCalls ==
    \A j \in Of(entries, "result", messages) :
       entries[j].of \in messages \cup spilled

\* Whichever entry is the leaf, what its branch says is in its context or went
\* into the summary it begins with: compacting again forgets nothing.
NothingForgotten ==
    \A i \in 1 .. Len(entries) :
       LET said == Speaking(entries, Path(entries, i))
       IN  said \ Of(entries, "failed", said)
              \subseteq Context(entries, i)
                        \cup UNION {entries[c].covers : c \in LastCut(entries, i)}

\* What compactions, moves and reopenings leave is whole: no result without its
\* call, and nothing said that neither the context nor a summary holds.
HistoryIsWhole == ResultsHaveCalls /\ NothingForgotten

\* "so that a long session goes on without losing key context" (compaction.py:5):
\* when the provider is asked, each prompt, answer and result of the branch is in
\* the request, or in a summary that is.
ModelIsTold ==
    run.at = "streaming" =>
       LET sent == Sent(entries, messages)
       IN  \A j \in Sent(entries, Path(entries, leaf)) :
              \/ entries[j].kind = "failed" \/ j \in spilled \/ j \in sent
              \/ \E s \in sent : j \in entries[s].covers
=============================================================================
