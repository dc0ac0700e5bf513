---------------------------- MODULE SessionTree ----------------------------
(***************************************************************************)
(* The session file of the Python server (session_manager.py) and what is  *)
(* computed from it: the branch that ends at an entry, the context of a    *)
(* branch, and the places where a compaction may cut.                      *)
(*                                                                         *)
(* Entries are numbered in the order of the file and never change.  An     *)
(* entry holds its parent and, instead of a walk along the parents, its    *)
(* path: the numbers of the entries from the root to itself.  A parent     *)
(* comes before its children, so a set of entries of one path has one      *)
(* order only, and paths and contexts are sets.                            *)
(***************************************************************************)
EXTENDS Integers, Sequences

Kinds == {"user",        \* a prompt, steer or follow-up of the user
          "answer",      \* an answer of the model; calls are its tool calls
          "failed",      \* an answer whose stopReason is error
          "result",      \* the result of call number call of the answer of
          "custom",      \* a custom message (the summary of a merge)
          "branch",      \* the summary of an abandoned branch
          "compaction",  \* a summary; the context goes on from the entry kept
          "setting"}     \* model, thinking level, label: no message

Entry == [kind : Kinds, parent : Nat, path : SUBSET Nat, calls : SUBSET Nat,
          of : Nat, call : Nat, kept : Nat, covers : SUBSET Nat]

\* The entry of a kind, before it has a place in the tree.  covers is the set
\* of entries whose messages the summary was made from, directly or through
\* the summary before it.
Blank(kind) == [kind |-> kind, parent |-> 0, path |-> {}, calls |-> {},
                of |-> 0, call |-> 0, kept |-> 0, covers |-> {}]
Setting         == Blank("setting")
User            == Blank("user")
Answer(calls)   == [Blank("answer") EXCEPT !.calls = calls]
Result(of, k)   == [Blank("result") EXCEPT !.of = of, !.call = k]
Summary(prep)   == [Blank("compaction") EXCEPT !.kept = prep.kept, !.covers = prep.covers]

\* build_session_path
Path(tree, leaf) == tree[leaf].path

\* What holds of every file: the path of an entry is what a walk along the parents
\* gives, and summaries stand for entries before them.
WellFormed(tree) ==
    /\ tree \in Seq(Entry) /\ Len(tree) > 0
    /\ tree[1].kind = "setting" /\ Path(tree, 1) = {1} /\ tree[1].covers = {}
    /\ \A i \in 2 .. Len(tree) :
          /\ tree[i].parent \in 1 .. i - 1
          /\ Path(tree, i) = Path(tree, tree[i].parent) \cup {i} /\ Path(tree, i) \subseteq 1 .. i
          /\ tree[i].covers \subseteq 1 .. i - 1

\* The entries news, one after the other, under the entry leaf.
Extend(tree, leaf, news) ==
    tree \o [i \in 1 .. Len(news) |->
               [news[i] EXCEPT !.parent = IF i = 1 THEN leaf ELSE Len(tree) + i - 1,
                               !.path = Path(tree, leaf) \cup (Len(tree) + 1 .. Len(tree) + i)]]

Of(tree, kind, S) == {j \in S : tree[j].kind = kind}

\* session_entry_to_context_messages: the entries that are messages
Speaking(tree, S) == S \ Of(tree, "setting", S)

\* The last compaction of a path, as a set of at most one.
LastCut(tree, leaf) ==
    LET cuts == Of(tree, "compaction", Path(tree, leaf))
    IN  {c \in cuts : \A d \in cuts : d <= c}

\* build_context_entries, build_session_context
Context(tree, leaf) ==
    LET path == Path(tree, leaf)
    IN  {j \in Speaking(tree, path) :
           \A c \in LastCut(tree, leaf) :
              j >= c \/ (tree[c].kept \in path /\ tree[c].kept <= j)}
-----------------------------------------------------------------------------
(* prepare_compaction.                                                     *)

\* The part of a branch the last summary does not stand for.
Region(tree, leaf) ==
    LET path == Path(tree, leaf)
    IN  {j \in path :
           \A c \in LastCut(tree, leaf) :
              IF tree[c].kept \in path THEN tree[c].kept <= j ELSE c < j}

TurnStart(tree, j) == tree[j].kind \in {"user", "custom", "branch"}

\* messages_to_summarize, if k is the first entry kept
Handed(tree, leaf, k) ==
    {j \in Speaking(tree, Region(tree, leaf)) : j < k /\ tree[j].kind # "failed"}

\* Fault: the summary before is not handed on.
PreparationsFault(tree, leaf) ==
    IF tree[leaf].kind = "compaction" THEN {}
    ELSE {[kept |-> k, covers |-> Handed(tree, leaf, k)] :
            k \in {j \in Region(tree, leaf) :
                     TurnStart(tree, j) /\ Handed(tree, leaf, j) # {}}}

\* The outcomes of prepare_compaction other than None.  keep_recent_tokens picks
\* one of them (or none); the sizes of messages are not modelled.
Preparations(tree, leaf) ==
    IF tree[leaf].kind = "compaction" THEN {}
    ELSE {[kept |-> k,
           covers |-> Handed(tree, leaf, k) \cup
                      UNION {tree[c].covers : c \in LastCut(tree, leaf)}] :
            k \in {j \in Region(tree, leaf) :
                     TurnStart(tree, j) /\ Handed(tree, leaf, j) # {}}}

\* _convert_messages of the providers: the messages a request carries
Sent(tree, S) == {j \in S : tree[j].kind \in {"user", "answer", "failed", "result"}}
=============================================================================
