-------------------------- MODULE AgentLoop_proofs --------------------------
(***************************************************************************)
(* For every bound, and whether or not the clients are calm, a session of  *)
(* the Python server is well formed and its live list is the context of    *)
(* its leaf; for calm clients no result in a context lacks its call, and   *)
(* nothing said is forgotten.                                              *)
(***************************************************************************)
EXTENDS AgentLoop, SequenceTheorems, TLAPS

\* What a new entry may be: a summary stands for entries of the file only.
Fresh(tree, news) ==
    /\ news \in Seq(Entry)
    /\ \A i \in 1 .. Len(news) : news[i].covers \subseteq 1 .. Len(tree)

\* What Extend does with the i-th of the new entries.
Placed(tree, place, news, i) ==
    [news[i] EXCEPT !.parent = IF i = 1 THEN place ELSE Len(tree) + i - 1,
                    !.path = Path(tree, place) \cup (Len(tree) + 1 .. Len(tree) + i)]

\* The path of an entry ends with it.
LEMMA PathBounds ==
    ASSUME NEW tree, WellFormed(tree), NEW i \in 1 .. Len(tree)
    PROVE  Path(tree, i) \subseteq 1 .. i /\ i \in Path(tree, i)
<1>1. CASE i = 1
  BY <1>1 DEF WellFormed
<1>2. CASE i # 1
  <2>1. i \in 2 .. Len(tree)
    BY <1>2 DEF WellFormed
  <2> QED BY <2>1 DEF WellFormed
<1> QED BY <1>1, <1>2

\* Writing entries keeps the old ones and places the new ones one below the other.
LEMMA ExtendShape ==
    ASSUME NEW tree, WellFormed(tree), NEW place \in 1 .. Len(tree),
           NEW news, Fresh(tree, news)
    PROVE  LET new == Extend(tree, place, news)
           IN  /\ new \in Seq(Entry) /\ Len(new) = Len(tree) + Len(news)
               /\ \A i \in 1 .. Len(tree) : new[i] = tree[i]
               /\ \A i \in 1 .. Len(news) :
                     /\ new[Len(tree) + i] = Placed(tree, place, news, i)
                     /\ new[Len(tree) + i].kind = news[i].kind
                     /\ new[Len(tree) + i].covers = news[i].covers
                     /\ new[Len(tree) + i].parent = IF i = 1 THEN place ELSE Len(tree) + i - 1
                     /\ Path(new, Len(tree) + i) = Path(tree, place) \cup (Len(tree) + 1 .. Len(tree) + i)
<1> DEFINE tail == [i \in 1 .. Len(news) |-> Placed(tree, place, news, i)]
           new == Extend(tree, place, news)
<1>1. tree \in Seq(Entry) /\ Len(tree) \in Nat /\ news \in Seq(Entry) /\ Len(news) \in Nat
  BY DEF WellFormed, Fresh
<1>2. Path(tree, place) \subseteq Nat
  <2>1. Path(tree, place) \subseteq 1 .. place
    BY PathBounds
  <2> QED BY <2>1
<1>3. ASSUME NEW i \in 1 .. Len(news)
      PROVE  /\ Placed(tree, place, news, i) \in Entry
             /\ Placed(tree, place, news, i).kind = news[i].kind
             /\ Placed(tree, place, news, i).covers = news[i].covers
             /\ Placed(tree, place, news, i).parent = IF i = 1 THEN place ELSE Len(tree) + i - 1
             /\ Placed(tree, place, news, i).path = Path(tree, place) \cup (Len(tree) + 1 .. Len(tree) + i)
  <2>1. news[i] \in Entry
    BY <1>1
  <2> DEFINE parent == IF i = 1 THEN place ELSE Len(tree) + i - 1
             path == Path(tree, place) \cup (Len(tree) + 1 .. Len(tree) + i)
  <2>2. parent \in Nat
    BY <1>1
  <2>3. path \in SUBSET Nat
    BY <1>1, <1>2
  <2> HIDE DEF parent, path
  <2>4. /\ [news[i] EXCEPT !.parent = parent, !.path = path] \in Entry
        /\ [news[i] EXCEPT !.parent = parent, !.path = path].kind = news[i].kind
        /\ [news[i] EXCEPT !.parent = parent, !.path = path].covers = news[i].covers
        /\ [news[i] EXCEPT !.parent = parent, !.path = path].parent = parent
        /\ [news[i] EXCEPT !.parent = parent, !.path = path].path = path
    BY <2>1, <2>2, <2>3 DEF Entry
  <2> QED BY <2>4 DEF parent, path, Placed
<1>4. tail \in Seq(Entry) /\ Len(tail) = Len(news)
  <2> HIDE DEF tail
  <2>1. tail = [i \in 1 .. Len(news) |-> Placed(tree, place, news, i)]
    BY DEF tail
  <2>2. \A i \in 1 .. Len(news) : Placed(tree, place, news, i) \in Entry
    BY <1>3
  <2> QED BY <1>1, <2>1, <2>2
<1>5. new = tree \o tail
  BY DEF Extend, Placed
<1>6. \A i \in 1 .. Len(news) : tail[i] = Placed(tree, place, news, i)
  OBVIOUS
<1> HIDE DEF tail, new
<1>10. /\ tree \o tail \in Seq(Entry) /\ Len(tree \o tail) = Len(tree) + Len(tail)
       /\ \A i \in 1 .. Len(tree) + Len(tail) :
             (tree \o tail)[i] = IF i <= Len(tree) THEN tree[i] ELSE tail[i - Len(tree)]
  BY <1>1, <1>4, ConcatProperties
<1>7. new \in Seq(Entry) /\ Len(new) = Len(tree) + Len(news)
  BY <1>4, <1>5, <1>10
<1>8. \A i \in 1 .. Len(tree) : new[i] = tree[i]
  BY <1>1, <1>4, <1>5, <1>10
<1>9. ASSUME NEW i \in 1 .. Len(news)
      PROVE  new[Len(tree) + i] = Placed(tree, place, news, i)
  <2>1. Len(tree) + i \in 1 .. Len(tree) + Len(tail) /\ ~(Len(tree) + i <= Len(tree))
        /\ Len(tree) + i - Len(tree) = i
    BY <1>1, <1>4
  <2> QED BY <2>1, <1>5, <1>6, <1>10
<1> QED BY <1>3, <1>7, <1>8, <1>9 DEF new, Path

LEMMA ExtendWellFormed ==
    ASSUME NEW tree, WellFormed(tree), NEW place \in 1 .. Len(tree),
           NEW news, Fresh(tree, news)
    PROVE  WellFormed(Extend(tree, place, news))
<1> DEFINE new == Extend(tree, place, news)
<1>1. tree \in Seq(Entry) /\ Len(tree) \in Nat \ {0} /\ news \in Seq(Entry) /\ Len(news) \in Nat
  BY DEF WellFormed, Fresh
<1>2. /\ new \in Seq(Entry) /\ Len(new) = Len(tree) + Len(news)
      /\ \A i \in 1 .. Len(tree) : new[i] = tree[i]
      /\ \A i \in 1 .. Len(news) :
            /\ new[Len(tree) + i].covers = news[i].covers
            /\ new[Len(tree) + i].parent = IF i = 1 THEN place ELSE Len(tree) + i - 1
            /\ Path(new, Len(tree) + i) = Path(tree, place) \cup (Len(tree) + 1 .. Len(tree) + i)
  BY ExtendShape
<1> HIDE DEF new
<1>3. new[1].kind = "setting" /\ Path(new, 1) = {1} /\ new[1].covers = {}
  <2>1. new[1] = tree[1]
    BY <1>1, <1>2
  <2>2. tree[1].kind = "setting" /\ Path(tree, 1) = {1} /\ tree[1].covers = {}
    BY DEF WellFormed
  <2> QED BY <2>1, <2>2 DEF Path
<1>4. Path(tree, place) \subseteq 1 .. place
  BY PathBounds
<1>5. ASSUME NEW i \in 2 .. Len(new)
      PROVE  /\ new[i].parent \in 1 .. i - 1
             /\ Path(new, i) = Path(new, new[i].parent) \cup {i}
             /\ Path(new, i) \subseteq 1 .. i
             /\ new[i].covers \subseteq 1 .. i - 1
  <2>1. CASE i <= Len(tree)
    <3>1. i \in 2 .. Len(tree) /\ i \in 1 .. Len(tree)
      BY <1>1, <2>1
    <3>2. /\ tree[i].parent \in 1 .. i - 1
          /\ Path(tree, i) = Path(tree, tree[i].parent) \cup {i} /\ Path(tree, i) \subseteq 1 .. i
          /\ tree[i].covers \subseteq 1 .. i - 1
      BY <3>1 DEF WellFormed
    <3>3. tree[i].parent \in 1 .. Len(tree)
      BY <1>1, <3>1, <3>2
    <3>4. new[i] = tree[i] /\ new[tree[i].parent] = tree[tree[i].parent]
      BY <1>2, <3>1, <3>3
    <3> QED BY <3>2, <3>4 DEF Path
  <2>2. CASE ~(i <= Len(tree))
    <3>1. PICK k \in 1 .. Len(news) : i = Len(tree) + k
      <4>1. i - Len(tree) \in 1 .. Len(news) /\ i = Len(tree) + (i - Len(tree))
        BY <1>1, <1>2, <2>2
      <4> QED BY <4>1
    <3>2. /\ new[i].covers = news[k].covers
          /\ new[i].parent = IF k = 1 THEN place ELSE Len(tree) + k - 1
          /\ Path(new, i) = Path(tree, place) \cup (Len(tree) + 1 .. Len(tree) + k)
      BY <1>2, <3>1
    <3>3. new[i].parent \in 1 .. i - 1
      BY <1>1, <3>1, <3>2
    <3>4. Path(new, i) \subseteq 1 .. i
      BY <1>1, <1>4, <3>1, <3>2
    <3>5. new[i].covers \subseteq 1 .. i - 1
      <4>1. news[k].covers \subseteq 1 .. Len(tree)
        BY <3>1 DEF Fresh
      <4> QED BY <1>1, <3>1, <3>2, <4>1
    <3>6. CASE k = 1
      <4>1. new[i].parent = place /\ Path(new, place) = Path(tree, place)
        BY <1>2, <3>2, <3>6 DEF Path
      <4>2. Len(tree) + 1 .. Len(tree) + k = {i}
        BY <1>1, <3>1, <3>6
      <4> QED BY <3>2, <3>3, <3>4, <3>5, <4>1, <4>2
    <3>7. CASE k # 1
      <4>1. k - 1 \in 1 .. Len(news) /\ new[i].parent = Len(tree) + (k - 1)
        BY <1>1, <3>1, <3>2, <3>7
      <4>2. Path(new, new[i].parent) = Path(tree, place) \cup (Len(tree) + 1 .. Len(tree) + (k - 1))
        BY <1>2, <4>1
      <4>3. Len(tree) + 1 .. Len(tree) + k = (Len(tree) + 1 .. Len(tree) + (k - 1)) \cup {i}
        BY <1>1, <3>1, <4>1
      <4> QED BY <3>2, <3>3, <3>4, <3>5, <4>2, <4>3
    <3> QED BY <3>6, <3>7
  <2> QED BY <2>1, <2>2
<1>6. WellFormed(new)
  BY <1>1, <1>2, <1>3, <1>5 DEF WellFormed
<1> QED BY <1>6 DEF new

\* The leaf after entries were written.
Tip(tree, place, news) == IF news = <<>> THEN place ELSE Len(tree) + Len(news)

\* Writing entries without a summary adds them to the context and nothing else.
LEMMA ContextGrows ==
    ASSUME NEW tree, WellFormed(tree), NEW place \in 1 .. Len(tree),
           NEW news, Fresh(tree, news),
           \A i \in 1 .. Len(news) : news[i].kind # "compaction"
    PROVE  LET new == Extend(tree, place, news)
               tip == Tip(tree, place, news)
           IN  Context(new, tip) = Context(tree, place) \cup
                  {j \in Len(tree) + 1 .. Len(new) : new[j].kind # "setting"}
<1> DEFINE new == Extend(tree, place, news)
           tip == Tip(tree, place, news)
           fresh == Len(tree) + 1 .. Len(new)
           path == Path(tree, place)
<1>1. tree \in Seq(Entry) /\ Len(tree) \in Nat \ {0} /\ news \in Seq(Entry) /\ Len(news) \in Nat
  BY DEF WellFormed, Fresh
<1>2. /\ new \in Seq(Entry) /\ Len(new) = Len(tree) + Len(news)
      /\ \A i \in 1 .. Len(tree) : new[i] = tree[i]
      /\ \A i \in 1 .. Len(news) :
            /\ new[Len(tree) + i].kind = news[i].kind
            /\ Path(new, Len(tree) + i) = Path(tree, place) \cup (Len(tree) + 1 .. Len(tree) + i)
  BY ExtendShape
<1> HIDE DEF new, tip
<1>3. path \subseteq 1 .. Len(tree)
  BY PathBounds, <1>1
<1>4. Path(new, tip) = path \cup fresh
  <2>1. CASE news = <<>>
    <3>1. Len(news) = 0 /\ tip = place
      BY <2>1 DEF tip, Tip
    <3>2. fresh = {}
      BY <1>1, <1>2, <3>1
    <3>3. Path(new, place) = Path(tree, place)
      BY <1>2 DEF Path
    <3> QED BY <3>1, <3>2, <3>3
  <2>2. CASE news # <<>>
    <3>1. Len(news) \in 1 .. Len(news) /\ tip = Len(tree) + Len(news)
      <4>1. Len(news) # 0
        BY <1>1, <2>2
      <4> QED BY <1>1, <2>2, <4>1 DEF tip, Tip
    <3> QED BY <1>2, <3>1
  <2> QED BY <2>1, <2>2
<1>5. \A j \in path : new[j] = tree[j]
  BY <1>2, <1>3
<1>6. \A j \in fresh : new[j].kind # "compaction"
  <2> TAKE j \in fresh
  <2>1. j - Len(tree) \in 1 .. Len(news) /\ j = Len(tree) + (j - Len(tree))
    BY <1>1, <1>2
  <2> QED BY <1>2, <2>1
<1>7. \A j \in fresh, c \in path : c < j /\ j >= c
  BY <1>1, <1>2, <1>3
<1> HIDE DEF fresh, path
<1>8. Of(new, "compaction", path \cup fresh) = Of(tree, "compaction", path)
  BY <1>5, <1>6 DEF Of
<1>9. LastCut(new, tip) = LastCut(tree, place)
  BY <1>4, <1>8 DEF LastCut, path
<1>10. LastCut(tree, place) \subseteq path
  BY DEF LastCut, Of, path
<1>11. Speaking(new, path \cup fresh) = Speaking(tree, path) \cup {j \in fresh : new[j].kind # "setting"}
  BY <1>5 DEF Speaking, Of
<1>12. \A c \in LastCut(tree, place) : new[c].kept = tree[c].kept
  BY <1>5, <1>10
<1>13. ASSUME NEW c \in LastCut(tree, place), NEW j \in path
       PROVE  (j >= c \/ (new[c].kept \in path \cup fresh /\ new[c].kept <= j))
                 <=> (j >= c \/ (tree[c].kept \in path /\ tree[c].kept <= j))
  <2>1. new[c].kept = tree[c].kept
    BY <1>12
  <2>2. tree[c].kept \in fresh => ~(tree[c].kept <= j)
    <3>1. SUFFICES ASSUME tree[c].kept \in fresh PROVE ~(tree[c].kept <= j)
      OBVIOUS
    <3>2. j < tree[c].kept /\ j \in Nat /\ tree[c].kept \in Nat
      BY <1>1, <1>2, <1>3, <1>7, <3>1 DEF fresh, path
    <3> QED BY <3>2
  <2> QED BY <2>1, <2>2
<1>14. \A j \in fresh : \A c \in LastCut(tree, place) : j >= c
  BY <1>7, <1>10
<1>15. Context(new, tip) = {j \in Speaking(new, path \cup fresh) :
           \A c \in LastCut(tree, place) :
              j >= c \/ (new[c].kept \in path \cup fresh /\ new[c].kept <= j)}
  BY <1>4, <1>9 DEF Context
<1>16. Context(tree, place) = {j \in Speaking(tree, path) :
           \A c \in LastCut(tree, place) :
              j >= c \/ (tree[c].kept \in path /\ tree[c].kept <= j)}
  BY DEF Context, path
<1>17. Speaking(tree, path) \subseteq path
  BY DEF Speaking
<1>18. Context(new, tip) = Context(tree, place) \cup {j \in fresh : new[j].kind # "setting"}
  BY <1>11, <1>13, <1>14, <1>15, <1>16, <1>17
<1> QED BY <1>18 DEF new, tip, fresh
-----------------------------------------------------------------------------
(* What is written is an entry, and most of it is plain talk.              *)

Plain(news) == \A i \in 1 .. Len(news) : news[i].kind \notin {"compaction", "setting"}

LEMMA BlankTyped ==
    ASSUME NEW kind \in Kinds
    PROVE  Blank(kind) \in Entry /\ Blank(kind).kind = kind /\ Blank(kind).covers = {}
BY DEF Blank, Entry

LEMMA AnswerTyped ==
    ASSUME NEW calls \in SUBSET Nat
    PROVE  Answer(calls) \in Entry /\ Answer(calls).kind = "answer" /\ Answer(calls).covers = {}
BY DEF Answer, Blank, Entry, Kinds

LEMMA ResultTyped ==
    ASSUME NEW of \in Nat, NEW k \in Nat
    PROVE  Result(of, k) \in Entry /\ Result(of, k).kind = "result" /\ Result(of, k).covers = {}
BY DEF Result, Blank, Entry, Kinds

LEMMA SummaryTyped ==
    ASSUME NEW prep, prep.kept \in Nat, prep.covers \in SUBSET Nat
    PROVE  /\ Summary(prep) \in Entry /\ Summary(prep).kind = "compaction"
           /\ Summary(prep).covers = prep.covers
BY DEF Summary, Blank, Entry, Kinds

LEMMA OneFresh ==
    ASSUME NEW tree, NEW e \in Entry, e.covers \subseteq 1 .. Len(tree)
    PROVE  /\ Fresh(tree, <<e>>)
           /\ e.kind \notin {"compaction", "setting"} => Plain(<<e>>)
<1>1. <<e>> \in Seq(Entry) /\ Len(<<e>>) = 1 /\ <<e>>[1] = e
  OBVIOUS
<1>2. \A i \in 1 .. Len(<<e>>) : <<e>>[i] = e
  BY <1>1
<1> HIDE <1>1
<1> QED BY <1>1, <1>2 DEF Fresh, Plain

LEMMA NoneFresh ==
    ASSUME NEW tree
    PROVE  Fresh(tree, <<>>) /\ Plain(<<>>)
BY DEF Fresh, Plain

LEMMA BothFresh ==
    ASSUME NEW tree, NEW news, Fresh(tree, news), NEW more, Fresh(tree, more)
    PROVE  /\ Fresh(tree, news \o more)
           /\ Plain(news) /\ Plain(more) => Plain(news \o more)
<1>1. /\ news \in Seq(Entry) /\ more \in Seq(Entry)
      /\ Len(news) \in Nat /\ Len(more) \in Nat
  BY DEF Fresh
<1>2. /\ news \o more \in Seq(Entry) /\ Len(news \o more) = Len(news) + Len(more)
      /\ \A i \in 1 .. Len(news) + Len(more) :
            (news \o more)[i] = IF i <= Len(news) THEN news[i] ELSE more[i - Len(news)]
  BY <1>1, ConcatProperties
<1>3. ASSUME NEW i \in 1 .. Len(news \o more)
      PROVE  \/ \E j \in 1 .. Len(news) : (news \o more)[i] = news[j]
             \/ \E j \in 1 .. Len(more) : (news \o more)[i] = more[j]
  <2>1. CASE i <= Len(news)
    <3>1. i \in 1 .. Len(news)
      BY <1>1, <1>2, <2>1
    <3> QED BY <1>2, <2>1, <3>1
  <2>2. CASE ~(i <= Len(news))
    <3>1. i - Len(news) \in 1 .. Len(more)
      BY <1>1, <1>2, <2>2
    <3> QED BY <1>2, <2>2, <3>1
  <2> QED BY <2>1, <2>2
<1>4. Fresh(tree, news \o more)
  BY <1>2, <1>3 DEF Fresh
<1>5. Plain(news) /\ Plain(more) => Plain(news \o more)
  BY <1>3 DEF Plain
<1> QED BY <1>4, <1>5

LEMMA UsersFresh ==
    ASSUME NEW tree, NEW n \in Nat
    PROVE  Fresh(tree, Users(n)) /\ Plain(Users(n))
<1>1. User \in Entry /\ User.kind = "user" /\ User.covers = {}
  BY BlankTyped DEF User, Kinds
<1>2. Users(n) \in Seq(Entry) /\ Len(Users(n)) = n /\ \A i \in 1 .. n : Users(n)[i] = User
  BY <1>1 DEF Users
<1> QED BY <1>1, <1>2 DEF Fresh, Plain

LEMMA ResultsFresh ==
    ASSUME NEW tree, NEW of \in Nat, NEW n \in Nat
    PROVE  /\ Fresh(tree, [i \in 1 .. n |-> Result(of, i)])
           /\ Plain([i \in 1 .. n |-> Result(of, i)])
<1> DEFINE news == [i \in 1 .. n |-> Result(of, i)]
<1>1. \A i \in 1 .. n : Result(of, i) \in Entry /\ Result(of, i).kind = "result" /\ Result(of, i).covers = {}
  BY ResultTyped
<1>2. news \in Seq(Entry) /\ Len(news) = n /\ \A i \in 1 .. n : news[i] = Result(of, i)
  BY <1>1
<1> HIDE DEF news
<1>3. Fresh(tree, news) /\ Plain(news)
  BY <1>1, <1>2 DEF Fresh, Plain
<1> QED BY <1>3 DEF news

LEMMA PreparationsTyped ==
    ASSUME NEW tree, WellFormed(tree), NEW place \in 1 .. Len(tree),
           NEW prep \in Preparations(tree, place)
    PROVE  prep.kept \in 1 .. Len(tree) /\ prep.covers \in SUBSET (1 .. Len(tree))
<1>1. Path(tree, place) \subseteq 1 .. Len(tree)
  <2>1. Path(tree, place) \subseteq 1 .. place /\ Len(tree) \in Nat
    BY PathBounds DEF WellFormed
  <2> QED BY <2>1
<1>2. Region(tree, place) \subseteq 1 .. Len(tree)
  BY <1>1 DEF Region
<1>3. \A k : Handed(tree, place, k) \subseteq 1 .. Len(tree)
  BY <1>2 DEF Handed, Speaking
<1>4. \A c \in LastCut(tree, place) : tree[c].covers \subseteq 1 .. Len(tree)
  <2> TAKE c \in LastCut(tree, place)
  <2>1. c \in 1 .. Len(tree)
    BY <1>1 DEF LastCut, Of
  <2>2. CASE c = 1
    BY <2>2 DEF WellFormed
  <2>3. CASE c # 1
    <3>1. c \in 2 .. Len(tree)
      BY <2>1, <2>3
    <3>2. tree[c].covers \subseteq 1 .. c - 1
      BY <3>1 DEF WellFormed
    <3> QED BY <3>1, <3>2
  <2> QED BY <2>2, <2>3
<1>5. PICK k \in Region(tree, place) :
         prep = [kept |-> k, covers |-> Handed(tree, place, k) \cup
                                        UNION {tree[c].covers : c \in LastCut(tree, place)}]
  BY DEF Preparations
<1>6. UNION {tree[c].covers : c \in LastCut(tree, place)} \subseteq 1 .. Len(tree)
  BY <1>4
<1> QED BY <1>2, <1>3, <1>5, <1>6
-----------------------------------------------------------------------------
(* What a step does to the file and the live list: one of five things.     *)

Still == UNCHANGED <<entries, leaf, messages, spilled>>

Grown ==
    \E news, lost :
       /\ Fresh(entries, news) /\ Plain(news) /\ Write(news) /\ Keep(lost)
       /\ spilled \subseteq spilled' /\ spilled' \subseteq 1 .. Len(entries')
       /\ \A j \in lost : j \in 1 .. Len(entries') => entries'[j].kind = "failed" \/ j \in spilled'

Rebuilt ==
    \E place, news :
       /\ place \in 1 .. Len(entries) /\ Fresh(entries, news)
       /\ WriteAt(place, news) /\ Rebuild

Filtered ==
    \E news :
       /\ Fresh(entries, news) /\ Write(news) /\ spilled' = {}
       /\ messages' = LET all == Context(entries', leaf') IN all \ Of(entries', "failed", all)

Annotated == Write(<<Setting>>) /\ UNCHANGED <<messages, spilled>>

StoreChange == Still \/ Grown \/ Rebuilt \/ Filtered \/ Annotated

LEMMA ProceedShape ==
    ASSUME TypeOK, NEW news, Fresh(entries, news), NEW calls, Proceed(news, calls)
    PROVE  /\ \E more : /\ Fresh(entries, more) /\ Len(news) <= Len(more) /\ Write(more)
                        /\ Plain(news) => Plain(more)
           /\ run' \in {Asking, Idle}
           /\ steering' \in 0 .. MaxQueue /\ followUps' \in 0 .. MaxQueue
<1>1. /\ steering \in Nat /\ news \in Seq(Entry) /\ Len(news) \in Nat
      /\ steering \in 0 .. MaxQueue /\ followUps \in 0 .. MaxQueue /\ MaxQueue \in Nat
  BY LoopAssumption DEF TypeOK, Fresh
<1>2. CASE steering > 0 /\ Write(news \o Users(steering)) /\ steering' = 0 /\ run' = Asking
           /\ UNCHANGED followUps
  <2>1. Fresh(entries, Users(steering)) /\ Plain(Users(steering))
    BY <1>1, UsersFresh
  <2>2. /\ Fresh(entries, news \o Users(steering))
        /\ Plain(news) => Plain(news \o Users(steering))
    BY <2>1, BothFresh
  <2>3. Len(news \o Users(steering)) >= Len(news)
    <3>1. Users(steering) \in Seq(Entry)
      BY <2>1 DEF Fresh
    <3>2. Len(news \o Users(steering)) = Len(news) + Len(Users(steering)) /\ Len(Users(steering)) \in Nat
      BY <1>1, <3>1, ConcatProperties
    <3> QED BY <1>1, <3>2
  <2>4. Len(news) <= Len(news \o Users(steering))
    <3>1. news \o Users(steering) \in Seq(Entry)
      BY <2>2 DEF Fresh
    <3> HIDE DEF Users
    <3>2. Len(news \o Users(steering)) \in Nat
      BY <3>1
    <3> QED BY <1>1, <2>3, <3>2
  <2>5. steering' \in 0 .. MaxQueue /\ followUps' \in 0 .. MaxQueue
    BY <1>1, <1>2
  <2> QED BY <1>2, <2>2, <2>4, <2>5
<1>3. CASE Write(news) /\ run' \in {Asking, Idle} /\ UNCHANGED <<steering, followUps>>
  <2>1. Len(news) <= Len(news) /\ steering' \in 0 .. MaxQueue /\ followUps' \in 0 .. MaxQueue
    BY <1>1, <1>3
  <2> QED BY <1>3, <2>1
<1>4. CASE /\ followUps > 0 /\ Write(Append(news, User))
           /\ followUps' = followUps - 1 /\ run' = Asking /\ UNCHANGED steering
  <2>1. User \in Entry /\ User.kind = "user" /\ User.covers = {}
    BY BlankTyped DEF User, Kinds
  <2>2. Append(news, User) = news \o <<User>>
    BY <1>1, <2>1
  <2>3. Fresh(entries, <<User>>) /\ Plain(<<User>>)
    BY <2>1, OneFresh
  <2>4. /\ Fresh(entries, Append(news, User))
        /\ Plain(news) => Plain(Append(news, User))
    BY <2>2, <2>3, BothFresh
  <2>5. Len(news) <= Len(Append(news, User))
    BY <1>1, <2>1
  <2>6. steering' \in 0 .. MaxQueue /\ followUps' \in 0 .. MaxQueue
    BY <1>1, <1>4
  <2> QED BY <1>4, <2>4, <2>5, <2>6
<1> QED BY <1>2, <1>3, <1>4 DEF Proceed

LEMMA EndTurnShape ==
    ASSUME TypeOK, NEW news, Fresh(entries, news), NEW calls, EndTurn(news, calls)
    PROVE  \E more : /\ Fresh(entries, more) /\ Len(news) <= Len(more) /\ Write(more)
                     /\ Plain(news) => Plain(more)
<1>1. CASE Proceed(news, calls)
  BY <1>1, ProceedShape
<1>2. CASE Write(news)
  <2>1. Len(news) <= Len(news)
    BY DEF Fresh
  <2> QED BY <1>2, <2>1
<1> QED BY <1>1, <1>2 DEF EndTurn

\* Writing under an entry of the file, as far as types go.
LEMMA WriteTyped ==
    ASSUME TypeOK, NEW place \in 1 .. Len(entries), NEW news, Fresh(entries, news),
           WriteAt(place, news)
    PROVE  /\ WellFormed(entries') /\ Len(entries') <= MaxEntries
           /\ Len(entries) \in Nat /\ Len(entries') = Len(entries) + Len(news)
           /\ leaf' = Tip(entries, place, news) /\ leaf' \in 1 .. Len(entries')
           /\ \A i \in 1 .. Len(entries) : entries'[i] = entries[i]
           /\ \A i \in 1 .. Len(news) : entries'[Len(entries) + i].kind = news[i].kind
<1>1. WellFormed(entries) /\ entries' = Extend(entries, place, news)
  BY DEF TypeOK, StoreOK, WriteAt
<1>2. /\ Len(entries') = Len(entries) + Len(news)
      /\ \A i \in 1 .. Len(entries) : entries'[i] = entries[i]
      /\ \A i \in 1 .. Len(news) : entries'[Len(entries) + i].kind = news[i].kind
  BY <1>1, ExtendShape
<1>3. WellFormed(entries')
  BY <1>1, ExtendWellFormed
<1>4. Len(entries) \in Nat /\ Len(news) \in Nat /\ MaxEntries \in Nat
  BY <1>1, LoopAssumption DEF WellFormed, Fresh
<1>5. Len(entries') <= MaxEntries
  BY <1>2, <1>4 DEF WriteAt
<1>6. leaf' = Tip(entries, place, news)
  BY DEF WriteAt, Tip
<1>7. leaf' \in 1 .. Len(entries')
  <2>1. news # <<>> => Len(news) # 0
    BY DEF Fresh
  <2> QED BY <1>2, <1>4, <1>6, <2>1 DEF Tip
<1> QED BY <1>2, <1>3, <1>4, <1>5, <1>6, <1>7

LEMMA ContextTyped ==
    ASSUME NEW tree, WellFormed(tree), NEW tip \in 1 .. Len(tree)
    PROVE  Context(tree, tip) \subseteq 1 .. Len(tree)
<1>1. Path(tree, tip) \subseteq 1 .. Len(tree)
  <2>1. Path(tree, tip) \subseteq 1 .. tip /\ Len(tree) \in Nat
    BY PathBounds DEF WellFormed
  <2> QED BY <2>1
<1> QED BY <1>1 DEF Context, Speaking

LEMMA StoreTyped ==
    ASSUME TypeOK, StoreChange
    PROVE  StoreOK' /\ Len(entries) \in Nat /\ Len(entries') \in Nat /\ Len(entries) <= Len(entries')
<1>0. StoreOK /\ Len(entries) \in Nat /\ leaf \in 1 .. Len(entries)
  BY DEF TypeOK, StoreOK, WellFormed
<1>1. CASE Still
  BY <1>0, <1>1 DEF Still, StoreOK
<1> DEFINE Wrote(place, news) ==
              place \in 1 .. Len(entries) /\ Fresh(entries, news) /\ WriteAt(place, news)
<1>2. ASSUME NEW place, NEW news, Wrote(place, news)
      PROVE  /\ WellFormed(entries') /\ Len(entries') <= MaxEntries /\ leaf' \in 1 .. Len(entries')
             /\ Len(entries') \in Nat /\ Len(entries) <= Len(entries')
             /\ Context(entries', leaf') \subseteq 1 .. Len(entries')
             /\ messages \subseteq 1 .. Len(entries') /\ spilled \subseteq 1 .. Len(entries')
  <2>1. /\ WellFormed(entries') /\ Len(entries') <= MaxEntries /\ leaf' \in 1 .. Len(entries')
        /\ Len(entries') = Len(entries) + Len(news)
    BY <1>2, WriteTyped
  <2>2. Len(news) \in Nat
    BY <1>2 DEF Fresh
  <2>3. Context(entries', leaf') \subseteq 1 .. Len(entries')
    BY <2>1, ContextTyped
  <2>4. messages \subseteq 1 .. Len(entries) /\ spilled \subseteq 1 .. Len(entries)
    BY <1>0 DEF StoreOK
  <2> QED BY <1>0, <2>1, <2>2, <2>3, <2>4
<1>3. CASE Grown
  <2>1. PICK news, lost : /\ Fresh(entries, news) /\ Write(news) /\ Keep(lost)
                          /\ spilled' \subseteq 1 .. Len(entries')
    BY <1>3 DEF Grown
  <2>2. Wrote(leaf, news)
    BY <1>0, <2>1 DEF Write
  <2> HIDE DEF Wrote
  <2>3. /\ WellFormed(entries') /\ Len(entries') <= MaxEntries /\ leaf' \in 1 .. Len(entries')
        /\ Len(entries') \in Nat /\ Len(entries) <= Len(entries') /\ messages \subseteq 1 .. Len(entries')
    BY <1>2, <2>2
  <2>4. messages' \subseteq 1 .. Len(entries')
    <3>1. Len(entries) + 1 .. Len(entries') \subseteq 1 .. Len(entries')
      BY <1>0, <2>3
    <3>2. messages' = messages \cup ((Len(entries) + 1 .. Len(entries')) \ lost)
      BY <2>1 DEF Keep
    <3> QED BY <2>3, <3>1, <3>2
  <2> QED BY <1>0, <2>1, <2>3, <2>4 DEF StoreOK
<1>4. CASE Rebuilt
  <2>1. PICK place, news :
           /\ place \in 1 .. Len(entries) /\ Fresh(entries, news)
           /\ WriteAt(place, news) /\ Rebuild
    BY <1>4 DEF Rebuilt
  <2>2. Wrote(place, news)
    BY <2>1
  <2> HIDE DEF Wrote
  <2> QED BY <1>0, <1>2, <2>1, <2>2 DEF StoreOK, Rebuild
<1>5. CASE Filtered
  <2>1. PICK news : /\ Fresh(entries, news) /\ Write(news) /\ spilled' = {}
                    /\ messages' \subseteq Context(entries', leaf')
    BY <1>5 DEF Filtered
  <2>2. Wrote(leaf, news)
    BY <1>0, <2>1 DEF Write
  <2> HIDE DEF Wrote
  <2>3. messages' \subseteq 1 .. Len(entries')
    BY <1>2, <2>1, <2>2
  <2> QED BY <1>0, <1>2, <2>1, <2>2, <2>3 DEF StoreOK
<1>6. CASE Annotated
  <2>1. Setting \in Entry /\ Setting.covers = {}
    BY BlankTyped DEF Setting, Kinds
  <2>2. Wrote(leaf, <<Setting>>)
    BY <1>0, <1>6, <2>1, OneFresh DEF Annotated, Write
  <2> HIDE DEF Wrote
  <2> QED BY <1>0, <1>2, <1>6, <2>2 DEF StoreOK, Annotated
<1> QED BY <1>1, <1>3, <1>4, <1>5, <1>6 DEF StoreChange

\* The parts of a well-formed state the actions write from.
LEMMA PartsTyped ==
    ASSUME TypeOK
    PROVE  /\ leaf \in 1 .. Len(entries) /\ Len(entries) \in Nat
           /\ spilled \subseteq 1 .. Len(entries)
           /\ run.answer \in Nat /\ MaxCalls \in Nat
           /\ \E n \in Nat : run.calls = 1 .. n
           /\ \A c \in compaction : c.kept \in Nat /\ c.covers \in SUBSET (1 .. Len(entries)) /\ c.covers \in SUBSET Nat
           /\ moving \subseteq 1 .. Len(entries)
<1>1. leaf \in 1 .. Len(entries) /\ Len(entries) \in Nat /\ spilled \subseteq 1 .. Len(entries)
      /\ moving \subseteq 1 .. Len(entries)
  BY DEF TypeOK, StoreOK, WellFormed
<1>2. run.answer \in Nat /\ MaxCalls \in Nat /\ \E n \in Nat : run.calls = 1 .. n
  BY <1>1, LoopAssumption DEF TypeOK, RunOK
<1>3. \A c \in compaction : c.kept \in Nat /\ c.covers \in SUBSET (1 .. Len(entries))
  BY <1>1 DEF TypeOK, CompactionOK
<1> QED BY <1>1, <1>2, <1>3

\* What the actions write is fresh, and plain but for summaries and settings.
LEMMA NewsFresh ==
    ASSUME TypeOK
    PROVE  /\ \A n \in Nat : /\ Fresh(entries, <<Answer(1 .. n)>>) /\ Plain(<<Answer(1 .. n)>>)
                             /\ Len(<<Answer(1 .. n)>>) = 1
           /\ Fresh(entries, <<Answer({})>>) /\ Plain(<<Answer({})>>) /\ Len(<<Answer({})>>) = 1
           /\ \A kind \in Kinds : /\ Fresh(entries, <<Blank(kind)>>)
                                  /\ kind \notin {"compaction", "setting"} => Plain(<<Blank(kind)>>)
                                  /\ Len(<<Blank(kind)>>) = 1 /\ <<Blank(kind)>>[1].kind = kind
           /\ Fresh(entries, <<Setting>>) /\ Fresh(entries, <<User>>) /\ Plain(<<User>>)
           /\ Fresh(entries, <<>>) /\ Plain(<<>>)
           /\ \A c \in compaction : Fresh(entries, <<Summary(c)>>)
           /\ \A kind \in Kinds : \A labels \in Labels : Fresh(entries, <<Blank(kind)>> \o labels)
           /\ \A labels \in Labels : Fresh(entries, labels)
<1>0. /\ Len(entries) \in Nat /\ run.answer \in Nat
      /\ \A c \in compaction : c.kept \in Nat /\ c.covers \in SUBSET (1 .. Len(entries)) /\ c.covers \in SUBSET Nat
  BY PartsTyped
<1>3. \A n \in Nat : /\ Fresh(entries, <<Answer(1 .. n)>>) /\ Plain(<<Answer(1 .. n)>>)
                     /\ Len(<<Answer(1 .. n)>>) = 1
  <2> TAKE n \in Nat
  <2>1. 1 .. n \in SUBSET Nat
    OBVIOUS
  <2>2. /\ Answer(1 .. n) \in Entry /\ Answer(1 .. n).kind = "answer"
        /\ Answer(1 .. n).covers \subseteq 1 .. Len(entries)
    BY <2>1, AnswerTyped
  <2> HIDE DEF Answer
  <2> QED BY <2>2, OneFresh
<1>4. Fresh(entries, <<Answer({})>>) /\ Plain(<<Answer({})>>) /\ Len(<<Answer({})>>) = 1
  <2>1. 1 .. 0 = {} /\ 0 \in Nat
    OBVIOUS
  <2> QED BY <1>3, <2>1
<1>5. \A kind \in Kinds : /\ Fresh(entries, <<Blank(kind)>>)
                          /\ kind \notin {"compaction", "setting"} => Plain(<<Blank(kind)>>)
                          /\ Len(<<Blank(kind)>>) = 1 /\ <<Blank(kind)>>[1].kind = kind
  <2> TAKE kind \in Kinds
  <2>1. Blank(kind) \in Entry /\ Blank(kind).kind = kind /\ Blank(kind).covers \subseteq 1 .. Len(entries)
    BY BlankTyped
  <2> HIDE DEF Blank
  <2> QED BY <2>1, OneFresh
<1>6. Fresh(entries, <<Setting>>) /\ Fresh(entries, <<User>>) /\ Plain(<<User>>)
      /\ Fresh(entries, <<>>) /\ Plain(<<>>)
  BY <1>5, NoneFresh DEF Setting, User, Kinds
<1>7. \A c \in compaction : Fresh(entries, <<Summary(c)>>)
  <2> TAKE c \in compaction
  <2>1. Summary(c) \in Entry /\ Summary(c).covers \subseteq 1 .. Len(entries)
    BY <1>0, SummaryTyped
  <2> HIDE DEF Summary
  <2> QED BY <2>1, OneFresh
<1>9. \A kind \in Kinds : \A labels \in Labels : Fresh(entries, <<Blank(kind)>> \o labels)
  <2> TAKE kind \in Kinds
  <2> TAKE labels \in Labels
  <2>1. Fresh(entries, labels)
    BY <1>6 DEF Labels
  <2> QED BY <1>5, <2>1, BothFresh
<1>10. \A labels \in Labels : Fresh(entries, labels)
  BY <1>6 DEF Labels
<1> QED BY <1>3, <1>4, <1>5, <1>6, <1>7, <1>9, <1>10

\* The results a tool call that ends may write.
LEMMA ToolNewsFresh ==
    ASSUME TypeOK, NEW k \in Nat, NEW rest
    PROVE  LET news == IF run.ordered THEN <<Result(run.answer, k)>>
                       ELSE IF rest = {} THEN [i \in run.calls |-> Result(run.answer, i)]
                       ELSE <<>>
           IN  Fresh(entries, news) /\ Plain(news)
<1>1. PICK n \in Nat : run.calls = 1 .. n
  BY PartsTyped
<1>2. run.answer \in Nat
  BY PartsTyped
<1>3. Fresh(entries, [i \in run.calls |-> Result(run.answer, i)])
      /\ Plain([i \in run.calls |-> Result(run.answer, i)])
  BY <1>1, <1>2, ResultsFresh
<1>4. Fresh(entries, <<Result(run.answer, k)>>) /\ Plain(<<Result(run.answer, k)>>)
  <2>1. /\ Result(run.answer, k) \in Entry /\ Result(run.answer, k).kind = "result"
        /\ Result(run.answer, k).covers \subseteq 1 .. Len(entries)
    BY <1>2, ResultTyped
  <2> HIDE DEF Result
  <2> QED BY <2>1, OneFresh
<1>5. Fresh(entries, <<>>) /\ Plain(<<>>)
  BY NoneFresh
<1> QED BY <1>3, <1>4, <1>5

\* A move lands on an entry: the first entry is a setting.
LEMMA LandingTyped ==
    ASSUME TypeOK, NEW target \in 1 .. Len(entries)
    PROVE  Landing(target) \in 1 .. Len(entries)
<1>0. Len(entries) \in Nat
  BY PartsTyped
<1>1. CASE entries[target].kind \in {"user", "custom"}
  <2>1. target # 1
    BY <1>1 DEF TypeOK, StoreOK, WellFormed
  <2>2. target \in 2 .. Len(entries)
    BY <2>1
  <2>3. entries[target].parent \in 1 .. target - 1
    BY <2>2 DEF TypeOK, StoreOK, WellFormed
  <2> QED BY <1>0, <1>1, <2>2, <2>3 DEF Landing
<1> QED BY <1>1 DEF Landing

\* Every step changes the file and the live list in one of the five ways.
LEMMA StoreStep ==
    ASSUME TypeOK, [Next]_vars
    PROVE  StoreChange
<1>0. /\ leaf \in 1 .. Len(entries) /\ Len(entries) \in Nat
      /\ spilled \subseteq 1 .. Len(entries) /\ moving \subseteq 1 .. Len(entries) /\ MaxCalls \in Nat
  BY PartsTyped
\* writing plain talk and keeping it
<1>1. ASSUME NEW news, NEW more, Fresh(entries, more), Plain(more), Write(more), Keep({}),
             UNCHANGED spilled
      PROVE  StoreChange
  <2>1. Len(entries') = Len(entries) + Len(more) /\ Len(more) \in Nat
    BY <1>0, <1>1, WriteTyped DEF Write, Fresh
  <2>2. spilled' \subseteq 1 .. Len(entries')
    BY <1>0, <1>1, <2>1
  <2> QED BY <1>1, <2>2 DEF StoreChange, Grown
\* writing, and building the live list anew
<1>2. ASSUME NEW place \in 1 .. Len(entries), NEW news, Fresh(entries, news),
             WriteAt(place, news), Rebuild
      PROVE  StoreChange
  BY <1>2 DEF StoreChange, Rebuilt
<1>3. \A n \in Nat : /\ Fresh(entries, <<Answer(1 .. n)>>) /\ Plain(<<Answer(1 .. n)>>)
                     /\ Len(<<Answer(1 .. n)>>) = 1
  BY NewsFresh
<1>4. Fresh(entries, <<Answer({})>>) /\ Plain(<<Answer({})>>) /\ Len(<<Answer({})>>) = 1
  BY NewsFresh
<1>5. \A kind \in Kinds : /\ Fresh(entries, <<Blank(kind)>>)
                          /\ kind \notin {"compaction", "setting"} => Plain(<<Blank(kind)>>)
                          /\ Len(<<Blank(kind)>>) = 1 /\ <<Blank(kind)>>[1].kind = kind
  BY NewsFresh
<1>6. Fresh(entries, <<Setting>>) /\ Fresh(entries, <<User>>) /\ Plain(<<User>>)
      /\ Fresh(entries, <<>>) /\ Plain(<<>>)
  BY NewsFresh
<1>7. \A c \in compaction : Fresh(entries, <<Summary(c)>>)
  BY NewsFresh
<1>9. \A kind \in Kinds : \A labels \in Labels : Fresh(entries, <<Blank(kind)>> \o labels)
  BY NewsFresh
<1>10. \A labels \in Labels : Fresh(entries, labels)
  BY NewsFresh
\* the actions of the run
<1>11. CASE Begin
  <2>1. CASE Running
    BY <1>11, <2>1 DEF Begin, StoreChange, Still
  <2>2. CASE ~Running
    <3>1. Write(<<User>>) /\ Keep({}) /\ UNCHANGED spilled
      BY <1>11, <2>2 DEF Begin
    <3> QED BY <1>1, <1>6, <3>1
  <2> QED BY <2>1, <2>2
<1>12. ASSUME NEW n \in 0 .. MaxCalls, Answered(n) PROVE StoreChange
  <2>1. n \in Nat /\ Keep({}) /\ UNCHANGED spilled
    BY <1>0, <1>12 DEF Answered
  <2>2. CASE Write(<<Answer(1 .. n)>>)
    BY <1>1, <1>3, <2>1, <2>2
  <2>3. CASE EndTurn(<<Answer({})>>, {})
    <3>1. PICK more : Fresh(entries, more) /\ Plain(more) /\ Write(more)
      BY <1>4, <2>3, EndTurnShape
    <3> QED BY <1>1, <2>1, <3>1
  <2> QED BY <1>12, <2>2, <2>3 DEF Answered, StartTools
<1>13. ASSUME NEW n \in 0 .. MaxCalls, AnsweredOver(n) PROVE StoreChange
  <2>1. /\ n \in Nat /\ Keep({Len(entries) + 1}) /\ spilled' = spilled \cup {Len(entries) + 1}
    BY <1>0, <1>13 DEF AnsweredOver
  <2>2. ASSUME NEW more, Fresh(entries, more), Plain(more), 1 <= Len(more), Write(more)
        PROVE  StoreChange
    <3>1. Len(entries') = Len(entries) + Len(more) /\ Len(more) \in Nat
      BY <1>0, <2>2, WriteTyped DEF Write, Fresh
    <3>2. Len(entries) + 1 \in 1 .. Len(entries') /\ 1 .. Len(entries) \subseteq 1 .. Len(entries')
      BY <1>0, <2>2, <3>1
    <3>3. spilled' \subseteq 1 .. Len(entries') /\ spilled \subseteq spilled'
      BY <1>0, <2>1, <3>2
    <3>4. \A j \in {Len(entries) + 1} : j \in spilled'
      BY <2>1
    <3>5. Grown
      BY <2>1, <2>2, <3>3, <3>4 DEF Grown
    <3> QED BY <3>5 DEF StoreChange
  <2>3. CASE Write(<<Answer(1 .. n)>>)
    <3>1. 1 <= Len(<<Answer(1 .. n)>>)
      BY <1>3, <2>1
    <3> QED BY <1>3, <2>1, <2>2, <2>3, <3>1
  <2>4. CASE Proceed(<<Answer({})>>, {})
    <3>1. PICK more : Fresh(entries, more) /\ Plain(more) /\ Len(<<Answer({})>>) <= Len(more) /\ Write(more)
      BY <1>4, <2>4, ProceedShape
    <3>2. 1 <= Len(more)
      BY <1>4, <3>1
    <3> QED BY <2>2, <3>1, <3>2
  <2> QED BY <1>13, <2>3, <2>4 DEF AnsweredOver, StartTools
<1>14. ASSUME NEW transient \in BOOLEAN, NEW overflow \in BOOLEAN, Failed(transient, overflow)
       PROVE  StoreChange
  <2> DEFINE failed == <<Blank("failed")>>
  <2>1. PICK lost \in SUBSET {Len(entries) + 1} : Write(failed) /\ Keep(lost) /\ UNCHANGED spilled
    <3>1. Write(failed) /\ UNCHANGED spilled
      BY <1>14 DEF Failed
    <3>2. \/ Keep({Len(entries) + 1}) \/ Keep({})
      BY <1>14 DEF Failed
    <3> QED BY <3>1, <3>2
  <2>2. /\ Fresh(entries, failed) /\ Plain(failed) /\ Len(failed) = 1 /\ failed[1].kind = "failed"
    BY <1>5 DEF Kinds
  <2> HIDE DEF failed
  <2>3. Len(entries') = Len(entries) + 1 /\ entries'[Len(entries) + 1].kind = "failed"
    <3>1. /\ Len(entries') = Len(entries) + Len(failed)
          /\ \A i \in 1 .. Len(failed) : entries'[Len(entries) + i].kind = failed[i].kind
      BY <1>0, <2>1, <2>2, WriteTyped DEF Write
    <3> QED BY <2>2, <3>1
  <2>4. spilled' \subseteq 1 .. Len(entries') /\ spilled \subseteq spilled'
    BY <1>0, <2>1, <2>3
  <2>5. Grown
    BY <2>1, <2>2, <2>3, <2>4 DEF Grown
  <2> QED BY <2>5 DEF StoreChange
<1>15. ASSUME NEW k \in 1 .. MaxCalls, ToolEnds(k) PROVE StoreChange
  <2> DEFINE rest == run.todo \ {k}
             news == IF run.ordered THEN <<Result(run.answer, k)>>
                     ELSE IF rest = {} THEN [i \in run.calls |-> Result(run.answer, i)]
                     ELSE <<>>
  <2>1. Keep({}) /\ UNCHANGED spilled /\ (Write(news) \/ EndTurn(news, run.calls))
    BY <1>15 DEF ToolEnds
  <2>2. Fresh(entries, news) /\ Plain(news)
    <3>1. k \in Nat
      OBVIOUS
    <3> QED BY <3>1, ToolNewsFresh
  <2> HIDE DEF news
  <2>3. PICK more : Fresh(entries, more) /\ Plain(more) /\ Write(more)
    BY <2>1, <2>2, EndTurnShape
  <2> QED BY <1>1, <2>1, <2>3
<1>16. CASE Compacted
  <2>1. PICK c \in compaction : Proceed(<<Summary(c)>>, run.calls)
    BY <1>16 DEF Compacted
  <2>2. PICK more : Fresh(entries, more) /\ Write(more)
    BY <1>7, <2>1, ProceedShape
  <2>3. Rebuild
    BY <1>16 DEF Compacted
  <2> QED BY <1>0, <1>2, <2>2, <2>3 DEF Write
<1>17. CASE NotCompacted
  <2>1. PICK more : Fresh(entries, more) /\ Plain(more) /\ Write(more)
    BY <1>6, <1>17, ProceedShape DEF NotCompacted
  <2>2. Keep({}) /\ UNCHANGED spilled
    BY <1>17 DEF NotCompacted
  <2> QED BY <1>1, <2>1, <2>2
<1>18. CASE Recovered
  BY <1>7, <1>18 DEF Recovered, StoreChange, Filtered
<1>19. CASE NotRecovered
  <2>1. Keep({}) /\ UNCHANGED spilled
    BY <1>19 DEF NotRecovered
  <2>2. Write(<<>>) \/ EndTurn(<<>>, {})
    BY <1>19 DEF NotRecovered, StartTools
  <2>3. PICK more : Fresh(entries, more) /\ Plain(more) /\ Write(more)
    BY <1>6, <2>2, EndTurnShape
  <2> QED BY <1>1, <2>1, <2>3
\* the commands
<1>20. CASE Set
  BY <1>20 DEF Set, StoreChange, Annotated
<1>21. CASE AppendCustom
  <2>1. Write(<<Blank("custom")>>) /\ Rebuild
    BY <1>21 DEF AppendCustom
  <2> QED BY <1>0, <1>2, <1>5, <2>1 DEF Write, Kinds
<1>22. CASE CompactDone
  <2>1. PICK c \in Foreign : Write(<<Summary(c)>>)
    BY <1>22 DEF CompactDone
  <2>2. Rebuild
    BY <1>22 DEF CompactDone
  <2>3. Fresh(entries, <<Summary(c)>>)
    BY <1>7, <2>1 DEF Foreign
  <2> QED BY <1>0, <1>2, <2>1, <2>2, <2>3 DEF Write
<1>23. \A target \in 1 .. Len(entries) : Landing(target) \in 1 .. Len(entries)
  BY LandingTyped
<1>24. ASSUME NEW target \in 1 .. Len(entries), NEW labels \in Labels, Navigate(target, labels)
       PROVE  StoreChange
  <2>1. WriteAt(Landing(target), labels) /\ Rebuild
    BY <1>24 DEF Navigate
  <2> QED BY <1>2, <1>10, <1>23, <2>1
<1>25. ASSUME NEW labels \in Labels, MoveDone(labels) PROVE StoreChange
  <2>1. PICK place \in moving : WriteAt(place, <<Blank("branch")>> \o labels)
    BY <1>25 DEF MoveDone
  <2>2. Rebuild /\ place \in 1 .. Len(entries) /\ Fresh(entries, <<Blank("branch")>> \o labels)
    BY <1>0, <1>9, <1>25, <2>1 DEF MoveDone, Kinds
  <2> QED BY <1>2, <2>1, <2>2
<1>26. CASE Reopen
  <2>1. WriteAt(Len(entries), <<>>) /\ Rebuild
    BY <1>26 DEF Reopen, Reread
  <2>2. Len(entries) \in 1 .. Len(entries)
    BY <1>0
  <2> QED BY <1>2, <1>6, <2>1, <2>2
<1>27. CASE Still
  BY <1>27 DEF StoreChange
<1>29. CASE Raised \/ RetryDue \/ Stop \/ Prompt \/ Steer \/ FollowUp \/ Abort
            \/ Compact \/ CompactFailed \/ AbortCompaction \/ MoveFailed \/ UNCHANGED vars
            \/ \E target \in 1 .. Len(entries) : NavigateSummarised(target)
  BY <1>27, <1>29 DEF Raised, RetryDue, Stop, Prompt, Steer, FollowUp, Abort,
     Compact, CompactFailed, AbortCompaction, MoveFailed, NavigateSummarised, Still, vars
<1> QED BY <1>11, <1>12, <1>13, <1>14, <1>15, <1>16, <1>17, <1>18, <1>19, <1>20, <1>21, <1>22,
           <1>24, <1>25, <1>26, <1>29 DEF Next, RunStep, Command
-----------------------------------------------------------------------------
(* The run, the compaction under way and the counters.                     *)

RunTyped(r, n) ==
    r \in [at : Places, answer : 0 .. n, calls : {1 .. k : k \in 0 .. MaxCalls},
           todo : SUBSET (1 .. MaxCalls), ordered : BOOLEAN,
           tries : 0 .. MaxRetries, second : BOOLEAN]

CutsTyped ==
    /\ compaction \subseteq [by : {"run", "user"}, kept : 1 .. Len(entries),
                             covers : SUBSET (1 .. Len(entries))]
    /\ \A c, d \in compaction : c = d

CountersOK == accepted \in 0 .. MaxQueue /\ steering \in 0 .. MaxQueue /\ followUps \in 0 .. MaxQueue

\* Places where the run holds a compaction.
Held == {"compacting", "recovering"}

LEMMA RestTyped ==
    ASSUME NEW n \in Nat
    PROVE  /\ RunTyped(Idle, n) /\ Idle.at = "idle" /\ Idle.at \notin Held
           /\ RunTyped(Asking, n) /\ Asking.at = "streaming" /\ Asking.at \notin Held
           /\ RunTyped([Asking EXCEPT !.second = TRUE], n)
           /\ [Asking EXCEPT !.second = TRUE].at = "streaming"
           /\ RunTyped([Idle EXCEPT !.at = "recovering"], n)
           /\ [Idle EXCEPT !.at = "recovering"].at = "recovering"
<1>1. 1 .. 0 = {} /\ 0 \in 0 .. MaxCalls /\ 0 \in 0 .. n /\ 0 \in 0 .. MaxRetries
  BY LoopAssumption
<1>2. {} \in {1 .. k : k \in 0 .. MaxCalls}
  BY <1>1
<1> QED BY <1>1, <1>2 DEF RunTyped, Idle, Asking, Places, Held

LEMMA CompactingTyped ==
    ASSUME NEW n \in Nat, NEW calls \in {1 .. k : k \in 0 .. MaxCalls}, NEW r,
           r = [Idle EXCEPT !.at = "compacting", !.calls = calls]
    PROVE  RunTyped(r, n) /\ r.at = "compacting"
<1>1. 0 \in 0 .. n /\ 0 \in 0 .. MaxRetries
  BY LoopAssumption
<1>2. calls \in SUBSET (1 .. MaxCalls) /\ {} \in SUBSET (1 .. MaxCalls)
  BY LoopAssumption
<1> QED BY <1>1, <1>2 DEF RunTyped, Idle, Places

LEMMA RecoveringTyped ==
    ASSUME NEW n \in Nat, NEW calls \in {1 .. k : k \in 0 .. MaxCalls}, NEW answer \in 0 .. n, NEW r,
           r = [Idle EXCEPT !.at = "recovering", !.answer = answer, !.calls = calls]
    PROVE  RunTyped(r, n) /\ r.at = "recovering"
<1>1. 0 \in 0 .. n /\ 0 \in 0 .. MaxRetries
  BY LoopAssumption
<1>2. calls \in SUBSET (1 .. MaxCalls) /\ {} \in SUBSET (1 .. MaxCalls)
  BY LoopAssumption
<1> QED BY <1>1, <1>2 DEF RunTyped, Idle, Places

LEMMA ToolsTyped ==
    ASSUME NEW n \in Nat, NEW calls \in {1 .. k : k \in 0 .. MaxCalls}, NEW answer \in 0 .. n,
           NEW ordered \in BOOLEAN, NEW r,
           r = [Idle EXCEPT !.at = "tools", !.answer = answer, !.calls = calls,
                               !.todo = calls, !.ordered = ordered]
    PROVE  RunTyped(r, n) /\ r.at = "tools"
<1>1. 0 \in 0 .. n /\ 0 \in 0 .. MaxRetries
  BY LoopAssumption
<1>2. calls \in SUBSET (1 .. MaxCalls) /\ {} \in SUBSET (1 .. MaxCalls)
  BY LoopAssumption
<1> QED BY <1>1, <1>2 DEF RunTyped, Idle, Places

LEMMA CutsStay ==
    ASSUME TypeOK, Len(entries) \in Nat, Len(entries') \in Nat, Len(entries) <= Len(entries'),
           compaction' \subseteq compaction
    PROVE  CutsTyped'
<1>1. 1 .. Len(entries) \subseteq 1 .. Len(entries')
  OBVIOUS
<1>2. CutsTyped
  BY DEF TypeOK, CompactionOK, CutsTyped
<1>3. ASSUME NEW c \in compaction
      PROVE  c \in [by : {"run", "user"}, kept : 1 .. Len(entries'), covers : SUBSET (1 .. Len(entries'))]
  <2>1. c \in [by : {"run", "user"}, kept : 1 .. Len(entries), covers : SUBSET (1 .. Len(entries))]
    BY <1>2 DEF CutsTyped
  <2> QED BY <1>1, <2>1
<1> QED BY <1>2, <1>3 DEF CutsTyped

LEMMA CutsPrepared ==
    ASSUME StoreOK', NEW by \in {"run", "user"}, Prepare(by)
    PROVE  CutsTyped' /\ \E c : compaction' = {c} /\ c.by = by
<1>1. PICK prep \in Preparations(entries', leaf') :
         compaction' = {[by |-> by, kept |-> prep.kept, covers |-> prep.covers]}
  BY DEF Prepare
<1>2. prep.kept \in 1 .. Len(entries') /\ prep.covers \in SUBSET (1 .. Len(entries'))
  <2>1. WellFormed(entries') /\ leaf' \in 1 .. Len(entries')
    BY DEF StoreOK
  <2> QED BY <1>1, <2>1, PreparationsTyped
<1>3. [by |-> by, kept |-> prep.kept, covers |-> prep.covers].by = by
  OBVIOUS
<1>4. [by |-> by, kept |-> prep.kept, covers |-> prep.covers] \in
         [by : {"run", "user"}, kept : 1 .. Len(entries'), covers : SUBSET (1 .. Len(entries'))]
  BY <1>2
<1> QED BY <1>1, <1>3, <1>4 DEF CutsTyped

LEMMA ControlStep ==
    ASSUME TypeOK, [Next]_vars, StoreOK',
           Len(entries) \in Nat, Len(entries') \in Nat, Len(entries) <= Len(entries')
    PROVE  TypeOK'
<1>0. /\ RunTyped(run, Len(entries)) /\ cancelled \in BOOLEAN /\ (cancelled => Running)
      /\ CutsTyped /\ CountersOK /\ moving \subseteq 1 .. Len(entries)
      /\ run.at \in Held <=> \E c \in compaction : c.by = "run"
      /\ MaxQueue \in Nat /\ MaxCalls \in Nat /\ MaxRetries \in Nat
  BY LoopAssumption DEF TypeOK, RunOK, CompactionOK, RunTyped, CutsTyped, CountersOK, Held
<1>1. 0 .. Len(entries) \subseteq 0 .. Len(entries') /\ 1 .. Len(entries) \subseteq 1 .. Len(entries')
  OBVIOUS
<1>2. RunTyped(run, Len(entries'))
  BY <1>0, <1>1 DEF RunTyped
<1>3. moving' \subseteq moving => moving' \subseteq 1 .. Len(entries')
  BY <1>0, <1>1
<1> DEFINE Together == /\ run'.at \in Held <=> \E c \in compaction' : c.by = "run"
                       /\ RunTyped(run', Len(entries')) /\ CutsTyped' /\ CountersOK'
                       /\ cancelled' \in BOOLEAN /\ (cancelled' => run'.at # "idle")
                       /\ moving' \subseteq 1 .. Len(entries')
<1>4. ASSUME Together PROVE TypeOK'
  <2>1. RunOK'
    BY <1>4 DEF RunOK, RunTyped, Running
  <2>2. CompactionOK'
    BY <1>4 DEF CompactionOK, CutsTyped, Held
  <2> QED BY <1>4, <2>1, <2>2 DEF TypeOK, CountersOK
\* the run holds no compaction any more
<1>5. Release => CutsTyped' /\ ~\E c \in compaction' : c.by = "run"
  <2>1. SUFFICES ASSUME Release PROVE CutsTyped' /\ ~\E c \in compaction' : c.by = "run"
    OBVIOUS
  <2>2. compaction' \subseteq compaction /\ \A c \in compaction' : c.by = "user"
    BY <2>1 DEF Release, Foreign
  <2> QED BY <2>2, CutsStay
<1>6. UNCHANGED compaction => CutsTyped' /\ (run.at \in Held <=> \E c \in compaction' : c.by = "run")
  BY <1>0, CutsStay
<1>7. ASSUME NEW by \in {"run", "user"}, Prepare(by)
      PROVE  CutsTyped' /\ ((\E c \in compaction' : c.by = "run") <=> by = "run")
  BY <1>7, CutsPrepared
<1>8. UNCHANGED <<steering, followUps, accepted>> => CountersOK'
  BY <1>0 DEF CountersOK
<1>9. accepted \in 0 .. MaxQueue /\ steering \in 0 .. MaxQueue /\ followUps \in 0 .. MaxQueue
  BY <1>0 DEF CountersOK
<1>10. /\ run.calls \in {1 .. k : k \in 0 .. MaxCalls} /\ run.answer \in 0 .. Len(entries')
       /\ {} \in {1 .. k : k \in 0 .. MaxCalls}
  <2>1. run.calls \in {1 .. k : k \in 0 .. MaxCalls} /\ run.answer \in 0 .. Len(entries')
    BY <1>2 DEF RunTyped
  <2>2. 1 .. 0 = {} /\ 0 \in 0 .. MaxCalls
    BY <1>0
  <2> QED BY <2>1, <2>2
\* going on, or ending
<1>11. ASSUME run' \in {Asking, Idle}, Release, ~cancelled, UNCHANGED <<cancelled, moving>>, CountersOK'
       PROVE  Together
  <2>1. RunTyped(run', Len(entries')) /\ run'.at \notin Held
    BY <1>11, RestTyped
  <2>2. cancelled' = FALSE
    BY <1>0, <1>11
  <2> QED BY <1>3, <1>5, <1>11, <2>1, <2>2
<1>12. ASSUME NEW news, NEW calls \in {1 .. k : k \in 0 .. MaxCalls}, Fresh(entries, news),
              EndTurn(news, calls), ~cancelled, UNCHANGED <<cancelled, moving, accepted>>
       PROVE  Together
  <2>1. CASE Proceed(news, calls) /\ Release
    <3>1. run' \in {Asking, Idle} /\ CountersOK'
      BY <1>9, <1>12, <2>1, ProceedShape DEF CountersOK
    <3> QED BY <1>11, <1>12, <2>1, <3>1
  <2>2. CASE /\ Prepare("run") /\ UNCHANGED <<steering, followUps>>
             /\ run' = [Idle EXCEPT !.at = "compacting", !.calls = calls]
    <3>1. RunTyped(run', Len(entries')) /\ run'.at = "compacting"
      BY <1>10, <2>2, CompactingTyped
    <3>2. run'.at \in Held /\ run'.at # "idle"
      BY <3>1 DEF Held
    <3>3. cancelled' = FALSE
      BY <1>0, <1>12
    <3> QED BY <1>3, <1>7, <1>8, <1>12, <2>2, <3>1, <3>2, <3>3
  <2> QED BY <1>12, <2>1, <2>2 DEF EndTurn
<1>13. ASSUME NEW news, NEW calls \in {1 .. k : k \in 0 .. MaxCalls}, NEW answer \in 0 .. Len(entries'),
              StartTools(news, answer, calls), ~cancelled, UNCHANGED <<cancelled, moving, accepted>>
       PROVE  Together
  <2>1. PICK ordered \in BOOLEAN :
           run' = [Idle EXCEPT !.at = "tools", !.answer = answer, !.calls = calls,
                               !.todo = calls, !.ordered = ordered]
    BY <1>13 DEF StartTools
  <2>2. RunTyped(run', Len(entries')) /\ run'.at = "tools"
    BY <1>13, <2>1, ToolsTyped
  <2>3. run'.at \notin Held /\ run'.at # "idle"
    BY <2>2 DEF Held
  <2>4. Release /\ UNCHANGED <<steering, followUps>>
    BY <1>13 DEF StartTools
  <2>5. cancelled' = FALSE
    BY <1>0, <1>13
  <2> QED BY <1>3, <1>5, <1>8, <1>13, <2>2, <2>3, <2>4, <2>5
\* the actions of the run
<1>20. CASE Begin
  <2>1. CountersOK' /\ UNCHANGED <<compaction, moving, cancelled>>
    <3>1. accepted' \in 0 .. MaxQueue
      BY <1>0, <1>9, <1>20 DEF Begin
    <3> QED BY <1>9, <1>20, <3>1 DEF Begin, CountersOK
  <2>2. CASE Running
    <3>1. run' = run
      BY <1>20, <2>2 DEF Begin
    <3>2. Together
      BY <1>0, <1>2, <1>3, <1>6, <2>1, <3>1 DEF Running
    <3> QED BY <1>4, <3>2
  <2>3. CASE ~Running
    <3>1. run' = Asking
      BY <1>20, <2>3 DEF Begin
    <3>2. run.at \notin Held
      BY <2>3 DEF Running, Held
    <3>3. Together
      BY <1>0, <1>3, <1>6, <2>1, <2>3, <3>1, <3>2, RestTyped
    <3> QED BY <1>4, <3>3
  <2> QED BY <2>2, <2>3
<1>21. ASSUME NEW n \in 0 .. MaxCalls, Answered(n) PROVE TypeOK'
  <2>1. ~cancelled /\ UNCHANGED <<cancelled, moving, accepted>>
    BY <1>21 DEF Answered, Alive
  <2>2. CASE StartTools(<<Answer(1 .. n)>>, Len(entries) + 1, 1 .. n)
    <3>1. Len(entries) + 1 \in 0 .. Len(entries')
      <4>1. Write(<<Answer(1 .. n)>>) /\ n \in Nat
        BY <1>0, <2>2 DEF StartTools
      <4>2. Fresh(entries, <<Answer(1 .. n)>>) /\ Len(<<Answer(1 .. n)>>) = 1 /\ leaf \in 1 .. Len(entries)
        BY <4>1, NewsFresh, PartsTyped
      <4>3. Len(entries') = Len(entries) + Len(<<Answer(1 .. n)>>)
        BY <4>1, <4>2, WriteTyped DEF Write
      <4> QED BY <4>2, <4>3
    <3>2. 1 .. n \in {1 .. k : k \in 0 .. MaxCalls}
      OBVIOUS
    <3> QED BY <1>4, <1>13, <2>1, <2>2, <3>1, <3>2
  <2>3. CASE EndTurn(<<Answer({})>>, {})
    <3>1. Fresh(entries, <<Answer({})>>)
      BY NewsFresh
    <3> QED BY <1>4, <1>10, <1>12, <2>1, <2>3, <3>1
  <2> QED BY <1>21, <2>2, <2>3 DEF Answered
<1>22. ASSUME NEW n \in 0 .. MaxCalls, AnsweredOver(n) PROVE TypeOK'
  <2>1. ~cancelled /\ UNCHANGED <<cancelled, moving, accepted>>
    BY <1>22 DEF AnsweredOver, Alive
  <2>2. /\ Fresh(entries, <<Answer(1 .. n)>>) /\ Len(<<Answer(1 .. n)>>) = 1 /\ leaf \in 1 .. Len(entries)
        /\ Fresh(entries, <<Answer({})>>)
    <3>1. n \in Nat
      BY <1>0
    <3> QED BY <3>1, NewsFresh, PartsTyped
  <2>3. 1 .. n \in {1 .. k : k \in 0 .. MaxCalls}
    OBVIOUS
  <2>4. Write(<<Answer(1 .. n)>>) => Len(entries) + 1 \in 0 .. Len(entries')
    <3>1. SUFFICES ASSUME Write(<<Answer(1 .. n)>>) PROVE Len(entries) + 1 \in 0 .. Len(entries')
      OBVIOUS
    <3>2. Len(entries') = Len(entries) + Len(<<Answer(1 .. n)>>)
      BY <2>2, <3>1, WriteTyped DEF Write
    <3> QED BY <2>2, <3>2
  <2>5. CASE /\ Write(<<Answer(1 .. n)>>) /\ Prepare("run") /\ UNCHANGED <<steering, followUps>>
             /\ run' = [Idle EXCEPT !.at = "recovering", !.answer = Len(entries) + 1, !.calls = 1 .. n]
    <3>1. RunTyped(run', Len(entries')) /\ run'.at = "recovering"
      BY <2>3, <2>4, <2>5, RecoveringTyped
    <3>2. run'.at \in Held /\ run'.at # "idle"
      BY <3>1 DEF Held
    <3>3. Together
      BY <1>0, <1>3, <1>7, <1>8, <2>1, <2>5, <3>1, <3>2
    <3> QED BY <1>4, <3>3
  <2>6. CASE StartTools(<<Answer(1 .. n)>>, Len(entries) + 1, 1 .. n)
    <3>1. Write(<<Answer(1 .. n)>>)
      BY <2>6 DEF StartTools
    <3> QED BY <1>4, <1>13, <2>1, <2>3, <2>4, <2>6, <3>1
  <2>7. CASE Proceed(<<Answer({})>>, {}) /\ Release
    <3>1. run' \in {Asking, Idle} /\ CountersOK'
      BY <1>9, <2>1, <2>2, <2>7, ProceedShape DEF CountersOK
    <3> QED BY <1>4, <1>11, <2>1, <2>7, <3>1
  <2> QED BY <1>22, <2>5, <2>6, <2>7 DEF AnsweredOver
<1>23. ASSUME NEW transient \in BOOLEAN, NEW overflow \in BOOLEAN, Failed(transient, overflow)
       PROVE  TypeOK'
  <2>1. /\ run.at = "streaming" /\ ~cancelled /\ UNCHANGED <<cancelled, moving, accepted, steering, followUps>>
        /\ run.at \notin Held
    BY <1>23 DEF Failed, Alive, Held
  <2>2. CASE /\ run.tries < MaxRetries /\ UNCHANGED compaction
             /\ run' = [run EXCEPT !.at = "waiting", !.tries = @ + 1]
    <3>1. run.tries + 1 \in 0 .. MaxRetries
      BY <1>0, <2>2 DEF RunTyped
    <3>2. RunTyped(run', Len(entries')) /\ run'.at = "waiting"
      BY <1>2, <2>2, <3>1 DEF RunTyped, Places
    <3>3. Together
      BY <1>0, <1>3, <1>6, <1>8, <2>1, <2>2, <3>2 DEF Held
    <3> QED BY <1>4, <3>3
  <2>3. CASE Prepare("run") /\ run' = [Idle EXCEPT !.at = "recovering"]
    <3>1. RunTyped(run', Len(entries')) /\ run'.at = "recovering"
      BY <2>3, RestTyped
    <3>2. Together
      BY <1>0, <1>3, <1>7, <1>8, <2>1, <2>3, <3>1 DEF Held
    <3> QED BY <1>4, <3>2
  <2>4. CASE run' = Idle /\ UNCHANGED compaction
    <3>1. Together
      BY <1>0, <1>3, <1>6, <1>8, <2>1, <2>4, RestTyped
    <3> QED BY <1>4, <3>1
  <2> QED BY <1>23, <2>2, <2>3, <2>4 DEF Failed
<1>24. CASE Raised
  <2>1. /\ run.at \notin Held /\ ~cancelled /\ run' = Idle
        /\ UNCHANGED <<compaction, cancelled, moving, accepted, steering, followUps>>
    BY <1>24 DEF Raised, Alive, Held
  <2>2. Together
    BY <1>0, <1>3, <1>6, <1>8, <2>1, RestTyped
  <2> QED BY <1>4, <2>2
<1>25. CASE RetryDue
  <2>1. /\ run.at \notin Held /\ ~cancelled /\ run' = [run EXCEPT !.at = "streaming"]
        /\ UNCHANGED <<compaction, cancelled, moving, accepted, steering, followUps>>
    BY <1>25 DEF RetryDue, Alive, Held
  <2>2. RunTyped(run', Len(entries')) /\ run'.at = "streaming"
    BY <1>2, <2>1 DEF RunTyped, Places
  <2>3. Together
    BY <1>0, <1>3, <1>6, <1>8, <2>1, <2>2 DEF Held
  <2> QED BY <1>4, <2>3
<1>26. ASSUME NEW k \in 1 .. MaxCalls, ToolEnds(k) PROVE TypeOK'
  <2> DEFINE rest == run.todo \ {k}
             news == IF run.ordered THEN <<Result(run.answer, k)>>
                     ELSE IF rest = {} THEN [i \in run.calls |-> Result(run.answer, i)]
                     ELSE <<>>
  <2>1. /\ run.at = "tools" /\ ~cancelled /\ UNCHANGED <<cancelled, moving, accepted>>
        /\ \/ run' = [run EXCEPT !.todo = rest] /\ UNCHANGED <<steering, followUps, compaction>>
           \/ EndTurn(news, run.calls)
    BY <1>26 DEF ToolEnds, Alive
  <2>2. CASE run' = [run EXCEPT !.todo = rest] /\ UNCHANGED <<steering, followUps, compaction>>
    <3>1. RunTyped(run', Len(entries')) /\ run'.at = "tools"
      BY <1>2, <2>1, <2>2 DEF RunTyped, Places
    <3>2. Together
      BY <1>0, <1>3, <1>6, <1>8, <2>1, <2>2, <3>1 DEF Held
    <3> QED BY <1>4, <3>2
  <2>3. CASE EndTurn(news, run.calls)
    <3>1. Fresh(entries, news)
      <4>1. k \in Nat
        OBVIOUS
      <4> QED BY <4>1, ToolNewsFresh
    <3> HIDE DEF news
    <3> QED BY <1>4, <1>10, <1>12, <2>1, <2>3, <3>1
  <2> QED BY <2>1, <2>2, <2>3
<1>27. CASE Compacted
  <2>1. PICK c \in compaction : Proceed(<<Summary(c)>>, run.calls)
    BY <1>27 DEF Compacted
  <2>2. Release /\ ~cancelled /\ UNCHANGED <<cancelled, moving, accepted>>
    BY <1>27 DEF Compacted, Alive
  <2>3. Fresh(entries, <<Summary(c)>>)
    BY NewsFresh
  <2>4. run' \in {Asking, Idle} /\ CountersOK'
    BY <1>9, <2>1, <2>2, <2>3, ProceedShape DEF CountersOK
  <2> QED BY <1>4, <1>11, <2>2, <2>4
<1>28. CASE NotCompacted
  <2>1. /\ Proceed(<<>>, run.calls) /\ Release /\ ~cancelled
        /\ UNCHANGED <<cancelled, moving, accepted>>
    BY <1>28 DEF NotCompacted, Alive
  <2>2. Fresh(entries, <<>>)
    BY NewsFresh
  <2>3. run' \in {Asking, Idle} /\ CountersOK'
    BY <1>9, <2>1, <2>2, ProceedShape DEF CountersOK
  <2> QED BY <1>4, <1>11, <2>1, <2>3
<1>29. CASE Recovered
  <2>1. /\ Release /\ ~cancelled /\ run' = [Asking EXCEPT !.second = TRUE]
        /\ UNCHANGED <<cancelled, moving, accepted, steering, followUps>>
    BY <1>29 DEF Recovered, Alive
  <2>2. Together
    BY <1>0, <1>3, <1>5, <1>8, <2>1, RestTyped DEF Held
  <2> QED BY <1>4, <2>2
<1>30. CASE NotRecovered
  <2>1. ~cancelled /\ UNCHANGED <<cancelled, moving, accepted>>
    BY <1>30 DEF NotRecovered, Alive
  <2>2. CASE run' = Idle /\ Release /\ UNCHANGED <<steering, followUps>>
    <3>1. CountersOK'
      BY <1>8, <2>1, <2>2
    <3> QED BY <1>4, <1>11, <2>1, <2>2, <3>1
  <2>3. CASE StartTools(<<>>, run.answer, run.calls)
    BY <1>4, <1>10, <1>13, <2>1, <2>3
  <2>4. CASE EndTurn(<<>>, {})
    <3>1. Fresh(entries, <<>>)
      BY NewsFresh
    <3> QED BY <1>4, <1>10, <1>12, <2>1, <2>4, <3>1
  <2> QED BY <1>30, <2>2, <2>3, <2>4 DEF NotRecovered
<1>31. CASE Stop
  <2>1. /\ Release /\ run' = Idle /\ cancelled' = FALSE
        /\ UNCHANGED <<moving, accepted, steering, followUps>>
    BY <1>31 DEF Stop
  <2>2. Together
    BY <1>3, <1>5, <1>8, <2>1, RestTyped
  <2> QED BY <1>4, <2>2
\* the commands
<1>40. CASE \/ UNCHANGED <<accepted, run, cancelled, steering, followUps, compaction, moving>>
            \/ MoveFailed
            \/ \E labels \in Labels : MoveDone(labels)
  <2>1. UNCHANGED <<accepted, run, cancelled, steering, followUps, compaction>> /\ moving' \subseteq moving
    BY <1>40 DEF MoveFailed, MoveDone
  <2>2. Together
    BY <1>0, <1>2, <1>3, <1>6, <1>8, <2>1 DEF Running
  <2> QED BY <1>4, <2>2
<1>41. CASE Set \/ AppendCustom \/ UNCHANGED vars
            \/ \E target \in 1 .. Len(entries) : \E labels \in Labels : Navigate(target, labels)
  BY <1>40, <1>41 DEF Set, AppendCustom, Navigate, vars
<1>42. CASE Prompt \/ Steer \/ FollowUp
  <2>1. UNCHANGED <<run, cancelled, compaction, moving>>
    BY <1>42 DEF Prompt, Steer, FollowUp
  <2>2. CountersOK'
    <3>1. CASE Prompt
      <4>1. accepted' \in 0 .. MaxQueue
        BY <1>0, <1>9, <3>1 DEF Prompt
      <4> QED BY <1>9, <3>1, <4>1 DEF Prompt, CountersOK
    <3>2. CASE Steer
      <4>1. steering' \in 0 .. MaxQueue
        BY <1>0, <1>9, <3>2 DEF Steer
      <4> QED BY <1>9, <3>2, <4>1 DEF Steer, CountersOK
    <3>3. CASE FollowUp
      <4>1. followUps' \in 0 .. MaxQueue
        BY <1>0, <1>9, <3>3 DEF FollowUp
      <4> QED BY <1>9, <3>3, <4>1 DEF FollowUp, CountersOK
    <3> QED BY <1>42, <3>1, <3>2, <3>3
  <2>3. Together
    BY <1>0, <1>2, <1>3, <1>6, <2>1, <2>2 DEF Running
  <2> QED BY <1>4, <2>3
<1>43. CASE Abort
  <2>1. /\ run.at # "idle" /\ cancelled' = TRUE
        /\ UNCHANGED <<accepted, run, steering, followUps, compaction, moving>>
    BY <1>43 DEF Abort, Running
  <2>2. Together
    BY <1>2, <1>3, <1>6, <1>8, <2>1
  <2> QED BY <1>4, <2>2
<1>44. CASE Compact
  <2>1. /\ compaction = {} /\ Prepare("user")
        /\ UNCHANGED <<accepted, run, cancelled, steering, followUps, moving>>
    BY <1>44 DEF Compact
  <2>2. run.at \notin Held
    BY <1>0, <2>1
  <2>3. Together
    BY <1>0, <1>2, <1>3, <1>7, <1>8, <2>1, <2>2 DEF Running
  <2> QED BY <1>4, <2>3
<1>45. CASE CompactDone \/ CompactFailed
  <2>1. /\ Foreign # {} /\ compaction' = {}
        /\ UNCHANGED <<accepted, run, cancelled, steering, followUps, moving>>
    BY <1>45 DEF CompactDone, CompactFailed
  <2>2. run.at \notin Held
    BY <1>0, <2>1 DEF Foreign, CutsTyped
  <2>3. CutsTyped'
    BY <2>1, CutsStay
  <2>4. Together
    BY <1>0, <1>2, <1>3, <1>8, <2>1, <2>2, <2>3 DEF Running
  <2> QED BY <1>4, <2>4
<1>46. CASE AbortCompaction
  <2>1. UNCHANGED <<accepted, run, steering, followUps, moving>>
    BY <1>46 DEF AbortCompaction
  <2>2. CASE Foreign = {}
    <3>1. UNCHANGED compaction /\ cancelled' = TRUE /\ compaction # {}
      BY <1>46, <2>2 DEF AbortCompaction
    <3>2. run.at \in Held
      <4>1. PICK c \in compaction : c.by = "run"
        BY <1>0, <2>2, <3>1 DEF Foreign, CutsTyped
      <4> QED BY <1>0, <4>1
    <3>3. Together
      BY <1>2, <1>3, <1>6, <1>8, <2>1, <3>1, <3>2 DEF Held
    <3> QED BY <1>4, <3>3
  <2>3. CASE Foreign # {}
    <3>1. compaction' = {} /\ cancelled' = cancelled
      BY <1>0, <1>46, <2>3 DEF AbortCompaction
    <3>2. run.at \notin Held
      BY <1>0, <2>3 DEF Foreign, CutsTyped
    <3>3. CutsTyped'
      BY <3>1, CutsStay
    <3>4. Together
      BY <1>0, <1>2, <1>3, <1>8, <2>1, <3>1, <3>2, <3>3 DEF Running
    <3> QED BY <1>4, <3>4
  <2> QED BY <2>2, <2>3
<1>47. ASSUME NEW target \in 1 .. Len(entries), NavigateSummarised(target) PROVE TypeOK'
  <2>1. /\ moving' = {Landing(target)}
        /\ UNCHANGED <<accepted, run, cancelled, steering, followUps, compaction>>
    BY <1>47 DEF NavigateSummarised
  <2>2. Landing(target) \in 1 .. Len(entries')
    BY <1>1, LandingTyped
  <2>3. Together
    BY <1>0, <1>2, <1>6, <1>8, <2>1, <2>2 DEF Running
  <2> QED BY <1>4, <2>3
<1>48. CASE Reopen
  <2>1. /\ accepted' = 0 /\ run' = Idle /\ cancelled' = FALSE
        /\ steering' = 0 /\ followUps' = 0 /\ compaction' = {} /\ moving' = {}
    BY <1>48 DEF Reopen, Closed
  <2>2. CutsTyped' /\ CountersOK'
    BY <1>0, <2>1 DEF CutsTyped, CountersOK
  <2>3. Together
    BY <2>1, <2>2, RestTyped
  <2> QED BY <1>4, <2>3
<1> QED BY <1>20, <1>21, <1>22, <1>23, <1>24, <1>25, <1>26, <1>27, <1>28, <1>29, <1>30, <1>31,
           <1>40, <1>41, <1>42, <1>43, <1>44, <1>45, <1>46, <1>47, <1>48 DEF Next, RunStep, Command
-----------------------------------------------------------------------------
(* The live list follows the file.                                         *)

LEMMA FollowStep ==
    ASSUME TypeOK, ContextFollowsStore, StoreChange
    PROVE  ContextFollowsStore'
<1> DEFINE new == Len(entries) + 1 .. Len(entries')
           old == Context(entries, leaf)
<1>0. /\ WellFormed(entries) /\ leaf \in 1 .. Len(entries) /\ Len(entries) \in Nat
      /\ old \subseteq 1 .. Len(entries)
      /\ messages \subseteq old
      /\ \A j \in old \ messages : entries[j].kind = "failed" \/ j \in spilled
  <2>1. WellFormed(entries) /\ leaf \in 1 .. Len(entries)
    BY DEF TypeOK, StoreOK
  <2> QED BY <2>1, ContextTyped DEF WellFormed, ContextFollowsStore
<1>1. CASE Still
  BY <1>0, <1>1 DEF Still, ContextFollowsStore
<1>2. ASSUME NEW news, Fresh(entries, news), Write(news),
             \A i \in 1 .. Len(news) : news[i].kind # "compaction"
      PROVE  /\ Context(entries', leaf') = old \cup {j \in new : entries'[j].kind # "setting"}
             /\ \A i \in 1 .. Len(entries) : entries'[i] = entries[i]
             /\ \A i \in 1 .. Len(news) : entries'[Len(entries) + i].kind = news[i].kind
             /\ Len(entries') = Len(entries) + Len(news) /\ Len(news) \in Nat
  <2>1. /\ Len(entries') = Len(entries) + Len(news) /\ leaf' = Tip(entries, leaf, news)
        /\ \A i \in 1 .. Len(entries) : entries'[i] = entries[i]
        /\ \A i \in 1 .. Len(news) : entries'[Len(entries) + i].kind = news[i].kind
    BY <1>0, <1>2, WriteTyped DEF Write
  <2>2. entries' = Extend(entries, leaf, news)
    BY <1>2 DEF Write, WriteAt
  <2>3. Context(Extend(entries, leaf, news), Tip(entries, leaf, news)) = old \cup
           {j \in Len(entries) + 1 .. Len(Extend(entries, leaf, news)) :
              Extend(entries, leaf, news)[j].kind # "setting"}
    BY <1>0, <1>2, ContextGrows
  <2>4. Context(entries', leaf') = old \cup {j \in new : entries'[j].kind # "setting"}
    BY <2>1, <2>2, <2>3
  <2>5. Len(news) \in Nat
    BY <1>2 DEF Fresh
  <2> QED BY <2>1, <2>4, <2>5
<1>3. CASE Grown
  <2>1. PICK news, lost :
           /\ Fresh(entries, news) /\ Plain(news) /\ Write(news) /\ Keep(lost)
           /\ spilled \subseteq spilled'
           /\ \A j \in lost : j \in 1 .. Len(entries') => entries'[j].kind = "failed" \/ j \in spilled'
    BY <1>3 DEF Grown
  <2>2. \A i \in 1 .. Len(news) : news[i].kind # "compaction" /\ news[i].kind # "setting"
    BY <2>1 DEF Plain
  <2>3. /\ Context(entries', leaf') = old \cup {j \in new : entries'[j].kind # "setting"}
        /\ \A i \in 1 .. Len(entries) : entries'[i] = entries[i]
        /\ \A i \in 1 .. Len(news) : entries'[Len(entries) + i].kind = news[i].kind
        /\ Len(entries') = Len(entries) + Len(news) /\ Len(news) \in Nat
    BY <1>2, <2>1, <2>2
  <2>4. ASSUME NEW j \in new PROVE entries'[j].kind # "setting" /\ j \in 1 .. Len(entries')
    <3>1. j - Len(entries) \in 1 .. Len(news) /\ Len(entries) + (j - Len(entries)) = j
          /\ j \in 1 .. Len(entries')
      BY <1>0, <2>3
    <3>2. entries'[j].kind = news[j - Len(entries)].kind
      BY <2>3, <3>1
    <3> QED BY <2>2, <3>1, <3>2
  <2>5. Context(entries', leaf') = old \cup new
    BY <2>3, <2>4
  <2>6. messages' = messages \cup (new \ lost)
    BY <2>1 DEF Keep
  <2>7. ASSUME NEW j \in Context(entries', leaf') \ messages'
        PROVE  entries'[j].kind = "failed" \/ j \in spilled'
    <3>1. CASE j \in old
      <4>1. j \in old \ messages /\ entries'[j] = entries[j]
        BY <1>0, <2>3, <2>6, <2>7, <3>1
      <4> QED BY <1>0, <2>1, <4>1
    <3>2. CASE j \in new
      BY <2>1, <2>4, <2>6, <2>7, <3>2
    <3> QED BY <2>5, <2>7, <3>1, <3>2
  <2>8. messages' \subseteq Context(entries', leaf')
    BY <1>0, <2>5, <2>6
  <2> QED BY <2>7, <2>8 DEF ContextFollowsStore
<1>4. CASE Rebuilt
  <2>1. messages' = Context(entries', leaf')
    BY <1>4 DEF Rebuilt, Rebuild
  <2> QED BY <2>1 DEF ContextFollowsStore
<1>5. CASE Filtered
  <2>1. messages' = Context(entries', leaf') \ Of(entries', "failed", Context(entries', leaf'))
    BY <1>5 DEF Filtered
  <2> QED BY <2>1 DEF ContextFollowsStore, Of
<1>6. CASE Annotated
  <2>1. Fresh(entries, <<Setting>>) /\ Len(<<Setting>>) = 1 /\ <<Setting>>[1].kind = "setting"
    BY NewsFresh, BlankTyped DEF Setting, Kinds
  <2>2. PICK news : /\ Fresh(entries, news) /\ Write(news) /\ Len(news) = 1
                    /\ news[1].kind = "setting" /\ UNCHANGED <<messages, spilled>>
    BY <1>6, <2>1 DEF Annotated
  <2>3. /\ Context(entries', leaf') = old \cup {j \in new : entries'[j].kind # "setting"}
        /\ \A i \in 1 .. Len(entries) : entries'[i] = entries[i]
        /\ entries'[Len(entries) + 1].kind = "setting" /\ Len(entries') = Len(entries) + 1
    <3>1. \A i \in 1 .. Len(news) : news[i].kind # "compaction" /\ i = 1
      BY <2>2
    <3>2. /\ Context(entries', leaf') = old \cup {j \in new : entries'[j].kind # "setting"}
          /\ \A i \in 1 .. Len(entries) : entries'[i] = entries[i]
          /\ \A i \in 1 .. Len(news) : entries'[Len(entries) + i].kind = news[i].kind
          /\ Len(entries') = Len(entries) + Len(news)
      BY <1>2, <2>2, <3>1
    <3>3. 1 \in 1 .. Len(news)
      BY <2>2
    <3> HIDE DEF new, old
    <3>4. entries'[Len(entries) + 1].kind = news[1].kind
      BY <3>2, <3>3
    <3> QED BY <2>2, <3>2, <3>4
  <2>4. new = {Len(entries) + 1}
    BY <1>0, <2>3
  <2>5. Context(entries', leaf') = old
    BY <2>3, <2>4
  <2> QED BY <1>0, <2>2, <2>3, <2>5 DEF ContextFollowsStore
<1> QED BY <1>1, <1>3, <1>4, <1>5, <1>6 DEF StoreChange

LEMMA InitTyped == Init => TypeOK /\ ContextFollowsStore
<1> SUFFICES ASSUME Init PROVE TypeOK /\ ContextFollowsStore
  OBVIOUS
<1> DEFINE first == [Setting EXCEPT !.path = {1}]
<1>1. /\ first \in Entry /\ first.kind = "setting" /\ first.path = {1} /\ first.covers = {}
  BY DEF Setting, Blank, Entry, Kinds
<1>2. entries = <<first>> /\ leaf = 1
  BY DEF Init
<1> HIDE DEF first
<1>3. Len(entries) = 1 /\ entries[1] = first /\ entries \in Seq(Entry)
  BY <1>1, <1>2
<1>4. WellFormed(entries)
  BY <1>1, <1>3 DEF WellFormed, Path
<1>5. StoreOK
  BY <1>2, <1>3, <1>4, LoopAssumption DEF Init, StoreOK
<1>6. RunOK
  <2>1. RunTyped(run, Len(entries)) /\ cancelled = FALSE
    BY <1>3, RestTyped DEF Init
  <2> QED BY <2>1 DEF RunOK, RunTyped
<1>7. CompactionOK
  <2>1. compaction = {} /\ run.at = "idle"
    BY RestTyped DEF Init
  <2> QED BY <2>1 DEF CompactionOK
<1>8. TypeOK
  BY <1>3, <1>5, <1>6, <1>7, LoopAssumption DEF Init, TypeOK
<1>9. Context(entries, leaf) = {}
  BY <1>1, <1>2, <1>3 DEF Context, Speaking, Of, Path
<1> QED BY <1>8, <1>9 DEF Init, ContextFollowsStore

\* A session of the Python server is well formed, whatever is run, compacted,
\* moved, aborted or opened again: the file is a tree whose branches are what a
\* walk along the parents finds, and at most one compaction is under way, which
\* the run holds exactly while it waits for one.
THEOREM LoopTypeCorrect == Spec => []TypeOK
<1>1. TypeOK /\ [Next]_vars => TypeOK'
  <2> SUFFICES ASSUME TypeOK, [Next]_vars PROVE TypeOK'
    OBVIOUS
  <2>1. StoreChange
    BY StoreStep
  <2>2. StoreOK' /\ Len(entries) \in Nat /\ Len(entries') \in Nat /\ Len(entries) <= Len(entries')
    BY <2>1, StoreTyped
  <2> QED BY <2>2, ControlStep
<1> QED BY <1>1, InitTyped, PTL DEF Spec

\* What the model is shown is what the file says it is shown, but for failed answers
\* and the answers an overflow took out (_append_message keeps the list and the file in
\* step, every move and summary rebuilds the one from the other).
THEOREM ContextIsStored == Spec => []ContextFollowsStore
<1>1. TypeOK /\ ContextFollowsStore /\ [Next]_vars => ContextFollowsStore'
  BY StoreStep, FollowStep
<1> QED BY <1>1, InitTyped, LoopTypeCorrect, PTL DEF Spec
-----------------------------------------------------------------------------
(* Nothing is forgotten and no result is parted from its call, if clients  *)
(* are calm.  What the file must satisfy for that: the branch of an entry  *)
(* of a branch is the part before it (Nested); a summary keeps the branch  *)
(* from the start of a turn on and stands for what is said before it       *)
(* (CutsRight); between a call and its result no turn starts               *)
(* (ResultsJoined).                                                        *)

Nested(tree) ==
    \A i \in 1 .. Len(tree) : \A c \in Path(tree, i) :
       Path(tree, c) = {j \in Path(tree, i) : j <= c}

\* A summary with kept and covers may be written at the end of path.
Cuts(tree, path, kept, covers) ==
    /\ kept \in path /\ TurnStart(tree, kept)
    /\ \A j \in Speaking(tree, path) : j < kept /\ tree[j].kind # "failed" => j \in covers

CutsRight(tree) ==
    \A c \in 1 .. Len(tree) :
       tree[c].kind = "compaction" => Cuts(tree, Path(tree, c), tree[c].kept, tree[c].covers)

\* A result of the answer a may be written at the end of path.
Unparted(tree, a, path) ==
    /\ a \in path /\ tree[a].kind = "answer"
    /\ \A k \in path : a < k => ~TurnStart(tree, k)

ResultsJoined(tree) ==
    \A j \in 1 .. Len(tree) :
       tree[j].kind = "result" => Unparted(tree, tree[j].of, Path(tree, j))

Sound(tree) == Nested(tree) /\ CutsRight(tree) /\ ResultsJoined(tree)

\* The compaction under way was prepared for the branch of the leaf, or for a
\* part of it.
PendingRight == \A c \in compaction : Cuts(entries, Path(entries, leaf), c.kept, c.covers)

\* The answer in hand is on the branch of the leaf, and no turn started since.
InHand ==
    /\ run.at = "tools" => run.answer # 0
    /\ run.answer # 0 => /\ run.at \in {"tools", "recovering"}
                         /\ Unparted(entries, run.answer, Path(entries, leaf))

HistoryInv == Sound(entries) /\ PendingRight /\ InHand /\ (moving # {} => Quiet)

\* A path grows by entries that come after all of it.
LEMMA CutsGrow ==
    ASSUME NEW tree, NEW new, NEW n \in Nat, NEW path \in SUBSET (1 .. n),
           \A i \in 1 .. n : new[i] = tree[i],
           NEW more, \A j \in more : j \in Nat /\ n < j,
           NEW kept, NEW covers, Cuts(tree, path, kept, covers)
    PROVE  Cuts(new, path \cup more, kept, covers)
<1>1. kept \in path /\ TurnStart(tree, kept)
      /\ \A j \in Speaking(tree, path) : j < kept /\ tree[j].kind # "failed" => j \in covers
  BY DEF Cuts
<1>2. kept \in 1 .. n /\ TurnStart(new, kept)
  BY <1>1 DEF TurnStart
<1>3. ASSUME NEW j \in Speaking(new, path \cup more), j < kept, new[j].kind # "failed"
      PROVE  j \in covers
  <2>1. j \in path \cup more /\ new[j].kind # "setting"
    BY <1>3 DEF Speaking, Of
  <2>2. j \in path
    BY <1>2, <1>3, <2>1
  <2>3. new[j] = tree[j]
    BY <2>2
  <2> QED BY <1>1, <1>3, <2>1, <2>2, <2>3 DEF Speaking, Of
<1> QED BY <1>1, <1>2, <1>3 DEF Cuts

LEMMA UnpartedGrow ==
    ASSUME NEW tree, NEW new, NEW n \in Nat, NEW path \in SUBSET (1 .. n),
           \A i \in 1 .. n : new[i] = tree[i],
           NEW more, \A j \in more : ~TurnStart(new, j),
           NEW a, Unparted(tree, a, path)
    PROVE  Unparted(new, a, path \cup more)
BY DEF Unparted, TurnStart

\* What makes news fit under the entry place: a summary was prepared for its branch,
\* a result has its answer on it, and no turn starts before a result is written.
Quietly(news, n) == \A i \in 1 .. n : news[i].kind \notin {"user", "custom", "branch"}

Fits(tree, place, news) ==
    \A i \in 1 .. Len(news) :
       /\ news[i].kind = "compaction" => Cuts(tree, Path(tree, place), news[i].kept, news[i].covers)
       /\ news[i].kind = "result" => Unparted(tree, news[i].of, Path(tree, place)) /\ Quietly(news, i)
\* A file stays sound when what fits is written.
LEMMA ExtendSound ==
    ASSUME NEW tree, WellFormed(tree), Sound(tree), NEW place \in 1 .. Len(tree),
           NEW news, Fresh(tree, news), Fits(tree, place, news)
    PROVE  Sound(Extend(tree, place, news))
<1> DEFINE new == Extend(tree, place, news)
           n == Len(tree)
           path == Path(tree, place)
           more(k) == n + 1 .. n + k
<1>1. n \in Nat /\ Len(news) \in Nat
  BY DEF WellFormed, Fresh
<1>2. /\ Len(new) = n + Len(news)
      /\ \A i \in 1 .. n : new[i] = tree[i]
      /\ \A i \in 1 .. Len(news) :
            /\ new[n + i] = Placed(tree, place, news, i)
            /\ new[n + i].kind = news[i].kind
            /\ new[n + i].covers = news[i].covers
            /\ Path(new, n + i) = path \cup more(i)
  <2>1. /\ Len(new) = n + Len(news)
        /\ \A i \in 1 .. n : new[i] = tree[i]
    BY ExtendShape
  <2>2. ASSUME NEW i \in 1 .. Len(news)
        PROVE  /\ new[n + i] = Placed(tree, place, news, i)
               /\ new[n + i].kind = news[i].kind
               /\ new[n + i].covers = news[i].covers
               /\ Path(new, n + i) = path \cup more(i)
    BY ExtendShape
  <2> QED BY <2>1, <2>2
<1>3. \A i \in 1 .. Len(news) : new[n + i].kept = news[i].kept /\ new[n + i].of = news[i].of
  <2> TAKE i \in 1 .. Len(news)
  <2>1. news[i] \in Entry
    BY DEF Fresh
  <2>2. Placed(tree, place, news, i).kept = news[i].kept /\ Placed(tree, place, news, i).of = news[i].of
    BY <2>1 DEF Placed, Entry
  <2> QED BY <1>2, <2>2
<1> HIDE DEF new
<1>4. /\ path \subseteq 1 .. n
      /\ \A i \in 1 .. n : Path(tree, i) \subseteq 1 .. i /\ Path(tree, i) \subseteq 1 .. n
  <2>1. \A i \in 1 .. n : Path(tree, i) \subseteq 1 .. i
    BY PathBounds
  <2> QED BY <1>1, <2>1
<1>5. \A i \in 1 .. n : Path(new, i) = Path(tree, i)
  BY <1>2 DEF Path
<1>6. \A k \in Nat : \A j \in more(k) : j \in Nat /\ n < j
  BY <1>1
<1>7. \A i \in 1 .. Len(new) : i \in 1 .. n \/ \E k \in 1 .. Len(news) : i = n + k
  <2> TAKE i \in 1 .. Len(new)
  <2>1. CASE i <= n
    BY <1>1, <2>1
  <2>2. CASE ~(i <= n)
    <3>1. i - n \in 1 .. Len(news) /\ i = n + (i - n)
      BY <1>1, <1>2, <2>2
    <3> QED BY <3>1
  <2> QED BY <2>1, <2>2
<1> HIDE DEF n, path
<1>8. Nested(new)
  <2>1. ASSUME NEW i \in 1 .. n, NEW c \in Path(new, i)
        PROVE  Path(new, c) = {j \in Path(new, i) : j <= c}
    <3>1. c \in Path(tree, i) /\ c \in 1 .. n
      BY <1>4, <1>5, <2>1
    <3>2. Path(tree, c) = {j \in Path(tree, i) : j <= c}
      BY <3>1 DEF Sound, Nested, n
    <3> QED BY <1>5, <3>1, <3>2
  <2>2. ASSUME NEW k \in 1 .. Len(news), NEW c \in Path(new, n + k)
        PROVE  Path(new, c) = {j \in Path(new, n + k) : j <= c}
    <3>1. Path(new, n + k) = path \cup more(k)
      BY <1>2
    <3>2. CASE c \in path
      <4>1. Path(tree, c) = {j \in path : j <= c}
        BY <3>2 DEF Sound, Nested, n, path
      <4>2. c \in 1 .. n
        BY <1>4, <3>2
      <4>3. \A j \in more(k) : ~(j <= c)
        BY <1>1, <4>2
      <4> QED BY <1>5, <3>1, <4>1, <4>2, <4>3
    <3>3. CASE c \in more(k)
      <4>1. PICK m \in 1 .. Len(news) : c = n + m /\ m <= k
        <5>1. c - n \in 1 .. Len(news) /\ c = n + (c - n) /\ c - n <= k
          BY <1>1, <3>3
        <5> QED BY <5>1
      <4>2. Path(new, c) = path \cup more(m)
        BY <1>2, <4>1
      <4>3. \A j \in path : j <= c
        BY <1>1, <1>4, <4>1
      <4>4. more(m) = {j \in more(k) : j <= c}
        BY <1>1, <4>1
      <4> HIDE DEF more
      <4> QED BY <3>1, <4>2, <4>3, <4>4
    <3> QED BY <2>2, <3>1, <3>2, <3>3
  <2> QED BY <1>7, <2>1, <2>2 DEF Nested
<1>9. CutsRight(new)
  <2>1. ASSUME NEW i \in 1 .. n, new[i].kind = "compaction"
        PROVE  Cuts(new, Path(new, i), new[i].kept, new[i].covers)
    <3>1. Cuts(tree, Path(tree, i), tree[i].kept, tree[i].covers)
      BY <1>2, <2>1 DEF Sound, CutsRight, n
    <3>2. Cuts(new, Path(tree, i) \cup {}, tree[i].kept, tree[i].covers)
      BY <1>1, <1>2, <1>4, <3>1, CutsGrow
    <3>3. Path(tree, i) \cup {} = Path(new, i) /\ new[i] = tree[i]
      BY <1>2, <1>5
    <3> QED BY <3>2, <3>3
  <2>2. ASSUME NEW k \in 1 .. Len(news), new[n + k].kind = "compaction"
        PROVE  Cuts(new, Path(new, n + k), new[n + k].kept, new[n + k].covers)
    <3>1. Cuts(tree, path, news[k].kept, news[k].covers)
      BY <1>2, <2>2 DEF Fits, path
    <3>2. Cuts(new, path \cup more(k), news[k].kept, news[k].covers)
      <4>1. \A j \in more(k) : j \in Nat /\ n < j
        BY <1>1, <1>6
      <4> HIDE DEF more
      <4> QED BY <1>1, <1>2, <1>4, <3>1, <4>1, CutsGrow
    <3> QED BY <1>2, <1>3, <3>2
  <2> QED BY <1>7, <2>1, <2>2 DEF CutsRight
<1>10. ResultsJoined(new)
  <2>1. ASSUME NEW i \in 1 .. n, new[i].kind = "result"
        PROVE  Unparted(new, new[i].of, Path(new, i))
    <3>1. Unparted(tree, tree[i].of, Path(tree, i))
      BY <1>2, <2>1 DEF Sound, ResultsJoined, n
    <3>2. Unparted(new, tree[i].of, Path(tree, i) \cup {})
      BY <1>1, <1>2, <1>4, <3>1, UnpartedGrow
    <3>3. Path(tree, i) \cup {} = Path(new, i) /\ new[i] = tree[i]
      BY <1>2, <1>5
    <3> QED BY <3>2, <3>3
  <2>2. ASSUME NEW k \in 1 .. Len(news), new[n + k].kind = "result"
        PROVE  Unparted(new, new[n + k].of, Path(new, n + k))
    <3>1. Unparted(tree, news[k].of, path) /\ Quietly(news, k)
      BY <1>2, <2>2 DEF Fits, path
    <3>2. \A j \in more(k) : ~TurnStart(new, j)
      <4> TAKE j \in more(k)
      <4>1. j - n \in 1 .. k /\ j - n \in 1 .. Len(news) /\ j = n + (j - n)
        BY <1>1
      <4>2. news[j - n].kind \notin {"user", "custom", "branch"}
        BY <3>1, <4>1 DEF Quietly
      <4>3. new[n + (j - n)].kind = news[j - n].kind
        BY <1>2, <4>1
      <4>4. new[j].kind = news[j - n].kind
        BY <4>1, <4>3
      <4> QED BY <4>2, <4>4 DEF TurnStart
    <3>3. Unparted(new, news[k].of, path \cup more(k))
      <4> HIDE DEF more
      <4> QED BY <1>1, <1>2, <1>4, <3>1, <3>2, UnpartedGrow
    <3> QED BY <1>2, <1>3, <3>3
  <2> QED BY <1>7, <2>1, <2>2 DEF ResultsJoined
<1> QED BY <1>8, <1>9, <1>10 DEF new, Sound

\* What a summary begins with keeps is on the branch, before the summary.
LEMMA CutShape ==
    ASSUME NEW tree, WellFormed(tree), Sound(tree), NEW i \in 1 .. Len(tree),
           NEW c \in LastCut(tree, i)
    PROVE  /\ c \in 1 .. Len(tree) /\ c \in Path(tree, i)
           /\ Path(tree, c) = {j \in Path(tree, i) : j <= c}
           /\ Cuts(tree, Path(tree, c), tree[c].kept, tree[c].covers)
           /\ tree[c].kept \in Path(tree, i) /\ tree[c].kept \in Nat /\ tree[c].kept <= c
<1>1. Path(tree, i) \subseteq 1 .. i /\ Len(tree) \in Nat
  BY PathBounds DEF WellFormed
<1>2. c \in Path(tree, i) /\ tree[c].kind = "compaction" /\ c \in 1 .. Len(tree)
  BY <1>1 DEF LastCut, Of
<1>3. Path(tree, c) = {j \in Path(tree, i) : j <= c}
  BY <1>2 DEF Sound, Nested
<1>4. Cuts(tree, Path(tree, c), tree[c].kept, tree[c].covers)
  BY <1>2 DEF Sound, CutsRight
<1>5. tree[c].kept \in Path(tree, c)
  BY <1>4 DEF Cuts
<1> QED BY <1>1, <1>2, <1>3, <1>4, <1>5

\* prepare_compaction: nothing said on the branch is left out of the new summary.
LEMMA PreparedRight ==
    ASSUME NEW tree, WellFormed(tree), Sound(tree), NEW place \in 1 .. Len(tree),
           NEW prep \in Preparations(tree, place)
    PROVE  Cuts(tree, Path(tree, place), prep.kept, prep.covers)
<1> DEFINE path == Path(tree, place)
           before == UNION {tree[c].covers : c \in LastCut(tree, place)}
<1>1. PICK k \in Region(tree, place) :
         /\ TurnStart(tree, k)
         /\ prep = [kept |-> k, covers |-> Handed(tree, place, k) \cup before]
  BY DEF Preparations
<1>2. k \in path /\ path \subseteq 1 .. place
  BY <1>1, PathBounds DEF Region
<1>3. ASSUME NEW j \in Speaking(tree, path), j < k, tree[j].kind # "failed"
      PROVE  j \in Handed(tree, place, k) \cup before
  <2>1. j \in path /\ tree[j].kind # "setting"
    BY <1>3 DEF Speaking, Of
  <2>2. CASE j \in Region(tree, place)
    BY <1>3, <2>1, <2>2 DEF Handed, Speaking, Of
  <2>3. CASE j \notin Region(tree, place)
    <3>1. PICK c \in LastCut(tree, place) :
             ~(IF tree[c].kept \in path THEN tree[c].kept <= j ELSE c < j)
      BY <2>1, <2>3 DEF Region
    <3>2. /\ Path(tree, c) = {x \in path : x <= c} /\ c \in path
          /\ Cuts(tree, Path(tree, c), tree[c].kept, tree[c].covers)
          /\ tree[c].kept \in path /\ tree[c].kept \in Nat /\ tree[c].kept <= c
      BY CutShape
    <3>3. j < tree[c].kept /\ j <= c
      BY <1>2, <2>1, <3>1, <3>2
    <3>4. j \in Speaking(tree, Path(tree, c))
      BY <2>1, <3>2, <3>3 DEF Speaking, Of
    <3>5. j \in tree[c].covers
      BY <1>3, <3>2, <3>3, <3>4 DEF Cuts
    <3> QED BY <3>5
  <2> QED BY <2>2, <2>3
<1>4. prep.kept = k /\ prep.covers = Handed(tree, place, k) \cup before
  BY <1>1
<1> QED BY <1>1, <1>2, <1>3, <1>4 DEF Cuts
\* A sound file forgets nothing.
LEMMA SoundForgetsNothing ==
    ASSUME StoreOK, Sound(entries)
    PROVE  NothingForgotten
<1> SUFFICES ASSUME NEW i \in 1 .. Len(entries), NEW j \in Speaking(entries, Path(entries, i)),
                    entries[j].kind # "failed", j \notin Context(entries, i)
             PROVE  j \in UNION {entries[c].covers : c \in LastCut(entries, i)}
  <2>1. \A i \in 1 .. Len(entries) : \A j \in Speaking(entries, Path(entries, i)) :
           entries[j].kind # "failed" /\ j \notin Context(entries, i)
              => j \in UNION {entries[c].covers : c \in LastCut(entries, i)}
    OBVIOUS
  <2> QED BY <2>1 DEF NothingForgotten, Of
<1>1. WellFormed(entries)
  BY DEF StoreOK
<1>2. j \in Path(entries, i) /\ Path(entries, i) \subseteq 1 .. i
  BY <1>1, PathBounds DEF Speaking
<1>3. PICK c \in LastCut(entries, i) :
         ~(j >= c \/ (entries[c].kept \in Path(entries, i) /\ entries[c].kept <= j))
  BY DEF Context
<1>4. /\ Path(entries, c) = {x \in Path(entries, i) : x <= c} /\ c \in Path(entries, i)
      /\ Cuts(entries, Path(entries, c), entries[c].kept, entries[c].covers)
      /\ entries[c].kept \in Path(entries, i) /\ entries[c].kept \in Nat
  BY <1>1, CutShape
<1>5. j < entries[c].kept /\ j <= c
  BY <1>2, <1>3, <1>4
<1>6. j \in Speaking(entries, Path(entries, c))
  BY <1>2, <1>4, <1>5 DEF Speaking, Of
<1> QED BY <1>4, <1>5, <1>6 DEF Cuts

\* In a sound file a result is in a context only with its call.
LEMMA SoundHasCalls ==
    ASSUME StoreOK, Sound(entries), ContextFollowsStore
    PROVE  ResultsHaveCalls
<1> SUFFICES ASSUME NEW j \in messages, entries[j].kind = "result"
             PROVE  entries[j].of \in messages \cup spilled
  BY DEF ResultsHaveCalls, Of
<1> DEFINE a == entries[j].of
           path == Path(entries, leaf)
<1>1. WellFormed(entries) /\ leaf \in 1 .. Len(entries) /\ j \in 1 .. Len(entries)
  BY DEF StoreOK
<1>2. j \in Context(entries, leaf)
  BY DEF ContextFollowsStore
<1>3. j \in path /\ path \subseteq 1 .. leaf
  BY <1>1, <1>2, PathBounds DEF Context, Speaking
<1>4. Path(entries, j) = {x \in path : x <= j}
  BY <1>1, <1>3 DEF Sound, Nested
<1>5. Unparted(entries, a, Path(entries, j))
  BY <1>1 DEF Sound, ResultsJoined
<1>6. a \in path /\ a \in Nat /\ entries[a].kind = "answer"
  BY <1>3, <1>4, <1>5 DEF Unparted
<1>7. ASSUME NEW c \in LastCut(entries, leaf)
      PROVE  entries[c].kept \in path /\ entries[c].kept <= a
  <2>1. /\ Cuts(entries, Path(entries, c), entries[c].kept, entries[c].covers)
        /\ entries[c].kept \in path /\ entries[c].kept \in Nat /\ entries[c].kept <= c
        /\ c \in path
    BY <1>1, CutShape
  <2>2. entries[c].kept <= j
    <3>1. j >= c \/ entries[c].kept <= j
      BY <1>2 DEF Context
    <3> QED BY <1>3, <2>1, <3>1
  <2>3. entries[c].kept \in Path(entries, j) /\ TurnStart(entries, entries[c].kept)
    BY <1>4, <2>1, <2>2 DEF Cuts
  <2>4. ~(a < entries[c].kept)
    BY <1>5, <2>3 DEF Unparted
  <2> QED BY <1>6, <2>1, <2>4
<1>8. a \in Context(entries, leaf)
  BY <1>6, <1>7 DEF Context, Speaking, Of
<1> QED BY <1>6, <1>8 DEF ContextFollowsStore

\* Writing what fits, at a place: the file stays sound, and what could be written at
\* the end of the branch still can.
LEMMA WriteSound ==
    ASSUME TypeOK, Sound(entries), NEW place \in 1 .. Len(entries),
           NEW news, Fresh(entries, news), Fits(entries, place, news), WriteAt(place, news)
    PROVE  /\ Sound(entries')
           /\ \A kept, covers : Cuts(entries, Path(entries, place), kept, covers)
                                   => Cuts(entries', Path(entries', leaf'), kept, covers)
           /\ Quietly(news, Len(news)) =>
                 \A a : Unparted(entries, a, Path(entries, place))
                           => Unparted(entries', a, Path(entries', leaf'))
<1> DEFINE n == Len(entries)
           path == Path(entries, place)
           more == n + 1 .. n + Len(news)
<1>1. WellFormed(entries) /\ entries' = Extend(entries, place, news)
  BY DEF TypeOK, StoreOK, WriteAt
<1>2. n \in Nat /\ Len(news) \in Nat /\ path \in SUBSET (1 .. n)
  <2>1. path \subseteq 1 .. place /\ n \in Nat
    BY <1>1, PathBounds DEF WellFormed
  <2> QED BY <2>1 DEF Fresh
<1>3. /\ \A i \in 1 .. n : entries'[i] = entries[i]
      /\ \A i \in 1 .. Len(news) : /\ entries'[n + i].kind = news[i].kind
                                   /\ Path(entries', n + i) = path \cup (n + 1 .. n + i)
  BY <1>1, ExtendShape
<1>4. leaf' = Tip(entries, place, news)
  BY DEF WriteAt, Tip
<1>5. Path(entries', leaf') = path \cup more
  <2>1. CASE news = <<>>
    <3>1. leaf' = place /\ entries'[place] = entries[place] /\ more = {}
      BY <1>2, <1>3, <1>4, <2>1 DEF Tip
    <3> QED BY <3>1 DEF Path
  <2>2. CASE news # <<>>
    <3>1. Len(news) # 0
      BY <2>2 DEF Fresh
    <3>2. Len(news) \in 1 .. Len(news) /\ leaf' = n + Len(news)
      BY <1>2, <1>4, <2>2, <3>1 DEF Tip
    <3> QED BY <1>3, <3>2
  <2> QED BY <2>1, <2>2
<1>6. Sound(entries')
  BY <1>1, ExtendSound
<1>7. ASSUME NEW kept, NEW covers, Cuts(entries, path, kept, covers)
      PROVE  Cuts(entries', Path(entries', leaf'), kept, covers)
  <2>1. \A j \in more : j \in Nat /\ n < j
    BY <1>2
  <2> HIDE DEF more, path, n
  <2>2. Cuts(entries', path \cup more, kept, covers)
    BY <1>2, <1>3, <1>7, <2>1, CutsGrow
  <2> QED BY <1>5, <2>2
<1>8. ASSUME Quietly(news, Len(news)), NEW a, Unparted(entries, a, path)
      PROVE  Unparted(entries', a, Path(entries', leaf'))
  <2>1. \A j \in more : ~TurnStart(entries', j)
    <3> TAKE j \in more
    <3>1. j - n \in 1 .. Len(news) /\ j = n + (j - n)
      BY <1>2
    <3>2. entries'[n + (j - n)].kind = news[j - n].kind
      BY <1>3, <3>1
    <3> QED BY <1>8, <3>1, <3>2 DEF Quietly, TurnStart
  <2> HIDE DEF more, path, n
  <2>2. Unparted(entries', a, path \cup more)
    BY <1>2, <1>3, <1>8, <2>1, UnpartedGrow
  <2> QED BY <1>5, <2>2
<1> QED BY <1>6, <1>7, <1>8
\* News of no summary and no result fit anywhere.
LEMMA TalkFits ==
    ASSUME NEW tree, NEW place, NEW news,
           \A i \in 1 .. Len(news) : news[i].kind \notin {"compaction", "result"}
    PROVE  Fits(tree, place, news)
BY DEF Fits

LEMMA OneFits ==
    ASSUME NEW tree, NEW place, NEW e \in Entry,
           e.kind = "compaction" => Cuts(tree, Path(tree, place), e.kept, e.covers),
           e.kind = "result" => Unparted(tree, e.of, Path(tree, place))
    PROVE  Fits(tree, place, <<e>>)
<1>1. Len(<<e>>) = 1 /\ \A i \in 1 .. 1 : <<e>>[i] = e
  OBVIOUS
<1>2. e.kind = "result" => Quietly(<<e>>, 1)
  BY <1>1 DEF Quietly
<1> QED BY <1>1, <1>2 DEF Fits

\* What fits still does with talk after it.
LEMMA BothFit ==
    ASSUME NEW tree, NEW place, NEW news, Fresh(tree, news), Fits(tree, place, news),
           NEW more, Fresh(tree, more),
           \A i \in 1 .. Len(more) : more[i].kind \notin {"compaction", "result"}
    PROVE  Fits(tree, place, news \o more)
<1> DEFINE both == news \o more
<1>1. news \in Seq(Entry) /\ more \in Seq(Entry) /\ Len(news) \in Nat /\ Len(more) \in Nat
  BY DEF Fresh
<1>2. /\ Len(both) = Len(news) + Len(more)
      /\ \A i \in 1 .. Len(news) + Len(more) :
            both[i] = IF i <= Len(news) THEN news[i] ELSE more[i - Len(news)]
  BY <1>1, ConcatProperties
<1> HIDE DEF both
<1>3. ASSUME NEW i \in 1 .. Len(both)
      PROVE  /\ both[i].kind = "compaction" =>
                  Cuts(tree, Path(tree, place), both[i].kept, both[i].covers)
             /\ both[i].kind = "result" =>
                  Unparted(tree, both[i].of, Path(tree, place)) /\ Quietly(both, i)
  <2>1. CASE i <= Len(news)
    <3>1. i \in 1 .. Len(news) /\ both[i] = news[i]
      BY <1>1, <1>2, <2>1
    <3>2. \A j \in 1 .. i : both[j] = news[j]
      BY <1>1, <1>2, <2>1
    <3>3. Quietly(news, i) => Quietly(both, i)
      BY <3>2 DEF Quietly
    <3> QED BY <3>1, <3>3 DEF Fits
  <2>2. CASE ~(i <= Len(news))
    <3>1. i - Len(news) \in 1 .. Len(more) /\ both[i] = more[i - Len(news)]
      BY <1>1, <1>2, <2>2
    <3> QED BY <3>1
  <2> QED BY <2>1, <2>2
<1> QED BY <1>3 DEF both, Fits

LEMMA ProceedFits ==
    ASSUME TypeOK, NEW news, Fresh(entries, news), Fits(entries, leaf, news), NEW calls,
           Proceed(news, calls)
    PROVE  /\ \E more : Fresh(entries, more) /\ Fits(entries, leaf, more) /\ Write(more)
           /\ run' \in {Asking, Idle}
<1>1. steering \in Nat /\ news \in Seq(Entry)
  BY LoopAssumption DEF TypeOK, Fresh
<1>2. User \in Entry /\ User.kind = "user"
  BY BlankTyped DEF User, Kinds
<1>3. CASE Write(news \o Users(steering)) /\ run' = Asking
  <2>1. Fresh(entries, Users(steering))
    BY <1>1, UsersFresh
  <2>2. \A i \in 1 .. Len(Users(steering)) : Users(steering)[i].kind \notin {"compaction", "result"}
    BY <1>1, <1>2 DEF Users
  <2>3. Fresh(entries, news \o Users(steering)) /\ Fits(entries, leaf, news \o Users(steering))
    BY <2>1, <2>2, BothFresh, BothFit
  <2> QED BY <1>3, <2>3
<1>4. CASE Write(news) /\ run' \in {Asking, Idle}
  BY <1>4
<1>5. CASE Write(Append(news, User)) /\ run' = Asking
  <2>1. Append(news, User) = news \o <<User>>
    BY <1>1, <1>2
  <2>2. Fresh(entries, <<User>>)
    BY NewsFresh
  <2>3. \A i \in 1 .. Len(<<User>>) : <<User>>[i].kind \notin {"compaction", "result"}
    BY <1>2
  <2>4. Fresh(entries, Append(news, User)) /\ Fits(entries, leaf, Append(news, User))
    BY <2>1, <2>2, <2>3, BothFresh, BothFit
  <2> QED BY <1>5, <2>4
<1> QED BY <1>3, <1>4, <1>5 DEF Proceed

\* The results a tool that ends may write fit, and start no turn.
LEMMA ToolNewsFit ==
    ASSUME TypeOK, InHand, run.at = "tools", NEW k \in Nat, NEW rest
    PROVE  LET news == IF run.ordered THEN <<Result(run.answer, k)>>
                       ELSE IF rest = {} THEN [i \in run.calls |-> Result(run.answer, i)]
                       ELSE <<>>
           IN  Fits(entries, leaf, news) /\ Quietly(news, Len(news))
<1> DEFINE news == IF run.ordered THEN <<Result(run.answer, k)>>
                   ELSE IF rest = {} THEN [i \in run.calls |-> Result(run.answer, i)]
                   ELSE <<>>
<1>1. PICK n \in Nat : run.calls = 1 .. n
  BY PartsTyped
<1>2. Unparted(entries, run.answer, Path(entries, leaf)) /\ run.answer \in Nat
  BY PartsTyped DEF InHand
<1>3. \A i \in Nat : Result(run.answer, i).kind = "result" /\ Result(run.answer, i).of = run.answer
  BY DEF Result, Blank
<1>4. \A i \in 1 .. Len(news) : news[i].kind = "result" /\ news[i].of = run.answer
  <2>1. CASE run.ordered
    <3>1. news = <<Result(run.answer, k)>>
      BY <2>1
    <3> HIDE DEF news
    <3> QED BY <1>3, <3>1
  <2>2. CASE ~run.ordered /\ rest = {}
    <3>1. news = [i \in 1 .. n |-> Result(run.answer, i)]
      BY <1>1, <2>2
    <3> HIDE DEF news
    <3>2. Len(news) = n
      BY <3>1
    <3> QED BY <1>3, <3>1, <3>2
  <2>3. CASE ~run.ordered /\ rest # {}
    BY <2>3
  <2> QED BY <2>1, <2>2, <2>3
<1>5. Len(news) \in Nat
  <2>1. Fresh(entries, news)
    BY ToolNewsFresh
  <2> HIDE DEF news
  <2> QED BY <2>1 DEF Fresh
<1> HIDE DEF news
<1>6. \A i \in 0 .. Len(news) : Quietly(news, i)
  BY <1>4, <1>5 DEF Quietly
<1>7. Fits(entries, leaf, news) /\ Quietly(news, Len(news))
  BY <1>2, <1>4, <1>5, <1>6 DEF Fits
<1> QED BY <1>7 DEF news
\* Every step of a session with calm clients keeps the invariant.
LEMMA HistoryStep ==
    ASSUME Calm, TypeOK, HistoryInv, TypeOK', [Next]_vars
    PROVE  HistoryInv'
<1>0. /\ Sound(entries) /\ PendingRight /\ InHand /\ (moving # {} => Quiet)
      /\ leaf \in 1 .. Len(entries) /\ Len(entries) \in Nat /\ MaxCalls \in Nat
      /\ moving \subseteq 1 .. Len(entries)
      /\ StoreOK' /\ RunOK /\ WellFormed(entries') /\ leaf' \in 1 .. Len(entries')
  BY PartsTyped DEF HistoryInv, TypeOK, StoreOK
<1>1. /\ Idle.answer = 0 /\ Idle.at = "idle" /\ Asking.answer = 0 /\ Asking.at = "streaming"
      /\ \A r : r \in {Idle, Asking} => r.answer = 0 /\ r.at # "tools"
  BY DEF Idle, Asking
\* what is written under the leaf, and what becomes of the compaction
<1>2. ASSUME NEW news, Fresh(entries, news), Fits(entries, leaf, news), Write(news),
             compaction' \subseteq compaction \/ \E by \in {"run", "user"} : Prepare(by)
      PROVE  Sound(entries') /\ PendingRight'
  <2>1. /\ Sound(entries')
        /\ \A kept, covers : Cuts(entries, Path(entries, leaf), kept, covers)
                                => Cuts(entries', Path(entries', leaf'), kept, covers)
    BY <1>0, <1>2, WriteSound DEF Write
  <2>2. CASE compaction' \subseteq compaction
    BY <1>0, <2>1, <2>2 DEF PendingRight
  <2>3. CASE \E by \in {"run", "user"} : Prepare(by)
    <3>1. PICK by \in {"run", "user"}, prep \in Preparations(entries', leaf') :
             compaction' = {[by |-> by, kept |-> prep.kept, covers |-> prep.covers]}
      BY <2>3 DEF Prepare
    <3>2. Cuts(entries', Path(entries', leaf'), prep.kept, prep.covers)
      BY <1>0, <2>1, PreparedRight
    <3> QED BY <2>1, <3>1, <3>2 DEF PendingRight
  <2> QED BY <1>2, <2>2, <2>3
<1>3. UNCHANGED <<entries, leaf>> /\ compaction' \subseteq compaction
         => Sound(entries') /\ PendingRight'
  BY <1>0 DEF PendingRight
<1>4. run'.answer = 0 /\ run'.at # "tools" => InHand'
  BY DEF InHand
<1>5. UNCHANGED <<entries, leaf, run>> => InHand'
  BY <1>0 DEF InHand
<1>6. Release => compaction' \subseteq compaction
  BY DEF Release, Foreign
\* a run is under way, or a prompt accepted: no move waits
<1>7. Running \/ accepted > 0 \/ compaction # {} => moving = {}
  BY <1>0 DEF Quiet, TypeOK
<1>8. ASSUME NEW news, Fresh(entries, news), Fits(entries, leaf, news), NEW calls,
             Proceed(news, calls), compaction' \subseteq compaction
      PROVE  Sound(entries') /\ PendingRight' /\ InHand'
  <2>1. PICK more : Fresh(entries, more) /\ Fits(entries, leaf, more) /\ Write(more)
    BY <1>8, ProceedFits
  <2>2. run' \in {Asking, Idle}
    BY <1>8, ProceedFits
  <2> QED BY <1>1, <1>2, <1>4, <1>8, <2>1, <2>2
<1>9. ASSUME NEW news, Fresh(entries, news), Fits(entries, leaf, news), NEW calls, EndTurn(news, calls)
      PROVE  Sound(entries') /\ PendingRight' /\ InHand'
  <2>1. CASE Proceed(news, calls) /\ Release
    BY <1>6, <1>8, <1>9, <2>1
  <2>2. CASE Write(news) /\ Prepare("run") /\ run' = [Idle EXCEPT !.at = "compacting", !.calls = calls]
    <3>1. run'.answer = 0 /\ run'.at # "tools"
      BY <2>2 DEF Idle
    <3> QED BY <1>2, <1>4, <1>9, <2>2, <3>1
  <2> QED BY <1>9, <2>1, <2>2 DEF EndTurn
<1>10. ASSUME NEW news, Fresh(entries, news), Fits(entries, leaf, news), NEW answer, NEW calls,
              StartTools(news, answer, calls), answer # 0,
              Unparted(entries', answer, Path(entries', leaf'))
       PROVE  Sound(entries') /\ PendingRight' /\ InHand'
  <2>1. Write(news) /\ Release /\ run'.answer = answer /\ run'.at = "tools"
    BY <1>10 DEF StartTools, Idle
  <2> QED BY <1>2, <1>6, <1>10, <2>1 DEF InHand
\* an answer is written
<1>11. \A n \in Nat : Fresh(entries, <<Answer(1 .. n)>>) /\ Fits(entries, leaf, <<Answer(1 .. n)>>)
  <2> TAKE n \in Nat
  <2>1. 1 .. n \in SUBSET Nat
    OBVIOUS
  <2>2. Answer(1 .. n) \in Entry /\ Answer(1 .. n).kind = "answer"
    BY <2>1, AnswerTyped
  <2> HIDE DEF Answer
  <2> QED BY <2>2, NewsFresh, OneFits
<1>12. Fresh(entries, <<Answer({})>>) /\ Fits(entries, leaf, <<Answer({})>>)
  <2>1. 1 .. 0 = {} /\ 0 \in Nat
    OBVIOUS
  <2> QED BY <1>11, <2>1
<1>13. ASSUME NEW n \in Nat, Write(<<Answer(1 .. n)>>)
       PROVE  /\ Len(entries) + 1 # 0
              /\ Unparted(entries', Len(entries) + 1, Path(entries', leaf'))
  <2>1. Fresh(entries, <<Answer(1 .. n)>>) /\ Len(<<Answer(1 .. n)>>) = 1
    BY NewsFresh
  <2>2. /\ Len(entries') = Len(entries) + 1 /\ leaf' = Len(entries) + 1
        /\ entries'[Len(entries) + 1].kind = "answer"
    <3>1. <<Answer(1 .. n)>>[1].kind = "answer" /\ <<Answer(1 .. n)>> # <<>>
      BY DEF Answer, Blank
    <3> DEFINE news == <<Answer(1 .. n)>>
    <3> HIDE DEF news
    <3>2. /\ Len(entries') = Len(entries) + Len(news) /\ leaf' = Tip(entries, leaf, news)
          /\ \A i \in 1 .. Len(news) : entries'[Len(entries) + i].kind = news[i].kind
      BY <1>0, <1>13, <2>1, WriteTyped DEF Write, news
    <3> QED BY <2>1, <3>1, <3>2 DEF news, Tip
  <2>3. leaf' \in Path(entries', leaf') /\ Path(entries', leaf') \subseteq 1 .. leaf'
    BY <1>0, PathBounds
  <2> QED BY <1>0, <2>2, <2>3 DEF Unparted
<1>14. \A kind \in Kinds \ {"compaction", "result"} :
          Fresh(entries, <<Blank(kind)>>) /\ Fits(entries, leaf, <<Blank(kind)>>)
  <2> TAKE kind \in Kinds \ {"compaction", "result"}
  <2>1. Blank(kind) \in Entry /\ Blank(kind).kind = kind
    BY BlankTyped
  <2> HIDE DEF Blank
  <2> QED BY <2>1, NewsFresh, OneFits
<1>15. /\ Fresh(entries, <<>>)
       /\ \A place \in 1 .. Len(entries) : Fits(entries, place, <<>>)
  BY NewsFresh DEF Fits
<1>16. \A c \in compaction : Fresh(entries, <<Summary(c)>>) /\ Fits(entries, leaf, <<Summary(c)>>)
  <2> TAKE c \in compaction
  <2>1. Summary(c) \in Entry /\ Summary(c).kind = "compaction"
    BY PartsTyped, SummaryTyped
  <2>2. Summary(c).kept = c.kept /\ Summary(c).covers = c.covers
    BY DEF Summary, Blank
  <2>3. Cuts(entries, Path(entries, leaf), Summary(c).kept, Summary(c).covers)
    BY <1>0, <2>2 DEF PendingRight
  <2> HIDE DEF Summary
  <2> QED BY <2>1, <2>3, NewsFresh, OneFits
\* the actions of the run
<1>20. CASE Begin
  <2>1. moving' = {} /\ compaction' \subseteq compaction
    BY <1>7, <1>20 DEF Begin
  <2>2. CASE Running
    BY <1>3, <1>5, <1>20, <2>1, <2>2 DEF Begin, HistoryInv
  <2>3. CASE ~Running
    <3>1. Write(<<User>>) /\ run' = Asking
      BY <1>20, <2>3 DEF Begin
    <3>2. Fresh(entries, <<User>>) /\ Fits(entries, leaf, <<User>>)
      BY <1>14 DEF User, Kinds
    <3> QED BY <1>1, <1>2, <1>4, <2>1, <3>1, <3>2 DEF HistoryInv
  <2> QED BY <2>2, <2>3
<1>21. ASSUME NEW n \in 0 .. MaxCalls, Answered(n) PROVE HistoryInv'
  <2>1. n \in Nat /\ moving' = {}
    BY <1>0, <1>7, <1>21 DEF Answered, Alive, Running
  <2>2. CASE StartTools(<<Answer(1 .. n)>>, Len(entries) + 1, 1 .. n)
    <3>1. Write(<<Answer(1 .. n)>>)
      BY <2>2 DEF StartTools
    <3> QED BY <1>10, <1>11, <1>13, <2>1, <2>2, <3>1 DEF HistoryInv
  <2>3. CASE EndTurn(<<Answer({})>>, {})
    BY <1>9, <1>12, <2>1, <2>3 DEF HistoryInv
  <2> QED BY <1>21, <2>2, <2>3 DEF Answered
<1>22. ASSUME NEW n \in 0 .. MaxCalls, AnsweredOver(n) PROVE HistoryInv'
  <2>1. n \in Nat /\ moving' = {}
    BY <1>0, <1>7, <1>22 DEF AnsweredOver, Alive, Running
  <2>2. CASE StartTools(<<Answer(1 .. n)>>, Len(entries) + 1, 1 .. n)
    <3>1. Write(<<Answer(1 .. n)>>)
      BY <2>2 DEF StartTools
    <3> QED BY <1>10, <1>11, <1>13, <2>1, <2>2, <3>1 DEF HistoryInv
  <2>3. CASE /\ Write(<<Answer(1 .. n)>>) /\ Prepare("run")
             /\ run' = [Idle EXCEPT !.at = "recovering", !.answer = Len(entries) + 1, !.calls = 1 .. n]
    <3>1. Sound(entries') /\ PendingRight'
      BY <1>2, <1>11, <2>1, <2>3
    <3>2. run'.answer = Len(entries) + 1 /\ run'.at = "recovering"
      BY <2>3 DEF Idle
    <3>3. Unparted(entries', Len(entries) + 1, Path(entries', leaf'))
      BY <1>13, <2>1, <2>3
    <3> QED BY <2>1, <3>1, <3>2, <3>3 DEF HistoryInv, InHand
  <2>4. CASE Proceed(<<Answer({})>>, {}) /\ Release
    BY <1>6, <1>8, <1>12, <2>1, <2>4 DEF HistoryInv
  <2> QED BY <1>22, <2>2, <2>3, <2>4 DEF AnsweredOver
<1>23. ASSUME NEW transient \in BOOLEAN, NEW overflow \in BOOLEAN, Failed(transient, overflow)
       PROVE  HistoryInv'
  <2>1. run.at = "streaming" /\ moving' = {} /\ Write(<<Blank("failed")>>)
    BY <1>7, <1>23 DEF Failed, Alive, Running
  <2>2. run.answer = 0
    BY <1>0, <2>1 DEF InHand
  <2>3. run'.answer = 0 /\ run'.at # "tools"
    BY <1>0, <1>1, <1>23, <2>2 DEF Failed, RunOK, Idle
  <2>4. compaction' \subseteq compaction \/ \E by \in {"run", "user"} : Prepare(by)
    BY <1>23 DEF Failed
  <2>5. Fresh(entries, <<Blank("failed")>>) /\ Fits(entries, leaf, <<Blank("failed")>>)
    BY <1>14 DEF Kinds
  <2> QED BY <1>2, <1>4, <2>1, <2>3, <2>4, <2>5 DEF HistoryInv
<1>24. CASE Raised \/ RetryDue
  <2>1. run.at \in {"streaming", "waiting"} /\ moving' = {} /\ UNCHANGED <<entries, leaf, compaction>>
    BY <1>7, <1>24 DEF Raised, RetryDue, Alive, Running
  <2>2. run'.answer = 0 /\ run'.at # "tools"
    <3>1. run.answer = 0
      BY <1>0, <2>1 DEF InHand
    <3> QED BY <1>0, <1>1, <1>24, <3>1 DEF Raised, RetryDue, RunOK
  <2> QED BY <1>3, <1>4, <2>1, <2>2 DEF HistoryInv
<1>25. ASSUME NEW k \in 1 .. MaxCalls, ToolEnds(k) PROVE HistoryInv'
  <2> DEFINE rest == run.todo \ {k}
             news == IF run.ordered THEN <<Result(run.answer, k)>>
                     ELSE IF rest = {} THEN [i \in run.calls |-> Result(run.answer, i)]
                     ELSE <<>>
  <2>1. /\ run.at = "tools" /\ moving' = {}
        /\ \/ Write(news) /\ run' = [run EXCEPT !.todo = rest] /\ UNCHANGED compaction
           \/ EndTurn(news, run.calls)
    BY <1>7, <1>25 DEF ToolEnds, Alive, Running
  <2>2. Fresh(entries, news) /\ Fits(entries, leaf, news) /\ Quietly(news, Len(news))
    <3>1. k \in Nat
      OBVIOUS
    <3> QED BY <1>0, <2>1, <3>1, ToolNewsFresh, ToolNewsFit
  <2>3. run.answer # 0 /\ Unparted(entries, run.answer, Path(entries, leaf))
    BY <1>0, <2>1 DEF InHand
  <2> HIDE DEF news, rest
  <2>4. CASE Write(news) /\ run' = [run EXCEPT !.todo = rest] /\ UNCHANGED compaction
    <3>1. run'.answer = run.answer /\ run'.at = "tools"
      BY <1>0, <2>1, <2>4 DEF RunOK
    <3>2. Unparted(entries', run.answer, Path(entries', leaf'))
      BY <1>0, <2>2, <2>3, <2>4, WriteSound DEF Write
    <3> QED BY <1>2, <2>1, <2>2, <2>3, <2>4, <3>1, <3>2 DEF HistoryInv, InHand
  <2>5. CASE EndTurn(news, run.calls)
    BY <1>9, <2>1, <2>2, <2>5 DEF HistoryInv
  <2> QED BY <2>1, <2>4, <2>5
<1>26. CASE Compacted
  <2>1. PICK c \in compaction : Proceed(<<Summary(c)>>, run.calls)
    BY <1>26 DEF Compacted
  <2>2. moving' = {} /\ Release
    BY <1>7, <1>26 DEF Compacted, Alive, Running
  <2> QED BY <1>6, <1>8, <1>16, <2>1, <2>2 DEF HistoryInv
<1>27. CASE NotCompacted
  <2>1. moving' = {} /\ Release /\ Proceed(<<>>, run.calls)
    BY <1>7, <1>27 DEF NotCompacted, Alive, Running
  <2> QED BY <1>0, <1>6, <1>8, <1>15, <2>1 DEF HistoryInv
<1>28. CASE Recovered
  <2>1. PICK c \in compaction : Write(<<Summary(c)>>)
    BY <1>28 DEF Recovered
  <2>2. moving' = {} /\ Release /\ run'.answer = 0 /\ run'.at # "tools"
    BY <1>7, <1>28 DEF Recovered, Alive, Running, Asking, Idle
  <2> QED BY <1>2, <1>4, <1>6, <1>16, <2>1, <2>2 DEF HistoryInv
<1>29. CASE NotRecovered
  <2>1. moving' = {} /\ Fresh(entries, <<>>) /\ Fits(entries, leaf, <<>>)
    BY <1>0, <1>7, <1>15, <1>29 DEF NotRecovered, Alive, Running
  <2>2. CASE run' = Idle /\ Write(<<>>) /\ Release
    BY <1>1, <1>2, <1>4, <1>6, <2>1, <2>2 DEF HistoryInv
  <2>3. CASE run.answer # 0 /\ StartTools(<<>>, run.answer, run.calls)
    <3>1. Write(<<>>) /\ Quietly(<<>>, Len(<<>>))
      BY <2>3 DEF StartTools, Quietly
    <3>2. Unparted(entries, run.answer, Path(entries, leaf))
      BY <1>0, <2>3 DEF InHand
    <3>3. Unparted(entries', run.answer, Path(entries', leaf'))
      BY <1>0, <2>1, <3>1, <3>2, WriteSound DEF Write
    <3> QED BY <1>10, <2>1, <2>3, <3>3 DEF HistoryInv
  <2>4. CASE EndTurn(<<>>, {})
    BY <1>9, <2>1, <2>4 DEF HistoryInv
  <2> QED BY <1>29, <2>2, <2>3, <2>4 DEF NotRecovered
<1>30. CASE Stop
  <2>1. moving' = {} /\ UNCHANGED <<entries, leaf>> /\ Release /\ run' = Idle
    BY <1>7, <1>30 DEF Stop
  <2> QED BY <1>1, <1>3, <1>4, <1>6, <2>1 DEF HistoryInv
\* the commands: those that leave the file, the run and the leaf alone
<1>40. CASE /\ UNCHANGED <<entries, leaf, run>> /\ compaction' \subseteq compaction
            /\ moving' # {} => Quiet'
  BY <1>3, <1>5, <1>40 DEF HistoryInv
<1>41. CASE Prompt
  BY <1>40, <1>41 DEF Prompt
<1>42. CASE Steer \/ FollowUp \/ Abort
  BY <1>7, <1>40, <1>42 DEF Steer, FollowUp, Abort
<1>43. CASE CompactFailed \/ AbortCompaction
  BY <1>7, <1>40, <1>43 DEF CompactFailed, AbortCompaction, Foreign
<1>44. CASE MoveFailed \/ UNCHANGED vars
  BY <1>0, <1>40, <1>44 DEF MoveFailed, vars, Quiet, Running
<1>45. ASSUME NEW target \in 1 .. Len(entries), NavigateSummarised(target) PROVE HistoryInv'
  <2>1. Quiet /\ UNCHANGED <<entries, leaf, run, accepted, compaction>>
    BY <1>45 DEF NavigateSummarised, MayMove
  <2> QED BY <1>40, <2>1 DEF Quiet, Running
<1>46. CASE Compact
  <2>1. /\ moving' = {} /\ UNCHANGED <<entries, leaf, run>>
        /\ \E prep \in Preparations(entries', leaf') :
              compaction' = {[by |-> "user", kept |-> prep.kept, covers |-> prep.covers]}
    BY <1>46 DEF Compact, Prepare
  <2>2. PICK prep \in Preparations(entries', leaf') :
           compaction' = {[by |-> "user", kept |-> prep.kept, covers |-> prep.covers]}
    BY <2>1
  <2>3. Sound(entries')
    BY <1>0, <2>1
  <2>4. Cuts(entries', Path(entries', leaf'), prep.kept, prep.covers)
    BY <1>0, <2>3, PreparedRight
  <2>5. PendingRight'
    BY <2>2, <2>4 DEF PendingRight
  <2>6. InHand'
    BY <1>5, <2>1
  <2> QED BY <2>1, <2>3, <2>5, <2>6 DEF HistoryInv
\* those that write at the leaf and leave the run alone
<1>47. CASE Set
  <2>1. Write(<<Setting>>) /\ UNCHANGED <<accepted, run, compaction, moving>>
    BY <1>47 DEF Set
  <2>2. Fresh(entries, <<Setting>>) /\ Fits(entries, leaf, <<Setting>>)
    BY <1>14 DEF Setting, Kinds
  <2>3. Quietly(<<Setting>>, Len(<<Setting>>))
    BY DEF Quietly, Setting, Blank
  <2>4. InHand'
    <3>1. \A a : Unparted(entries, a, Path(entries, leaf)) => Unparted(entries', a, Path(entries', leaf'))
      BY <1>0, <2>1, <2>2, <2>3, WriteSound DEF Write
    <3> QED BY <1>0, <2>1, <3>1 DEF InHand
  <2>5. Sound(entries') /\ PendingRight'
    BY <1>2, <2>1, <2>2
  <2> QED BY <1>0, <2>1, <2>4, <2>5 DEF HistoryInv, Quiet, Running
<1>48. CASE CompactDone
  <2>1. PICK c \in compaction : Write(<<Summary(c)>>)
    BY <1>48 DEF CompactDone, Foreign
  <2>2. moving' = {} /\ compaction' = {} /\ UNCHANGED run
    BY <1>7, <2>1, <1>48 DEF CompactDone
  <2>3. Sound(entries') /\ PendingRight'
    BY <1>2, <1>16, <2>1, <2>2
  <2>4. InHand'
    <3>1. Fresh(entries, <<Summary(c)>>) /\ Fits(entries, leaf, <<Summary(c)>>)
      BY <1>16
    <3>2. Quietly(<<Summary(c)>>, Len(<<Summary(c)>>))
      <4>1. Summary(c).kind = "compaction"
        BY DEF Summary, Blank
      <4> HIDE DEF Summary
      <4> QED BY <4>1 DEF Quietly
    <3>3. \A a : Unparted(entries, a, Path(entries, leaf)) => Unparted(entries', a, Path(entries', leaf'))
      BY <1>0, <2>1, <3>1, <3>2, WriteSound DEF Write
    <3> QED BY <1>0, <2>2, <3>3 DEF InHand
  <2> QED BY <2>2, <2>3, <2>4 DEF HistoryInv
\* those a client sends only when nothing is under way
<1>50. ASSUME Quiet, UNCHANGED <<run, compaction>>, NEW place \in 1 .. Len(entries), NEW news,
              Fresh(entries, news), Fits(entries, place, news), WriteAt(place, news), moving' = {}
       PROVE  HistoryInv'
  <2>1. Sound(entries')
    BY <1>0, <1>50, WriteSound
  <2>2. compaction' = {} /\ run'.at = "idle"
    BY <1>50 DEF Quiet, Running
  <2>3. run'.answer = 0
    BY <1>0, <1>50, <2>2 DEF InHand
  <2> QED BY <1>4, <1>50, <2>1, <2>2, <2>3 DEF HistoryInv, PendingRight
<1>51. CASE AppendCustom
  <2>1. Quiet /\ moving' = {} /\ Write(<<Blank("custom")>>) /\ UNCHANGED <<run, compaction>>
    BY <1>51 DEF AppendCustom
  <2>2. Fresh(entries, <<Blank("custom")>>) /\ Fits(entries, leaf, <<Blank("custom")>>)
    BY <1>14 DEF Kinds
  <2> QED BY <1>0, <1>50, <2>1, <2>2 DEF Write
<1>52. \A labels \in Labels : \A i \in 1 .. Len(labels) : labels[i].kind = "setting"
  BY DEF Labels, Setting, Blank
<1>53. ASSUME NEW target \in 1 .. Len(entries), NEW labels \in Labels, Navigate(target, labels)
       PROVE  HistoryInv'
  <2>1. /\ Quiet /\ moving' = {} /\ WriteAt(Landing(target), labels) /\ UNCHANGED <<run, compaction>>
    BY <1>53 DEF Navigate, MayMove
  <2>2. Landing(target) \in 1 .. Len(entries) /\ Fresh(entries, labels)
    BY LandingTyped, NewsFresh
  <2>3. Fits(entries, Landing(target), labels)
    BY <1>52, TalkFits
  <2> QED BY <1>50, <2>1, <2>2, <2>3
<1>54. ASSUME NEW labels \in Labels, MoveDone(labels) PROVE HistoryInv'
  <2>1. PICK place \in moving : WriteAt(place, <<Blank("branch")>> \o labels)
    BY <1>54 DEF MoveDone
  <2>2. Quiet /\ moving' = {} /\ UNCHANGED <<run, compaction>> /\ place \in 1 .. Len(entries)
    BY <1>0, <1>54, <2>1 DEF MoveDone
  <2>3. "branch" \in Kinds
    BY DEF Kinds
  <2>4. Fresh(entries, <<Blank("branch")>>) /\ Fresh(entries, labels)
    BY <2>3, NewsFresh
  <2>5. Fits(entries, place, <<Blank("branch")>>)
    <3>1. Blank("branch") \in Entry /\ Blank("branch").kind = "branch"
      BY <2>3, BlankTyped
    <3> HIDE DEF Blank
    <3> QED BY <3>1, OneFits
  <2>6. Fits(entries, place, <<Blank("branch")>> \o labels)
    BY <1>52, <2>4, <2>5, BothFit
  <2>7. Fresh(entries, <<Blank("branch")>> \o labels)
    BY <2>4, BothFresh
  <2> QED BY <1>50, <2>1, <2>2, <2>6, <2>7
<1>55. CASE Reopen
  <2>1. WriteAt(Len(entries), <<>>) /\ run' = Idle /\ compaction' = {} /\ moving' = {}
    BY <1>55 DEF Reopen, Reread, Closed
  <2>2. Len(entries) \in 1 .. Len(entries)
    BY <1>0
  <2>3. Sound(entries')
    BY <1>0, <1>15, <2>1, <2>2, WriteSound
  <2> QED BY <1>1, <1>4, <2>1, <2>3 DEF HistoryInv, PendingRight
<1> QED BY <1>20, <1>21, <1>22, <1>23, <1>24, <1>25, <1>26, <1>27, <1>28, <1>29, <1>30,
           <1>41, <1>42, <1>43, <1>44, <1>45, <1>46, <1>47, <1>48, <1>51, <1>53, <1>54, <1>55
        DEF Next, RunStep, Command

LEMMA InitHistory == Init => HistoryInv
<1> SUFFICES ASSUME Init PROVE HistoryInv
  OBVIOUS
<1>1. /\ Len(entries) = 1 /\ Path(entries, 1) = {1} /\ entries[1].kind = "setting"
  BY DEF Init, Setting, Blank, Path
<1>2. Sound(entries)
  BY <1>1 DEF Sound, Nested, CutsRight, ResultsJoined
<1>3. run.answer = 0 /\ run.at = "idle" /\ compaction = {} /\ moving = {}
  BY DEF Init, Idle
<1> QED BY <1>2, <1>3 DEF HistoryInv, PendingRight, InHand

\* "so that tool calls are not parted from their results" and "without losing key
\* context" (compaction.py): as long as clients move the leaf and append to it only
\* while nothing is under way, no result is shown to the model without its call, and
\* whatever a branch says is in its context or went into the summary before it,
\* through any number of compactions, overflows, moves and reopenings.
THEOREM HistoryKept == Calm => (Spec => []HistoryIsWhole)
<1> SUFFICES ASSUME Calm PROVE Spec => []HistoryIsWhole
  OBVIOUS
<1>1. HistoryInv /\ TypeOK /\ TypeOK' /\ [Next]_vars => HistoryInv'
  BY HistoryStep
<1>2. HistoryInv /\ TypeOK /\ ContextFollowsStore => HistoryIsWhole
  BY SoundForgetsNothing, SoundHasCalls DEF HistoryInv, TypeOK, HistoryIsWhole
<1> QED BY <1>1, <1>2, InitHistory, LoopTypeCorrect, ContextIsStored, PTL DEF Spec
=============================================================================
