--------------------------- MODULE TaskSteps_proofs ---------------------------
(***************************************************************************)
(* For every set of titles and every bound: a task's record is well formed,*)
(* its step ids are distinct, its status follows its steps and the times   *)
(* of each step match its status.  The four are inductive together.  What  *)
(* the code finds by a scan (the first step with a status, the next id) is *)
(* CHOOSE of a least or a greatest element: see LeastNat.  The same holds  *)
(* with a page that shows the task and sends clicks (TaskPanel); for it,   *)
(* what is shown and what a click changes are proved as well.              *)
(***************************************************************************)
EXTENDS TaskPanel, SequenceTheorems, FiniteSetTheorems, WellFoundedInduction, TLAPS

\* A non-empty set of naturals has a least element.
LEMMA LeastNat ==
    ASSUME NEW S \in SUBSET Nat, S # {}
    PROVE  \E m \in S : \A n \in S : m <= n
<1> DEFINE R == OpToRel(<, Nat)
<1>1. \A ss \in Nat \X Nat : ss \in R <=> ss[1] < ss[2]
  BY DEF OpToRel
<1>2. IsWellFoundedOn(R, Nat)
  BY NatLessThanWellFounded, Zenon
<1> HIDE DEF R
<1>3. PICK m \in S : \A n \in S : <<n, m>> \notin R
  BY <1>2, WFMin
<1>4. ASSUME NEW n \in S PROVE m <= n
  <2>1. <<n, m>> \in Nat \X Nat
    OBVIOUS
  <2>2. ~(n < m)
    BY <1>1, <1>3, <2>1
  <2> QED
    BY <2>2
<1> QED
  BY <1>4

\* FirstAt finds a step with the status, and 0 only if there is none.
LEMMA FirstAtFinds ==
    ASSUME NEW steps, DOMAIN steps \subseteq Nat, NEW st
    PROVE  \/ FirstAt(steps, st) = 0
           \/ FirstAt(steps, st) \in DOMAIN steps /\ steps[FirstAt(steps, st)].st = st
<1>1. CASE ~\E i \in DOMAIN steps : steps[i].st = st
  BY <1>1 DEF FirstAt
<1>2. CASE \E i \in DOMAIN steps : steps[i].st = st
  <2> DEFINE S == {i \in DOMAIN steps : steps[i].st = st}
  <2>1. S \in SUBSET Nat /\ S # {}
    BY <1>2
  <2>2. PICK m \in S : \A n \in S : m <= n
    BY <2>1, LeastNat
  <2>3. \A j \in DOMAIN steps : j < m => steps[j].st # st
    <3> TAKE j \in DOMAIN steps
    <3> HAVE j < m
    <3>1. j \in Nat /\ m \in Nat
      BY <2>1
    <3>2. j \notin S
      BY <2>2, <3>1
    <3> QED
      BY <3>2
  <2>4. \E i \in DOMAIN steps :
            steps[i].st = st /\ \A j \in DOMAIN steps : j < i => steps[j].st # st
    BY <2>2, <2>3
  <2> HIDE DEF S
  <2> QED
    BY <1>2, <2>4 DEF FirstAt
<1> QED
  BY <1>1, <1>2

\* Current is 0 or the index of a step.
LEMMA CurrentIsStep ==
    ASSUME NEW steps, DOMAIN steps \subseteq Nat
    PROVE  Current(steps) = 0 \/ Current(steps) \in DOMAIN steps
BY FirstAtFinds DEF Current

AnyStep == [id : Nat, title : Titles, st : StepStatuses, started : BOOLEAN, done : BOOLEAN]

\* What each operation's new list of steps must be for the invariant to hold.
Sound(steps) ==
    /\ steps \in Seq(AnyStep)
    /\ DistinctIds(steps)
    /\ \A i \in DOMAIN steps : Timed(steps[i])

Inv == TypeOK /\ StatusFollowsSteps /\ IdsDistinct /\ TimesMatch
-----------------------------------------------------------------------------
\* The fields of a member of a list of steps.
LEMMA StepFields ==
    ASSUME NEW steps \in Seq(AnyStep), NEW i \in DOMAIN steps
    PROVE  /\ i \in 1..Len(steps)
           /\ steps[i] \in AnyStep
           /\ steps[i].id \in Nat
<1>1. i \in 1..Len(steps)
  OBVIOUS
<1>2. steps[i] \in AnyStep
  BY <1>1, ElementOfSeq
<1> QED
  BY <1>1, <1>2 DEF AnyStep

\* Current is 0 or the index of a step.
LEMMA CurrentOfSeq ==
    ASSUME NEW steps \in Seq(AnyStep)
    PROVE  Current(steps) = 0 \/ Current(steps) \in DOMAIN steps
<1>1. DOMAIN steps \subseteq Nat
  OBVIOUS
<1> QED
  BY <1>1, CurrentIsStep

\* NextId is greater than every id of the steps, and no greater than it must be.
LEMMA NextIdAbove ==
    ASSUME NEW steps \in Seq(AnyStep), NEW n \in Nat \ {0}, \A id \in IdsOf(steps) : id < n
    PROVE  NextId(steps) \in 1..n /\ \A id \in IdsOf(steps) : id < NextId(steps)
<1> DEFINE Ids   == IdsOf(steps)
           Above == {k \in Nat \ {0} : \A id \in Ids : id < k}
<1>1. Ids \subseteq Nat
  <2>1. \A i \in DOMAIN steps : steps[i].id \in Nat
    BY StepFields
  <2> QED
    BY <2>1 DEF IdsOf
<1>2. Above \in SUBSET Nat /\ n \in Above
  OBVIOUS
<1>3. PICK m \in Above : \A k \in Above : m <= k
  BY <1>2, LeastNat
<1>4. m \in {1} \cup {id + 1 : id \in Ids}
  <2>1. CASE m = 1
    BY <2>1
  <2>2. CASE m # 1
    <3>1. m - 1 \in Nat \ {0} /\ m - 1 \notin Above
      BY <1>3, <2>2
    <3>2. PICK id \in Ids : ~(id < m - 1)
      BY <3>1
    <3>3. id < m /\ id \in Nat
      BY <1>1, <1>3
    <3>4. m = id + 1
      BY <3>2, <3>3, <1>3
    <3> QED
      BY <3>4
  <2> QED
    BY <2>1, <2>2
<1> DEFINE T == {1} \cup {id + 1 : id \in Ids}
<1>5. NextId(steps) \in T /\ \A id \in Ids : id < NextId(steps)
  <2>1. NextId(steps) = CHOOSE k \in T : \A id \in Ids : id < k
    BY DEF NextId
  <2>2. \E k \in T : \A id \in Ids : id < k
    BY <1>3, <1>4
  <2> HIDE DEF T, Ids, Above
  <2> QED
    BY <2>1, <2>2
<1>6. NextId(steps) <= n
  <2>1. CASE NextId(steps) = 1
    BY <2>1
  <2>2. CASE \E id \in Ids : NextId(steps) = id + 1
    BY <2>2, <1>1
  <2> QED
    BY <2>1, <2>2, <1>5
<1>7. NextId(steps) \in Nat \ {0}
  BY <1>5, <1>1
<1> QED
  BY <1>5, <1>6, <1>7
-----------------------------------------------------------------------------
\* What InsertAt and RemoveAt of SequencesExt return.
LEMMA RemoveAtProps ==
    ASSUME NEW S, NEW s \in Seq(S), NEW i \in 1..Len(s)
    PROVE  /\ RemoveAt(s, i) \in Seq(S)
           /\ Len(RemoveAt(s, i)) = Len(s) - 1
           /\ \A k \in 1..(Len(s) - 1) :
                 RemoveAt(s, i)[k] = IF k < i THEN s[k] ELSE s[k + 1]
<1> DEFINE a == SubSeq(s, 1, i - 1)
           b == SubSeq(s, i + 1, Len(s))
<1>0. Len(s) \in Nat /\ \A k \in 1..Len(s) : s[k] \in S
  BY LenProperties, ElementOfSeq
<1>1. a \in Seq(S) /\ Len(a) = i - 1 /\ \A k \in 1..(i - 1) : a[k] = s[k]
  <2>1. \A k \in 1..(i - 1) : s[k] \in S
    BY <1>0
  <2> QED
    BY <1>0, <2>1, SubSeqProperties
<1>2. b \in Seq(S) /\ Len(b) = Len(s) - i /\ \A k \in 1..(Len(s) - i) : b[k] = s[i + k]
  <2>1. \A k \in (i + 1)..Len(s) : s[k] \in S
    BY <1>0
  <2>2. b \in Seq(S) /\ Len(b) = (IF i + 1 <= Len(s) THEN Len(s) - (i + 1) + 1 ELSE 0)
    BY <1>0, <2>1, SubSeqProperties
  <2>3. \A k \in 1..(Len(s) - (i + 1) + 1) : b[k] = s[(i + 1) + k - 1]
    BY <1>0, <2>1, SubSeqProperties
  <2>4. \A k \in 1..(Len(s) - i) : b[k] = s[i + k]
    <3> TAKE k \in 1..(Len(s) - i)
    <3>1. k \in 1..(Len(s) - (i + 1) + 1) /\ (i + 1) + k - 1 = i + k
      BY <1>0
    <3> QED
      BY <2>3, <3>1
  <2> QED
    BY <2>2, <2>4, <1>0
<1> HIDE DEF a, b
<1>3. /\ a \o b \in Seq(S)
      /\ Len(a \o b) = Len(s) - 1
      /\ \A k \in 1..(Len(a) + Len(b)) : (a \o b)[k] = IF k <= Len(a) THEN a[k] ELSE b[k - Len(a)]
  BY <1>0, <1>1, <1>2, ConcatProperties
<1>4. \A k \in 1..(Len(s) - 1) : (a \o b)[k] = IF k < i THEN s[k] ELSE s[k + 1]
  <2> TAKE k \in 1..(Len(s) - 1)
  <2>1. CASE k < i
    BY <2>1, <1>0, <1>1, <1>2, <1>3
  <2>2. CASE ~(k < i)
    <3>1. k - Len(a) \in 1..(Len(s) - i) /\ i + (k - Len(a)) = k + 1
      BY <2>2, <1>0, <1>1
    <3>2. b[k - Len(a)] = s[k + 1]
      BY <3>1, <1>2
    <3> QED
      BY <2>2, <3>2, <1>0, <1>1, <1>2, <1>3
  <2> QED
    BY <2>1, <2>2
<1> QED
  BY <1>3, <1>4 DEF RemoveAt, a, b

LEMMA InsertAtProps ==
    ASSUME NEW S, NEW s \in Seq(S), NEW i \in 1..(Len(s) + 1), NEW e \in S
    PROVE  /\ InsertAt(s, i, e) \in Seq(S)
           /\ Len(InsertAt(s, i, e)) = Len(s) + 1
           /\ \A k \in 1..(Len(s) + 1) :
                 InsertAt(s, i, e)[k] = IF k < i THEN s[k] ELSE IF k = i THEN e ELSE s[k - 1]
<1> DEFINE a == SubSeq(s, 1, i - 1)
           b == SubSeq(s, i, Len(s))
           c == a \o <<e>>
<1>0. Len(s) \in Nat /\ \A k \in 1..Len(s) : s[k] \in S
  BY LenProperties, ElementOfSeq
<1>1. a \in Seq(S) /\ Len(a) = i - 1 /\ \A k \in 1..(i - 1) : a[k] = s[k]
  <2>1. \A k \in 1..(i - 1) : s[k] \in S
    BY <1>0
  <2> QED
    BY <1>0, <2>1, SubSeqProperties
<1>2. /\ b \in Seq(S)
      /\ Len(b) = Len(s) - i + 1
      /\ \A k \in 1..(Len(s) - i + 1) : b[k] = s[i + k - 1]
  <2>1. \A k \in i..Len(s) : s[k] \in S
    BY <1>0
  <2> QED
    BY <1>0, <2>1, SubSeqProperties
<1>3. <<e>> \in Seq(S) /\ Len(<<e>>) = 1 /\ <<e>>[1] = e
  OBVIOUS
<1> HIDE DEF a, b
<1>4. c \in Seq(S) /\ Len(c) = i /\ \A k \in 1..i : c[k] = IF k < i THEN s[k] ELSE e
  <2>1. /\ c \in Seq(S)
        /\ Len(c) = Len(a) + Len(<<e>>)
        /\ \A k \in 1..(Len(a) + Len(<<e>>)) : c[k] = IF k <= Len(a) THEN a[k] ELSE <<e>>[k - Len(a)]
    BY <1>1, <1>3, ConcatProperties
  <2>2. \A k \in 1..i : c[k] = IF k < i THEN s[k] ELSE e
    <3> TAKE k \in 1..i
    <3>1. CASE k < i
      BY <3>1, <2>1, <1>1, <1>3
    <3>2. CASE k = i
      <4>1. k - Len(a) = 1 /\ ~(k <= Len(a)) /\ k \in 1..(Len(a) + Len(<<e>>))
        BY <3>2, <1>1, <1>3
      <4> QED
        BY <4>1, <2>1, <1>3, <3>2
    <3>3. k < i \/ k = i
      BY <1>0
    <3> HIDE DEF c
    <3> QED
      BY <3>1, <3>2, <3>3
  <2> QED
    BY <2>1, <2>2, <1>1, <1>3
<1> HIDE DEF c
<1>5. /\ c \o b \in Seq(S)
      /\ Len(c \o b) = Len(s) + 1
      /\ \A k \in 1..(Len(c) + Len(b)) : (c \o b)[k] = IF k <= Len(c) THEN c[k] ELSE b[k - Len(c)]
  <2>1. /\ c \o b \in Seq(S)
        /\ Len(c \o b) = Len(c) + Len(b)
        /\ \A k \in 1..(Len(c) + Len(b)) : (c \o b)[k] = IF k <= Len(c) THEN c[k] ELSE b[k - Len(c)]
    BY <1>4, <1>2, ConcatProperties
  <2>2. Len(c) + Len(b) = Len(s) + 1
    BY <1>0, <1>4, <1>2
  <2> QED
    BY <2>1, <2>2
<1>6. \A k \in 1..(Len(s) + 1) :
          (c \o b)[k] = IF k < i THEN s[k] ELSE IF k = i THEN e ELSE s[k - 1]
  <2> TAKE k \in 1..(Len(s) + 1)
  <2>0. k \in 1..(Len(c) + Len(b))
    BY <1>0, <1>2, <1>4
  <2>1. CASE k <= i
    BY <2>0, <2>1, <1>4, <1>5
  <2>2. CASE ~(k <= i)
    <3>1. k - Len(c) \in 1..(Len(s) - i + 1) /\ i + (k - Len(c)) - 1 = k - 1
      BY <2>2, <1>0, <1>4
    <3>2. b[k - Len(c)] = s[k - 1]
      BY <3>1, <1>2
    <3> QED
      BY <2>0, <2>2, <3>2, <1>4, <1>5
  <2> QED
    BY <2>1, <2>2
<1> QED
  BY <1>5, <1>6 DEF InsertAt, a, b, c
-----------------------------------------------------------------------------
(* Each way an operation changes the list of steps keeps it sound.         *)

\* The domain and the members of a sound list, and what one step may become.
LEMMA SoundSteps ==
    ASSUME NEW steps, Sound(steps)
    PROVE  /\ Len(steps) \in Nat
           /\ DOMAIN steps = 1..Len(steps)
           /\ \A i \in 1..Len(steps) : steps[i] \in AnyStep /\ Timed(steps[i])
           /\ \A i, j \in 1..Len(steps) : steps[i].id = steps[j].id => i = j
<1>1. steps \in Seq(AnyStep)
  BY DEF Sound
<1>2. Len(steps) \in Nat /\ DOMAIN steps = 1..Len(steps)
  BY <1>1
<1>3. \A i \in 1..Len(steps) : steps[i] \in AnyStep
  BY <1>1, ElementOfSeq
<1> QED
  BY <1>2, <1>3 DEF Sound, DistinctIds

\* WithStatus keeps the id, the title and the match of times and status.
LEMMA WithStatusSound ==
    ASSUME NEW s \in AnyStep, NEW st \in StepStatuses, Timed(s)
    PROVE  /\ WithStatus(s, st) \in AnyStep
           /\ WithStatus(s, st).id = s.id
           /\ Timed(WithStatus(s, st))
<1> DEFINE t == WithStatus(s, st)
<1>1. t.id = s.id /\ t.title = s.title /\ t.st = st
  BY DEF WithStatus, AnyStep
<1>2. t.started <=> (s.started \/ st \in {"in_progress", "completed", "blocked"}) /\ st # "pending"
  BY DEF WithStatus, AnyStep
<1>3. t.done <=> (s.done /\ st = "skipped") \/ st = "completed"
  BY DEF WithStatus, AnyStep
<1>4. t \in AnyStep
  BY DEF WithStatus, AnyStep
<1> QED
  BY <1>1, <1>2, <1>3, <1>4 DEF Timed, StepStatuses

LEMMA SetSound ==
    ASSUME NEW steps, Sound(steps), NEW i \in 1..Len(steps),
           NEW s \in AnyStep, s.id = steps[i].id, Timed(s)
    PROVE  Sound([steps EXCEPT ![i] = s])
<1> DEFINE new == [steps EXCEPT ![i] = s]
<1>1. new \in Seq(AnyStep)
  BY ExceptSeq DEF Sound
<1>2. /\ DOMAIN new = 1..Len(steps)
      /\ \A k \in 1..Len(steps) : new[k] = IF k = i THEN s ELSE steps[k]
  BY SoundSteps
<1>3. DistinctIds(new)
  <2>1. \A k \in 1..Len(steps) : new[k].id = steps[k].id
    BY <1>2
  <2> QED
    BY <1>2, <2>1, SoundSteps DEF DistinctIds
<1>4. \A k \in DOMAIN new : Timed(new[k])
  BY <1>2, SoundSteps
<1> QED
  BY <1>1, <1>3, <1>4 DEF Sound

LEMMA RemoveSound ==
    ASSUME NEW steps, Sound(steps), NEW i \in 1..Len(steps)
    PROVE  /\ Sound(RemoveAt(steps, i))
           /\ Len(RemoveAt(steps, i)) = Len(steps) - 1
           /\ \A k \in 1..(Len(steps) - 1) : RemoveAt(steps, i)[k].id # steps[i].id
<1> DEFINE new == RemoveAt(steps, i)
<1>1. /\ new \in Seq(AnyStep)
      /\ Len(new) = Len(steps) - 1
      /\ \A k \in 1..(Len(steps) - 1) : new[k] = IF k < i THEN steps[k] ELSE steps[k + 1]
  BY RemoveAtProps DEF Sound
<1>2. Len(steps) \in Nat /\ DOMAIN new = 1..(Len(steps) - 1)
  BY <1>1, SoundSteps
<1> DEFINE old(k) == IF k < i THEN k ELSE k + 1
<1>3. /\ \A k \in 1..(Len(steps) - 1) : new[k] = steps[old(k)] /\ old(k) \in 1..Len(steps) /\ old(k) # i
      /\ \A k, m \in 1..(Len(steps) - 1) : old(k) = old(m) => k = m
  BY <1>1, <1>2
<1> HIDE DEF new, old
<1>4. \A k \in 1..(Len(steps) - 1) : Timed(new[k]) /\ new[k].id # steps[i].id
  BY <1>3, SoundSteps
<1>5. \A k, m \in 1..(Len(steps) - 1) : new[k].id = new[m].id => k = m
  BY <1>3, SoundSteps
<1>6. Sound(new)
  BY <1>1, <1>2, <1>4, <1>5 DEF Sound, DistinctIds
<1> QED
  BY <1>6, <1>1, <1>4 DEF new

LEMMA InsertSound ==
    ASSUME NEW steps, Sound(steps), NEW i \in 1..(Len(steps) + 1), NEW s \in AnyStep, Timed(s),
           \A k \in 1..Len(steps) : steps[k].id # s.id
    PROVE  Sound(InsertAt(steps, i, s))
<1> DEFINE new == InsertAt(steps, i, s)
<1>1. /\ new \in Seq(AnyStep)
      /\ Len(new) = Len(steps) + 1
      /\ \A k \in 1..(Len(steps) + 1) :
            new[k] = IF k < i THEN steps[k] ELSE IF k = i THEN s ELSE steps[k - 1]
  <2>1. steps \in Seq(AnyStep)
    BY DEF Sound
  <2> QED
    BY <2>1, InsertAtProps
<1>2. Len(steps) \in Nat /\ DOMAIN new = 1..(Len(steps) + 1)
  BY <1>1, SoundSteps
<1> DEFINE old(k) == IF k < i THEN k ELSE k - 1
<1>3. /\ new[i] = s
      /\ \A k \in 1..(Len(steps) + 1) : k # i => new[k] = steps[old(k)] /\ old(k) \in 1..Len(steps)
      /\ \A k, m \in 1..(Len(steps) + 1) : k # i /\ m # i /\ old(k) = old(m) => k = m
  BY <1>1, <1>2
<1> HIDE DEF new, old
<1>4. \A k \in 1..(Len(steps) + 1) : Timed(new[k])
  BY <1>3, SoundSteps
<1>5. \A k, m \in 1..(Len(steps) + 1) : new[k].id = new[m].id => k = m
  BY <1>3, SoundSteps
<1>6. Sound(new)
  BY <1>1, <1>2, <1>4, <1>5 DEF Sound, DistinctIds
<1> QED
  BY <1>6 DEF new

LEMMA MoveSound ==
    ASSUME NEW steps, Sound(steps), NEW i \in 1..Len(steps), NEW p \in Nat
    PROVE  Sound(Move(steps, i, p))
<1> DEFINE rest == RemoveAt(steps, i)
           at   == Clamp(p, Len(steps) - 1) + 1
<1>1. /\ Sound(rest)
      /\ Len(rest) = Len(steps) - 1
      /\ \A k \in 1..Len(rest) : rest[k].id # steps[i].id
  BY RemoveSound
<1>2. at \in 1..(Len(rest) + 1)
  BY <1>1, SoundSteps DEF Clamp
<1>3. steps[i] \in AnyStep /\ Timed(steps[i])
  BY SoundSteps
<1> HIDE DEF rest, at
<1>4. Sound(InsertAt(rest, at, steps[i]))
  BY <1>1, <1>2, <1>3, InsertSound
<1> QED
  BY <1>4 DEF Move, rest, at

LEMMA NewStepSound ==
    ASSUME NEW id \in Nat, NEW title \in Titles
    PROVE  NewStep(id, title) \in AnyStep /\ NewStep(id, title).id = id /\ Timed(NewStep(id, title))
BY DEF NewStep, AnyStep, Timed, StepStatuses

LEMMA ResetSound ==
    ASSUME NEW steps, Sound(steps)
    PROVE  Sound(Reset(steps))
<1> DEFINE i == Current(steps)
<1>1. i = 0 \/ i \in 1..Len(steps)
  BY CurrentOfSeq, SoundSteps DEF Sound
<1>2. CASE i = 0
  BY <1>2 DEF Reset
<1>3. CASE i \in 1..Len(steps)
  <2> DEFINE s == [steps[i] EXCEPT !.st = "pending", !.started = FALSE, !.done = FALSE]
  <2>1. steps[i] \in AnyStep /\ i # 0
    BY <1>3, SoundSteps
  <2>2. s \in AnyStep /\ s.id = steps[i].id /\ Timed(s)
    BY <2>1 DEF AnyStep, StepStatuses, Timed
  <2>3. Reset(steps) = [steps EXCEPT ![i] = s]
    BY <2>1 DEF Reset
  <2> HIDE DEF s, i
  <2>4. Sound([steps EXCEPT ![i] = s])
    BY <1>3, <2>2, SetSound, SMTT(30)
  <2> QED
    BY <2>3, <2>4
<1> QED
  BY <1>1, <1>2, <1>3

\* FirstTitled finds a step with the title if there is one.
LEMMA FirstTitledFinds ==
    ASSUME NEW steps \in Seq(AnyStep), NEW title, HasTitle(steps, title)
    PROVE  /\ FirstTitled(steps, title) \in DOMAIN steps
           /\ steps[FirstTitled(steps, title)].title = title
<1> DEFINE S == {i \in 1..Len(steps) : steps[i].title = title}
<1>1. S \in SUBSET Nat /\ S # {} /\ DOMAIN steps = 1..Len(steps)
  BY DEF HasTitle
<1>2. PICK m \in S : \A n \in S : m <= n
  BY <1>1, LeastNat
<1>3. \A j \in DOMAIN steps : j < m => steps[j].title # title
  <2> TAKE j \in DOMAIN steps
  <2> HAVE j < m
  <2>1. j \notin S
    BY <1>1, <1>2
  <2> QED
    BY <2>1, <1>1
<1>4. \E i \in DOMAIN steps :
          steps[i].title = title /\ \A j \in DOMAIN steps : j < i => steps[j].title # title
  BY <1>1, <1>2, <1>3
<1> HIDE DEF S
<1> QED
  BY <1>4 DEF FirstTitled

\* The steps that replacePlanSteps builds are sound: a reused step is used for
\* one title only, and a new one gets a number above all old and earlier ones.
LEMMA ReplaceSound ==
    ASSUME NEW steps, Sound(steps), IdsOf(steps) \subseteq 1..MaxId,
           NEW n \in Nat, NEW titles \in [1..n -> Titles], Unique(titles)
    PROVE  Sound(Replace(steps, titles))
<1> DEFINE new     == Replace(steps, titles)
           Old(k)  == HasTitle(steps, titles[k])
           New(k)  == {j \in 1..(k - 1) : ~HasTitle(steps, titles[j])}
           N       == NextId(steps)
<1>1. steps \in Seq(AnyStep) /\ MaxId + 1 \in Nat \ {0} /\ \A id \in IdsOf(steps) : id < MaxId + 1
  BY BoundsAssumption DEF Sound
<1>2. N \in Nat /\ \A i \in 1..Len(steps) : steps[i].id < N
  <2>1. N \in 1..(MaxId + 1) /\ \A id \in IdsOf(steps) : id < N
    BY <1>1, NextIdAbove
  <2> QED
    BY <1>1, <2>1, SoundSteps DEF IdsOf
<1>3. \A k \in 1..n : IsFiniteSet(New(k)) /\ Cardinality(New(k)) \in Nat
  <2> TAKE k \in 1..n
  <2>1. IsFiniteSet(1..(k - 1))
    BY FS_Interval
  <2>2. New(k) \subseteq 1..(k - 1)
    OBVIOUS
  <2> QED
    BY <2>1, <2>2, FS_Subset, FS_CardinalityType
<1>4. ASSUME NEW k \in 1..n, NEW m \in 1..n, k < m, ~Old(k)
      PROVE  Cardinality(New(k)) < Cardinality(New(m))
  <2>1. New(k) \subseteq New(m) /\ k \in New(m) /\ k \notin New(k)
    BY <1>4
  <2> HIDE DEF New
  <2>2. Cardinality(New(k)) <= Cardinality(New(m)) /\ Cardinality(New(k)) # Cardinality(New(m))
    BY <2>1, <1>3, FS_Subset
  <2> QED
    BY <2>2, <1>3
<1>5. DOMAIN new = 1..n
  BY DEF Replace
<1>6. ASSUME NEW k \in 1..n, Old(k)
      PROVE  \E i \in 1..Len(steps) : new[k] = steps[i] /\ steps[i].title = titles[k]
  <2>1. new[k] = steps[FirstTitled(steps, titles[k])]
    BY <1>6 DEF Replace
  <2> QED
    BY <2>1, <1>1, <1>6, FirstTitledFinds, SoundSteps
<1>7. ASSUME NEW k \in 1..n, ~Old(k)
      PROVE  new[k] = NewStep(N + Cardinality(New(k)), titles[k])
  BY <1>7 DEF Replace
<1> HIDE DEF new, New, N, Old
<1>8. ASSUME NEW k \in 1..n
      PROVE  new[k] \in AnyStep /\ Timed(new[k]) /\ (Old(k) => new[k].id < N)
               /\ (~Old(k) => new[k].id = N + Cardinality(New(k)))
  <2>1. CASE Old(k)
    BY <2>1, <1>2, <1>6, SoundSteps
  <2>2. CASE ~Old(k)
    <3>1. N + Cardinality(New(k)) \in Nat /\ titles[k] \in Titles
      BY <1>2, <1>3
    <3> QED
      BY <2>2, <3>1, <1>7, NewStepSound
  <2> QED
    BY <2>1, <2>2
<1>9. \A k, m \in 1..n : new[k].id = new[m].id => k = m
  <2> SUFFICES ASSUME NEW k \in 1..n, NEW m \in 1..n, new[k].id = new[m].id, k # m
               PROVE  FALSE
    OBVIOUS
  <2>1. CASE Old(k) /\ Old(m)
    <3>1. PICK i \in 1..Len(steps) : new[k] = steps[i] /\ steps[i].title = titles[k]
      BY <2>1, <1>6
    <3>2. PICK j \in 1..Len(steps) : new[m] = steps[j] /\ steps[j].title = titles[m]
      BY <2>1, <1>6
    <3>3. i = j
      BY <3>1, <3>2, SoundSteps
    <3> QED
      BY <3>1, <3>2, <3>3 DEF Unique
  <2>5. ASSUME NEW a \in 1..n, NEW b \in 1..n, Old(a), ~Old(b)
        PROVE  new[a].id # new[b].id
    <3>1. new[a].id < N /\ new[b].id = N + Cardinality(New(b)) /\ new[a].id \in Nat
      BY <2>5, <1>8 DEF AnyStep
    <3> QED
      BY <3>1, <1>2, <1>3
  <2>2. CASE Old(k) /\ ~Old(m)
    BY <2>2, <2>5
  <2>3. CASE ~Old(k) /\ Old(m)
    BY <2>3, <2>5
  <2>4. CASE ~Old(k) /\ ~Old(m)
    <3>1. k < m \/ m < k
      OBVIOUS
    <3>2. Cardinality(New(k)) < Cardinality(New(m)) \/ Cardinality(New(m)) < Cardinality(New(k))
      BY <2>4, <3>1, <1>4
    <3> QED
      BY <2>4, <3>2, <1>2, <1>3, <1>8
  <2> QED
    BY <2>1, <2>2, <2>3, <2>4
<1>10. new \in Seq(AnyStep)
  <2>1. new = [k \in 1..n |-> new[k]]
    BY <1>5 DEF new, Replace
  <2>2. new \in [1..n -> AnyStep]
    BY <2>1, <1>8
  <2> QED
    BY <2>2
<1>11. Sound(new)
  BY <1>5, <1>8, <1>9, <1>10 DEF Sound, DistinctIds
<1> QED
  BY <1>11 DEF new
-----------------------------------------------------------------------------
\* The steps of a task that satisfies the invariant are sound.
LEMMA InvSound ==
    ASSUME Inv
    PROVE  Sound(task.steps) /\ IdsOf(task.steps) \subseteq 1..MaxId
<1>1. task.steps \in Seq(Step)
  BY DEF Inv, TypeOK, Task
<1>2. \A i \in DOMAIN task.steps : task.steps[i] \in Step
  BY <1>1
<1>3. task.steps \in Seq(AnyStep)
  <2>1. Step \subseteq AnyStep
    BY BoundsAssumption DEF Step, AnyStep
  <2> QED
    BY <1>1, <2>1, SeqMonotonic
<1>4. IdsOf(task.steps) \subseteq 1..MaxId
  <2>1. \A i \in DOMAIN task.steps : task.steps[i].id \in 1..MaxId
    BY <1>2 DEF Step
  <2> QED
    BY <2>1 DEF IdsOf
<1> QED
  BY <1>3, <1>4 DEF Inv, IdsDistinct, TimesMatch, Sound

AnyTask == [status : TaskStatuses, plan : StoredPlans \cup {"none"}, steps : Seq(AnyStep)]

\* A change that aggregates the status anew restores the invariant whatever
\* the sound list of steps it is given.
LEMMA DerivedKeeps ==
    ASSUME Inv, NEW t \in AnyTask, Sound(t.steps), opening' \in Modes \cup {"none"},
           (t.status = "cancelled") <=> (task.status = "cancelled"), Derived(t)
    PROVE  Inv'
<1>1. /\ task' = Refresh(t) /\ Bounded(t)
      /\ explicit' = (explicit /\ task.status = "cancelled")
  BY DEF Derived, Mutable
<1>2. \A steps : Derive(steps) \in TaskStatuses \ {"cancelled"}
  BY DEF Derive, TaskStatuses
<1>3. /\ task'.steps = t.steps /\ task'.plan = t.plan /\ task' \in AnyTask
      /\ task'.status = IF t.status = "cancelled" THEN "cancelled" ELSE Derive(t.steps)
  BY <1>1, <1>2 DEF Refresh, AnyTask
<1>4. t.steps \in Seq(Step)
  <2>1. /\ t.steps \in Seq(AnyStep) /\ Len(t.steps) \in Nat /\ DOMAIN t.steps = 1..Len(t.steps)
        /\ \A i \in 1..Len(t.steps) : t.steps[i] \in AnyStep
    BY SoundSteps DEF AnyTask
  <2>2. \A i \in 1..Len(t.steps) : t.steps[i].id \in 1..MaxId
    BY <1>1, <2>1 DEF Bounded, IdsOf
  <2>3. \A i \in 1..Len(t.steps) : t.steps[i] \in Step
    BY <2>1, <2>2 DEF AnyStep, Step
  <2>4. t.steps = [i \in 1..Len(t.steps) |-> t.steps[i]]
    BY <2>1
  <2>5. t.steps \in [1..Len(t.steps) -> Step]
    BY <2>3, <2>4
  <2> QED
    BY <2>1, <2>5
<1>6. TypeOK'
  <2>1. task' \in Task
    BY <1>3, <1>4 DEF Task, AnyTask
  <2>2. explicit' \in BOOLEAN
    BY <1>1
  <2> QED
    BY <2>1, <2>2, <1>1 DEF TypeOK
<1>7. StatusFollowsSteps'
  <2>1. CASE t.status # "cancelled"
    BY <2>1, <1>3 DEF StatusFollowsSteps
  <2>2. CASE t.status = "cancelled"
    <3>1. Derive(task.steps) # "cancelled"
      BY <1>2
    <3>2. explicit /\ task.status = "cancelled"
      BY <2>2, <3>1 DEF Inv, StatusFollowsSteps
    <3> QED
      BY <3>2, <1>1 DEF StatusFollowsSteps
  <2> QED
    BY <2>1, <2>2
<1>8. IdsDistinct' /\ TimesMatch'
  BY <1>3 DEF IdsDistinct, TimesMatch, Sound
<1> QED
  BY <1>6, <1>7, <1>8 DEF Inv

\* The form in which the operations use it: only the steps change before Refresh.
LEMMA StepsKeep ==
    ASSUME Inv, NEW steps, Sound(steps), opening' \in Modes \cup {"none"}, Derived(WithSteps(steps))
    PROVE  Inv'
<1>1. /\ WithSteps(steps) \in AnyTask
      /\ WithSteps(steps).steps = steps /\ WithSteps(steps).status = task.status
  BY DEF WithSteps, AnyTask, Inv, TypeOK, Task, Sound
<1> QED
  BY <1>1, DerivedKeeps

\* A change of status or plan that is marked as made by hand, or keeps both.
LEMMA HandKeeps ==
    ASSUME Inv, task' \in Task, task'.steps = task.steps, opening' \in Modes \cup {"none"},
           explicit' \in BOOLEAN,
           explicit' \/ (explicit' = explicit /\ task'.status = task.status)
    PROVE  Inv'
BY DEF Inv, TypeOK, StatusFollowsSteps, IdsDistinct, TimesMatch
-----------------------------------------------------------------------------
\* What a task is created with: new steps with ids of their own.
LEMMA GivenSound ==
    ASSUME NEW steps \in GivenSteps
    PROVE  /\ steps \in Seq(Step) /\ DistinctIds(steps)
           /\ \A i \in DOMAIN steps : steps[i].st = "pending" /\ Timed(steps[i])
<1>1. PICK n \in 0..MaxSteps : steps \in [1..n -> FreshSteps]
  BY DEF GivenSteps
<1>2. \A s \in FreshSteps : s \in Step /\ s.st = "pending" /\ Timed(s)
  <2>1. SUFFICES ASSUME NEW id \in 1..MaxId, NEW title \in Titles
                 PROVE  NewStep(id, title) \in Step /\ NewStep(id, title).st = "pending"
                          /\ Timed(NewStep(id, title))
    BY DEF FreshSteps
  <2> QED
    BY DEF NewStep, Step, StepStatuses, Timed
<1>3. n \in Nat /\ DOMAIN steps = 1..n /\ \A i \in 1..n : steps[i] \in FreshSteps
  BY <1>1, BoundsAssumption
<1>4. steps \in [1..n -> Step]
  BY <1>1, <1>2, <1>3
<1>5. steps \in Seq(Step)
  BY <1>3, <1>4
<1> QED
  BY <1>2, <1>3, <1>5 DEF GivenSteps

LEMMA InvInit == Init => Inv
<1> SUFFICES ASSUME Init PROVE Inv
  OBVIOUS
<1>1. /\ task.status = "pending" /\ task.plan \in {"none", "drafting"}
      /\ task = [status |-> task.status, plan |-> task.plan, steps |-> task.steps]
      /\ task.steps = <<>> \/ task.steps \in GivenSteps
  BY DEF Init
<1>2. /\ task.steps \in Seq(Step) /\ DistinctIds(task.steps)
      /\ \A i \in DOMAIN task.steps : task.steps[i].st = "pending" /\ Timed(task.steps[i])
  <2>1. CASE task.steps = <<>>
    <3>1. task.steps \in Seq(Step) /\ Len(task.steps) = 0
      BY <2>1
    <3>2. DOMAIN task.steps = {}
      <4>1. DOMAIN task.steps = 1..0
        BY <3>1
      <4> QED
        BY <4>1
    <3> QED
      BY <3>1, <3>2 DEF DistinctIds
  <2>2. CASE task.steps \in GivenSteps
    BY <2>2, GivenSound
  <2> QED
    BY <1>1, <2>1, <2>2
<1>3. task \in Task
  BY <1>1, <1>2 DEF Task, TaskStatuses, StoredPlans
<1>4. TypeOK
  <2>1. opening = "none" /\ explicit = FALSE
    BY DEF Init
  <2> QED
    BY <1>3, <2>1 DEF TypeOK
<1>5. StatusFollowsSteps
  <2>1. Statuses(task.steps) \subseteq {"pending"}
    BY <1>2 DEF Statuses
  <2> QED
    BY <1>1, <2>1 DEF StatusFollowsSteps, Derive
<1> QED
  BY <1>2, <1>4, <1>5 DEF Inv, IdsDistinct, TimesMatch

\* A new step at any position.
LEMMA AddKeeps ==
    ASSUME Inv, NEW title \in Titles, NEW n \in Nat, AddStep(title, n)
    PROVE  Inv'
<1> DEFINE new == NewStep(NextId(task.steps), title)
           at  == Clamp(n, Len(task.steps)) + 1
<1>0. /\ Sound(task.steps) /\ opening' \in Modes \cup {"none"}
      /\ DOMAIN task.steps = 1..Len(task.steps) /\ Len(task.steps) \in Nat
  BY InvSound, SoundSteps DEF Inv, TypeOK, AddStep
<1>1. /\ NextId(task.steps) \in Nat
      /\ \A k \in 1..Len(task.steps) : task.steps[k].id < NextId(task.steps)
  <2>1. \A id \in IdsOf(task.steps) : id < MaxId + 1
    BY InvSound, BoundsAssumption
  <2>2. NextId(task.steps) \in 1..(MaxId + 1) /\ \A id \in IdsOf(task.steps) : id < NextId(task.steps)
    <3>1. MaxId + 1 \in Nat \ {0} /\ task.steps \in Seq(AnyStep)
      BY <1>0, BoundsAssumption DEF Sound
    <3> QED
      BY <2>1, <3>1, NextIdAbove
  <2> QED
    BY <1>0, <2>2 DEF IdsOf
<1>2. new \in AnyStep /\ new.id = NextId(task.steps) /\ Timed(new)
  BY <1>1, NewStepSound
<1>3. at \in 1..(Len(task.steps) + 1)
  BY <1>0 DEF Clamp
<1>4. \A k \in 1..Len(task.steps) : task.steps[k].id # new.id
  <2> TAKE k \in 1..Len(task.steps)
  <2>1. task.steps[k].id \in Nat /\ task.steps[k].id < NextId(task.steps)
    BY <1>1, <1>0, SoundSteps DEF AnyStep
  <2> QED
    BY <1>1, <1>2, <2>1
<1> HIDE DEF new, at
<1>5. Sound(InsertAt(task.steps, at, new))
  BY <1>0, <1>2, <1>3, <1>4, InsertSound
<1>6. Derived(WithSteps(InsertAt(task.steps, at, new)))
  BY DEF AddStep, Insert, new, at
<1> QED
  BY <1>0, <1>5, <1>6, StepsKeep

\* A step with another title, another status or another place.
LEMMA UpdateStepKeeps ==
    ASSUME Inv, NEW i \in DOMAIN task.steps, NEW title \in Titles,
           NEW st \in StepStatuses \cup {"keep"}, NEW p \in Nat, UpdateStep(i, title, st, p)
    PROVE  Inv'
<1> DEFINE s       == [task.steps[i] EXCEPT !.title = title]
           changed == IF st = "keep" THEN s ELSE WithStatus(s, st)
<1>0. Sound(task.steps) /\ opening' \in Modes \cup {"none"}
  BY InvSound DEF Inv, TypeOK, UpdateStep
<1>1. task.steps[i] \in AnyStep /\ Timed(task.steps[i]) /\ i \in 1..Len(task.steps)
  BY <1>0, SoundSteps
<1>2. s \in AnyStep /\ s.id = task.steps[i].id /\ Timed(s)
  BY <1>1 DEF AnyStep, Timed
<1> HIDE DEF s
<1>3. changed \in AnyStep /\ changed.id = task.steps[i].id /\ Timed(changed)
  BY <1>2, WithStatusSound
<1> HIDE DEF changed
<1>4. Sound(SetStep(i, changed))
  BY <1>0, <1>1, <1>3, SetSound DEF SetStep
<1>5. Len(SetStep(i, changed)) = Len(task.steps)
  BY <1>0 DEF SetStep, Sound
<1>6. Sound(Move(SetStep(i, changed), i, p))
  BY <1>1, <1>4, <1>5, MoveSound
<1>7. Derived(WithSteps(Move(SetStep(i, changed), i, p)))
  BY DEF UpdateStep, changed, s
<1> QED
  BY <1>0, <1>6, <1>7, StepsKeep

LEMMA RemoveKeeps ==
    ASSUME Inv, NEW i \in DOMAIN task.steps, NEW force, RemoveStep(i, force)
    PROVE  Inv'
<1>1. Sound(RemoveAt(task.steps, i)) /\ opening' \in Modes \cup {"none"}
  BY InvSound, RemoveSound DEF RemoveStep, Inv, TypeOK
<1> QED
  BY <1>1, StepsKeep DEF RemoveStep

LEMMA CancelKeeps == Inv /\ CancelTask => Inv'
<1> SUFFICES ASSUME Inv, CancelTask PROVE Inv'
  OBVIOUS
<1>1. task' \in Task /\ task'.steps = task.steps /\ explicit' = TRUE /\ opening' \in Modes \cup {"none"}
  BY DEF CancelTask, Inv, TypeOK, Task, TaskStatuses
<1> QED
  BY <1>1, HandKeeps

LEMMA UserStepKeeps == Inv /\ UserStep => Inv'
<1> SUFFICES ASSUME Inv, UserStep PROVE Inv'
  OBVIOUS
<1>1. ASSUME NEW status \in TaskStatuses, Update(status) PROVE Inv'
  <2>1. task' \in Task /\ task'.steps = task.steps /\ explicit' = TRUE /\ opening' \in Modes \cup {"none"}
    BY <1>1 DEF Update, Inv, TypeOK, Task
  <2> QED
    BY <2>1, HandKeeps
<1>2. ASSUME NEW title \in Titles, NEW n \in 0..MaxSteps, AddStep(title, n) PROVE Inv'
  BY <1>2, AddKeeps, BoundsAssumption
<1>3. ASSUME NEW i \in DOMAIN task.steps, NEW title \in Titles, NEW st \in StepStatuses \cup {"keep"},
             NEW p \in 0..(MaxSteps - 1), UpdateStep(i, title, st, p)
      PROVE  Inv'
  <2>1. p \in Nat
    BY BoundsAssumption
  <2> QED
    BY <1>3, <2>1, UpdateStepKeeps
<1>4. ASSUME NEW i \in DOMAIN task.steps, NEW force \in BOOLEAN, RemoveStep(i, force) PROVE Inv'
  BY <1>4, RemoveKeeps
<1> QED
  BY <1>1, <1>2, <1>3, <1>4, CancelKeeps DEF UserStep

\* A step that is set to a status, as complete_step, block_step and the
\* verification of an artifact do.
LEMMA SetStatusSound ==
    ASSUME NEW steps, Sound(steps), NEW i \in DOMAIN steps, NEW st \in StepStatuses
    PROVE  Sound([steps EXCEPT ![i] = WithStatus(steps[i], st)])
<1>1. i \in 1..Len(steps) /\ steps[i] \in AnyStep /\ Timed(steps[i])
  BY SoundSteps
<1> QED
  BY <1>1, WithStatusSound, SetSound

\* A list of titles, each once, replaces the steps.
LEMMA SubmitKeeps ==
    ASSUME Inv, NEW n \in Nat, NEW titles \in [1..n -> Titles], Unique(titles), SubmitPlan(titles)
    PROVE  Inv'
<1> DEFINE t == [WithSteps(Replace(task.steps, titles)) EXCEPT !.plan = "proposed"]
<1>0. Sound(task.steps) /\ task \in Task /\ opening' \in Modes \cup {"none"}
  BY InvSound DEF Inv, TypeOK, SubmitPlan
<1>1. Sound(Replace(task.steps, titles))
  BY <1>0, InvSound, ReplaceSound
<1>2. t \in AnyTask /\ t.steps = Replace(task.steps, titles) /\ t.status = task.status
  BY <1>0, <1>1 DEF WithSteps, AnyTask, Task, Sound, StoredPlans
<1> HIDE DEF t
<1>3. Derived(t)
  BY DEF SubmitPlan, t
<1> QED
  BY <1>0, <1>1, <1>2, <1>3, DerivedKeeps

LEMMA UpdatePlanKeeps ==
    ASSUME Inv, NEW n \in Nat, NEW titles \in [1..n -> Titles], Unique(titles), UpdatePlan(titles)
    PROVE  Inv'
<1> DEFINE next == Refresh(WithSteps(Replace(task.steps, titles)))
           t    == [next EXCEPT !.plan = IF PlanStatus(next) = "drafting" THEN "proposed" ELSE @]
<1>0. Sound(task.steps) /\ task \in Task /\ opening' \in Modes \cup {"none"}
  BY InvSound DEF Inv, TypeOK, UpdatePlan
<1>1. Sound(Replace(task.steps, titles))
  BY <1>0, InvSound, ReplaceSound
<1>2. \A steps : Derive(steps) \in TaskStatuses \ {"cancelled"}
  BY DEF Derive, TaskStatuses
<1>3. /\ next \in AnyTask /\ next.steps = Replace(task.steps, titles)
      /\ (next.status = "cancelled") <=> (task.status = "cancelled")
  BY <1>0, <1>1, <1>2 DEF WithSteps, Refresh, AnyTask, Task, Sound
<1> HIDE DEF next
<1>4. t \in AnyTask /\ t.steps = next.steps /\ t.status = next.status
  BY <1>3 DEF AnyTask, StoredPlans
<1> HIDE DEF t
<1>5. Derived(t)
  BY DEF UpdatePlan, t, next
<1> QED
  BY <1>0, <1>1, <1>3, <1>4, <1>5, DerivedKeeps

LEMMA CompleteKeeps ==
    ASSUME Inv, NEW i \in DOMAIN task.steps, CompleteStep(i)
    PROVE  Inv'
<1>1. Sound(SetStep(i, WithStatus(task.steps[i], "completed"))) /\ opening' \in Modes \cup {"none"}
  BY InvSound, SetStatusSound DEF SetStep, StepStatuses, CompleteStep, Inv, TypeOK
<1> QED
  BY <1>1, StepsKeep DEF CompleteStep

LEMMA PlanToolKeeps == Inv /\ PlanTool => Inv'
<1> SUFFICES ASSUME Inv, PlanTool PROVE Inv'
  OBVIOUS
<1>1. ASSUME NEW titles \in TitleLists
      PROVE  \E n \in Nat : titles \in [1..n -> Titles] /\ Unique(titles)
  <2>1. PICK n \in 1..MaxSteps : titles \in [1..n -> Titles]
    BY <1>1 DEF TitleLists
  <2> QED
    BY <1>1, <2>1, BoundsAssumption DEF TitleLists
<1>2. ASSUME NEW titles \in TitleLists, SubmitPlan(titles) PROVE Inv'
  BY <1>1, <1>2, SubmitKeeps
<1>3. ASSUME NEW titles \in TitleLists, UpdatePlan(titles) PROVE Inv'
  BY <1>1, <1>3, UpdatePlanKeeps
<1>4. ASSUME NEW i \in DOMAIN task.steps, BlockStep(i) PROVE Inv'
  <2>1. Sound(SetStep(i, WithStatus(task.steps[i], "blocked"))) /\ opening' \in Modes \cup {"none"}
    BY <1>4, InvSound, SetStatusSound DEF SetStep, StepStatuses, BlockStep, Inv, TypeOK
  <2> QED
    BY <1>4, <2>1, StepsKeep DEF BlockStep
<1> QED
  BY <1>2, <1>3, <1>4, CompleteKeeps DEF PlanTool

LEMMA CommandKeeps == Inv /\ Command => Inv'
<1> SUFFICES ASSUME Inv, NEW to \in {"drafting", "executing", "paused"}, PlanCommand(to) PROVE Inv'
  BY DEF Command
<1>1. /\ task' \in Task /\ task'.steps = task.steps /\ task'.status = task.status
      /\ opening' \in Modes \cup {"none"} /\ explicit' = explicit /\ explicit' \in BOOLEAN
  BY DEF PlanCommand, Inv, TypeOK, Task, StoredPlans
<1> QED
  BY <1>1, HandKeeps

LEMMA RunKeeps == Inv /\ Run => Inv'
<1> SUFFICES ASSUME Inv, Run PROVE Inv'
  OBVIOUS
<1>0. Sound(task.steps) /\ task \in Task /\ opening \in Modes \cup {"none"} /\ explicit \in BOOLEAN
  BY InvSound DEF Inv, TypeOK
<1>1. ASSUME Interrupted, opening' \in Modes \cup {"none"} PROVE Inv'
  <2>1. task' \in Task /\ task'.steps = task.steps /\ explicit' = TRUE
    BY <1>0, <1>1 DEF Interrupted, Task, TaskStatuses
  <2> QED
    BY <2>1, <1>1, HandKeeps
<1>2. ASSUME UNCHANGED <<task, explicit>>, opening' \in Modes \cup {"none"} PROVE Inv'
  BY <1>0, <1>2, HandKeeps
<1>3. ASSUME NEW mode \in Modes, NEW evidence \in {"clean", "found", "missing"}, Resume(mode, evidence)
      PROVE  Inv'
  <2>1. opening' \in Modes \cup {"none"}
    BY <1>3 DEF Resume
  <2>2. CASE evidence = "found"
    <3>1. Current(task.steps) \in DOMAIN task.steps
      BY <1>0, <1>3, CurrentOfSeq DEF Resume, Resumable, Sound
    <3> DEFINE i == Current(task.steps)
    <3> HIDE DEF i
    <3>2. Sound(SetStep(i, WithStatus(task.steps[i], "completed")))
      BY <1>0, <3>1, SetStatusSound DEF SetStep, StepStatuses, i
    <3>3. Derived(WithSteps(SetStep(i, WithStatus(task.steps[i], "completed"))))
      BY <1>3, <2>2 DEF Resume, i
    <3> QED
      BY <2>1, <3>2, <3>3, StepsKeep
  <2>3. CASE evidence # "found"
    BY <1>2, <1>3, <2>1, <2>3 DEF Resume
  <2> QED
    BY <2>2, <2>3
<1>4. ASSUME NEW mode \in Modes, Unverified(mode) PROVE Inv'
  BY <1>0, <1>1, <1>4 DEF Unverified
<1>5. CASE OpenFailed
  BY <1>1, <1>5 DEF OpenFailed
<1>6. CASE Opened
  <2>1. opening' \in Modes \cup {"none"}
    BY <1>6 DEF Opened
  <2>2. CASE Derived(WithSteps(Reset(task.steps)))
    BY <1>0, <2>1, <2>2, ResetSound, StepsKeep
  <2>3. CASE task' = [task EXCEPT !.plan = "drafting"] /\ UNCHANGED explicit
    <3>1. task' \in Task /\ task'.steps = task.steps /\ task'.status = task.status
      BY <1>0, <2>3 DEF Task, StoredPlans
    <3> QED
      BY <1>0, <2>1, <2>3, <3>1, HandKeeps
  <2>4. CASE UNCHANGED <<task, explicit>>
    BY <1>2, <2>1, <2>4
  <2> QED
    BY <1>6, <2>2, <2>3, <2>4 DEF Opened
<1> QED
  BY <1>3, <1>4, <1>5, <1>6 DEF Run

LEMMA InvNext == Inv /\ [Next]_vars => Inv'
<1>1. Inv /\ UNCHANGED vars => Inv'
  BY DEF vars, Inv, TypeOK, StatusFollowsSteps, IdsDistinct, TimesMatch
<1> QED
  BY <1>1, UserStepKeeps, PlanToolKeeps, CommandKeeps, RunKeeps DEF Next

LEMMA InvAlways == Spec => []Inv
BY InvInit, InvNext, PTL DEF Spec

\* The task's record, the waiting resume and the ghosts are always well formed.
THEOREM StepsTypeCorrect == Spec => []TypeOK
<1>1. Inv => TypeOK
  BY DEF Inv
<1> QED
  BY InvAlways, <1>1, PTL

\* Unless it was last set by hand, the status of a task is the one its steps
\* stand for, after every operation of the service, the tools and the runner.
THEOREM StatusIsDerived == Spec => []StatusFollowsSteps
<1>1. Inv => StatusFollowsSteps
  BY DEF Inv
<1> QED
  BY InvAlways, <1>1, PTL

\* The steps of a task never share an id.
THEOREM StepIdsDistinct == Spec => []IdsDistinct
<1>1. Inv => IdsDistinct
  BY DEF Inv
<1> QED
  BY InvAlways, <1>1, PTL

\* The record of a task is coherent in all three respects at once.
THEOREM TaskStaysSound == Spec => []StepsSound
<1>1. Inv => StepsSound
  BY DEF Inv, StepsSound
<1> QED
  BY InvAlways, <1>1, PTL

\* The times of every step match its status.
THEOREM StepTimesMatch == Spec => []TimesMatch
<1>1. Inv => TimesMatch
  BY DEF Inv
<1> QED
  BY InvAlways, <1>1, PTL

\* A request of the routes or of a plan tool changes no cancelled task, and a plan
\* command only its plan.
LEMMA FrozenStep ==
    ASSUME Next, task.status = "cancelled", opening = "none", task \in Task
    PROVE  task'.status = "cancelled" /\ task'.steps = task.steps
<1>1. ~Mutable /\ PlanStatus(task) = "abandoned"
  BY DEF Mutable, PlanStatus
<1>2. ~UserStep
  BY <1>1 DEF UserStep, Update, CancelTask, AddStep, UpdateStep, RemoveStep
<1>3. ~PlanTool
  BY <1>1 DEF PlanTool, SubmitPlan, UpdatePlan, CompleteStep, BlockStep, IsActivePlan
<1>4. ~Run
  BY DEF Run, Resume, Unverified, Resumable, Terminal, OpenFailed, Opened
<1>5. CASE Command
  BY <1>5 DEF Command, PlanCommand, Task
<1> QED
  BY <1>2, <1>3, <1>4, <1>5 DEF Next

\* A cancelled task keeps its status and its steps, whatever plan command, tool or
\* route comes late, as long as no resume waits for its session.
THEOREM CancelledIsFrozen == Spec => FrozenUnlessResuming
<1>1. Inv /\ [Next]_vars =>
        [task.status = "cancelled" /\ opening = "none"
           => task'.status = "cancelled" /\ task'.steps = task.steps]_vars
  BY FrozenStep DEF Inv, TypeOK
<1> QED
  BY InvAlways, <1>1, PTL DEF Spec, FrozenUnlessResuming

\* The first step with a title that no other step has is that step.
LEMMA FirstOfItsTitle ==
    ASSUME NEW steps, DOMAIN steps \subseteq Nat, NEW i \in DOMAIN steps,
           \A j \in DOMAIN steps : steps[j].title = steps[i].title => j = i
    PROVE  FirstTitled(steps, steps[i].title) = i
<1> DEFINE P(k) == /\ steps[k].title = steps[i].title
                   /\ \A j \in DOMAIN steps : j < k => steps[j].title # steps[i].title
<1>1. \A k \in DOMAIN steps : P(k) => k = i
  OBVIOUS
<1>2. ASSUME NEW j \in DOMAIN steps, j < i PROVE steps[j].title # steps[i].title
  <2>1. j # i
    BY <1>2
  <2> QED
    BY <2>1
<1> QED
  BY <1>1, <1>2 DEF FirstTitled

\* Replace keeps a step whose title is in the list and in no other step.
LEMMA ReplaceReuses ==
    ASSUME NEW steps, DOMAIN steps \subseteq Nat, NEW titles, NEW i \in DOMAIN steps, NEW k \in DOMAIN titles,
           titles[k] = steps[i].title,
           \A j \in DOMAIN steps : steps[j].title = steps[i].title => j = i
    PROVE  k \in DOMAIN Replace(steps, titles) /\ Replace(steps, titles)[k] = steps[i]
<1>1. HasTitle(steps, titles[k]) /\ FirstTitled(steps, titles[k]) = i
  BY FirstOfItsTitle DEF HasTitle
<1> QED
  BY <1>1 DEF Replace

\* An update of the plan keeps every step that has begun and that its title names.
LEMMA UpdateKeeps ==
    ASSUME NEW titles, UpdatePlan(titles), task \in Task, NEW i \in DOMAIN task.steps,
           task.steps[i].st # "pending", Alike(i) = {i}
    PROVE  Kept(i)
<1>1. PICK k \in DOMAIN titles : titles[k] = task.steps[i].title
  BY DEF UpdatePlan
<1>2. task'.steps = Replace(task.steps, titles)
  <2> DEFINE next == Refresh(WithSteps(Replace(task.steps, titles)))
             t == [next EXCEPT !.plan = IF PlanStatus(next) = "drafting" THEN "proposed" ELSE @]
  <2>1. DOMAIN next = DOMAIN task /\ next.steps = Replace(task.steps, titles)
    BY DEF Refresh, WithSteps, Task
  <2>2. Derived(t)
    BY DEF UpdatePlan
  <2>3. t.steps = next.steps
    BY <2>1
  <2>4. task' = Refresh(t)
    BY <2>2 DEF Derived
  <2> HIDE DEF t, next
  <2>5. Refresh(t).steps = t.steps
    BY DEF Refresh
  <2> QED
    BY <2>1, <2>3, <2>4, <2>5
<1>3. \A j \in DOMAIN task.steps : task.steps[j].title = task.steps[i].title => j = i
  BY DEF Alike
<1>4. DOMAIN task.steps \subseteq Nat
  BY DEF Task
<1> QED
  BY <1>1, <1>2, <1>3, <1>4, ReplaceReuses DEF Kept

\* Whatever list the model gives to update_plan, each step that has begun and shares
\* its title with no other is in the plan as it was.
THEOREM BegunStepsAreKept == Spec => ProgressKept
<1>1. Inv /\ [Next]_vars =>
        [(\E titles \in TitleLists : UpdatePlan(titles))
           => \A i \in DOMAIN task.steps :
                 task.steps[i].st # "pending" /\ Alike(i) = {i} => Kept(i)]_vars
  BY UpdateKeeps DEF Inv, TypeOK
<1> QED
  BY InvAlways, <1>1, PTL DEF Spec, ProgressKept
-----------------------------------------------------------------------------
(* TaskPanel: the same task with a page that looks on.                      *)
Shown        == Sessions \cup {"none"}
Forms        == {"plan", "task", "none"}
Kinds        == {"add", "cancel", "status", "remove", "title", "command", "none"}
CommandNames == {"execute", "resume", "refine", "pause", "abandon"}
Clicks == [stage : {"none", "sent", "done", "conflict", "failed", "again", "plan", "last"},
           as : Forms, kind : Kinds, seen : Step \cup {NoStep},
           arg : Titles \cup StepStatuses \cup CommandNames \cup {"none"},
           on : Shown, current : BOOLEAN, tries : Nat, landed : BOOLEAN]
Readings == [of : Shown, what : {"none", "task", "plan", "load"}, got : Copy]

PanelTypeOK ==
    /\ shown \in Shown /\ held \in Copy /\ popped \in BOOLEAN
    /\ click \in Clicks /\ reads \in [Readers -> Readings]
    /\ stream \in {"off", "connecting", "on"} /\ pushed \in Seq(Copy) /\ changes \in Nat

\* A click that has landed is not sent again; a first
\* request that is not stale names a step of the task; its argument fits its kind.
ClickFits ==
    /\ click.landed => click.stage \in {"done", "failed"}
    /\ click.stage = "again" => click.tries >= 1
    /\ click.stage = "sent" /\ click.on = "here" /\ click.tries = 1 /\ click.current /\ OnStep
         => click.seen \in Range(task.steps)
    /\ click.kind \in {"add", "title"} => click.arg \in Titles
    /\ click.kind = "status" => click.arg \in StepStatuses
    /\ IsCommand => click.arg \in CommandNames

\* Only the session of the task has a plan, and of the other there is one copy.
CopyFits(c) ==
    /\ c.of = "none" => c = NoCopy
    /\ c.of = "there" => c = There
    /\ c.as = "plan" => c.of = "here"
CopiesFit ==
    /\ CopyFits(held)
    /\ \A r \in Readers : CopyFits(reads[r].got)
    /\ \A i \in DOMAIN pushed : CopyFits(pushed[i]) /\ pushed[i].of = "here"

\* Without a page there is nothing under way.
NoPage == shown = "none" => /\ held = NoCopy /\ pushed = <<>> /\ stream = "off"
                            /\ click.stage = "none" /\ \A r \in Readers : reads[r] = Idle

\* What is not handled ends with the task as it is.
Follows ==
    /\ shown = "here" /\ stream = "on" /\ pushed # <<>> => pushed[Len(pushed)] = Here
    /\ shown = "there" => pushed = <<>>
\* A load is of the session shown.
LoadFits == reads.load.of \in {"none", shown} /\ reads.load.got.of \in {"none", shown}
Opens == held.as = "plan" /\ held.current /\ Proposed => popped

PanelInv == Inv /\ PanelTypeOK /\ ClickFits /\ CopiesFit /\ NoPage /\ LoadFits /\ Follows /\ Opens

\* The copies a reading or an event brings.
LEMMA GoodCopies ==
    ASSUME task \in Task
    PROVE  /\ NoCopy \in Copy /\ There \in Copy /\ Here \in Copy
           /\ CopyFits(NoCopy) /\ CopyFits(There) /\ CopyFits(Here)
           /\ NoCopy # There /\ NoCopy # Here
BY DEF NoCopy, There, Here, Copy, Sessions, CopyFits

LEMMA StaleCopy ==
    ASSUME NEW c \in Copy, CopyFits(c)
    PROVE  /\ Stale(c) \in Copy /\ CopyFits(Stale(c)) /\ Stale(c).of = c.of /\ Stale(c).as = c.as
           /\ c.of = "here" => ~Stale(c).current
           /\ c.of # "here" => Stale(c) = c
BY DEF Stale, Copy, CopyFits, NoCopy, There

\* The server's part of a click is an operation of TaskSteps, with arguments it may have.
LEMMA AppliedKeeps ==
    ASSUME Inv, ClickFits, Applied
    PROVE  Inv'
<1>0. DOMAIN task.steps = 1..Len(task.steps) /\ Len(task.steps) \in Nat
      /\ \A i \in DOMAIN task.steps : task.steps[i].title \in Titles
  <2>1. task.steps \in Seq(Step)
    BY DEF Inv, TypeOK, Task
  <2>2. \A i \in DOMAIN task.steps : task.steps[i] \in Step
    BY <2>1
  <2> QED
    BY <2>1, <2>2 DEF Step
<1>1. CASE click.kind = "add" /\ AddStep(click.arg, Len(task.steps))
  BY <1>0, <1>1, AddKeeps DEF ClickFits
<1>2. CASE click.kind = "cancel" /\ CancelTask
  BY <1>2, CancelKeeps
<1>3. CASE IsCommand /\ IF click.arg = "abandon" THEN CancelTask ELSE PlanCommand(PlanTarget[click.arg])
  <2>1. CASE click.arg = "abandon"
    BY <1>3, <2>1, CancelKeeps
  <2>2. CASE click.arg # "abandon"
    <3>1. PlanTarget[click.arg] \in {"drafting", "executing", "paused"}
      BY <1>3, <2>2 DEF ClickFits, CommandNames, PlanTarget
    <3> QED
      BY <1>3, <2>2, <3>1, CommandKeeps DEF Command
  <2> QED
    BY <2>1, <2>2
<1>4. ASSUME NEW i \in Place, click.kind = "status",
             UpdateStep(i, task.steps[i].title, click.arg, i - 1)
      PROVE  Inv'
  <2>1. i \in DOMAIN task.steps /\ i - 1 \in Nat /\ click.arg \in StepStatuses \cup {"keep"}
    BY <1>0, <1>4 DEF Place, ClickFits
  <2> QED
    BY <1>0, <1>4, <2>1, UpdateStepKeeps
<1>5. ASSUME NEW i \in Place, click.kind = "title", UpdateStep(i, click.arg, "keep", i - 1)
      PROVE  Inv'
  <2>1. i \in DOMAIN task.steps /\ i - 1 \in Nat /\ click.arg \in Titles
    BY <1>0, <1>5 DEF Place, ClickFits
  <2> QED
    BY <1>5, <2>1, UpdateStepKeeps
<1>6. ASSUME NEW i \in Place, RemoveStep(i, Forced) PROVE Inv'
  BY <1>6, RemoveKeeps DEF Place
<1> QED
  BY <1>1, <1>2, <1>3, <1>4, <1>5, <1>6 DEF Applied

LEMMA ForeignKeeps == Inv /\ Foreign => Inv'
<1>1. ASSUME Inv, NEW i \in DOMAIN task.steps, RemoveStep(i, TRUE) PROVE Inv'
  BY <1>1, RemoveKeeps
<1>2. ASSUME Inv, NEW title \in Titles, SubmitPlan(<<title>>) PROVE Inv'
  <2>1. <<title>> \in [1..1 -> Titles] /\ Unique(<<title>>)
    BY DEF Unique
  <2> QED
    BY <1>2, <2>1, SubmitKeeps
<1> QED
  BY <1>1, <1>2, CompleteKeeps, CancelKeeps DEF Foreign

\* Whatever a page and everybody else do, the task follows the rules of TaskSteps.
LEMMA PanelTask == PanelInv /\ [PanelNext]_panelVars => Inv'
<1> SUFFICES ASSUME PanelInv, [PanelNext]_panelVars PROVE Inv'
  OBVIOUS
<1>1. Inv /\ ClickFits
  BY DEF PanelInv
<1>2. CASE UNCHANGED vars
  BY <1>1, <1>2, InvNext
<1>3. CASE Unwatched
  BY <1>1, <1>3, InvNext DEF Unwatched
<1>4. CASE Others
  BY <1>1, <1>4, ForeignKeeps DEF Others
<1>5. CASE Land
  BY <1>1, <1>5, AppliedKeeps DEF Land
<1>6. CASE LandNothing \/ Refuse \/ HandleThere \/ ClickSide \/ PageSide
  <2>1. UNCHANGED vars
    BY <1>6 DEF LandNothing, Refuse, HandleThere, ClickSide, Press, Lose, GiveUp, Again, Reread,
                CommandAnswered, PageSide, Serve, Apply, Load, ReadFails, LoadsNothing, Subscribe,
                HandlePush, Switch, Reload, Prompt, vars
  <2> QED
    BY <1>2, <2>1
<1> QED
  BY <1>2, <1>3, <1>4, <1>5, <1>6 DEF PanelNext, ServerSide, panelVars, vars
\* The ways in which what a page shows can change: not at all; by an answer; by a saving;
\* by an event; by a subscription; by going to another session.
ViewStays == UNCHANGED <<task, shown, held, popped, pushed, changes>> /\ stream' = stream
Connects  == stream = "off" /\ stream' = "connecting"
ViewAnswered ==
    /\ UNCHANGED <<task, shown, pushed, changes>>
    /\ stream' = stream \/ Connects
    /\ \/ AnswerShown /\ \E c \in Copy : CopyFits(c) /\ Show(c) /\ (Strange(c) => Unasked)
       \/ UNCHANGED <<held, popped>>
ViewStep ==
    \/ ViewStays
    \/ ViewAnswered
    \/ Saved
    \/ HandlePush
    \/ Subscribe
    \/ \E to \in Sessions : Switch(to)
    \/ Unwatched

\* Every step of a page is one of these.
LEMMA PanelView == PanelInv /\ PanelNext => ViewStep
<1> SUFFICES ASSUME PanelInv, PanelNext PROVE ViewStep
  OBVIOUS
<1>0. /\ task \in Task /\ held \in Copy /\ reads \in [Readers -> Readings]
      /\ \A r \in Readers : reads[r].got \in Copy /\ CopyFits(reads[r].got)
  BY DEF PanelInv, PanelTypeOK, CopiesFit, Inv, TypeOK, Readings
<1>l. "load" \in Readers /\ ~Strange(reads.load.got) /\ ~Strange(NoCopy)
  BY DEF PanelInv, LoadFits, Strange, Readers, NoCopy
<1>1. CASE Unwatched \/ Others \/ Land
  BY <1>1 DEF Others, SavedByOthers, Land, ViewStep
<1>2. CASE LandNothing \/ Refuse \/ HandleThere \/ Press \/ Lose \/ GiveUp \/ Again \/ Reread
             \/ \E r \in Readers : Serve(r)
  BY <1>2 DEF LandNothing, Refuse, HandleThere, Press, Lose, GiveUp, Again, Reread, Serve, vars,
              ViewStep, ViewStays
<1>3. CASE CommandAnswered
  <2>1. AnswerShown /\ Unasked /\ Show(reads.click.got)
    BY <1>3 DEF AnswerShown, Unasked, CommandAnswered
  <2> QED
    BY <1>0, <1>3, <2>1 DEF CommandAnswered, ViewStep, ViewAnswered, vars, Readers
<1>4. ASSUME NEW r \in Readers, Apply(r) PROVE ViewStep
  <2> DEFINE got == reads[r].got
  <2>1. got \in Copy /\ CopyFits(got) /\ got # NoCopy
    BY <1>0, <1>4 DEF Apply
  <2>2. [got EXCEPT !.as = "task"] \in Copy /\ CopyFits([got EXCEPT !.as = "task"])
    BY <2>1 DEF Copy, CopyFits, There, NoCopy
  <2>3. /\ UNCHANGED <<task, shown, pushed, changes>> /\ stream' = stream /\ AnswerShown
        /\ (Unasked /\ TaskRead(got)) \/ PlanRead(got)
    <3>1. AnswerShown /\ (reads[r].what = "task" => Unasked)
      BY <1>4 DEF AnswerShown, Unasked
    <3> QED
      BY <1>4, <3>1 DEF Apply, vars
  <2>4. CASE Unasked /\ TaskRead(got)
    BY <1>0, <2>2, <2>3, <2>4 DEF TaskRead, ViewStep, ViewAnswered
  <2>5. CASE PlanRead(got)
    BY <1>0, <2>1, <2>3, <2>5 DEF PlanRead, ViewStep, ViewAnswered, Strange
  <2> QED
    BY <2>3, <2>4, <2>5
<1>5. CASE \E running \in BOOLEAN : Load(running)
  <2>1. AnswerShown
    BY <1>5 DEF AnswerShown
  <2> QED
    BY <1>0, <1>l, <1>5, <2>1 DEF Load, ViewStep, ViewAnswered, Connects, vars
<1>6. CASE LoadsNothing
  <2>1. AnswerShown
    BY <1>6 DEF AnswerShown
  <2> QED
    BY <1>0, <1>l, <1>6, <2>1, GoodCopies DEF LoadsNothing, ViewStep, ViewAnswered, vars
<1>7. CASE Reload
  BY <1>7 DEF Reload, ViewStep, ViewStays, vars
<1>8. CASE Prompt \/ \E r \in Readers : ReadFails(r)
  BY <1>0, <1>8 DEF Prompt, ReadFails, ViewStep, ViewAnswered, Connects, vars
<1> QED
  BY <1>1, <1>2, <1>3, <1>4, <1>5, <1>6, <1>7, <1>8 DEF PanelNext, ServerSide, ClickSide, PageSide, ViewStep

\* What is shown, and what is pushed, stays what it must be.
LEMMA ViewKept ==
    ASSUME PanelInv, ViewStep, Inv'
    PROVE  /\ shown' \in Shown /\ held' \in Copy /\ popped' \in BOOLEAN
           /\ stream' \in {"off", "connecting", "on"} /\ pushed' \in Seq(Copy) /\ changes' \in Nat
           /\ CopyFits(held') /\ \A i \in DOMAIN pushed' : CopyFits(pushed'[i]) /\ pushed'[i].of = "here"
           /\ Follows' /\ Opens'
           /\ (shown = "none" => shown' = "none")
           /\ (shown # "none" => shown' # "none")
<1>0. /\ task \in Task /\ task' \in Task
      /\ shown \in Shown /\ held \in Copy /\ popped \in BOOLEAN
      /\ stream \in {"off", "connecting", "on"} /\ pushed \in Seq(Copy) /\ changes \in Nat
      /\ CopyFits(held) /\ \A i \in DOMAIN pushed : CopyFits(pushed[i]) /\ pushed[i].of = "here"
      /\ NoPage /\ Follows /\ Opens
  BY DEF PanelInv, PanelTypeOK, CopiesFit, Inv, TypeOK
<1>p. /\ Len(pushed) \in Nat /\ DOMAIN pushed = 1..Len(pushed)
      /\ (pushed = <<>>) <=> (Len(pushed) = 0)
      /\ \A i \in DOMAIN pushed : pushed[i] \in Copy
  BY <1>0, EmptySeq
<1>h. UNCHANGED task => Here' = Here /\ Proposed' = Proposed
  BY DEF Here, HasPlan, Proposed
<1>1. CASE ViewStays
  BY <1>0, <1>1, <1>h DEF ViewStays, Follows, Opens
<1>2. CASE ViewAnswered
  <2>1. /\ UNCHANGED <<task, shown, pushed, changes>>
        /\ stream' \in {"off", "connecting", "on"} /\ (stream' = "on" => stream = "on")
        /\ Here' = Here /\ Proposed' = Proposed
    BY <1>0, <1>2, <1>h DEF ViewAnswered, Connects
  <2>2. ASSUME NEW c \in Copy, CopyFits(c), Show(c)
        PROVE  held' = c /\ popped' \in BOOLEAN /\ Follows' /\ Opens'
    <3>1. /\ held' = c /\ popped' \in BOOLEAN
          /\ (c.as = "plan" /\ c.current => (Proposed => popped'))
      BY <1>0, <2>2 DEF Show, Pops
    <3>2. Opens'
      BY <2>1, <3>1 DEF Opens
    <3>3. Follows'
      BY <1>0, <2>1 DEF Follows
    <3> QED
      BY <3>1, <3>2, <3>3
  <2>3. CASE UNCHANGED <<held, popped>>
    <3>1. Follows' /\ Opens'
      BY <1>0, <2>1, <2>3 DEF Follows, Opens
    <3> QED
      BY <1>0, <2>1, <2>3, <3>1
  <2> QED
    BY <1>0, <1>2, <2>1, <2>2, <2>3 DEF ViewAnswered
<1>3. CASE Saved
  <2> DEFINE old == [i \in DOMAIN pushed |-> Stale(pushed[i])]
             n   == Notified
  <2>1. /\ held' = Stale(held) /\ pushed' = old \o n /\ changes' = changes + 1
        /\ UNCHANGED <<shown, popped, stream>>
    BY <1>3 DEF Saved
  <2>2. /\ old \in Seq(Copy) /\ Len(old) = Len(pushed)
        /\ \A i \in 1..Len(old) : CopyFits(old[i]) /\ old[i].of = "here"
    BY <1>0, <1>p, StaleCopy
  <2>3. /\ n \in Seq(Copy) /\ \A i \in 1..Len(n) : CopyFits(n[i]) /\ n[i].of = "here"
        /\ shown = "here" /\ stream = "on" => n = <<Here'>>
        /\ shown # "here" => n = <<>>
    <3>1. Here' \in Copy /\ CopyFits(Here') /\ Here'.of = "here"
      BY DEF Here, Copy, Sessions, CopyFits
    <3>2. n = IF shown = "here" /\ stream = "on" THEN <<Here'>> ELSE <<>>
      BY DEF Notified
    <3> HIDE DEF n
    <3> QED
      BY <3>1, <3>2
  <2> HIDE DEF old, n
  <2>4. /\ old \o n \in Seq(Copy) /\ Len(old \o n) = Len(old) + Len(n)
        /\ \A i \in 1..(Len(old) + Len(n)) :
              (old \o n)[i] = IF i <= Len(old) THEN old[i] ELSE n[i - Len(old)]
    <3>1. old \in Seq(Copy) /\ n \in Seq(Copy)
      BY <2>2, <2>3
    <3> QED
      BY <3>1, ConcatProperties
  <2>5. \A i \in DOMAIN pushed' : CopyFits(pushed'[i]) /\ pushed'[i].of = "here"
    <3> TAKE i \in DOMAIN pushed'
    <3>1. i \in 1..(Len(old) + Len(n)) /\ Len(old) \in Nat /\ Len(n) \in Nat
      BY <2>1, <2>2, <2>3, <2>4
    <3>2. CASE i <= Len(old)
      BY <2>1, <2>2, <2>4, <3>1, <3>2
    <3>3. CASE ~(i <= Len(old))
      <4>1. i - Len(old) \in 1..Len(n)
        BY <3>1, <3>3
      <4> QED
        BY <2>1, <2>3, <2>4, <3>1, <3>3, <4>1
    <3> QED
      BY <3>2, <3>3
  <2>6. held' \in Copy /\ CopyFits(held') /\ Opens'
    BY <1>0, <2>1, StaleCopy DEF Opens, CopyFits
  <2>7. CASE shown = "here" /\ stream = "on"
    <3>1. n = <<Here'>> /\ Len(n) = 1 /\ n[1] = Here'
      BY <2>3, <2>7
    <3>2. Len(pushed') = Len(old) + 1 /\ pushed'[Len(old) + 1] = Here' /\ Len(old) \in Nat
      <4>1. Len(old) + 1 - Len(old) = 1 /\ ~(Len(old) + 1 <= Len(old)) /\ Len(old) \in Nat
        BY <2>2
      <4> QED
        BY <2>1, <2>4, <3>1, <4>1
    <3>3. pushed' # <<>>
      BY <2>1, <2>4, <3>2, EmptySeq
    <3> QED
      BY <1>0, <2>1, <2>4, <2>5, <2>6, <2>7, <3>2, <3>3 DEF Follows
  <2>8. CASE ~(shown = "here" /\ stream = "on")
    <3>1. shown = "there" => pushed' = <<>>
      <4>1. ASSUME shown = "there" PROVE Len(pushed') = 0
        BY <1>0, <1>p, <2>1, <2>2, <2>3, <2>4, <4>1 DEF Follows
      <4> QED
        BY <2>1, <2>4, <4>1, EmptySeq
    <3> QED
      BY <1>0, <2>1, <2>4, <2>5, <2>6, <2>8, <3>1 DEF Follows
  <2> QED
    BY <2>7, <2>8
<1>4. CASE HandlePush
  <2>1. /\ pushed # <<>> /\ Show(pushed[1]) /\ pushed' = Tail(pushed)
        /\ UNCHANGED <<task, shown, stream, changes>>
    BY <1>4 DEF HandlePush, vars, Head
  <2>2. /\ 1 \in DOMAIN pushed /\ pushed[1] \in Copy /\ CopyFits(pushed[1])
        /\ held' = pushed[1] /\ popped' \in BOOLEAN /\ Opens'
    <3>1. 1 \in DOMAIN pushed
      BY <1>p, <2>1
    <3> QED
      BY <1>0, <1>p, <1>h, <2>1, <3>1 DEF Show, Pops, Opens
  <2>3. /\ pushed' \in Seq(Copy) /\ Len(pushed') = Len(pushed) - 1
        /\ \A i \in 1..Len(pushed') : pushed'[i] = pushed[i + 1]
    BY <1>0, <1>p, <2>1, HeadTailProperties
  <2>4. \A i \in DOMAIN pushed' : CopyFits(pushed'[i]) /\ pushed'[i].of = "here"
    <3> TAKE i \in DOMAIN pushed'
    <3>1. i \in 1..Len(pushed') /\ i + 1 \in DOMAIN pushed
      BY <1>p, <2>3
    <3> QED
      BY <1>0, <2>3, <3>1
  <2>5. shown # "there"
    BY <1>0, <2>1 DEF Follows
  <2>6. ASSUME shown = "here", stream = "on"
        PROVE  IF pushed' = <<>> THEN held' = Here' ELSE pushed'[Len(pushed')] = Here'
    <3>1. pushed[Len(pushed)] = Here /\ Here' = Here
      BY <1>0, <1>h, <2>1, <2>6 DEF Follows
    <3>2. CASE pushed' = <<>>
      BY <1>p, <2>1, <2>2, <2>3, <3>1, <3>2
    <3>3. CASE pushed' # <<>>
      <4>1. Len(pushed') \in 1..Len(pushed')
        BY <1>p, <2>3, <3>3, EmptySeq
      <4> QED
        BY <1>p, <2>3, <3>1, <3>3, <4>1
    <3> QED
      BY <3>2, <3>3
  <2>7. Follows'
    BY <2>1, <2>5, <2>6 DEF Follows
  <2> QED
    BY <1>0, <2>1, <2>2, <2>3, <2>4, <2>7
<1>5. CASE Subscribe
  <2>1. /\ UNCHANGED <<task, shown, held, popped, changes>> /\ stream' = "on" /\ shown # "none"
        /\ pushed' \in {<<>>, <<Here>>, <<Stale(Here), Here>>} /\ (shown # "here" => pushed' = <<>>)
    BY <1>0, <1>5 DEF Subscribe, Replayed, vars, NoPage
  <2>2. pushed' \in Seq(Copy) /\ \A i \in DOMAIN pushed' : CopyFits(pushed'[i]) /\ pushed'[i].of = "here"
    <3>1. Here \in Copy /\ CopyFits(Here) /\ Here.of = "here"
      BY <1>0, GoodCopies DEF Here
    <3>2. Stale(Here) \in Copy /\ CopyFits(Stale(Here)) /\ Stale(Here).of = "here"
      BY <3>1, StaleCopy
    <3> DEFINE a == Here
               b == Stale(Here)
    <3>3. pushed' \in {<<>>, <<a>>, <<b, a>>}
      BY <2>1
    <3> HIDE DEF a, b
    <3>4. a \in Copy /\ b \in Copy /\ CopyFits(a) /\ CopyFits(b) /\ a.of = "here" /\ b.of = "here"
      BY <3>1, <3>2 DEF a, b
    <3>5. <<>> \in Seq(Copy) /\ <<a>> \in Seq(Copy) /\ <<b, a>> \in Seq(Copy)
      BY <3>4
    <3>6. pushed' \in Seq(Copy)
      BY <3>3, <3>5
    <3>7. CASE pushed' = <<>>
      BY <3>6, <3>7
    <3>8. CASE pushed' = <<a>>
      BY <3>4, <3>6, <3>8
    <3>9. CASE pushed' = <<b, a>>
      BY <3>4, <3>6, <3>9
    <3> QED
      BY <3>3, <3>6, <3>7, <3>8, <3>9
  <2>3. pushed' # <<>> => pushed'[Len(pushed')] = Here'
    BY <1>h, <2>1
  <2>4. Follows' /\ Opens'
    BY <1>0, <1>h, <2>1, <2>3 DEF Follows, Opens
  <2> QED
    BY <1>0, <2>1, <2>2, <2>4
<1>6. CASE \E to \in Sessions : Switch(to)
  <2>1. /\ held' = NoCopy /\ popped' = FALSE /\ stream' = "off" /\ pushed' = <<>>
        /\ shown' \in Sessions /\ shown # "none" /\ UNCHANGED <<task, changes>>
    BY <1>6 DEF Switch, vars
  <2>2. Follows' /\ Opens'
    BY <2>1 DEF Follows, Opens, NoCopy
  <2> QED
    <3>1. pushed' \in Seq(Copy) /\ DOMAIN pushed' = {}
      BY <2>1
    <3>2. shown' \in Shown /\ shown' # "none"
      BY <2>1 DEF Sessions, Shown
    <3> QED
      BY <1>0, <2>1, <2>2, <3>1, <3>2, GoodCopies
<1>7. CASE Unwatched
  <2>1. shown = "none" /\ UNCHANGED <<shown, held, popped, pushed, stream, changes>>
    BY <1>7 DEF Unwatched, pageVars
  <2>2. Follows' /\ Opens'
    BY <1>0, <2>1 DEF Follows, Opens, NoPage, NoCopy
  <2> QED
    BY <1>0, <2>1, <2>2
<1> QED
  BY <1>1, <1>2, <1>3, <1>4, <1>5, <1>6, <1>7 DEF ViewStep
\* The request of a click.
LEMMA SendFits ==
    ASSUME click \in Clicks, NEW c \in Copy
    PROVE  /\ Send(c) \in Clicks /\ Send(c).tries = click.tries + 1 /\ Send(c).stage = "sent"
           /\ Send(c).kind = click.kind /\ Send(c).arg = click.arg /\ Send(c).landed = click.landed
           /\ Send(c).seen = click.seen
<1>1. click.tries + 1 \in Nat /\ c.of \in Shown /\ c.current \in BOOLEAN
  BY DEF Clicks, Copy, Shown
<1> DEFINE n == click.tries + 1
           of == c.of
           now == c.current
<1>2. Send(c) = [click EXCEPT !.stage = "sent", !.on = of, !.current = now, !.tries = n]
  BY DEF Send
<1> HIDE DEF n, of, now
<1>3. n \in Nat /\ of \in Shown /\ now \in BOOLEAN
  BY <1>1 DEF n, of, now
<1>4. Send(c).tries = n
  BY <1>2 DEF Clicks
<1> QED
  BY <1>2, <1>3, <1>4 DEF Clicks, n

\* What a reading that is over leaves of the click it was for.
LEMMA EndedKeeps ==
    ASSUME PanelInv, NEW r \in Readers, Ended(r), held' \in Copy,
           task' = task
    PROVE  click' \in Clicks /\ ClickFits' /\ reads' \in [Readers -> Readings]
           /\ \A q \in Readers : CopyFits(reads'[q].got)
<1>0. /\ click \in Clicks /\ reads \in [Readers -> Readings] /\ ClickFits /\ shown \in Shown
      /\ \A q \in Readers : reads[q] \in Readings /\ CopyFits(reads[q].got)
  BY DEF PanelInv, PanelTypeOK, CopiesFit
<1>1. /\ Idle \in Readings /\ CopyFits(Idle.got) /\ Ask("task") \in Readings /\ CopyFits(Ask("task").got)
      /\ NoClick \in Clicks /\ NoClick.stage = "none"
  BY <1>0 DEF Idle, Ask, Readings, NoCopy, Copy, CopyFits, Shown, Sessions, There, NoClick, Clicks, Forms, Kinds
<1>r. ASSUME NEW q \in Readers, NEW x \in Readings, CopyFits(x.got), reads' = [reads EXCEPT ![q] = x]
      PROVE  reads' \in [Readers -> Readings] /\ \A k \in Readers : CopyFits(reads'[k].got)
  BY <1>0, <1>r
<1>n. ASSUME click' = NoClick PROVE click' \in Clicks /\ ClickFits'
  BY <1>1, <1>n DEF NoClick, ClickFits, OnStep, IsCommand
<1>a. ASSUME NEW stage \in {"last", "plan"}, After(stage) PROVE click' \in Clicks /\ ClickFits'
  BY <1>0, <1>1, <1>a DEF After, NoClick, Clicks, ClickFits, OnStep, IsCommand
<1>s. ASSUME click' = Send(held'), click.stage = "again" PROVE click' \in Clicks /\ ClickFits'
  <2>1. /\ click' \in Clicks /\ click'.tries = click.tries + 1 /\ click'.stage = "sent"
        /\ click'.kind = click.kind /\ click'.arg = click.arg /\ click'.landed = click.landed
    BY <1>0, <1>s, SendFits
  <2>2. click.tries \in Nat /\ click.tries >= 1 /\ ~click.landed
    BY <1>0, <1>s DEF ClickFits, Clicks
  <2> QED
    BY <1>0, <2>1, <2>2 DEF ClickFits, OnStep, IsCommand
<1>2. CASE r = "load"
  <2>1. reads' = [reads EXCEPT ![r] = Idle] /\ UNCHANGED click
    BY <1>2 DEF Ended
  <2> QED
    BY <1>0, <1>1, <1>r, <2>1 DEF ClickFits, OnStep, IsCommand
<1>3. CASE r = "click"
  <2>1. Continue /\ "click" \in Readers
    BY <1>3 DEF Ended, Readers
  <2>2. CASE click.stage = "again" /\ held'.as = click.as
    <3>1. click' = Send(held') /\ reads' = [reads EXCEPT !.click = Idle]
      BY <2>1, <2>2 DEF Continue
    <3> QED
      BY <1>1, <1>r, <1>s, <2>1, <2>2, <3>1
  <2>3. CASE click.stage = "plan" \/ (click.stage = "again" /\ held'.as # click.as)
    <3>1. After("last") /\ reads' = [reads EXCEPT !.click = Ask("task")]
      BY <2>1, <2>3 DEF Continue, Reads
    <3> QED
      BY <1>1, <1>r, <1>a, <2>1, <3>1
  <2>4. CASE click.stage \notin {"again", "plan"}
    <3>1. click' = NoClick /\ reads' = [reads EXCEPT !.click = Idle]
      BY <2>1, <2>4 DEF Continue
    <3> QED
      BY <1>1, <1>r, <1>n, <2>1, <3>1
  <2> QED
    BY <2>2, <2>3, <2>4
<1> QED
  BY <1>2, <1>3 DEF Readers

\* The button that is pressed names a step of the task as it is.
LEMMA PressFits ==
    ASSUME PanelInv, Press
    PROVE  click' \in Clicks /\ ClickFits'
<1>0. /\ task \in Task /\ click \in Clicks /\ ~click.landed /\ held \in Copy /\ held.of = "here"
      /\ held.current /\ shown \in Shown
  BY DEF PanelInv, PanelTypeOK, ClickFits, Press, Busy, Inv, TypeOK
<1>1. \A step \in Range(task.steps) : step \in Step
  <2>1. task.steps \in Seq(Step)
    BY <1>0 DEF Task
  <2> QED
    BY <2>1 DEF Range
<1>2. UNCHANGED task
  BY DEF Press, vars
<1>3. ASSUME NEW what \in TaskClicks \cup PlanClicks,
             click' = [Send(held) EXCEPT !.as = held.as, !.kind = what[1], !.seen = what[2], !.arg = what[3]]
      PROVE  click' \in Clicks /\ ClickFits'
  <2>1. \/ what[1] = "add" /\ what[2] = NoStep /\ what[3] \in Titles
        \/ what[1] = "cancel" /\ what[2] = NoStep /\ what[3] = "none"
        \/ what[1] = "status" /\ what[2] \in Range(task.steps) /\ what[3] \in StepStatuses
        \/ what[1] = "title" /\ what[2] \in Range(task.steps) /\ what[3] \in Titles
        \/ what[1] = "remove" /\ what[2] \in Range(task.steps) /\ what[3] = "none"
    <3>1. CASE what \in TaskClicks
      BY <3>1 DEF TaskClicks, Offered, StepStatuses
    <3>2. CASE what \in PlanClicks
      BY <3>2 DEF PlanClicks, PlanStepClicks, StepStatuses
    <3> QED
      BY <1>3, <3>1, <3>2
  <2>2. /\ what[1] \in Kinds /\ what[2] \in Step \cup {NoStep}
        /\ what[3] \in Titles \cup StepStatuses \cup CommandNames \cup {"none"}
    BY <1>1, <2>1 DEF Kinds
  <2>3. Send(held) \in Clicks /\ held.as \in Forms
    BY <1>0, SendFits DEF Copy, Forms
  <2> DEFINE as == held.as
             sent == Send(held)
  <2> HIDE DEF as, sent
  <2>5. click' \in Clicks
    BY <1>3, <2>2, <2>3 DEF Clicks, as, sent
  <2>4. /\ click'.stage = "sent" /\ click'.kind = what[1] /\ click'.seen = what[2] /\ click'.arg = what[3]
        /\ click'.landed = FALSE
    BY <1>0, <1>3 DEF Send, Clicks
  <2> QED
    BY <1>2, <2>1, <2>5, <2>4 DEF ClickFits, OnStep, IsCommand
<1>4. ASSUME NEW to \in Commands,
             click' = [Send(held) EXCEPT !.on = shown, !.as = "plan", !.kind = "command", !.arg = to]
      PROVE  click' \in Clicks /\ ClickFits'
  <2>1. to \in CommandNames
    BY DEF Commands, CommandNames
  <2>2. click' \in Clicks
    <3>1. Send(held) \in Clicks
      BY <1>0, SendFits
    <3> QED
      BY <1>0, <1>4, <2>1, <3>1 DEF Clicks, Forms, Kinds
  <2>3. click'.stage = "sent" /\ click'.kind = "command" /\ click'.arg = to /\ click'.landed = FALSE
    BY <1>0, <1>4 DEF Send, Clicks
  <2> QED
    BY <2>1, <2>2, <2>3 DEF ClickFits, OnStep, IsCommand
<1> QED
  BY <1>3, <1>4 DEF Press

\* The click and the readings stay what they must be.
LEMMA ClickKept ==
    ASSUME PanelInv, PanelNext, Inv', held' \in Copy, shown' \in Shown
    PROVE  click' \in Clicks /\ ClickFits' /\ reads' \in [Readers -> Readings]
           /\ \A q \in Readers : CopyFits(reads'[q].got)
<1>0. /\ click \in Clicks /\ reads \in [Readers -> Readings] /\ ClickFits /\ shown \in Shown
      /\ \A q \in Readers : reads[q] \in Readings /\ reads[q].got \in Copy /\ CopyFits(reads[q].got)
      /\ task \in Task /\ task' \in Task /\ NoPage
  BY DEF PanelInv, PanelTypeOK, CopiesFit, Inv, TypeOK, Readings
<1>1. /\ Idle \in Readings /\ CopyFits(Idle.got) /\ "click" \in Readers /\ "load" \in Readers
      /\ NoClick \in Clicks /\ NoClick.stage = "none"
      /\ \A what \in {"task", "plan", "load"}, of \in Shown :
            LET a == [Ask(what) EXCEPT !.of = of] IN a \in Readings /\ CopyFits(a.got)
      /\ \A what \in {"task", "plan", "load"} : Ask(what) \in Readings /\ CopyFits(Ask(what).got)
  <2>1. NoCopy \in Copy /\ CopyFits(NoCopy) /\ Idle \in Readings /\ Idle.got = NoCopy
    BY DEF Idle, Readings, NoCopy, Copy, CopyFits, Shown, Sessions, There
  <2>2. NoClick \in Clicks /\ NoClick.stage = "none"
    BY DEF NoClick, Clicks, Forms, Kinds, Shown
  <2>3. \A what \in {"task", "plan", "load"} : Ask(what) \in Readings /\ Ask(what).got = NoCopy
    BY <1>0, <2>1 DEF Ask, Readings
  <2>4. \A what \in {"task", "plan", "load"}, of \in Shown :
            LET a == [Ask(what) EXCEPT !.of = of] IN a \in Readings /\ a.got = NoCopy
    BY <1>0, <2>1 DEF Ask, Readings
  <2> QED
    BY <2>1, <2>2, <2>3, <2>4 DEF Readers
<1>2. Here' \in Copy /\ CopyFits(Here')
  BY DEF Here, Copy, Sessions, CopyFits
<1> DEFINE ReadsFit == reads' \in [Readers -> Readings] /\ \A q \in Readers : CopyFits(reads'[q].got)
<1>r. ASSUME NEW q \in Readers, NEW x \in Readings, CopyFits(x.got), reads' = [reads EXCEPT ![q] = x]
      PROVE  ReadsFit
  BY <1>0, <1>r
<1>u. ASSUME UNCHANGED reads PROVE ReadsFit
  BY <1>0, <1>u
<1>g. ASSUME NEW q \in Readers, NEW c \in Copy, CopyFits(c), reads' = [reads EXCEPT ![q].got = c]
      PROVE  ReadsFit
  <2>1. [reads[q] EXCEPT !.got = c] \in Readings /\ [reads[q] EXCEPT !.got = c].got = c
    BY <1>0 DEF Readings
  <2> QED
    BY <1>r, <1>g, <2>1
<1>s. /\ StaleReads \in [Readers -> Readings]
      /\ \A q \in Readers : CopyFits(StaleReads[q].got)
  <2> SUFFICES ASSUME NEW q \in Readers
               PROVE  LET x == [reads[q] EXCEPT !.got = Stale(@)] IN x \in Readings /\ CopyFits(x.got)
    BY DEF StaleReads
  <2>1. Stale(reads[q].got) \in Copy /\ CopyFits(Stale(reads[q].got))
    BY <1>0, StaleCopy
  <2> QED
    BY <1>0, <2>1 DEF Readings
<1>k. ASSUME UNCHANGED <<click, task>> PROVE click' \in Clicks /\ ClickFits'
  BY <1>0, <1>k DEF ClickFits, OnStep, IsCommand
<1>n. ASSUME click' = NoClick PROVE click' \in Clicks /\ ClickFits'
  BY <1>1, <1>n DEF NoClick, ClickFits, OnStep, IsCommand
<1>a. ASSUME NEW stage \in {"last", "plan"}, After(stage) PROVE click' \in Clicks /\ ClickFits'
  BY <1>0, <1>1, <1>a DEF After, NoClick, Clicks, ClickFits, OnStep, IsCommand
<1>b. ASSUME NEW stage \in {"done", "conflict", "failed", "again"}, Answers(stage),
             stage \in {"conflict", "again"} => ~click.landed,
             stage = "again" => click.tries >= 1
      PROVE  click' \in Clicks /\ ClickFits'
  BY <1>0, <1>b DEF Answers, Clicks, ClickFits, OnStep, IsCommand
<1>l. click.stage \in {"sent", "conflict"} => ~click.landed
  BY <1>0 DEF ClickFits
<1>3. CASE Unwatched
  <2>1. click.stage = "none" /\ UNCHANGED <<click, reads>>
    BY <1>0, <1>3 DEF Unwatched, NoPage, pageVars
  <2> QED
    BY <1>0, <1>u, <2>1 DEF ClickFits, OnStep, IsCommand
<1>4. CASE Others
  <2>1. reads' = StaleReads /\ click' = [click EXCEPT !.current = FALSE]
    BY <1>4 DEF Others, SavedByOthers
  <2>2. /\ click' \in Clicks /\ click'.stage = click.stage /\ click'.landed = click.landed
        /\ click'.tries = click.tries /\ click'.kind = click.kind /\ click'.arg = click.arg
        /\ ~click'.current
    BY <1>0, <2>1 DEF Clicks
  <2> QED
    BY <1>0, <1>s, <2>1, <2>2 DEF ClickFits, OnStep, IsCommand
<1>5. CASE Land
  <2>1. /\ click' = [click EXCEPT !.stage = "done", !.landed = TRUE]
        /\ reads' = IF IsCommand THEN [StaleReads EXCEPT !.click.got = Here'] ELSE StaleReads
    BY <1>5 DEF Land, Answered
  <2>2. /\ click' \in Clicks /\ click'.stage = "done" /\ click'.kind = click.kind /\ click'.arg = click.arg
    BY <1>0, <2>1 DEF Clicks
  <2>3. ReadsFit
    <3>1. CASE IsCommand
      <4>1. LET x == [StaleReads["click"] EXCEPT !.got = Here'] IN x \in Readings /\ CopyFits(x.got)
        BY <1>1, <1>2, <1>s DEF Readings
      <4>2. reads' = [StaleReads EXCEPT !["click"] = [StaleReads["click"] EXCEPT !.got = Here']]
        BY <2>1, <3>1
      <4> HIDE DEF StaleReads
      <4> QED
        BY <1>1, <1>s, <4>1, <4>2
    <3>2. CASE ~IsCommand
      BY <1>s, <2>1, <3>2
    <3> QED
      BY <3>1, <3>2
  <2> QED
    BY <1>0, <2>2, <2>3 DEF ClickFits, OnStep, IsCommand
<1>6. CASE LandNothing
  <2>1. /\ Answers("done") /\ UNCHANGED task
        /\ reads' = IF IsCommand THEN [reads EXCEPT !.click.got = Here] ELSE reads
    BY <1>6 DEF LandNothing, Answered, vars
  <2>2. Here \in Copy /\ CopyFits(Here)
    BY <1>0, GoodCopies
  <2> QED
    BY <1>1, <1>b, <1>g, <1>u, <2>1, <2>2
<1>7. CASE Refuse \/ HandleThere
  <2>1. click.stage = "sent" /\ UNCHANGED reads /\ \E stage \in {"done", "conflict", "failed"} : Answers(stage)
    BY <1>7 DEF Refuse, HandleThere, Asked
  <2> QED
    BY <1>b, <1>l, <1>u, <2>1
<1>8. CASE Press
  BY <1>8, <1>u, PressFits DEF Press
<1>9. CASE Lose
  <2>1. Answers("failed") /\ reads' = [reads EXCEPT !.click = Idle]
    BY <1>9 DEF Lose
  <2> QED
    BY <1>1, <1>b, <1>r, <2>1
<1>10. CASE GiveUp
  BY <1>10, <1>n, <1>u DEF GiveUp
<1>11. CASE Again
  <2>1. click.stage = "conflict" /\ click.tries = 1 /\ Answers("again") /\ reads' = [reads EXCEPT !.click = Ask("task")]
    BY <1>11 DEF Again, Retried, Reads
  <2> QED
    BY <1>1, <1>b, <1>l, <1>r, <2>1
<1>12. CASE Reread
  <2>1. \E stage \in {"last", "plan"}, what \in {"task", "plan"} :
           After(stage) /\ reads' = [reads EXCEPT !.click = Ask(what)]
    BY <1>12 DEF Reread, Reads
  <2> QED
    BY <1>1, <1>a, <1>r, <2>1
<1>13. CASE CommandAnswered
  BY <1>1, <1>13, <1>n, <1>r DEF CommandAnswered
<1>14. ASSUME NEW r \in Readers, Serve(r) PROVE click' \in Clicks /\ ClickFits' /\ ReadsFit
  <2>1. UNCHANGED <<click, task>> /\ \E c \in {Here, There} : reads' = [reads EXCEPT ![r].got = c]
    BY <1>14 DEF Serve, vars
  <2> QED
    BY <1>0, <1>g, <1>k, <2>1, GoodCopies
<1>15. ASSUME NEW r \in Readers, Apply(r) \/ ReadFails(r) PROVE click' \in Clicks /\ ClickFits' /\ ReadsFit
  <2>1. Ended(r) /\ UNCHANGED task
    BY <1>15 DEF Apply, ReadFails, vars
  <2> QED
    BY <2>1, EndedKeeps
<1>16. CASE LoadsNothing \/ \E running \in BOOLEAN : Load(running)
  <2>1. Ended("load") /\ UNCHANGED task
    BY <1>16 DEF LoadsNothing, Load, vars
  <2> QED
    BY <1>1, <2>1, EndedKeeps
<1>17. CASE Subscribe \/ HandlePush \/ Prompt
  BY <1>17, <1>k, <1>u DEF Subscribe, HandlePush, Prompt, vars
<1>18. CASE Reload
  <2>1. reads' = [reads EXCEPT !.load = Ask("load")] /\ UNCHANGED <<click, task>>
    BY <1>18 DEF Reload, Reads, vars
  <2> QED
    BY <1>1, <1>k, <1>r, <2>1
<1>19. ASSUME NEW to \in Sessions, Switch(to) PROVE click' \in Clicks /\ ClickFits' /\ ReadsFit
  <2>1. reads' = [reads EXCEPT !.load = [Ask("load") EXCEPT !.of = to]] /\ UNCHANGED <<click, task>> /\ to \in Shown
    BY <1>19 DEF Switch, vars, Shown
  <2> QED
    BY <1>1, <1>k, <1>r, <2>1
<1> QED
  BY <1>3, <1>4, <1>5, <1>6, <1>7, <1>8, <1>9, <1>10, <1>11, <1>12, <1>13, <1>14, <1>15, <1>16, <1>17,
     <1>18, <1>19 DEF PanelNext, ServerSide, ClickSide, PageSide
\* A page that is not there stays away.
LEMMA NoPageKept == PanelInv /\ PanelNext => NoPage'
<1> SUFFICES ASSUME PanelInv, PanelNext, shown' = "none" PROVE NoPage'
  BY DEF NoPage
<1>1. CASE shown = "none"
  <2>1. /\ held = NoCopy /\ pushed = <<>> /\ stream = "off" /\ click.stage = "none"
        /\ reads.click = Idle /\ reads.load = Idle /\ \A r \in Readers : reads[r] = Idle
    BY <1>1 DEF PanelInv, NoPage, Readers
  <2>2. UNCHANGED pageVars
    BY <1>1, <2>1 DEF PanelNext, ServerSide, ClickSide, PageSide, Unwatched, Others, Land, LandNothing,
       Refuse, HandleThere, Asked, Press, Busy, Lose, GiveUp, Again, Retried, Reread, CommandAnswered,
       Serve, Apply, Load, ReadFails, LoadsNothing, Subscribe, HandlePush, Switch, Reload, Prompt,
       NoCopy, NoClick, Idle
  <2> QED
    BY <2>1, <2>2 DEF NoPage, pageVars
<1>2. CASE shown # "none"
  BY <1>2, PanelView, ViewKept, PanelTask
<1> QED
  BY <1>1, <1>2

\* Going to another session replaces the load, and nobody else puts anything in its place.
LEMMA LoadKept == PanelInv /\ PanelNext => LoadFits'
<1> SUFFICES ASSUME PanelInv, PanelNext PROVE LoadFits'
  OBVIOUS
<1>0. /\ reads \in [Readers -> Readings] /\ LoadFits /\ shown \in Shown
      /\ reads.load \in Readings /\ "load" \in Readers /\ "click" \in Readers /\ "click" # "load"
      /\ reads.load.got \in Copy /\ CopyFits(reads.load.got)
  BY DEF PanelInv, PanelTypeOK, CopiesFit, Readers, Readings
<1>1. ASSUME shown' = shown, reads'.load = reads.load PROVE LoadFits'
  BY <1>0, <1>1 DEF LoadFits
<1>2. ASSUME NEW x, reads' = [reads EXCEPT !.click = x] PROVE reads'.load = reads.load
  BY <1>0, <1>2
<1>3. StaleReads.load.of = reads.load.of /\ StaleReads.load.got.of = reads.load.got.of
  <2>1. StaleReads.load = [reads.load EXCEPT !.got = Stale(@)]
    BY <1>0 DEF StaleReads
  <2> QED
    BY <1>0, <2>1, StaleCopy DEF Readings
<1>4. ASSUME shown' = shown, reads'.load = StaleReads.load PROVE LoadFits'
  BY <1>0, <1>3, <1>4 DEF LoadFits
<1>5. ASSUME shown' = shown, reads'.load = Idle PROVE LoadFits'
  BY <1>5 DEF LoadFits, Idle, NoCopy
<1>6. CASE Unwatched \/ Refuse \/ HandleThere \/ Press \/ GiveUp \/ Subscribe \/ HandlePush \/ Prompt
  BY <1>1, <1>6 DEF Unwatched, pageVars, Refuse, HandleThere, Press, GiveUp, Subscribe, HandlePush, Prompt
<1>7. CASE Others
  BY <1>4, <1>7 DEF Others, SavedByOthers, Saved
<1>8. CASE Land
  <2>1. shown' = shown /\ reads' = IF IsCommand THEN [StaleReads EXCEPT !.click.got = Here'] ELSE StaleReads
    BY <1>8 DEF Land, Saved, Answered
  <2>2. reads'.load = StaleReads.load
    BY <1>0, <2>1 DEF StaleReads
  <2> QED
    BY <1>4, <2>1, <2>2
<1>9. CASE LandNothing
  <2>1. shown' = shown /\ reads' = IF IsCommand THEN [reads EXCEPT !.click.got = Here] ELSE reads
    BY <1>9 DEF LandNothing, Answered
  <2> QED
    BY <1>0, <1>1, <2>1
<1>10. CASE Lose \/ Again \/ Reread \/ CommandAnswered
  BY <1>1, <1>2, <1>10 DEF Lose, Again, Reread, CommandAnswered, Reads
<1>11. ASSUME NEW r \in Readers, Serve(r) PROVE LoadFits'
  <2>1. CASE r = "click"
    BY <1>0, <1>1, <1>11, <2>1 DEF Serve
  <2>2. CASE r = "load"
    <3>1. /\ shown' = shown /\ reads.load.of = shown /\ shown # "none"
          /\ reads'.load = [reads.load EXCEPT !.got = IF shown = "here" THEN Here ELSE There]
      BY <1>0, <1>11, <2>2 DEF Serve, LoadFits
    <3>2. /\ reads'.load.of = shown
          /\ reads'.load.got = IF shown = "here" THEN Here ELSE There
      BY <1>0, <3>1 DEF Readings
    <3> QED
      BY <1>0, <3>1, <3>2 DEF LoadFits, Here, There, Shown, Sessions
  <2> QED
    BY <2>1, <2>2 DEF Readers
<1>12. ASSUME NEW r \in Readers, Ended(r), shown' = shown PROVE LoadFits'
  <2>1. CASE r = "click"
    BY <1>1, <1>2, <1>12, <2>1 DEF Ended, Continue, Reads
  <2>2. CASE r = "load"
    BY <1>0, <1>5, <1>12, <2>2 DEF Ended
  <2> QED
    BY <2>1, <2>2 DEF Readers
<1>13. CASE LoadsNothing \/ (\E running \in BOOLEAN : Load(running)) \/ \E r \in Readers : Apply(r) \/ ReadFails(r)
  BY <1>0, <1>12, <1>13 DEF LoadsNothing, Load, Apply, ReadFails
<1>14. CASE Reload \/ \E to \in Sessions : Switch(to)
  <2>1. PICK of \in Shown : shown' = of /\ reads' = [reads EXCEPT !.load = [of |-> of, what |-> "load", got |-> NoCopy]]
    BY <1>0, <1>14 DEF Reload, Switch, Reads, Ask, Shown
  <2> QED
    BY <1>0, <2>1 DEF LoadFits, NoCopy
<1> QED
  BY <1>6, <1>7, <1>8, <1>9, <1>10, <1>11, <1>13, <1>14 DEF PanelNext, ServerSide, ClickSide, PageSide

LEMMA PanelInvInit == PanelInit => PanelInv
<1> SUFFICES ASSUME PanelInit PROVE PanelInv
  OBVIOUS
<1>1. Inv
  <2>1. CASE Init
    BY <2>1, InvInit
  <2>2. CASE task \in Looked /\ opening = "none" /\ explicit = FALSE
    <3>1. PICK title \in Titles, plan \in {"none", "proposed", "executing"} :
             task = [status |-> "pending", plan |-> plan, steps |-> <<NewStep(1, title)>>]
      BY <2>2 DEF Looked
    <3> DEFINE s == NewStep(1, title)
    <3>2. s \in Step /\ s.st = "pending" /\ Timed(s)
      BY BoundsAssumption DEF NewStep, Step, StepStatuses, Timed
    <3> HIDE DEF s
    <3>3. task.steps = <<s>> /\ task.status = "pending" /\ task \in Task
      BY <3>1, <3>2 DEF Task, TaskStatuses, StoredPlans, s
    <3>4. DOMAIN task.steps = {1} /\ task.steps[1] = s
      BY <3>3
    <3>5. Derive(task.steps) = "pending"
      BY <3>2, <3>4 DEF Derive, Statuses
    <3> QED
      BY <2>2, <3>2, <3>3, <3>4, <3>5 DEF Inv, TypeOK, StatusFollowsSteps, IdsDistinct, DistinctIds,
         TimesMatch
  <2> QED
    BY <2>1, <2>2 DEF PanelInit
<1>2. /\ shown \in {"none", "here"} /\ held = NoCopy /\ popped = FALSE /\ click = NoClick
      /\ reads = [r \in Readers |-> IF r = "load" /\ shown = "here" THEN Ask("load") ELSE Idle]
      /\ stream = "off" /\ pushed = <<>> /\ changes = 0
  BY DEF PanelInit
<1>3. /\ NoCopy \in Copy /\ CopyFits(NoCopy) /\ NoClick \in Clicks
      /\ Idle \in Readings /\ Idle.got = NoCopy /\ Ask("load") \in Readings /\ Ask("load").got = NoCopy
  <2>1. NoCopy \in Copy /\ CopyFits(NoCopy)
    BY DEF NoCopy, Copy, CopyFits, There
  <2>2. Idle \in Readings /\ Idle.got = NoCopy /\ Ask("load") \in Readings /\ Ask("load").got = NoCopy
    BY <1>2, <2>1 DEF Idle, Ask, Readings, Shown, Sessions
  <2>3. NoClick \in Clicks
    BY DEF NoClick, Clicks, Forms, Kinds, Shown
  <2> QED
    BY <2>1, <2>2, <2>3
<1>4. PanelTypeOK
  <2>1. reads \in [Readers -> Readings]
    BY <1>2, <1>3
  <2>2. pushed \in Seq(Copy) /\ changes \in Nat
    BY <1>2
  <2> QED
    BY <1>2, <1>3, <2>1, <2>2 DEF PanelTypeOK, Shown, Sessions
<1>5. ClickFits /\ NoPage /\ Follows /\ Opens
  BY <1>2 DEF ClickFits, NoClick, OnStep, IsCommand, NoPage, Follows, Opens, NoCopy
<1>7. LoadFits
  BY <1>2, <1>3 DEF LoadFits, Readers, Ask, Idle, NoCopy
<1>6. CopiesFit
  BY <1>2, <1>3 DEF CopiesFit
<1> QED
  BY <1>1, <1>4, <1>5, <1>6, <1>7 DEF PanelInv

LEMMA PanelInvNext == PanelInv /\ [PanelNext]_panelVars => PanelInv'
<1>1. ASSUME PanelInv, UNCHANGED panelVars PROVE PanelInv'
  <2>1. Inv'
    BY <1>1, PanelTask
  <2> QED
    BY <1>1, <2>1 DEF PanelInv, panelVars, pageVars, PanelTypeOK, ClickFits, OnStep, IsCommand, CopiesFit,
       NoPage, LoadFits, Follows, Here, HasPlan, Opens, Proposed
<1>2. ASSUME PanelInv, PanelNext PROVE PanelInv'
  <2>1. Inv' /\ ViewStep
    BY <1>2, PanelTask, PanelView
  <2>2. /\ shown' \in Shown /\ held' \in Copy /\ popped' \in BOOLEAN
        /\ stream' \in {"off", "connecting", "on"} /\ pushed' \in Seq(Copy) /\ changes' \in Nat
        /\ CopyFits(held') /\ \A i \in DOMAIN pushed' : CopyFits(pushed'[i]) /\ pushed'[i].of = "here"
        /\ Follows' /\ Opens'
    BY <1>2, <2>1, ViewKept
  <2>3. /\ click' \in Clicks /\ ClickFits' /\ reads' \in [Readers -> Readings]
        /\ \A q \in Readers : CopyFits(reads'[q].got)
    BY <1>2, <2>1, <2>2, ClickKept
  <2> QED
    BY <1>2, <2>1, <2>2, <2>3, NoPageKept, LoadKept DEF PanelInv, PanelTypeOK, CopiesFit
<1> QED
  BY <1>1, <1>2

LEMMA PanelInvAlways == PanelSpec => []PanelInv
BY PanelInvInit, PanelInvNext, PTL DEF PanelSpec

\* The task stays coherent while a page shows it and sends clicks from stale copies.
THEOREM WatchedTaskStaysSound == PanelSpec => []StepsSound
<1>1. PanelInv => StepsSound
  BY DEF PanelInv, Inv, StepsSound
<1> QED
  BY PanelInvAlways, <1>1, PTL

\* Only an answer, or a connection that nothing comes of, leaves a panel at rest wrong.
LEMMA CorrectedStep ==
    ASSUME PanelInv, PanelNext
    PROVE  /\ AtRest' /\ held' # Here' => (AtRest /\ held # Here) \/ AnswerShown \/ Subscribe
           /\ Strange(held)' => Strange(held) \/ Unasked
           /\ held'.as = "plan" /\ held'.current /\ Proposed' => popped'
<1>0. /\ ViewStep /\ Follows /\ Follows' /\ Opens' /\ NoPage /\ held \in Copy /\ CopyFits(held)
      /\ pushed \in Seq(Copy) /\ \A i \in DOMAIN pushed : pushed[i] \in Copy /\ pushed[i].of = "here"
  BY PanelView, PanelTask, ViewKept DEF PanelInv, PanelTypeOK, CopiesFit
<1>h. UNCHANGED task => Here' = Here
  BY DEF Here, HasPlan
<1>s. ASSUME UNCHANGED <<held, shown>> PROVE Strange(held)' => Strange(held)
  BY <1>s DEF Strange
<1>1. CASE ViewStays
  BY <1>0, <1>h, <1>s, <1>1 DEF ViewStays, AtRest, Opens
<1>2. CASE ViewAnswered
  BY <1>0, <1>h, <1>s, <1>2 DEF ViewAnswered, AtRest, Opens, Show, Strange, Connects
<1>3. CASE Saved
  <2>1. held' = Stale(held) /\ UNCHANGED <<shown, stream>>
    BY <1>3 DEF Saved
  <2>2. ~AtRest'
    <3> SUFFICES ASSUME shown = "here", stream = "on" PROVE pushed' # <<>>
      BY <2>1 DEF AtRest
    <3>1. pushed' = [i \in DOMAIN pushed |-> Stale(pushed[i])] \o <<Here'>>
      BY <1>3 DEF Saved, Notified
    <3> DEFINE old == [i \in DOMAIN pushed |-> Stale(pushed[i])]
    <3>2. old \in Seq({Stale(pushed[i]) : i \in DOMAIN pushed}) /\ <<Here'>> \in Seq({Here'})
      BY <1>0
    <3> HIDE DEF old
    <3>3. Len(old \o <<Here'>>) = Len(old) + 1 /\ Len(old) \in Nat
      BY <3>2
    <3> QED
      BY <3>1, <3>3 DEF old
  <2> QED
    BY <1>0, <2>1, <2>2, StaleCopy DEF Strange, Opens
<1>4. CASE HandlePush
  <2>1. /\ pushed # <<>> /\ held' = pushed[1] /\ pushed' = Tail(pushed) /\ UNCHANGED <<task, shown, stream>>
    BY <1>4 DEF HandlePush, Show, vars, Head
  <2>2. AtRest' => held' = Here'
    <3> SUFFICES ASSUME shown = "here", stream = "on", pushed' = <<>> PROVE held' = Here'
      BY <2>1 DEF AtRest
    <3>1. Len(pushed) = 1
      <4>1. Len(pushed) \in Nat /\ (Len(pushed) = 0 <=> pushed = <<>>)
        BY <1>0, EmptySeq
      <4>2. pushed' \in Seq(Copy) /\ Len(pushed') = Len(pushed) - 1
        BY <1>0, <2>1, <4>1, HeadTailProperties
      <4>3. Len(pushed') = 0
        OBVIOUS
      <4> QED
        BY <4>1, <4>2, <4>3
    <3> QED
      BY <1>0, <1>h, <2>1, <3>1 DEF Follows
  <2>3. ~Strange(held)'
    BY <1>0, <2>1, EmptySeq DEF Follows, NoPage, Strange, PanelInv, PanelTypeOK, Shown, Sessions
  <2> QED
    BY <1>0, <2>2, <2>3 DEF Opens
<1>5. CASE Subscribe
  BY <1>0, <1>s, <1>5 DEF Subscribe, Opens
<1>6. CASE \E to \in Sessions : Switch(to)
  BY <1>0, <1>6 DEF Switch, AtRest, Strange, NoCopy, Opens
<1>7. CASE Unwatched
  BY <1>0, <1>s, <1>7 DEF Unwatched, pageVars, AtRest, Opens
<1> QED
  BY <1>0, <1>1, <1>2, <1>3, <1>4, <1>5, <1>6, <1>7 DEF ViewStep

\* The events are the authority: a connected panel with no event left goes wrong only by an
\* answer or by connecting to an empty buffer, and the last event always puts it right; a copy
\* of another session comes only by an answer that does not ask for it; a plan that waits for
\* the user has opened the panel.
THEOREM PanelFollows == PanelSpec => PanelCorrected
<1> DEFINE Good == /\ AtRest' /\ held' # Here' => (AtRest /\ held # Here) \/ AnswerShown \/ Subscribe
                   /\ Strange(held)' => Strange(held) \/ Unasked
                   /\ held'.as = "plan" /\ held'.current /\ Proposed' => popped'
<1>1. PanelInv /\ [PanelNext]_panelVars => [Good]_panelVars
  BY CorrectedStep
<1> QED
  BY PanelInvAlways, <1>1, PTL DEF PanelSpec, PanelCorrected

\* A step that carries out a click is its first one, and the first request of a click
\* changes the very step that the user saw.
LEMMA LandsOnce ==
    ASSUME PanelInv, PanelNext, click.stage = "sent", click'.landed, changes' # changes
    PROVE  ~click.landed /\ (click.tries = 1 /\ OnStep => click.seen \in Range(task.steps))
<1>0. click \in Clicks /\ ClickFits /\ changes \in Nat
  BY DEF PanelInv, PanelTypeOK
<1>1. ~click.landed
  BY <1>0 DEF ClickFits
<1>2. shown # "none"
  BY DEF PanelInv, NoPage, NoClick
<1>3. Others \/ Land
  BY <1>2 DEF PanelNext, ServerSide, ClickSide, PageSide, Unwatched, LandNothing,
       Refuse, HandleThere, Press, Lose, GiveUp, Again, Reread, CommandAnswered,
       Serve, Apply, Load, ReadFails, LoadsNothing, Subscribe, HandlePush, Switch, Reload, Prompt
<1>4. ~Others
  BY <1>0, <1>1 DEF Others, SavedByOthers, Clicks
<1>5. Land
  BY <1>3, <1>4
<1> QED
  BY <1>0, <1>1, <1>5 DEF Land, Asked, Conflicts, ClickFits, OnStep, IsCommand

\* Through conflicts, repetitions, lost answers and changes of the session, a click changes
\* the task at most once, and its first request only the step it was made for.
THEOREM ClicksLandOnce == PanelSpec => ClicksLand
<1>1. PanelInv /\ [PanelNext]_panelVars =>
        [click.stage = "sent" /\ click'.landed /\ changes' # changes
           => ~click.landed /\ (click.tries = 1 /\ OnStep => click.seen \in Range(task.steps))]_panelVars
  BY LandsOnce
<1> QED
  BY PanelInvAlways, <1>1, PTL DEF PanelSpec, ClicksLand
\* A cancelled task keeps its status and its steps whatever clicks are on their way to
\* it, and from whatever copy.
THEOREM WatchedTaskIsFrozen == PanelSpec => FrozenUnlessResuming
<1> DEFINE Frozen == task.status = "cancelled" /\ opening = "none"
                       => task'.status = "cancelled" /\ task'.steps = task.steps
<1>1. ASSUME PanelInv, PanelNext, task.status = "cancelled", opening = "none" PROVE Frozen
  <2>0. task \in Task
    BY <1>1 DEF PanelInv, Inv, TypeOK
  <2>1. ~Mutable /\ PlanStatus(task) = "abandoned"
    BY <1>1 DEF Mutable, PlanStatus
  <2>2. CASE Unwatched
    BY <1>1, <2>0, <2>2, FrozenStep DEF Unwatched
  <2>3. ~Others
    BY <2>1 DEF Others, Foreign, CompleteStep, RemoveStep, SubmitPlan, CancelTask
  <2>4. CASE Land
    <3>1. \E to : PlanCommand(to)
      BY <2>1, <2>4 DEF Land, Applied, AddStep, UpdateStep, RemoveStep, CancelTask
    <3> QED
      BY <2>0, <3>1 DEF PlanCommand, Task
  <2>5. CASE LandNothing \/ Refuse \/ HandleThere \/ ClickSide \/ PageSide
    BY <2>5 DEF LandNothing, Refuse, HandleThere, ClickSide, Press, Lose, GiveUp, Again, Reread,
                CommandAnswered, PageSide, Serve, Apply, Load, ReadFails, LoadsNothing, Subscribe,
                HandlePush, Switch, Reload, Prompt, vars
  <2> QED
    BY <1>1, <2>2, <2>3, <2>4, <2>5 DEF PanelNext, ServerSide
<1>2. PanelInv /\ [PanelNext]_panelVars => [Frozen]_vars
  BY <1>1 DEF panelVars, vars
<1> QED
  BY PanelInvAlways, <1>2, PTL DEF PanelSpec, FrozenUnlessResuming

\* update_plan keeps what has begun with a page looking on, too.
THEOREM WatchedStepsAreKept == PanelSpec => ProgressKept
<1>1. PanelInv /\ [PanelNext]_panelVars =>
        [(\E titles \in TitleLists : UpdatePlan(titles))
           => \A i \in DOMAIN task.steps :
                 task.steps[i].st # "pending" /\ Alike(i) = {i} => Kept(i)]_vars
  BY UpdateKeeps DEF PanelInv, Inv, TypeOK, panelVars, vars
<1> QED
  BY PanelInvAlways, <1>1, PTL DEF PanelSpec, ProgressKept
=============================================================================
