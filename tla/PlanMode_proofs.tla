--------------------------- MODULE PlanMode_proofs ----------------------------
(***************************************************************************)
(* For any number of plans, steps and revisions and any order of commands, *)
(* tools, routes, runs and restarts: the plans, their leases and what the  *)
(* user confirmed agree (PlanInv), the page shows the bound plan, the gate *)
(* opens by the user's word or a block (under a policy that opens it no    *)
(* wider), an unfinished plan is lost to its session in the named ways     *)
(* only, and no run begins on an earlier context of its plan.  Every       *)
(* operation on a plan either raises its revision or leaves its state      *)
(* alone: that is what the contexts rest on.                               *)
(***************************************************************************)
EXTENDS PlanMode, SequenceTheorems, WellFoundedInduction, TLAPS

\* A non-empty set of naturals has a least element.
LEMMA LeastNat ==
    ASSUME NEW S \in SUBSET Nat, S # {}
    PROVE  \E m \in S : \A n \in S : m <= n
<1> DEFINE R == OpToRel(<, Nat)
<1>1. \A ss \in Nat \X Nat : ss \in R <=> ss[1] < ss[2]
  BY DEF OpToRel
<1>2. IsWellFoundedOn(R, Nat)
  BY NatLessThanWellFounded, Zenon
<1> HIDE DEF R
<1>3. PICK m \in S : \A n \in S : <<n, m>> \notin R
  BY <1>2, WFMin
<1>4. ASSUME NEW n \in S PROVE m <= n
  <2>1. <<n, m>> \in Nat \X Nat
    OBVIOUS
  <2>2. ~(n < m)
    BY <1>1, <1>3, <2>1
  <2> QED
    BY <2>2
<1> QED
  BY <1>4

\* The user asked for what is stored as executing.
Executed == \A t \in DOMAIN plans : plans[t].plan = "executing" => t \in confirmed

\* The runner has the plans whose lease this process holds.
Leases == \A t \in DOMAIN plans : plans[t].lease = "mine" <=> t \in active

\* Only an open session has a run.
Attached == run = "running" => session.open

\* The list leaves out no plan.
Listed == \A t \in DOMAIN plans : \E i \in DOMAIN recent : recent[i] = t

\* A context is of a plan there is, and not of a later revision than it has.
Known(ps, inj) ==
    \A ty \in Types : inj[ty].plan # 0 =>
        inj[ty].plan \in DOMAIN ps /\ inj[ty].revision <= ps[inj[ty].plan].revision

\* When the context of a plan is in the session file already, it stands behind
\* every other one of this plan that the model is shown.
Newest(ps, inj, ms) ==
    \A t \in DOMAIN ps : inj[TypeOf(PlanStatus(ps[t]))] = Context(ps, t) =>
        \A i \in DOMAIN ms : ms[i].plan = t /\ ms[i] # Context(ps, t) =>
            \E j \in DOMAIN ms : i < j /\ ms[j] = Context(ps, t)

Heard(ps, inj, ms) == Known(ps, inj) /\ Newest(ps, inj, ms)

IInv == /\ TypeOK /\ Executed /\ Leases /\ Attached /\ Listed /\ PanelShowsPlan
        /\ Heard(plans, injected, messages)

\* q is p after an operation: a later revision of it, or in the state of p.
Later(p, q) ==
    \/ q.revision > p.revision
    \/ q.revision = p.revision /\ q.status = p.status /\ q.plan = p.plan
-----------------------------------------------------------------------------
(* The operations on one plan.                                             *)

LEMMA BumpFacts ==
  ASSUME NEW p \in Plan
  PROVE  /\ Bump(p) \in Plan /\ Bump(p).revision = p.revision + 1 /\ Bump(p).plan = p.plan
         /\ Bump(p).status = p.status /\ Bump(p).lease = p.lease /\ Bump(p).steps = p.steps
  BY DEF Bump, Plan

LEMMA StatedFacts ==
  ASSUME NEW p \in Plan, NEW st \in StoredPlans
  PROVE  /\ Stated(p, st) \in Plan /\ Later(p, Stated(p, st))
         /\ Stated(p, st).plan = st /\ Stated(p, st).status = p.status
         /\ Stated(p, st).lease = p.lease /\ Stated(p, st).steps = p.steps
<1> DEFINE q == [p EXCEPT !.plan = st]
<1>1. /\ q \in Plan /\ q.plan = st /\ q.status = p.status /\ q.lease = p.lease
      /\ q.steps = p.steps /\ q.revision = p.revision /\ p.revision \in Nat
  BY DEF Plan
<1>2. CASE p.plan = st
  <2>1. Stated(p, st) = p
    BY <1>2 DEF Stated
  <2> QED BY <1>2, <2>1 DEF Later
<1>3. CASE p.plan # st
  <2>1. Stated(p, st) = Bump(q)
    BY <1>3 DEF Stated
  <2> HIDE DEF q
  <2> QED BY <1>1, <2>1, BumpFacts DEF Later
<1> QED BY <1>2, <1>3

LEMMA DeriveType == \A steps : Derive(steps) \in TaskStatuses
  BY DEF Derive, TaskStatuses

LEMMA WithStepsFacts ==
  ASSUME NEW p \in Plan, NEW steps \in Seq(Step)
  PROVE  /\ WithSteps(p, steps) \in Plan /\ Later(p, WithSteps(p, steps))
         /\ WithSteps(p, steps).plan = p.plan /\ WithSteps(p, steps).lease = p.lease
         /\ p.status = "cancelled" => WithSteps(p, steps).status = "cancelled"
<1> DEFINE q == [p EXCEPT !.steps = steps]
           r == Refresh(q)
<1>1. /\ q \in Plan /\ q.plan = p.plan /\ q.status = p.status /\ q.lease = p.lease
      /\ q.revision = p.revision /\ p.revision \in Nat
  BY DEF Plan
<1> HIDE DEF q
<1>2. /\ r \in Plan /\ r.plan = p.plan /\ r.lease = p.lease /\ r.revision = p.revision
      /\ p.status = "cancelled" => r.status = "cancelled"
  BY <1>1, DeriveType DEF Refresh, Plan
<1>3. WithSteps(p, steps) = Bump(r)
  BY DEF WithSteps, q
<1> HIDE DEF r
<1> QED BY <1>1, <1>2, <1>3, BumpFacts DEF Later

LEMMA CancelledFacts ==
  ASSUME NEW p \in Plan
  PROVE  /\ Cancelled(p) \in Plan /\ Later(p, Cancelled(p))
         /\ Cancelled(p).plan = p.plan /\ Cancelled(p).lease = p.lease
         /\ Cancelled(p).status = "cancelled"
<1> DEFINE q == [p EXCEPT !.status = "cancelled"]
<1>1. /\ q \in Plan /\ q.plan = p.plan /\ q.status = "cancelled" /\ q.lease = p.lease
      /\ q.revision = p.revision /\ p.revision \in Nat
  BY DEF Plan, TaskStatuses
<1>2. CASE p.status = "cancelled"
  BY <1>2 DEF Cancelled, Later
<1>3. CASE p.status # "cancelled"
  <2>1. Cancelled(p) = Bump(q)
    BY <1>3 DEF Cancelled
  <2> HIDE DEF q
  <2> QED BY <1>1, <2>1, BumpFacts DEF Later
<1> QED BY <1>2, <1>3

LEMMA LeaseFacts ==
  ASSUME NEW p \in Plan, NEW l \in {"none", "mine", "dead"}
  PROVE  /\ [p EXCEPT !.lease = l] \in Plan
         /\ [p EXCEPT !.lease = l].plan = p.plan /\ [p EXCEPT !.lease = l].status = p.status
         /\ [p EXCEPT !.lease = l].revision = p.revision /\ [p EXCEPT !.lease = l].lease = l
         /\ [p EXCEPT !.lease = l].steps = p.steps
  BY DEF Plan

LEMMA LeasedFacts ==
  ASSUME NEW p \in Plan
  PROVE  /\ Leased(p) \in Plan /\ Later(p, Leased(p)) /\ Leased(p).plan = p.plan
         /\ Leased(p).status = p.status /\ Leased(p).lease = "mine"
         /\ Leased(p).revision = p.revision /\ Leased(p).steps = p.steps
  BY DEF Plan, Leased, Later

LEMMA FreedFacts ==
  ASSUME NEW p \in Plan
  PROVE  /\ Freed(p) \in Plan /\ Later(p, Freed(p)) /\ Freed(p).plan = p.plan
         /\ Freed(p).status = p.status /\ Freed(p).lease # "mine"
         /\ Freed(p).revision = p.revision /\ Freed(p).steps = p.steps
         /\ p.lease # "mine" => Freed(p).lease = p.lease
  BY DEF Plan, Freed, Later

LEMMA LaterTrans ==
  ASSUME NEW p \in Plan, NEW q \in Plan, NEW r \in Plan, Later(p, q), Later(q, r)
  PROVE  Later(p, r)
  BY DEF Later, Plan

\* What an operation leaves in the state it was has the same status and context.
LEMMA SameState ==
  ASSUME NEW p \in Plan, NEW q \in Plan, Later(p, q), q.revision = p.revision
  PROVE  PlanStatus(q) = PlanStatus(p) /\ q.status = p.status
  BY DEF Later, Plan, PlanStatus

LEMMA PlanStatusType ==
  ASSUME NEW p \in Plan
  PROVE  /\ PlanStatus(p) \in StoredPlans \cup {"completed", "abandoned"}
         /\ IsActivePlan(PlanStatus(p)) <=> p.status \notin Terminal
         /\ PlanStatus(p) = "executing" => p.plan = "executing"
  BY DEF PlanStatus, IsActivePlan, Plan, TaskStatuses, StoredPlans, Terminal

LEMMA TypeOfType == \A st : TypeOf(st) \in Types
  BY DEF TypeOf, Types

LEMMA ContextType ==
  ASSUME NEW ps \in Seq(Plan), NEW t \in DOMAIN ps
  PROVE  Context(ps, t) \in Contexts /\ Status(ps, t) = PlanStatus(ps[t])
<1>1. t \in Nat /\ t # 0 /\ ps[t] \in Plan
  OBVIOUS
<1> QED BY <1>1, TypeOfType DEF Context, Contexts, Plan, Status
-----------------------------------------------------------------------------
(* The contexts.                                                           *)

\* Operations on plans leave what is heard as true as it was: a context of what
\* has changed is of an earlier revision.
LEMMA HeardGrows ==
  ASSUME NEW ps \in Seq(Plan), NEW qs \in Seq(Plan), NEW inj \in [Types -> Contexts], NEW ms,
         Heard(ps, inj, ms), DOMAIN ps \subseteq DOMAIN qs,
         \A t \in DOMAIN ps : Later(ps[t], qs[t])
  PROVE  Heard(qs, inj, ms)
<1>1. \A t \in DOMAIN ps : /\ ps[t] \in Plan /\ qs[t] \in Plan /\ t # 0
                           /\ qs[t].revision \in Nat /\ ps[t].revision \in Nat
                           /\ ps[t].revision <= qs[t].revision
  <2> TAKE t \in DOMAIN ps
  <2>1. ps[t] \in Plan /\ qs[t] \in Plan /\ t # 0 /\ Later(ps[t], qs[t])
    OBVIOUS
  <2>2. qs[t].revision \in Nat /\ ps[t].revision \in Nat
    BY <2>1 DEF Plan
  <2> QED BY <2>1, <2>2 DEF Later
<1>2. \A ty \in Types : inj[ty].revision \in Nat
  BY DEF Contexts
<1>3. Known(qs, inj)
  <2> SUFFICES ASSUME NEW ty \in Types, inj[ty].plan # 0
               PROVE  /\ inj[ty].plan \in DOMAIN qs
                      /\ inj[ty].revision <= qs[inj[ty].plan].revision
    BY DEF Known
  <2>1. inj[ty].plan \in DOMAIN ps /\ inj[ty].revision <= ps[inj[ty].plan].revision
    BY DEF Heard, Known
  <2> QED BY <1>1, <1>2, <2>1
<1>4. ASSUME NEW t \in DOMAIN qs, inj[TypeOf(PlanStatus(qs[t]))] = Context(qs, t),
             NEW i \in DOMAIN ms, ms[i].plan = t, ms[i] # Context(qs, t)
      PROVE  \E j \in DOMAIN ms : i < j /\ ms[j] = Context(qs, t)
  <2> DEFINE ty == TypeOf(PlanStatus(qs[t]))
  <2>1. ty \in Types /\ t # 0
    BY TypeOfType
  <2>2. inj[ty].plan = t /\ inj[ty].revision = qs[t].revision
    BY <1>4 DEF Context
  <2>3. t \in DOMAIN ps /\ qs[t].revision <= ps[t].revision
    BY <2>1, <2>2 DEF Heard, Known
  <2>4. qs[t].revision = ps[t].revision
    BY <1>1, <2>3
  <2>5. PlanStatus(qs[t]) = PlanStatus(ps[t]) /\ qs[t].status = ps[t].status
    BY <1>1, <2>3, <2>4, SameState
  <2>6. Context(ps, t) = Context(qs, t)
    BY <2>1, <2>3, <2>4, <2>5, ContextType DEF Context
  <2> QED BY <1>4, <2>3, <2>5, <2>6 DEF Heard, Newest
<1> QED BY <1>3, <1>4 DEF Heard, Newest

\* What is left of a sequence without one of its places.
LEMMA RemoveAtFacts ==
  ASSUME NEW S, NEW s \in Seq(S), NEW k \in DOMAIN s
  PROVE  /\ RemoveAt(s, k) \in Seq(S) /\ Len(RemoveAt(s, k)) = Len(s) - 1
         /\ \A i \in 1..Len(s) - 1 : RemoveAt(s, k)[i] = IF i < k THEN s[i] ELSE s[i + 1]
<1> DEFINE a == SubSeq(s, 1, k - 1)
           b == SubSeq(s, k + 1, Len(s))
<1>1. Len(s) \in Nat /\ k \in 1..Len(s) /\ RemoveAt(s, k) = a \o b
  BY DEF RemoveAt
<1>2. a \in Seq(S) /\ Len(a) = k - 1 /\ \A i \in 1..k - 1 : a[i] = s[i]
  BY <1>1
<1>3. b \in Seq(S) /\ Len(b) = Len(s) - k /\ \A i \in 1..Len(s) - k : b[i] = s[k + i]
  <2>1. /\ b \in Seq(S)
        /\ Len(b) = IF k + 1 <= Len(s) THEN Len(s) - (k + 1) + 1 ELSE 0
        /\ \A i \in 1..Len(s) - (k + 1) + 1 : b[i] = s[(k + 1) + i - 1]
    BY <1>1, SubSeqProperties
  <2> HIDE DEF b
  <2>2. Len(b) = Len(s) - k /\ Len(s) - (k + 1) + 1 = Len(s) - k
    BY <1>1, <2>1
  <2>3. ASSUME NEW i \in 1..Len(s) - k PROVE b[i] = s[k + i]
    <3>1. b[i] = s[(k + 1) + i - 1]
      BY <2>1, <2>2
    <3>2. (k + 1) + i - 1 = k + i
      BY <1>1
    <3> QED BY <3>1, <3>2
  <2> QED BY <2>1, <2>2, <2>3
<1> HIDE DEF a, b
<1>4. a \o b \in Seq(S) /\ Len(a \o b) = Len(s) - 1
  BY <1>1, <1>2, <1>3
<1>5. ASSUME NEW i \in 1..Len(s) - 1 PROVE (a \o b)[i] = IF i < k THEN s[i] ELSE s[i + 1]
  <2>1. CASE i < k
    BY <1>1, <1>2, <1>3, <2>1
  <2>2. CASE ~(i < k)
    <3> DEFINE l == i + 1 - k
    <3>1. l \in 1..Len(s) - k /\ k + l = i + 1 /\ i - Len(a) = l /\ ~(i <= Len(a))
      BY <1>1, <1>2, <2>2
    <3>2. i \in 1..Len(a) + Len(b)
      BY <1>1, <1>2, <1>3
    <3> HIDE DEF l
    <3>3. (a \o b)[i] = b[l]
      BY <1>2, <1>3, <3>1, <3>2, ConcatProperties
    <3>4. b[l] = s[i + 1]
      BY <1>3, <3>1
    <3> QED BY <2>2, <3>3, <3>4
  <2> QED BY <2>1, <2>2
<1> QED BY <1>1, <1>4, <1>5

\* What is added at the end, with the one of its type taken out, leaves the others
\* in their order.
LEMMA WithoutFacts ==
  ASSUME NEW ms \in Seq(Contexts), NEW ty
  PROVE  /\ Without(ms, ty) \in Seq(Contexts)
         /\ \A i \in DOMAIN Without(ms, ty) : \E k \in DOMAIN ms :
               /\ Without(ms, ty)[i] = ms[k]
               /\ \A l \in DOMAIN ms : k < l /\ ms[l].type # ty =>
                     \E j \in DOMAIN Without(ms, ty) : i < j /\ Without(ms, ty)[j] = ms[l]
<1>1. CASE ~\E i \in DOMAIN ms : ms[i].type = ty
  BY <1>1 DEF Without
<1>2. CASE \E i \in DOMAIN ms : ms[i].type = ty
  <2>1. PICK x \in DOMAIN ms : ms[x].type = ty /\ Without(ms, ty) = RemoveAt(ms, x)
    BY <1>2 DEF Without
  <2> DEFINE w == RemoveAt(ms, x)
  <2>2. /\ w \in Seq(Contexts) /\ Len(w) = Len(ms) - 1 /\ DOMAIN w = 1..Len(ms) - 1
        /\ \A i \in 1..Len(ms) - 1 : w[i] = IF i < x THEN ms[i] ELSE ms[i + 1]
        /\ Len(ms) \in Nat /\ x \in 1..Len(ms) /\ DOMAIN ms = 1..Len(ms)
    BY RemoveAtFacts
  <2> HIDE DEF w
  <2>3. ASSUME NEW i \in DOMAIN w
        PROVE  \E k \in DOMAIN ms :
                 /\ w[i] = ms[k]
                 /\ \A l \in DOMAIN ms : k < l /\ ms[l].type # ty =>
                       \E j \in DOMAIN w : i < j /\ w[j] = ms[l]
    <3> DEFINE k == IF i < x THEN i ELSE i + 1
    <3>1. k \in DOMAIN ms /\ w[i] = ms[k] /\ i \in Nat /\ (i < x => k = i) /\ (~(i < x) => k = i + 1)
      BY <2>2, <2>3
    <3> HIDE DEF k
    <3>2. ASSUME NEW l \in DOMAIN ms, k < l, ms[l].type # ty
          PROVE  \E j \in DOMAIN w : i < j /\ w[j] = ms[l]
      <4>1. l # x /\ l \in 1..Len(ms)
        BY <2>1, <2>2, <3>2
      <4>2. CASE l < x
        <5>1. l \in DOMAIN w /\ w[l] = ms[l] /\ i < l
          BY <2>2, <3>1, <3>2, <4>1, <4>2
        <5> QED BY <5>1
      <4>3. CASE x < l
        <5>1. l - 1 \in DOMAIN w /\ w[l - 1] = ms[l] /\ i < l - 1
          BY <2>2, <3>1, <3>2, <4>1, <4>3
        <5> QED BY <5>1
      <4> QED BY <2>2, <4>1, <4>2, <4>3
    <3> QED BY <3>1, <3>2
  <2> QED BY <2>1, <2>2, <2>3 DEF w
<1> QED BY <1>1, <1>2

\* A context added at the end disturbs no other plan's order, and stands behind
\* every other one of its own plan.
LEMMA BehindOk ==
  ASSUME NEW qs \in Seq(Plan), NEW inj \in [Types -> Contexts], NEW ms \in Seq(Contexts),
         Newest(qs, inj, ms), NEW b \in DOMAIN qs, NEW c, c = Context(qs, b),
         c.type = TypeOf(PlanStatus(qs[b])), c.type \in Types, c.plan = b, c \in Contexts
  PROVE  Newest(qs, [inj EXCEPT ![c.type] = c], Append(Without(ms, c.type), c))
<1> DEFINE w == Without(ms, c.type)
           out == Append(w, c)
           new == [inj EXCEPT ![c.type] = c]
<1>1. /\ w \in Seq(Contexts)
      /\ \A i \in DOMAIN w : \E k \in DOMAIN ms :
            /\ w[i] = ms[k]
            /\ \A l \in DOMAIN ms : k < l /\ ms[l].type # c.type => \E j \in DOMAIN w : i < j /\ w[j] = ms[l]
  BY WithoutFacts
<1> HIDE DEF w
<1>2. /\ Len(w) \in Nat /\ DOMAIN w = 1..Len(w) /\ DOMAIN out = 1..Len(w) + 1
      /\ out[Len(w) + 1] = c /\ \A i \in DOMAIN w : out[i] = w[i] /\ i < Len(w) + 1 /\ i \in DOMAIN out
  BY <1>1
<1> HIDE DEF out
<1> SUFFICES ASSUME NEW t \in DOMAIN qs, new[TypeOf(PlanStatus(qs[t]))] = Context(qs, t),
                    NEW i \in DOMAIN out, out[i].plan = t, out[i] # Context(qs, t)
             PROVE  \E j \in DOMAIN out : i < j /\ out[j] = Context(qs, t)
  BY DEF Newest, out, w
<1>3. i \in DOMAIN w \/ out[i] = c
  BY <1>2
<1>4. CASE t = b
  BY <1>2, <1>3, <1>4
<1>5. CASE t # b
  <2> DEFINE d == Context(qs, t)
  <2>1. d.plan = t /\ d.type = TypeOf(PlanStatus(qs[t])) /\ d.type \in Types
    BY ContextType, TypeOfType DEF Context
  <2>2. d.type # c.type
    <3> SUFFICES ASSUME d.type = c.type PROVE FALSE
      OBVIOUS
    <3>1. new[c.type] = c
      OBVIOUS
    <3> QED BY <1>5, <2>1, <3>1
  <2>3. inj[TypeOf(PlanStatus(qs[t]))] = d
    BY <2>1, <2>2
  <2>4. i \in DOMAIN w /\ out[i] = w[i]
    BY <1>2, <1>3, <1>5
  <2>5. PICK k \in DOMAIN ms :
            /\ w[i] = ms[k]
            /\ \A l \in DOMAIN ms : k < l /\ ms[l].type # c.type => \E j \in DOMAIN w : i < j /\ w[j] = ms[l]
    BY <1>1, <2>4
  <2>6. PICK l \in DOMAIN ms : k < l /\ ms[l] = d
    BY <2>3, <2>4, <2>5 DEF Newest
  <2>7. PICK j \in DOMAIN w : i < j /\ w[j] = d
    BY <2>2, <2>5, <2>6
  <2> QED BY <1>2, <2>7
<1> QED BY <1>4, <1>5

\* A prompt under plan b adds the context of b at the end, or finds it there.
LEMMA BeginHeard ==
  ASSUME NEW qs \in Seq(Plan), NEW b \in {0} \cup DOMAIN qs, Begin(qs, b),
         injected \in [Types -> Contexts], messages \in Seq(Contexts),
         Heard(qs, injected, messages)
  PROVE  /\ injected' \in [Types -> Contexts] /\ messages' \in Seq(Contexts)
         /\ Heard(qs, injected', messages')
         /\ b # 0 => injected'[TypeOf(Status(qs, b))] = Context(qs, b)
<1>1. CASE UNCHANGED <<injected, messages>>
  <2>1. b # 0 => injected[TypeOf(Status(qs, b))] = Context(qs, b)
    <3> SUFFICES ASSUME b # 0, injected[TypeOf(Status(qs, b))] # Context(qs, b) PROVE FALSE
      OBVIOUS
    <3> DEFINE c == Context(qs, b)
    <3>1. injected' = [injected EXCEPT ![c.type] = c]
      BY DEF Begin
    <3>2. c.type = TypeOf(Status(qs, b)) /\ c.type \in Types
      BY TypeOfType DEF Context
    <3> QED BY <1>1, <3>1, <3>2
  <2> QED BY <1>1, <2>1
<1>2. CASE /\ b # 0
           /\ injected' = [injected EXCEPT ![Context(qs, b).type] = Context(qs, b)]
           /\ messages' = Append(Without(messages, Context(qs, b).type), Context(qs, b))
  <2> DEFINE c == Context(qs, b)
  <2>1. /\ c \in Contexts /\ c.type \in Types /\ c.plan = b /\ c.revision = qs[b].revision
        /\ c.type = TypeOf(Status(qs, b)) /\ Status(qs, b) = PlanStatus(qs[b])
        /\ qs[b].revision \in Nat
    <3>1. qs[b] \in Plan
      BY <1>2
    <3> QED BY <1>2, <3>1, ContextType, TypeOfType DEF Context, Plan
  <2> HIDE DEF c
  <2>2. Without(messages, c.type) \in Seq(Contexts)
    <3>1. ASSUME NEW i \in DOMAIN messages PROVE RemoveAt(messages, i) \in Seq(Contexts)
      BY DEF RemoveAt
    <3> QED BY <3>1 DEF Without
  <2>3. messages' \in Seq(Contexts) /\ messages' # <<>> /\ messages'[Len(messages')] = c
    BY <1>2, <2>1, <2>2 DEF c
  <2>4. injected' \in [Types -> Contexts] /\ injected' = [injected EXCEPT ![c.type] = c]
    BY <1>2, <2>1 DEF c
  <2>5. Known(qs, injected')
    BY <1>2, <2>1, <2>4 DEF Heard, Known
  <2>6. Newest(qs, injected', messages')
    <3>1. Newest(qs, injected, messages) /\ b \in DOMAIN qs /\ c = Context(qs, b)
      BY <1>2 DEF c, Heard
    <3>2. Newest(qs, [injected EXCEPT ![c.type] = c], Append(Without(messages, c.type), c))
      BY <2>1, <3>1, BehindOk
    <3> QED BY <1>2, <2>4, <3>2 DEF c
  <2> QED BY <2>1, <2>3, <2>4, <2>5, <2>6 DEF Heard, c
<1> QED BY <1>1, <1>2 DEF Begin
-----------------------------------------------------------------------------
(* The plans.                                                              *)

\* The part of the types that is about the plans and the binding.
StoreOK ==
    /\ plans \in Seq(Plan) /\ Len(plans) <= MaxPlans
    /\ recent \in Seq(DOMAIN plans) /\ Len(recent) = Len(plans)
    /\ session \in [open : BOOLEAN, bound : 0..Len(plans)]
    /\ active \subseteq DOMAIN plans /\ confirmed \subseteq 0..Len(plans)

Kept == /\ StoreOK /\ Executed /\ Leases /\ Listed /\ PanelShowsPlan

LEMMA TouchedOk ==
  ASSUME StoreOK, NEW ts, NEW list \in Touched(ts)
  PROVE  /\ list \in Seq(DOMAIN plans) /\ Len(list) = Len(plans)
         /\ \A t \in DOMAIN plans : \E i \in DOMAIN list : list[i] = t
<1>1. recent \in Seq(DOMAIN plans) /\ Len(recent) = Len(plans) /\ DOMAIN recent = 1..Len(recent)
      /\ Len(recent) \in Nat
  BY DEF StoreOK
<1>2. /\ list \in [DOMAIN recent -> DOMAIN plans]
      /\ \A t \in DOMAIN plans : \E i \in DOMAIN list : list[i] = t
  BY DEF Touched
<1>3. list \in Seq(DOMAIN plans) /\ Len(list) = Len(recent)
  BY <1>1, <1>2
<1> QED BY <1>1, <1>2, <1>3

\* An operation on plan t, that leaves no plan executing that is not confirmed.
LEMMA ChangeOk ==
  ASSUME IInv, NEW t \in DOMAIN plans, NEW p \in Plan, Change(t, p), session' = session,
         Later(plans[t], p),
         confirmed' \subseteq 0..Len(plans),
         p.plan = "executing" => t \in confirmed',
         \A u \in DOMAIN plans \ {t} :
             plans[u].plan = "executing" /\ u \in confirmed => u \in confirmed',
         active' \subseteq DOMAIN plans, t \in active' <=> p.lease = "mine",
         \A u \in DOMAIN plans \ {t} : u \in active' <=> u \in active
  PROVE  /\ Kept' /\ Len(plans') = Len(plans)
         /\ plans' = [plans EXCEPT ![t] = p]
         /\ Heard(plans', injected, messages)
<1>1. /\ plans \in Seq(Plan) /\ plans' = [plans EXCEPT ![t] = p] /\ shown' = Published(plans', bound)
      /\ StoreOK
  BY DEF Change, IInv, TypeOK, StoreOK
<1>2. /\ plans' \in Seq(Plan) /\ Len(plans') = Len(plans) /\ DOMAIN plans' = DOMAIN plans
      /\ plans'[t] = p /\ \A u \in DOMAIN plans \ {t} : plans'[u] = plans[u]
  BY <1>1
<1>3. /\ recent' \in Seq(DOMAIN plans) /\ Len(recent') = Len(plans)
      /\ \A u \in DOMAIN plans : \E i \in DOMAIN recent' : recent'[i] = u
  BY <1>1, TouchedOk DEF Change, StoreOK, IInv, Listed
<1>4. StoreOK'
  BY <1>1, <1>2, <1>3 DEF StoreOK
<1>5. Listed'
  BY <1>2, <1>3 DEF Listed
<1>7. Executed'
  BY <1>2 DEF Executed, IInv
<1>8. Leases'
  BY <1>2 DEF Leases, IInv
<1>9. PanelShowsPlan'
  BY <1>1 DEF PanelShowsPlan, Published, bound
<1>10. Heard(plans', injected, messages)
  <2>1. \A u \in DOMAIN plans : Later(plans[u], plans'[u])
    BY <1>2 DEF Later
  <2> QED BY <1>1, <1>2, <2>1, HeardGrows DEF IInv, TypeOK
<1> QED BY <1>1, <1>2, <1>4, <1>5, <1>7, <1>8, <1>9, <1>10 DEF Kept

\* A new plan.
LEMMA CreateOk ==
  ASSUME IInv, CreatePlan, session.open,
         confirmed' = confirmed, active' = active
  PROVE  /\ Kept' /\ Len(plans') = Len(plans) + 1
         /\ session'.open /\ Heard(plans', injected, messages)
<1> DEFINE p == [status |-> "pending", plan |-> "drafting", steps |-> <<>>,
                 revision |-> 1, lease |-> "none"]
           n == Len(plans) + 1
<1>1. /\ plans \in Seq(Plan) /\ Len(plans) \in Nat /\ StoreOK
      /\ plans' = Append(plans, p) /\ recent' = <<Len(plans')>> \o recent
      /\ session' = [session EXCEPT !.bound = Len(plans')]
      /\ shown' = Published(plans', Len(plans')) /\ Len(plans) < MaxPlans
  BY DEF CreatePlan, IInv, TypeOK, StoreOK
<1>2. p \in Plan /\ p.plan = "drafting" /\ p.lease = "none"
  BY DEF Plan, TaskStatuses, StoredPlans
<1> HIDE DEF p
<1>3. /\ plans' \in Seq(Plan) /\ Len(plans') = n /\ DOMAIN plans' = 1..n /\ DOMAIN plans = 1..Len(plans)
      /\ plans'[n] = p /\ \A u \in DOMAIN plans : plans'[u] = plans[u]
  BY <1>1, <1>2
<1>4. session' \in [open : BOOLEAN, bound : 0..n] /\ session'.open /\ session'.bound = n
  BY <1>1, <1>3 DEF StoreOK
<1>5. DOMAIN plans' = DOMAIN plans \cup {n}
  BY <1>1, <1>3
<1>6. recent' \in Seq(DOMAIN plans') /\ Len(recent') = n /\ Listed'
  <2>1. recent \in Seq(1..n) /\ Len(recent) = Len(plans)
    BY <1>1, <1>3 DEF StoreOK
  <2>2. recent' \in Seq(1..n) /\ Len(recent') = n /\ recent'[1] = n
        /\ \A i \in 1..Len(recent) : recent'[i + 1] = recent[i]
    BY <1>1, <1>3, <2>1
  <2>3. ASSUME NEW u \in DOMAIN plans PROVE \E i \in DOMAIN recent' : recent'[i] = u
    <3>1. PICK i \in DOMAIN recent : recent[i] = u
      BY DEF IInv, Listed
    <3>2. i + 1 \in DOMAIN recent' /\ recent'[i + 1] = u
      BY <1>1, <2>1, <2>2, <3>1
    <3> QED BY <3>2
  <2>4. 1 \in DOMAIN recent'
    BY <1>1, <2>2
  <2>5. Listed'
    BY <1>5, <2>2, <2>3, <2>4 DEF Listed
  <2> QED BY <1>3, <2>2, <2>5
<1>7. StoreOK'
  <2>1. n <= MaxPlans
    BY <1>1, PlanAssumption
  <2> QED BY <1>1, <1>3, <1>4, <1>5, <1>6, <2>1 DEF StoreOK
<1>9. Executed' /\ Leases'
  <2>1. n \notin active
    BY <1>1, <1>3 DEF StoreOK
  <2> QED BY <1>2, <1>3, <1>5, <2>1 DEF IInv, Executed, Leases
<1>10. PanelShowsPlan'
  BY <1>1, <1>3, <1>4 DEF PanelShowsPlan, Published, bound
<1>11. Heard(plans', injected, messages)
  <2>1. \A u \in DOMAIN plans : Later(plans[u], plans'[u])
    BY <1>3 DEF Later
  <2> QED BY <1>1, <1>3, <1>5, <2>1, HeardGrows DEF IInv, TypeOK
<1> QED BY <1>1, <1>3, <1>4, <1>5, <1>6, <1>7, <1>9, <1>10, <1>11 DEF Kept
-----------------------------------------------------------------------------
(* The steps.                                                              *)

LEMMA Together ==
  ASSUME Kept', Heard(plans, injected, messages)', Attached',
         run' \in {"idle", "running"}, call' \in {"none", "tool", "propose"},
         stopping' \in 0..Len(plans'),
         injected' \in [Types -> Contexts], messages' \in Seq(Contexts)
  PROVE  IInv'
  BY DEF IInv, TypeOK, Kept, StoreOK

\* The prompt that a command sends finds the plans as the command left them.
LEMMA PromptedOk ==
  ASSUME IInv, Kept', session'.open, Heard(plans', injected, messages),
         Prompted(plans', session'.bound)
  PROVE  /\ run' \in {"idle", "running"} /\ Attached'
         /\ injected' \in [Types -> Contexts] /\ messages' \in Seq(Contexts)
         /\ Heard(plans, injected, messages)'
<1>1. Attached'
  BY DEF Attached
<1>2. CASE NoPrompt
  BY <1>1, <1>2 DEF NoPrompt, IInv, TypeOK
<1>3. CASE Begin(plans', session'.bound)
  <2>1. plans' \in Seq(Plan) /\ session'.bound \in {0} \cup DOMAIN plans'
    BY DEF Kept, StoreOK
  <2>3. run' = "running"
    BY <1>3 DEF Begin
  <2> QED BY <1>1, <1>3, <2>1, <2>3, BeginHeard DEF IInv, TypeOK
<1> QED BY <1>2, <1>3 DEF Prompted

\* Without a prompt nothing is said.
LEMMA QuietOk ==
  ASSUME IInv, Kept', NoPrompt, Heard(plans', injected, messages), session'.open = session.open,
         call' \in {"none", "tool", "propose"}, stopping' \in 0..Len(plans')
  PROVE  IInv'
<1>1. /\ run' \in {"idle", "running"} /\ Attached'
      /\ injected' \in [Types -> Contexts] /\ messages' \in Seq(Contexts)
      /\ Heard(plans, injected, messages)'
  BY DEF NoPrompt, IInv, TypeOK, Attached
<1> QED BY <1>1, Together

\* A step that leaves the plans and the binding alone keeps all of Kept.
LEMMA KeptSame ==
  ASSUME IInv, UNCHANGED <<plans, session, active, shown, confirmed>>,
         recent' = recent
  PROVE  Kept'
  BY DEF IInv, TypeOK, Kept, StoreOK, bound, Executed, Leases, Listed,
         PanelShowsPlan

LEMMA BoundPlan ==
  ASSUME IInv, bound # 0
  PROVE  bound \in DOMAIN plans /\ plans[bound] \in Plan /\ status = PlanStatus(plans[bound])
<1>1. bound \in DOMAIN plans /\ plans \in Seq(Plan)
  BY DEF IInv, TypeOK, bound
<1> QED BY <1>1, ContextType DEF status

\* An unfinished plan goes back to drafting and waits for the user's word again;
\* a finished one makes room for a new one.
LEMMA StartPlanningOk ==
  ASSUME IInv, session.open, StartPlanning
  PROVE  /\ Kept' /\ Len(plans') >= Len(plans) /\ Len(plans') \in Nat /\ session'.open
         /\ Heard(plans', injected, messages)
<1>1. Len(plans) \in Nat
  BY DEF IInv, TypeOK
<1>2. CASE Adopts
  <2> DEFINE p == Stated(plans[bound], "drafting")
  <2>1. bound \in DOMAIN plans /\ plans[bound] \in Plan
    BY <1>2, BoundPlan DEF Adopts
  <2>2. /\ p \in Plan /\ Later(plans[bound], p) /\ p.plan = "drafting"
        /\ p.status = plans[bound].status /\ p.lease = plans[bound].lease
    BY <2>1, StatedFacts DEF StoredPlans
  <2> HIDE DEF p
  <2>3. Change(bound, p) /\ confirmed' = confirmed \ {bound} /\ UNCHANGED <<session, active>>
    BY <1>2 DEF StartPlanning, p
  <2>4. confirmed \subseteq 0..Len(plans) /\ active \subseteq DOMAIN plans
    BY DEF IInv, TypeOK
  <2>5. bound \in active <=> p.lease = "mine"
    BY <2>1, <2>2 DEF IInv, Leases
  <2> QED BY <1>1, <2>1, <2>2, <2>3, <2>4, <2>5, ChangeOk
<1>3. CASE ~Adopts
  <2>1. CreatePlan /\ UNCHANGED <<confirmed, active>>
    BY <1>3 DEF StartPlanning
  <2> QED BY <1>1, <2>1, CreateOk
<1> QED BY <1>2, <1>3

LEMMA StartOk == ASSUME IInv, NEW m \in BOOLEAN, Start(m) PROVE IInv'
<1>1. session.open /\ StartPlanning /\ call' = call /\ stopping' = stopping
  BY DEF Start, Commands, StartPlanning
<1>2. /\ Kept' /\ Len(plans') >= Len(plans) /\ Len(plans') \in Nat /\ session'.open
      /\ Heard(plans', injected, messages)
  BY <1>1, StartPlanningOk
<1>3. call' \in {"none", "tool", "propose"} /\ stopping' \in 0..Len(plans')
  BY <1>1, <1>2 DEF IInv, TypeOK
<1>4. CASE m
  <2>1. Prompted(plans', session'.bound)
    BY <1>4 DEF Start
  <2> QED BY <1>2, <1>3, <2>1, PromptedOk, Together
<1>5. CASE ~m
  <2>1. NoPrompt
    BY <1>5 DEF Start
  <2> QED BY <1>1, <1>2, <1>3, <2>1, QuietOk
<1> QED BY <1>4, <1>5

LEMMA AgreeOk == ASSUME IInv, Agree PROVE IInv'
<1>1. session.open /\ StartPlanning /\ call' = "none" /\ stopping' = stopping /\ NoPrompt
  BY DEF Agree, StartPlanning, IInv, Attached
<1>2. /\ Kept' /\ Len(plans') >= Len(plans) /\ Len(plans') \in Nat /\ session'.open
      /\ Heard(plans', injected, messages)
  BY <1>1, StartPlanningOk
<1>3. stopping' \in 0..Len(plans')
  BY <1>1, <1>2 DEF IInv, TypeOK
<1> QED BY <1>1, <1>2, <1>3, QuietOk

LEMMA PromptOk == ASSUME IInv, Prompt PROVE IInv'
<1>1. /\ UNCHANGED <<plans, recent, session, active, shown, confirmed, call, stopping>>
      /\ session.open /\ run = "idle" /\ Begin(plans, bound)
  BY DEF Prompt, Commands
<1>2. Kept' /\ Heard(plans', injected, messages) /\ session'.open
  BY <1>1, KeptSame DEF IInv
<1>3. Prompted(plans', session'.bound)
  BY <1>1 DEF Prompted, bound
<1>4. call' \in {"none", "tool", "propose"} /\ stopping' \in 0..Len(plans')
  BY <1>1 DEF IInv, TypeOK
<1> QED BY <1>2, <1>3, <1>4, PromptedOk, Together

LEMMA RefineOk == ASSUME IInv, Refine PROVE IInv'
<1> DEFINE p == Stated(plans[bound], "drafting")
<1>1. bound \in DOMAIN plans /\ plans[bound] \in Plan
  BY BoundPlan DEF Refine
<1>2. /\ p \in Plan /\ Later(plans[bound], p) /\ p.plan = "drafting"
      /\ p.status = plans[bound].status /\ p.lease = plans[bound].lease
  BY <1>1, StatedFacts DEF StoredPlans
<1> HIDE DEF p
<1>3. /\ Change(bound, p) /\ confirmed' = confirmed \ {bound} /\ session.open /\ NoPrompt
      /\ UNCHANGED <<session, active, stopping, call>>
  BY DEF Refine, Commands, p
<1>4. confirmed \subseteq 0..Len(plans) /\ active \subseteq DOMAIN plans
  BY DEF IInv, TypeOK
<1>5. bound \in active <=> p.lease = "mine"
  BY <1>1, <1>2 DEF IInv, Leases
<1>6. Kept' /\ Len(plans') = Len(plans) /\ Heard(plans', injected, messages)
  BY <1>1, <1>2, <1>3, <1>4, <1>5, ChangeOk
<1>7. call' \in {"none", "tool", "propose"} /\ stopping' \in 0..Len(plans')
  BY <1>3, <1>6 DEF IInv, TypeOK
<1> QED BY <1>3, <1>6, <1>7, QuietOk

\* startExecution: confirmed with the state, leased with the run.
LEMMA GoOk ==
  ASSUME IInv, session.open, bound # 0, Go, call' = call PROVE IInv'
<1> DEFINE p == Stated(plans[bound], "executing")
<1>1. bound \in DOMAIN plans /\ plans[bound] \in Plan
  BY BoundPlan
<1>2. /\ p \in Plan /\ Later(plans[bound], p) /\ p.plan = "executing"
      /\ p.status = plans[bound].status /\ p.lease = plans[bound].lease
  BY <1>1, StatedFacts DEF StoredPlans
<1>3. /\ Leased(p) \in Plan /\ Leased(p).lease = "mine" /\ Leased(p).plan = p.plan
      /\ Leased(p).status = p.status /\ Later(p, Leased(p))
  BY <1>2, LeasedFacts
<1>4. Later(plans[bound], Leased(p))
  BY <1>1, <1>2, <1>3, LaterTrans
<1>5. /\ confirmed' = confirmed \cup {bound} /\ UNCHANGED <<session, stopping>>
      /\ IF p.lease = "dead"
         THEN Change(bound, p) /\ NoPrompt /\ UNCHANGED active
         ELSE /\ Change(bound, Leased(p)) /\ active' = active \cup {bound}
              /\ Prompted(plans', bound)
  BY DEF Go
<1> HIDE DEF p
<1>6. /\ confirmed' \subseteq 0..Len(plans) /\ active \subseteq DOMAIN plans
      /\ session'.bound = bound /\ session'.open
  BY <1>1, <1>5 DEF IInv, TypeOK, bound
<1>7. CASE p.lease = "dead"
  <2>1. bound \notin active
    BY <1>1, <1>2, <1>7 DEF IInv, Leases
  <2>2. Kept' /\ Len(plans') = Len(plans) /\ Heard(plans', injected, messages)
    BY <1>1, <1>2, <1>5, <1>6, <1>7, <2>1, ChangeOk
  <2>3. call' \in {"none", "tool", "propose"} /\ stopping' \in 0..Len(plans')
    BY <1>5, <2>2 DEF IInv, TypeOK
  <2> QED BY <1>5, <1>7, <2>2, <2>3, QuietOk
<1>8. CASE p.lease # "dead"
  <2>1. Kept' /\ Len(plans') = Len(plans) /\ Heard(plans', injected, messages)
    BY <1>1, <1>2, <1>3, <1>4, <1>5, <1>6, <1>8, ChangeOk
  <2>2. call' \in {"none", "tool", "propose"} /\ stopping' \in 0..Len(plans')
    BY <1>5, <2>1 DEF IInv, TypeOK
  <2>3. Prompted(plans', session'.bound)
    BY <1>5, <1>6, <1>8
  <2> QED BY <1>6, <2>1, <2>2, <2>3, PromptedOk, Together
<1> QED BY <1>7, <1>8

\* The runner lets go of the plan and of its lease.
LEMMA HaltOk ==
  ASSUME IInv, session.open, bound # 0, NEW p \in Plan, Halt(p), NoPrompt,
         Later(plans[bound], p), p.lease = plans[bound].lease,
         confirmed' \subseteq confirmed, confirmed \ {bound} \subseteq confirmed',
         p.plan = "executing" => bound \in confirmed',
         UNCHANGED <<session, call>>
  PROVE  IInv'
<1> DEFINE q == IF bound \in active THEN Freed(p) ELSE p
<1>1. bound \in DOMAIN plans /\ plans[bound] \in Plan
  BY BoundPlan
<1>2. /\ q \in Plan /\ Later(p, q) /\ q.plan = p.plan /\ q.status = p.status /\ q.lease # "mine"
  <2>1. bound \in active <=> p.lease = "mine"
    BY <1>1 DEF IInv, Leases
  <2> QED BY <2>1, FreedFacts DEF Later
<1>3. Later(plans[bound], q)
  BY <1>1, <1>2, LaterTrans
<1>4. Change(bound, q) /\ active' = active \ {bound} /\ stopping' \in {0, bound}
  BY DEF Halt
<1> HIDE DEF q
<1>5. confirmed' \subseteq 0..Len(plans) /\ active \subseteq DOMAIN plans
  BY DEF IInv, TypeOK
<1>6. Kept' /\ Len(plans') = Len(plans) /\ Heard(plans', injected, messages)
  BY <1>1, <1>2, <1>3, <1>4, <1>5, ChangeOk
<1>7. call' \in {"none", "tool", "propose"} /\ stopping' \in 0..Len(plans')
  BY <1>1, <1>4, <1>6 DEF IInv, TypeOK
<1> QED BY <1>6, <1>7, QuietOk

LEMMA StopOk == ASSUME IInv, Pause \/ Abandon PROVE IInv'
<1>1. bound \in DOMAIN plans /\ plans[bound] \in Plan
  BY BoundPlan DEF Pause, Abandon
<1>2. CASE Pause
  <2> DEFINE p == Stated(plans[bound], "paused")
  <2>1. /\ p \in Plan /\ Later(plans[bound], p) /\ p.plan = "paused" /\ p.lease = plans[bound].lease
    BY <1>1, StatedFacts DEF StoredPlans
  <2>2. /\ session.open /\ bound # 0 /\ Halt(p) /\ NoPrompt
        /\ confirmed' = confirmed \ {bound} /\ UNCHANGED <<session, call>>
    BY <1>2 DEF Pause, Commands
  <2> HIDE DEF p
  <2> QED BY <2>1, <2>2, HaltOk
<1>3. CASE Abandon
  <2> DEFINE p == Cancelled(plans[bound])
  <2>1. /\ p \in Plan /\ Later(plans[bound], p) /\ p.plan = plans[bound].plan
        /\ p.lease = plans[bound].lease
    BY <1>1, CancelledFacts
  <2>2. /\ session.open /\ bound # 0 /\ Halt(p) /\ NoPrompt
        /\ UNCHANGED <<session, call, confirmed>>
    BY <1>3 DEF Abandon, Commands
  <2>3. p.plan = "executing" => bound \in confirmed
    BY <1>1, <2>1 DEF IInv, Executed
  <2> HIDE DEF p
  <2> QED BY <2>1, <2>2, <2>3, HaltOk
<1> QED BY <1>2, <1>3
\* A plan tool changes the bound plan and never makes it executing: the word of
\* the user is kept only with the state it was given for.
LEMMA ToolOk ==
  ASSUME IInv, NEW p \in Plan, Change(bound, p), PlanTool, Later(plans[bound], p),
         p.lease = plans[bound].lease,
         p.plan = "executing" => plans[bound].plan = "executing"
  PROVE  IInv'
<1>1. bound \in DOMAIN plans /\ plans[bound] \in Plan
  BY BoundPlan DEF PlanTool
<1>2. /\ session.open /\ NoPrompt /\ UNCHANGED <<session, active, call, stopping>>
      /\ confirmed' = {t \in confirmed : plans'[t].plan = "executing"}
  BY DEF PlanTool, Tools, IInv, Attached
<1>3. plans' = [plans EXCEPT ![bound] = p]
  BY DEF Change
<1>4. plans'[bound] = p /\ \A u \in DOMAIN plans \ {bound} : plans'[u] = plans[u]
  BY <1>1, <1>3
<1>5. confirmed \subseteq 0..Len(plans) /\ active \subseteq DOMAIN plans
  BY DEF IInv, TypeOK
<1>6. p.plan = "executing" => bound \in confirmed'
  BY <1>1, <1>2, <1>4 DEF IInv, Executed
<1>7. bound \in active' <=> p.lease = "mine"
  BY <1>1, <1>2 DEF IInv, Leases
<1>8. Kept' /\ Len(plans') = Len(plans) /\ Heard(plans', injected, messages)
  BY <1>1, <1>2, <1>4, <1>5, <1>6, <1>7, ChangeOk
<1>9. call' \in {"none", "tool", "propose"} /\ stopping' \in 0..Len(plans')
  BY <1>2, <1>8 DEF IInv, TypeOK
<1> QED BY <1>2, <1>8, <1>9, QuietOk

LEMMA HandedType ==
  ASSUME IInv, bound # 0, NEW n \in 1..MaxSteps, NEW kept \in 0..MaxSteps,
         kept <= Len(plans[bound].steps)
  PROVE  Handed(n, kept) \in Seq(Step)
<1>1. plans[bound].steps \in Seq(Step) /\ n \in Nat /\ kept \in Nat
  BY BoundPlan, PlanAssumption DEF Plan
<1>2. \A i \in 1..n : i <= kept => plans[bound].steps[i] \in Step
  BY <1>1
<1>3. [st |-> "pending"] \in Step
  BY DEF Step
<1> QED BY <1>1, <1>2, <1>3 DEF Handed

LEMMA HandOverOk ==
  ASSUME IInv, bound # 0, NEW n \in 1..MaxSteps, NEW kept \in 0..MaxSteps,
         kept <= Len(plans[bound].steps), SubmitPlan(n, kept) \/ UpdatePlan(n, kept)
  PROVE  IInv'
<1> DEFINE next == WithSteps(plans[bound], Handed(n, kept))
<1>1. bound \in DOMAIN plans /\ plans[bound] \in Plan /\ PlanTool
  BY BoundPlan DEF SubmitPlan, UpdatePlan
<1>2. /\ next \in Plan /\ Later(plans[bound], next) /\ next.plan = plans[bound].plan
      /\ next.lease = plans[bound].lease
  BY <1>1, HandedType, WithStepsFacts
<1>3. /\ Stated(next, "proposed") \in Plan /\ Later(next, Stated(next, "proposed"))
      /\ Stated(next, "proposed").plan = "proposed"
      /\ Stated(next, "proposed").lease = plans[bound].lease
  BY <1>2, StatedFacts DEF StoredPlans
<1>4. Later(plans[bound], Stated(next, "proposed"))
  BY <1>1, <1>2, <1>3, LaterTrans
<1>5. PICK p \in {next, Stated(next, "proposed")} : Change(bound, p)
  BY DEF SubmitPlan, UpdatePlan
<1> HIDE DEF next
<1> QED BY <1>1, <1>2, <1>3, <1>4, <1>5, ToolOk

\* One step of the list gets another status.
LEMMA SetStepFacts ==
  ASSUME NEW p \in Plan, NEW i \in DOMAIN p.steps, NEW st \in {"pending", "blocked", "completed"}
  PROVE  /\ SetStep(p, i, st) \in Plan /\ Later(p, SetStep(p, i, st))
         /\ SetStep(p, i, st).plan = p.plan /\ SetStep(p, i, st).lease = p.lease
<1>1. p.steps \in Seq(Step)
  BY DEF Plan
<1>2. [p.steps EXCEPT ![i].st = st] \in Seq(Step)
  <2>1. p.steps[i] \in Step
    BY <1>1
  <2>2. [p.steps[i] EXCEPT !.st = st] \in Step
    BY <2>1 DEF Step
  <2> QED BY <1>1, <2>2
<1> QED BY <1>2, WithStepsFacts DEF SetStep

LEMMA StepToolOk ==
  ASSUME IInv, bound # 0, NEW i \in DOMAIN plans[bound].steps, CompleteStep(i) \/ BlockStep(i)
  PROVE  IInv'
<1>1. plans[bound] \in Plan
  BY BoundPlan
<1>2. PICK st \in {"pending", "blocked", "completed"} : Change(bound, SetStep(plans[bound], i, st)) /\ PlanTool
  BY DEF CompleteStep, BlockStep
<1> QED BY <1>1, <1>2, SetStepFacts, ToolOk

\* A tool is asked for, runs or comes back.
LEMMA CallOk ==
  ASSUME IInv, Propose \/ Decline \/ (\E c \in Calls : Use(c)) PROVE IInv'
<1>1. /\ UNCHANGED <<plans, recent, session, active, stopping, shown, confirmed>> /\ NoPrompt
      /\ call' \in {"none", "tool", "propose"}
  BY DEF Propose, Decline, Use, Tools
<1>2. Kept' /\ Heard(plans', injected, messages)
  BY <1>1, KeptSame DEF IInv
<1>3. stopping' \in 0..Len(plans')
  BY <1>1 DEF IInv, TypeOK
<1> QED BY <1>1, <1>2, <1>3, QuietOk
-----------------------------------------------------------------------------
\* Leases come and go, and the list is put in another order: no plan is in
\* another state.
LEMMA LeaseStepOk ==
  ASSUME IInv, plans' \in Seq(Plan), Len(plans') = Len(plans),
         \A t \in DOMAIN plans : /\ plans'[t].status = plans[t].status
                                 /\ plans'[t].plan = plans[t].plan
                                 /\ plans'[t].revision = plans[t].revision,
         Leases', active' \subseteq DOMAIN plans, confirmed' = confirmed,
         recent' \in Seq(DOMAIN plans), Len(recent') = Len(plans),
         \A t \in DOMAIN plans : \E i \in DOMAIN recent' : recent'[i] = t,
         session' \in [open : BOOLEAN, bound : 0..Len(plans)],
         session'.open => session' = session /\ (shown' = shown \/ shown' = View(plans', bound))
  PROVE  Kept' /\ Heard(plans', injected, messages)
<1>1. plans \in Seq(Plan) /\ DOMAIN plans' = DOMAIN plans /\ StoreOK
  BY DEF IInv, TypeOK, StoreOK
<1>2. StoreOK'
  BY <1>1 DEF StoreOK
<1>5. Executed' /\ Listed'
  BY <1>1 DEF IInv, Executed, Listed
<1>6. PanelShowsPlan'
  <2> SUFFICES ASSUME session'.open PROVE shown' = View(plans', bound)
    BY DEF PanelShowsPlan, bound
  <2>1. shown = View(plans, bound) /\ bound \in 0..Len(plans)
    BY DEF IInv, PanelShowsPlan, TypeOK, bound
  <2>2. bound # 0 => bound \in DOMAIN plans
    BY <1>1, <2>1
  <2>3. bound # 0 => /\ PlanStatus(plans'[bound]) = PlanStatus(plans[bound])
                     /\ plans'[bound].revision = plans[bound].revision
    BY <2>2 DEF PlanStatus
  <2>4. View(plans', bound) = View(plans, bound)
    BY <2>3 DEF View
  <2> QED BY <2>1, <2>4
<1>7. Heard(plans', injected, messages)
  <2>1. \A t \in DOMAIN plans : Later(plans[t], plans'[t])
    BY DEF Later
  <2> QED BY <1>1, <2>1, HeardGrows DEF IInv, TypeOK
<1> QED BY <1>2, <1>5, <1>6, <1>7 DEF Kept

\* A run settles: its leases are released and the runner has no plan left.
LEMMA SettleOk == ASSUME IInv, Settle PROVE IInv'
<1>1. /\ plans' = Frees(active) /\ active' = {} /\ recent' \in Touched(active)
      /\ shown' = Published(plans', bound)
      /\ UNCHANGED <<session, injected, messages, confirmed>>
      /\ run' = "idle" /\ call' = "none" /\ stopping' = 0
  BY DEF Settle
<1>2. StoreOK /\ plans \in Seq(Plan) /\ DOMAIN plans = 1..Len(plans) /\ Len(plans) \in Nat
  BY DEF IInv, TypeOK, StoreOK
<1>3. /\ plans' \in Seq(Plan) /\ Len(plans') = Len(plans) /\ DOMAIN plans' = DOMAIN plans
      /\ \A t \in DOMAIN plans : plans'[t] = IF t \in active THEN Freed(plans[t]) ELSE plans[t]
  <2>1. \A t \in DOMAIN plans : plans[t] \in Plan /\ Freed(plans[t]) \in Plan
    BY <1>2, FreedFacts
  <2> QED BY <1>1, <1>2, <2>1 DEF Frees
<1>4. \A t \in DOMAIN plans : /\ plans'[t].status = plans[t].status
                              /\ plans'[t].plan = plans[t].plan
                              /\ plans'[t].revision = plans[t].revision
                              /\ plans'[t].lease # "mine"
  <2> TAKE t \in DOMAIN plans
  <2>1. plans[t] \in Plan /\ (plans[t].lease = "mine" <=> t \in active)
    BY <1>2 DEF IInv, Leases
  <2> QED BY <1>3, <2>1, FreedFacts
<1>5. Leases'
  BY <1>1, <1>3, <1>4 DEF Leases
<1>6. /\ recent' \in Seq(DOMAIN plans) /\ Len(recent') = Len(plans)
      /\ \A t \in DOMAIN plans : \E i \in DOMAIN recent' : recent'[i] = t
  BY <1>1, <1>2, TouchedOk
<1>7. Kept' /\ Heard(plans', injected, messages)
  <2>1. session' \in [open : BOOLEAN, bound : 0..Len(plans)]
    BY <1>1, <1>2 DEF StoreOK
  <2>2. session'.open => session' = session /\ shown' = View(plans', bound)
    BY <1>1 DEF Published
  <2> QED BY <1>1, <1>3, <1>4, <1>5, <1>6, <2>1, <2>2, LeaseStepOk
<1>8. Attached' /\ stopping' \in 0..Len(plans')
  BY <1>1, <1>2, <1>3 DEF Attached
<1> QED BY <1>1, <1>7, <1>8, Together DEF IInv, TypeOK

LEMMA BeatOk == ASSUME IInv, NEW t \in DOMAIN plans, Beat(t) PROVE IInv'
<1>1. /\ recent' \in Touched({t})
      /\ UNCHANGED <<plans, session, active, run, call, stopping, injected, messages, shown, confirmed>>
  BY DEF Beat
<1>2. /\ recent' \in Seq(DOMAIN plans) /\ Len(recent') = Len(plans)
      /\ \A u \in DOMAIN plans : \E i \in DOMAIN recent' : recent'[i] = u
  BY <1>1, TouchedOk DEF IInv, TypeOK, StoreOK
<1>3. Leases'
  BY <1>1 DEF IInv, Leases
<1>4. Kept' /\ Heard(plans', injected, messages)
  <2>1. /\ plans' \in Seq(Plan) /\ session' \in [open : BOOLEAN, bound : 0..Len(plans)]
        /\ active' \subseteq DOMAIN plans
    BY <1>1 DEF IInv, TypeOK
  <2> QED BY <1>1, <1>2, <1>3, <2>1, LeaseStepOk
<1>5. Attached'
  BY <1>1 DEF IInv, Attached
<1> QED BY <1>1, <1>4, <1>5, Together DEF IInv, TypeOK

LEMMA ExpireOk == ASSUME IInv, NEW t \in DOMAIN plans, Expire(t) PROVE IInv'
<1>1. /\ plans[t].lease = "dead" /\ plans' = [plans EXCEPT ![t].lease = "none"]
      /\ UNCHANGED <<recent, session, active, run, call, stopping, injected, messages, shown, confirmed>>
  BY DEF Expire
<1>2. plans \in Seq(Plan) /\ plans[t] \in Plan
  BY DEF IInv, TypeOK
<1>3. /\ plans' \in Seq(Plan) /\ Len(plans') = Len(plans) /\ DOMAIN plans' = DOMAIN plans
      /\ plans'[t] = [plans[t] EXCEPT !.lease = "none"]
      /\ \A u \in DOMAIN plans \ {t} : plans'[u] = plans[u]
  <2>1. [plans[t] EXCEPT !.lease = "none"] \in Plan
    BY <1>2, LeaseFacts
  <2> QED BY <1>1, <1>2, <2>1
<1>4. \A u \in DOMAIN plans : /\ plans'[u].status = plans[u].status
                              /\ plans'[u].plan = plans[u].plan
                              /\ plans'[u].revision = plans[u].revision
                              /\ plans'[u].lease = "mine" <=> plans[u].lease = "mine"
  BY <1>1, <1>2, <1>3, LeaseFacts
<1>5. Leases'
  BY <1>1, <1>3, <1>4 DEF IInv, Leases
<1>6. Kept' /\ Heard(plans', injected, messages)
  <2>1. /\ session' \in [open : BOOLEAN, bound : 0..Len(plans)] /\ active' \subseteq DOMAIN plans
        /\ recent' \in Seq(DOMAIN plans) /\ Len(recent') = Len(plans)
        /\ \A u \in DOMAIN plans : \E i \in DOMAIN recent' : recent'[i] = u
    BY <1>1 DEF IInv, TypeOK, Listed
  <2> QED BY <1>1, <1>3, <1>4, <1>5, <2>1, LeaseStepOk
<1>7. Attached' /\ stopping' \in 0..Len(plans')
  BY <1>1, <1>3 DEF IInv, Attached, TypeOK
<1> QED BY <1>1, <1>6, <1>7, Together DEF IInv, TypeOK

\* The process ends: its leases are freed, or left behind as those of the dead.
LEMMA DownOk == ASSUME IInv, NEW g \in BOOLEAN, Down(g) PROVE IInv'
<1>1. /\ session' = [open |-> FALSE, bound |-> 0] /\ plans' = Left(g) /\ active' = {}
      /\ run' = "idle" /\ call' = "none" /\ stopping' = 0
      /\ UNCHANGED <<recent, injected, messages, shown, confirmed>>
  BY DEF Down
<1>2. plans \in Seq(Plan) /\ DOMAIN plans = 1..Len(plans) /\ Len(plans) \in Nat
  BY DEF IInv, TypeOK
<1> DEFINE l(t) == IF plans[t].lease # "mine" THEN plans[t].lease ELSE IF g THEN "none" ELSE "dead"
<1>3. \A t \in DOMAIN plans :
          l(t) \in {"none", "dead"} /\ [plans[t] EXCEPT !.lease = l(t)] \in Plan
  <2> TAKE t \in DOMAIN plans
  <2>1. plans[t] \in Plan
    BY <1>2
  <2>2. l(t) \in {"none", "dead"}
    BY <2>1 DEF Plan
  <2> HIDE DEF l
  <2> QED BY <2>1, <2>2, LeaseFacts
<1>4. plans' = [t \in DOMAIN plans |-> [plans[t] EXCEPT !.lease = l(t)]]
  BY <1>1 DEF Left
<1> HIDE DEF l
<1>5. /\ plans' \in Seq(Plan) /\ Len(plans') = Len(plans) /\ DOMAIN plans' = DOMAIN plans
      /\ \A t \in DOMAIN plans : plans'[t] = [plans[t] EXCEPT !.lease = l(t)]
  <2> DEFINE e(t) == [plans[t] EXCEPT !.lease = l(t)]
  <2>1. plans' = [t \in 1..Len(plans) |-> e(t)] /\ \A t \in 1..Len(plans) : e(t) \in Plan
    BY <1>2, <1>3, <1>4
  <2>2. \A t \in DOMAIN plans : plans'[t] = e(t)
    BY <1>2, <2>1
  <2> HIDE DEF e
  <2>3. plans' \in Seq(Plan) /\ Len(plans') = Len(plans) /\ DOMAIN plans' = DOMAIN plans
    BY <1>2, <2>1
  <2> QED BY <2>2, <2>3 DEF e
<1>6. \A t \in DOMAIN plans : /\ plans'[t].status = plans[t].status
                              /\ plans'[t].plan = plans[t].plan
                              /\ plans'[t].revision = plans[t].revision
                              /\ plans'[t].lease # "mine"
  <2> TAKE t \in DOMAIN plans
  <2>1. plans[t] \in Plan /\ l(t) \in {"none", "dead"} /\ plans'[t] = [plans[t] EXCEPT !.lease = l(t)]
    BY <1>2, <1>3, <1>5
  <2> QED BY <2>1, LeaseFacts
<1>7. Leases'
  BY <1>1, <1>5, <1>6 DEF Leases
<1>8. Kept' /\ Heard(plans', injected, messages)
  <2>1. /\ session' \in [open : BOOLEAN, bound : 0..Len(plans)] /\ ~session'.open
        /\ recent' \in Seq(DOMAIN plans) /\ Len(recent') = Len(plans)
        /\ \A u \in DOMAIN plans : \E i \in DOMAIN recent' : recent'[i] = u
    BY <1>1, <1>2 DEF IInv, TypeOK, Listed
  <2> QED BY <1>1, <1>5, <1>6, <1>7, <2>1, LeaseStepOk
<1>9. Attached' /\ stopping' \in 0..Len(plans')
  BY <1>1, <1>2, <1>5 DEF Attached
<1> QED BY <1>1, <1>8, <1>9, Together DEF IInv, TypeOK
\* The runner takes up an unfinished plan, which then is the bound one.
LEMMA RecoverOk ==
  ASSUME IInv, NEW t \in DOMAIN plans, NEW mode \in {"continue", "replan"}, RecoverPlan(t, mode)
  PROVE  IInv'
<1> DEFINE q == IF mode = "replan" THEN Stated(plans[t], "drafting") ELSE plans[t]
           p == Leased(q)
<1>1. plans[t] \in Plan /\ t \in Unfinished
  BY DEF IInv, TypeOK, RecoverPlan
<1>2. /\ q \in Plan /\ Later(plans[t], q) /\ q.status = plans[t].status
      /\ q.plan = IF mode = "replan" THEN "drafting" ELSE plans[t].plan
  BY <1>1, StatedFacts DEF StoredPlans, Later
<1> HIDE DEF q
<1>3. p \in Plan /\ Later(q, p) /\ p.plan = q.plan /\ p.status = q.status /\ p.lease = "mine"
  BY <1>2, LeasedFacts
<1>4. Later(plans[t], p)
  BY <1>1, <1>2, <1>3, LaterTrans
<1> HIDE DEF p
<1>5. /\ Change(t, p) /\ active' = active \cup {t} /\ session.open
      /\ confirmed' = (IF mode = "replan" THEN confirmed \ {t} ELSE confirmed)
      /\ Prompted(plans', bound) /\ UNCHANGED <<session, stopping, call>>
  BY DEF RecoverPlan, Commands, p, q
<1>6. confirmed \subseteq 0..Len(plans) /\ active \subseteq DOMAIN plans
  BY DEF IInv, TypeOK
<1>7. p.plan = "executing" => t \in confirmed'
  BY <1>2, <1>3, <1>5 DEF IInv, Executed
<1>8. Kept' /\ Len(plans') = Len(plans) /\ Heard(plans', injected, messages)
  BY <1>1, <1>3, <1>4, <1>5, <1>6, <1>7, ChangeOk
<1>9. call' \in {"none", "tool", "propose"} /\ stopping' \in 0..Len(plans')
  BY <1>5, <1>8 DEF IInv, TypeOK
<1>10. session'.open /\ Prompted(plans', session'.bound)
  BY <1>5 DEF bound
<1> QED BY <1>8, <1>9, <1>10, PromptedOk, Together

\* A compaction takes the oldest contexts: what stood behind another still does.
LEMMA CompactOk == ASSUME IInv, NEW n \in 1..Len(messages), Compact(n) PROVE IInv'
<1>1. /\ messages' = SubSeq(messages, n + 1, Len(messages))
      /\ UNCHANGED <<plans, recent, session, active, run, call, stopping, injected, shown, confirmed>>
  BY DEF Compact
<1>2. messages \in Seq(Contexts) /\ Len(messages) \in Nat /\ n \in Nat /\ n <= Len(messages)
  BY DEF IInv, TypeOK
<1> DEFINE m == Len(messages) - n
<1>3. /\ messages' \in Seq(Contexts) /\ m \in Nat /\ DOMAIN messages' = 1..m
      /\ \A i \in 1..m : i + n \in DOMAIN messages /\ messages'[i] = messages[i + n]
      /\ DOMAIN messages = 1..Len(messages)
  BY <1>1, <1>2
<1>4. Kept'
  BY <1>1, KeptSame
<1>5. Newest(plans, injected, messages')
  <2> SUFFICES ASSUME NEW t \in DOMAIN plans,
                      injected[TypeOf(PlanStatus(plans[t]))] = Context(plans, t),
                      NEW i \in DOMAIN messages', messages'[i].plan = t,
                      messages'[i] # Context(plans, t)
               PROVE  \E j \in DOMAIN messages' : i < j /\ messages'[j] = Context(plans, t)
    BY DEF Newest
  <2> DEFINE k == i + n
  <2>1. k \in DOMAIN messages /\ messages[k] = messages'[i]
    BY <1>3
  <2>2. PICK l \in DOMAIN messages : k < l /\ messages[l] = Context(plans, t)
    BY <2>1 DEF IInv, Heard, Newest
  <2>3. l - n \in 1..m /\ i < l - n /\ (l - n) + n = l
    BY <1>2, <1>3, <2>2
  <2> HIDE DEF m
  <2>4. l - n \in DOMAIN messages' /\ messages'[l - n] = messages[l]
    BY <1>3, <2>3
  <2> QED BY <2>2, <2>3, <2>4
<1>6. Heard(plans, injected, messages)'
  BY <1>1, <1>5 DEF IInv, Heard
<1>7. Attached'
  BY <1>1 DEF IInv, Attached
<1> QED BY <1>1, <1>3, <1>4, <1>6, <1>7, Together DEF IInv, TypeOK

\* The task routes change a plan and neither its lease nor what is stored of its state.
LEMMA RouteOk ==
  ASSUME IInv, NEW t \in DOMAIN plans, NEW p \in Plan, Route(t, p), Later(plans[t], p),
         p.plan = plans[t].plan, p.lease = plans[t].lease
  PROVE  IInv'
<1>1. /\ Change(t, p)
      /\ UNCHANGED <<session, active, run, call, stopping, injected, messages, confirmed>>
  BY DEF Route
<1>2. confirmed' \subseteq 0..Len(plans) /\ active' \subseteq DOMAIN plans
  BY <1>1 DEF IInv, TypeOK
<1>4. Kept' /\ Len(plans') = Len(plans) /\ Heard(plans', injected, messages)
  <2>1. t \in active' <=> p.lease = "mine"
    BY <1>1 DEF IInv, Leases
  <2>2. p.plan = "executing" => t \in confirmed'
    BY <1>1 DEF IInv, Executed
  <2> QED BY <1>1, <1>2, <2>1, <2>2, ChangeOk
<1>5. NoPrompt /\ call' \in {"none", "tool", "propose"} /\ stopping' \in 0..Len(plans')
  BY <1>1, <1>4 DEF IInv, TypeOK, NoPrompt
<1> QED BY <1>1, <1>4, <1>5, QuietOk

LEMMA RoutesOk ==
  ASSUME IInv, NEW t \in DOMAIN plans, Routes(t)
  PROVE  IInv'
<1>1. plans[t] \in Plan /\ plans[t].steps \in Seq(Step)
  <2>1. plans[t] \in Plan
    BY DEF IInv, TypeOK
  <2> QED BY <2>1 DEF Plan
<1>2. ASSUME NEW i \in DOMAIN plans[t].steps, NEW st \in {"pending", "blocked", "completed"}, PatchStep(t, i, st)
      PROVE  IInv'
  BY <1>1, <1>2, SetStepFacts, RouteOk DEF PatchStep
<1>3. ASSUME NEW i \in DOMAIN plans[t].steps, RemoveStep(t, i) PROVE IInv'
  <2>1. RemoveAt(plans[t].steps, i) \in Seq(Step)
    BY <1>1, RemoveAtFacts
  <2> QED BY <1>1, <1>3, <2>1, WithStepsFacts, RouteOk DEF RemoveStep
<1>4. CASE AddStep(t)
  <2>1. Append(plans[t].steps, [st |-> "pending"]) \in Seq(Step)
    BY <1>1 DEF Step
  <2> QED BY <1>1, <1>4, <2>1, WithStepsFacts, RouteOk DEF AddStep
<1>5. ASSUME NEW st \in {"pending", "blocked", "completed"}, PatchTask(t, st) PROVE IInv'
  <2> DEFINE p == [plans[t] EXCEPT !.status = st]
  <2>1. /\ p \in Plan /\ p.plan = plans[t].plan /\ p.lease = plans[t].lease
        /\ p.revision = plans[t].revision /\ plans[t].revision \in Nat
    BY <1>1 DEF Plan, TaskStatuses
  <2> HIDE DEF p
  <2>2. Route(t, Bump(p))
    BY <1>5 DEF PatchTask, p
  <2>3. Bump(p) \in Plan /\ Later(plans[t], Bump(p)) /\ Bump(p).plan = plans[t].plan
        /\ Bump(p).lease = plans[t].lease
    BY <2>1, BumpFacts DEF Later
  <2> QED BY <2>2, <2>3, RouteOk
<1>6. CASE CancelTask(t)
  BY <1>1, <1>6, CancelledFacts, RouteOk DEF CancelTask
<1> QED BY <1>2, <1>3, <1>4, <1>5, <1>6 DEF Routes

\* The session is bound to an unfinished plan if there is one, else to any.
LEMMA AdoptedFinds ==
  ASSUME IInv
  PROVE  Adopted \in 0..Len(plans) /\ (Unfinished # {} => Adopted \in Unfinished)
<1>1. /\ recent \in Seq(DOMAIN plans) /\ DOMAIN recent = 1..Len(recent) /\ Len(recent) \in Nat
      /\ DOMAIN plans = 1..Len(plans) /\ Len(plans) \in Nat
  BY DEF IInv, TypeOK
<1>2. CASE Unfinished = {}
  <2>1. recent # <<>> => recent[1] \in 1..Len(plans)
    BY <1>1
  <2> QED BY <1>1, <1>2, <2>1 DEF Adopted
<1>3. CASE Unfinished # {}
  <2> DEFINE S == {i \in DOMAIN recent : recent[i] \in Unfinished}
             First(i) == recent[i] \in Unfinished /\ \A j \in 1..i - 1 : recent[j] \notin Unfinished
  <2>1. PICK t \in Unfinished : TRUE
    BY <1>3
  <2>2. PICK i \in DOMAIN recent : recent[i] = t
    BY <2>1 DEF IInv, Listed, Unfinished
  <2>3. S \in SUBSET Nat /\ S # {}
    BY <1>1, <2>1, <2>2
  <2>4. PICK m \in S : \A n \in S : m <= n
    BY <2>3, LeastNat
  <2>5. \A j \in 1..m - 1 : recent[j] \notin Unfinished
    <3> TAKE j \in 1..m - 1
    <3>1. j \in DOMAIN recent /\ ~(m <= j)
      BY <1>1, <2>4
    <3>2. j \notin S
      BY <2>4, <3>1
    <3> QED BY <3>1, <3>2
  <2>6. \E k \in DOMAIN recent : First(k)
    BY <2>4, <2>5
  <2> DEFINE k == CHOOSE k \in DOMAIN recent : First(k)
  <2>7. k \in DOMAIN recent /\ First(k)
    BY <2>6
  <2>8. Adopted = recent[k]
    BY <1>3 DEF Adopted
  <2>9. recent[k] \in Unfinished
    BY <2>7
  <2> HIDE DEF k
  <2> QED BY <1>1, <2>8, <2>9 DEF Unfinished
<1> QED BY <1>2, <1>3

LEMMA AttachOk == ASSUME IInv, Attach PROVE IInv'
<1>1. /\ ~session.open /\ session' = [open |-> TRUE, bound |-> Adopted]
      /\ shown' = View(plans, Adopted)
      /\ UNCHANGED <<plans, recent, active, run, call, stopping, injected, messages, confirmed>>
  BY DEF Attach
<1>2. StoreOK'
  BY <1>1, AdoptedFinds DEF IInv, TypeOK, StoreOK
<1>4. Executed' /\ Leases' /\ Listed'
  BY <1>1 DEF IInv, Executed, Leases, Listed
<1>5. PanelShowsPlan'
  BY <1>1 DEF PanelShowsPlan, bound
<1>6. Heard(plans', injected, messages) /\ NoPrompt /\ Attached'
  BY <1>1 DEF IInv, NoPrompt, Attached
<1>7. Heard(plans, injected, messages)'
  BY <1>1 DEF IInv, Heard, Known, Newest, Context
<1> QED BY <1>1, <1>2, <1>4, <1>5, <1>6, <1>7, Together DEF Kept, IInv, TypeOK
-----------------------------------------------------------------------------
THEOREM Inductive == IInv /\ [Next]_vars => IInv'
<1> SUFFICES ASSUME IInv, [Next]_vars PROVE IInv'
  OBVIOUS
<1>1. CASE User
  <2>1. CASE PlanCommand
    <3>1. CASE Execute \/ Resume
      <4>1. session.open /\ bound # 0 /\ Go /\ call' = call
        BY <3>1 DEF Execute, Resume, Commands
      <4> QED BY <4>1, GoOk
    <3>2. CASE Refine \/ Pause \/ Abandon \/ \E m \in BOOLEAN : Start(m)
      BY <3>2, RefineOk, StopOk, StartOk
    <3> QED BY <2>1, <3>1, <3>2 DEF PlanCommand
  <2> QED BY <1>1, <2>1, PromptOk, RecoverOk, RoutesOk DEF User
<1>2. CASE Model
  BY <1>2, HandOverOk, StepToolOk, CallOk, AgreeOk, SettleOk DEF Model, ProposePlan
<1>3. CASE System
  BY <1>3, BeatOk, ExpireOk, CompactOk, AttachOk, DownOk DEF System
<1>4. CASE UNCHANGED vars
  <2>1. UNCHANGED <<plans, recent, session, active, run, call, stopping, injected, messages, shown, confirmed>>
    BY <1>4 DEF vars
  <2>2. Kept' /\ Heard(plans', injected, messages) /\ NoPrompt
    BY <2>1, KeptSame DEF IInv, NoPrompt
  <2> QED BY <2>1, <2>2, QuietOk DEF IInv, TypeOK
<1> QED BY <1>1, <1>2, <1>3, <1>4 DEF Next

THEOREM InitOk == Init => IInv
<1> SUFFICES ASSUME Init PROVE IInv
  OBVIOUS
<1>1. plans = <<>> /\ Len(plans) = 0 /\ DOMAIN plans = {}
  BY DEF Init
<1>2. NoContext \in Contexts
  BY DEF NoContext, Contexts
<1>3. TypeOK
  BY <1>1, <1>2, PlanAssumption DEF Init, TypeOK
<1>4. Heard(plans, injected, messages)
  BY <1>1 DEF Init, Heard, Known, Newest, NoContext
<1>5. Executed /\ Leases /\ Attached /\ Listed /\ PanelShowsPlan
  BY <1>1 DEF Init, Executed, Leases, Attached, Listed, PanelShowsPlan, View
<1> QED BY <1>3, <1>4, <1>5 DEF IInv

THEOREM Invariant == Spec => []IInv
  BY InitOk, Inductive, PTL DEF Spec

\* This process holds the leases of exactly the plans its runner has, and only a
\* plan the user asked for is stored as executing, over every command, tool, route,
\* recovery, run, proposal answered late, crash and reopening.
THEOREM PlansAgree == Spec => []PlanInv
<1>1. IInv => PlanInv
  BY DEF IInv, PlanInv, Executed, Leases
<1> QED BY <1>1, Invariant, PTL

\* The page was sent the view of the plan the session is bound to.
THEOREM PanelIsRight == Spec => []PanelShowsPlan
<1>1. IInv => PanelShowsPlan
  BY DEF IInv
<1> QED BY <1>1, Invariant, PTL

\* A policy that lets planning do no more than read and verify.
ReadOnlyPolicy == Policy.bash # "all" /\ ~Policy.mcp

\* Under such a policy, the default one among them, a call that changes the
\* workspace passes the gate under an unfinished plan only after the user's word for
\* this plan in this state, while he has paused it, or while it is blocked, which
\* needs no word of his.
THEOREM GateIsAccounted == ReadOnlyPolicy => (Spec => []ChangesAreConfirmed)
<1> SUFFICES ASSUME ReadOnlyPolicy PROVE Spec => []ChangesAreConfirmed
  OBVIOUS
<1>1. IInv => ChangesAreConfirmed
  <2> SUFFICES ASSUME IInv, ~Finished(bound), NEW c \in Calls, GateOpen(c), Changes(c),
                      plans[bound].plan # "paused", plans[bound].status # "blocked"
               PROVE  bound \in confirmed
    BY DEF ChangesAreConfirmed
  <2>1. bound # 0 /\ IsActivePlan(status)
    BY DEF Finished, status
  <2>2. /\ bound \in DOMAIN plans /\ plans[bound] \in Plan /\ status = PlanStatus(plans[bound])
    BY <2>1, BoundPlan
  <2>3. status \notin Planning
    <3> SUFFICES ASSUME status \in Planning PROVE FALSE
      OBVIOUS
    <3>1. PlanningAllows(c)
      BY DEF GateOpen
    <3>2. CASE c.tool = "bash"
      <4>1. EvaluatePlanBash(c.classes) /\ ~(c.classes \subseteq {"read", "verify"})
        BY <3>1, <3>2 DEF PlanningAllows, Changes
      <4> QED BY <4>1 DEF EvaluatePlanBash, ReadOnlyPolicy
    <3>3. CASE c.tool # "bash"
      BY <3>1, <3>3 DEF PlanningAllows, Changes, Calls, ReadOnlyPolicy
    <3> QED BY <3>2, <3>3
  <2>4. PlanStatus(plans[bound]) = "executing"
    BY <2>1, <2>2, <2>3, PlanStatusType DEF IsActivePlan, Planning, StoredPlans, PlanStatus
  <2> QED BY <2>2, <2>4, PlanStatusType DEF IInv, Executed
<1> QED BY <1>1, Invariant, PTL

\* A run that begins under an unfinished plan is told last the state the plan is
\* in, or nothing, all contexts being compacted away, or something of another plan,
\* where the right context was said before: never an earlier state of the plan.
THEOREM NothingStale == Spec => NothingStaleIsLast
<1> DEFINE A == run = "idle" /\ run' = "running" =>
         LET b    == session'.bound
             told == Told(messages', plans', b)
             now  == Context(plans', b) IN
         IsActivePlan(Status(plans', b)) =>
             \A i \in told : (\A j \in told : j <= i) =>
                 \/ messages'[i] = now
                 \/ messages'[i].plan # b /\ injected[now.type] = now
<1>1. ASSUME IInv, IInv', Next, run = "idle", run' = "running", session'.bound # 0
      PROVE  Begin(plans', session'.bound)
  <2>1. CASE User
    BY <1>1, <2>1 DEF User, Prompt, PlanCommand, Refine, Execute, Resume, Go, Pause, Abandon, Start,
                      RecoverPlan, Prompted, NoPrompt, Routes, PatchStep, AddStep, RemoveStep, PatchTask,
                      CancelTask, Route, bound
  <2>2. CASE Model
    BY <1>1, <2>2 DEF Model, SubmitPlan, UpdatePlan, CompleteStep, BlockStep, PlanTool, ProposePlan,
                      Propose, Agree, Decline, Use, Tools, NoPrompt, Settle
  <2>3. CASE System
    BY <1>1, <2>3 DEF System, Beat, Expire, Compact, Attach, Down
  <2> QED BY <1>1, <2>1, <2>2, <2>3 DEF Next
<1>2. ASSUME IInv, IInv', [Next]_vars PROVE A
  <2> SUFFICES ASSUME run = "idle", run' = "running",
                      IsActivePlan(Status(plans', session'.bound)),
                      NEW i \in Told(messages', plans', session'.bound),
                      \A j \in Told(messages', plans', session'.bound) : j <= i
               PROVE  LET now == Context(plans', session'.bound) IN
                      \/ messages'[i] = now
                      \/ messages'[i].plan # session'.bound /\ injected[now.type] = now
    OBVIOUS
  <2> DEFINE b == session'.bound
             c == Context(plans', b)
  <2>1. Next /\ b # 0
    BY <1>2 DEF vars, Status, IsActivePlan
  <2>2. messages' \in Seq(Contexts) /\ i \in DOMAIN messages'
    BY <1>2 DEF IInv, TypeOK, Told
  <2>3. plans' \in Seq(Plan) /\ b \in DOMAIN plans'
    BY <1>2, <2>1 DEF IInv, TypeOK
  <2>4. /\ c.type = TypeOf(Status(plans', b)) /\ c.type \in KeptTypes(plans', b) /\ c.type \in Types
        /\ Status(plans', b) = PlanStatus(plans'[b]) /\ c \in Contexts /\ c.plan = b
    BY <2>1, <2>3, ContextType, TypeOfType DEF Context, KeptTypes
  <2>5. \A j \in DOMAIN messages' : messages'[j] = c => j <= i
    BY <2>4 DEF Told
  <2>6. Begin(plans', b)
    BY <1>1, <1>2, <2>1
  <2> HIDE DEF c
  <2>7. CASE injected[c.type] = c
    <3>1. injected' = injected
      BY <2>1, <2>4, <2>6, <2>7 DEF Begin, c
    <3>2. messages'[i].plan = b /\ messages'[i] # c =>
             \E j \in DOMAIN messages' : i < j /\ messages'[j] = c
      BY <1>2, <2>2, <2>3, <2>4, <2>7, <3>1 DEF IInv, Heard, Newest, c
    <3> QED BY <2>2, <2>5, <2>7, <3>2 DEF c
  <2>8. CASE injected[c.type] # c
    <3>1. messages' = Append(Without(messages, c.type), c)
      BY <2>1, <2>4, <2>6, <2>8 DEF Begin, c
    <3>2. Without(messages, c.type) \in Seq(Contexts)
      BY <1>2, WithoutFacts DEF IInv, TypeOK
    <3>3. Len(messages') \in DOMAIN messages' /\ messages'[Len(messages')] = c
      BY <2>4, <3>1, <3>2
    <3>4. i = Len(messages')
      BY <2>2, <2>5, <3>3
    <3> QED BY <3>3, <3>4 DEF c
  <2> QED BY <2>7, <2>8
<1>3. IInv /\ IInv' /\ [Next]_vars => [A]_vars
  BY <1>2
<1> QED BY <1>3, Invariant, PTL DEF Spec, NothingStaleIsLast

\* An operation on the bound plan, or one that touches none, leaves no further plan
\* out of reach.
LEMMA BoundKept ==
  ASSUME IInv, session' = session, Len(plans') = Len(plans), plans' \in Seq(Plan),
         \A u \in DOMAIN plans : u # bound => plans'[u].status = plans[u].status
  PROVE  Strays' \subseteq Strays
<1>1. DOMAIN plans' = DOMAIN plans
  BY DEF IInv, TypeOK
<1> QED BY <1>1 DEF Strays, Unfinished, bound

\* An unfinished plan gets out of reach of its session by a route that takes up a
\* finished one, by planning over an executing plan, or by opening the session on
\* another unfinished one.
THEOREM StraysAccounted == Spec => NoPlanStrays
<1> DEFINE Way(t) == \/ t \in DOMAIN plans \ Unfinished /\ Routes(t)
                     \/ t = bound /\ status = "executing" /\ session'.bound \notin DOMAIN plans
                     \/ Attach /\ session'.bound \in Unfinished
           A == \A t \in Strays' \ Strays : Way(t)
<1>1. ASSUME IInv, IInv', [Next]_vars PROVE A
  <2>1. /\ plans \in Seq(Plan) /\ plans' \in Seq(Plan) /\ DOMAIN plans = 1..Len(plans)
        /\ Len(plans) \in Nat /\ \A t \in DOMAIN plans : plans[t] \in Plan
    BY <1>1 DEF IInv, TypeOK
  <2>2. ASSUME session' = session, NEW p, Change(bound, p) PROVE A
    <3>1. plans' = [plans EXCEPT ![bound] = p]
      BY <2>2 DEF Change
    <3>2. Strays' \subseteq Strays
      BY <1>1, <2>1, <2>2, <3>1, BoundKept
    <3> QED BY <3>2
  <2>3. CASE UNCHANGED <<plans, session>>
    <3>1. Strays' \subseteq Strays
      BY <2>3 DEF Strays, Unfinished, bound
    <3> QED BY <3>1
  <2>4. ASSUME session.open, StartPlanning PROVE A
    <3>1. CASE Adopts
      BY <2>2, <2>4, <3>1 DEF StartPlanning
    <3>2. CASE ~Adopts
      <4> SUFFICES ASSUME NEW t \in Strays' \ Strays PROVE Way(t)
        OBVIOUS
      <4>1. PICK p : plans' = Append(plans, p) /\ session'.bound = Len(plans') /\ session'.open = session.open
        BY <1>1, <2>4, <3>2 DEF StartPlanning, CreatePlan, IInv, TypeOK
      <4>2. /\ Len(plans') = Len(plans) + 1 /\ \A u \in DOMAIN plans : plans'[u] = plans[u]
            /\ DOMAIN plans' = 1..Len(plans) + 1
        BY <2>1, <4>1
      <4>3. t \in DOMAIN plans /\ t \in Unfinished
        BY <2>1, <4>1, <4>2 DEF Strays, Unfinished, bound
      <4>4. t = bound
        BY <2>4, <4>3 DEF Strays
      <4>5. status = PlanStatus(plans[bound]) /\ bound # 0 /\ IsActivePlan(status)
        BY <1>1, <2>1, <4>3, <4>4, BoundPlan, PlanStatusType DEF Unfinished
      <4>6. status = "executing"
        BY <2>1, <3>2, <4>3, <4>4, <4>5, PlanStatusType DEF Adopts, IsActivePlan, StoredPlans
      <4>7. session'.bound \notin DOMAIN plans
        BY <2>1, <4>1, <4>2
      <4> QED BY <4>4, <4>6, <4>7
    <3> QED BY <3>1, <3>2
  <2>5. ASSUME session' = session, Len(plans') = Len(plans),
               \A u \in DOMAIN plans : plans'[u].status = plans[u].status
        PROVE  A
    <3>1. Strays' \subseteq Strays
      BY <1>1, <2>1, <2>5, BoundKept
    <3> QED BY <3>1
  <2>6. CASE User
    <3>1. CASE Prompt
      BY <2>3, <3>1 DEF Prompt
    <3>2. CASE PlanCommand
      <4>1. ASSUME NEW m \in BOOLEAN, Start(m) PROVE A
        BY <2>4, <4>1 DEF Start, Commands
      <4>2. CASE Refine \/ Pause \/ Abandon
        BY <2>2, <4>2 DEF Refine, Pause, Abandon, Halt
      <4>3. CASE Execute \/ Resume
        BY <2>2, <4>3 DEF Execute, Resume, Go
      <4> QED BY <3>2, <4>1, <4>2, <4>3 DEF PlanCommand
    <3>3. ASSUME NEW t \in DOMAIN plans, NEW mode \in {"continue", "replan"}, RecoverPlan(t, mode)
          PROVE  A
      <4> DEFINE q == IF mode = "replan" THEN Stated(plans[t], "drafting") ELSE plans[t]
      <4>1. q \in Plan /\ q.status = plans[t].status
        BY <2>1, StatedFacts DEF StoredPlans
      <4>2. Leased(q).status = plans[t].status
        BY <4>1, LeasedFacts
      <4>3. plans' = [plans EXCEPT ![t] = Leased(q)] /\ session' = session
        BY <3>3 DEF RecoverPlan, Change
      <4> HIDE DEF q
      <4>4. Len(plans') = Len(plans) /\ \A u \in DOMAIN plans : plans'[u].status = plans[u].status
        BY <2>1, <4>2, <4>3
      <4> QED BY <2>5, <4>3, <4>4
    <3>4. ASSUME NEW t \in DOMAIN plans, Routes(t) PROVE A
      <4>1. PICK p : Route(t, p)
        BY <3>4 DEF Routes, PatchStep, AddStep, RemoveStep, PatchTask, CancelTask
      <4>2. plans' = [plans EXCEPT ![t] = p] /\ session' = session
        BY <4>1 DEF Route, Change
      <4>3. DOMAIN plans' = DOMAIN plans /\ \A u \in DOMAIN plans : u # t => plans'[u] = plans[u]
        BY <2>1, <4>2
      <4>4. \A u \in Strays' \ Strays : u = t /\ u \notin Unfinished
        BY <4>2, <4>3 DEF Strays, Unfinished, bound
      <4> QED BY <3>4, <4>4
    <3> QED BY <2>6, <3>1, <3>2, <3>3, <3>4 DEF User
  <2>7. CASE Model
    <3>1. ASSUME NEW n \in 1..MaxSteps, NEW kept \in 0..MaxSteps, SubmitPlan(n, kept) \/ UpdatePlan(n, kept)
          PROVE  A
      BY <2>2, <3>1 DEF SubmitPlan, UpdatePlan, PlanTool
    <3>2. ASSUME NEW i \in DOMAIN plans[bound].steps, CompleteStep(i) \/ BlockStep(i) PROVE A
      BY <2>2, <3>2 DEF CompleteStep, BlockStep, PlanTool
    <3>3. CASE ProposePlan
      <4>1. CASE Agree
        BY <1>1, <2>4, <4>1 DEF Agree, IInv, Attached
      <4>2. CASE Propose \/ Decline
        BY <2>3, <4>2 DEF Propose, Decline
      <4> QED BY <3>3, <4>1, <4>2 DEF ProposePlan
    <3>4. CASE \E c \in Calls : Use(c)
      BY <2>3, <3>4 DEF Use
    <3>5. CASE Settle
      <4>1. plans' = Frees(active) /\ session' = session
        BY <3>5 DEF Settle
      <4>2. Len(plans') = Len(plans) /\ \A u \in DOMAIN plans : plans'[u].status = plans[u].status
        BY <2>1, <4>1, FreedFacts DEF Frees
      <4> QED BY <2>5, <4>1, <4>2
    <3> QED BY <2>7, <3>1, <3>2, <3>3, <3>4, <3>5 DEF Model
  <2>8. CASE System
    <3>1. ASSUME NEW t \in DOMAIN plans, Beat(t) PROVE A
      BY <2>3, <3>1 DEF Beat
    <3>2. ASSUME NEW t \in DOMAIN plans, Expire(t) PROVE A
      <4>1. plans' = [plans EXCEPT ![t].lease = "none"] /\ session' = session
        BY <3>2 DEF Expire
      <4>2. Len(plans') = Len(plans) /\ \A u \in DOMAIN plans : plans'[u].status = plans[u].status
        BY <2>1, <4>1 DEF Plan
      <4> QED BY <2>5, <4>1, <4>2
    <3>3. ASSUME NEW n \in 1..Len(messages), Compact(n) PROVE A
      BY <2>3, <3>3 DEF Compact
    <3>4. CASE Attach
      <4>1. session' = [open |-> TRUE, bound |-> Adopted] /\ plans' = plans
        BY <3>4 DEF Attach
      <4>2. Strays' # {} => session'.bound \in Unfinished
        <5>1. Unfinished' = Unfinished
          BY <4>1 DEF Unfinished
        <5> QED BY <1>1, <4>1, <5>1, AdoptedFinds DEF Strays
      <4> QED BY <3>4, <4>2
    <3>5. CASE \E graceful \in BOOLEAN : Down(graceful)
      BY <3>5 DEF Down, Strays
    <3> QED BY <2>8, <3>1, <3>2, <3>3, <3>4, <3>5 DEF System
  <2>9. CASE UNCHANGED vars
    BY <2>3, <2>9 DEF vars
  <2> QED BY <1>1, <2>6, <2>7, <2>8, <2>9 DEF Next
<1>2. IInv /\ IInv' /\ [Next]_vars => [A]_vars
  BY <1>1
<1> QED BY <1>2, Invariant, PTL DEF Spec, NoPlanStrays
=============================================================================
