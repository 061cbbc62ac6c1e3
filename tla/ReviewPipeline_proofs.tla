------------------------- MODULE ReviewPipeline_proofs -------------------------
(***************************************************************************)
(* Theorems about ReviewPipeline, for any tasks, implementers, lanes,      *)
(* budget and number of rounds, whatever reviews say and whichever workers *)
(* go away.                                                                *)
(*                                                                         *)
(* The inductive invariant has two parts.  Every task has one home: a      *)
(* queue, one thread's hands, or its record.  And the home tells how far   *)
(* the task is: as many reviews as rounds before a turn, one round more    *)
(* before a review, and no review beyond the budget.                       *)
(***************************************************************************)
EXTENDS ReviewPipeline, FiniteSetTheorems, TLAPS

Works == [agent : Impls \cup {"none"}, rounds : Nat, reviews : Nat, seen : Nat,
          verdict : Verdicts, infra : 0..MaxReviewInfra]
Hands == [task : Tasks \cup {NoTask}, said : Verdicts,
          step : {"idle", "turn", "review", "verdict", "reread", "judge", "fix", "stopped"}]
ReviewSteps == {"review", "verdict", "reread", "judge"}

\* How far a task is.
Spent(w)    == Budget # 0 /\ w.reviews >= Budget
Turned(w)   == w.rounds = w.reviews /\ w.verdict # "ACCEPT" /\ (Spent(w) \/ w.rounds <= MaxRounds)
ToReview(w) == w.agent \in Impls /\ w.rounds = w.reviews + 1 /\ w.rounds <= MaxRounds + 1 /\ ~Spent(w)
Fixing(w)   == w.rounds = w.reviews /\ w.verdict # "ACCEPT" /\ w.rounds = MaxRounds + 1 /\ ~Spent(w)
Counted(w)  == w.reviews <= w.rounds /\ w.rounds <= w.reviews + 1 /\ (Budget # 0 => w.reviews <= Budget)
Earned(w, outcome) ==
    /\ outcome = "implementer-accepted" => w.verdict = "ACCEPT" /\ w.seen = w.rounds /\ w.reviews = w.rounds
    /\ outcome = "reworked-unreviewed"  => w.verdict # "ACCEPT" /\ w.reviews = Budget /\ w.rounds = Budget + 1
    /\ outcome = "lead-fixed" => w.verdict # "ACCEPT" /\ w.rounds = MaxRounds + 1 /\ w.reviews = w.rounds

\* Where the tasks are.
Pending  == Range(pending)
Waiting  == Range(leadQ)
SentBack == {t \in Tasks : \E a \in Impls : t \in Range(rework[a])}
InHand   == {t \in Tasks : \E x \in Threads : act[x].task = t}
Recorded == {t \in Tasks : records[t] # "none"}

OneHome ==
    /\ Tasks = Pending \cup Waiting \cup SentBack \cup InHand \cup Recorded
    /\ Pending \cap Waiting = {}  /\ Pending \cap SentBack = {} /\ Pending \cap InHand = {}
    /\ Pending \cap Recorded = {} /\ Waiting \cap SentBack = {} /\ Waiting \cap InHand = {}
    /\ Waiting \cap Recorded = {} /\ SentBack \cap InHand = {} /\ SentBack \cap Recorded = {}
    /\ InHand \cap Recorded = {}
QueuedOnce ==
    /\ IsInjective(pending) /\ IsInjective(leadQ)
    /\ \A a \in Impls : IsInjective(rework[a])
HeldOnce == \A x, y \in Threads : act[x].task = act[y].task /\ act[x].task # NoTask => x = y

Phases ==
    /\ \A t \in Pending : Turned(work[t])
    /\ \A a \in Impls : \A t \in Range(rework[a]) : Turned(work[t]) /\ work[t].agent = a
    /\ \A t \in Waiting : ToReview(work[t])
    /\ \A t \in Tasks : Counted(work[t]) /\ Earned(work[t], records[t])
Held(x, h, w) ==
    /\ h.step = "turn" => x \in Impls /\ Turned(w)
    /\ h.step \in ReviewSteps => x \in Readers /\ ToReview(w) /\ (x \in Lanes => w.infra < MaxReviewInfra)
    /\ h.step \in ReviewSteps \ {"review"} => w.seen = w.rounds
    /\ h.step = "fix" => Fixing(w)
HandPhases ==
    \A x \in Threads :
        /\ act[x].step \in {"idle", "stopped"} <=> act[x].task = NoTask
        /\ act[x].task # NoTask => Held(x, act[x], work[act[x].task])

IInv == TypeOK /\ OneHome /\ QueuedOnce /\ HeldOnce /\ Phases /\ HandPhases
-----------------------------------------------------------------------------
(* Queues.                                                                 *)

LEMMA QueueType ==
    ASSUME NEW S, NEW q \in Seq(S)
    PROVE  Len(q) \in Nat /\ DOMAIN q = 1..Len(q) /\ Range(q) \subseteq S /\ \A i \in 1..Len(q) : q[i] \in Range(q)
BY DEF Range

LEMMA PutLast ==
    ASSUME NEW S, NEW q \in Seq(S), NEW x \in S
    PROVE  /\ Append(q, x) \in Seq(S) /\ Range(Append(q, x)) = Range(q) \cup {x}
           /\ IsInjective(q) /\ x \notin Range(q) => IsInjective(Append(q, x))
<1>1. /\ Append(q, x) \in Seq(S) /\ Len(Append(q, x)) = Len(q) + 1
      /\ \A i \in 1..Len(q) : Append(q, x)[i] = q[i]
      /\ Append(q, x)[Len(q) + 1] = x
  OBVIOUS
<1>2. DOMAIN q = 1..Len(q) /\ DOMAIN Append(q, x) = 1..(Len(q) + 1) /\ Len(q) \in Nat
  BY <1>1
<1>3. Range(q) \subseteq Range(Append(q, x)) /\ x \in Range(Append(q, x))
  BY <1>1, <1>2 DEF Range
<1>4. Range(Append(q, x)) \subseteq Range(q) \cup {x}
  BY <1>1, <1>2 DEF Range
<1>5. ASSUME IsInjective(q), x \notin Range(q) PROVE IsInjective(Append(q, x))
  BY <1>1, <1>2, <1>5 DEF Range, IsInjective
<1> QED
  BY <1>1, <1>3, <1>4, <1>5

LEMMA PutFirst ==
    ASSUME NEW S, NEW q \in Seq(S), NEW x \in S
    PROVE  /\ <<x>> \o q \in Seq(S) /\ Range(<<x>> \o q) = Range(q) \cup {x}
           /\ IsInjective(q) /\ x \notin Range(q) => IsInjective(<<x>> \o q)
<1> DEFINE r == <<x>> \o q
<1>1. /\ r \in Seq(S) /\ Len(r) = Len(q) + 1 /\ r[1] = x /\ Len(q) \in Nat
      /\ \A i \in 2..(Len(q) + 1) : r[i] = q[i - 1] /\ i - 1 \in 1..Len(q)
  OBVIOUS
<1>2. DOMAIN q = 1..Len(q) /\ DOMAIN r = 1..(Len(q) + 1)
  BY <1>1
<1>3. \A i \in 1..(Len(q) + 1) : i = 1 \/ i \in 2..(Len(q) + 1)
  BY <1>1
<1> HIDE DEF r
<1>4. Range(r) \subseteq Range(q) \cup {x}
  BY <1>1, <1>2, <1>3 DEF Range
<1>5. Range(q) \cup {x} \subseteq Range(r)
  <2>1. ASSUME NEW i \in 1..Len(q) PROVE q[i] \in Range(r)
    <3>1. i + 1 \in 2..(Len(q) + 1) /\ (i + 1) - 1 = i
      BY <1>1
    <3>2. r[i + 1] = q[i] /\ i + 1 \in DOMAIN r
      BY <1>1, <1>2, <3>1
    <3> QED BY <3>2 DEF Range
  <2>2. x \in Range(r)
    BY <1>1, <1>2 DEF Range
  <2> QED BY <1>2, <2>1, <2>2 DEF Range
<1>6. ASSUME IsInjective(q), x \notin Range(q) PROVE IsInjective(r)
  <2> SUFFICES ASSUME NEW i \in 1..(Len(q) + 1), NEW j \in 1..(Len(q) + 1), r[i] = r[j] PROVE i = j
    BY <1>2 DEF IsInjective
  <2>1. ASSUME NEW k \in 2..(Len(q) + 1) PROVE r[k] # x
    BY <1>1, <1>2, <1>6 DEF Range
  <2>2. CASE i \in 2..(Len(q) + 1) /\ j \in 2..(Len(q) + 1)
    <3>1. q[i - 1] = q[j - 1] /\ i - 1 \in 1..Len(q) /\ j - 1 \in 1..Len(q)
      BY <1>1, <2>2
    <3>2. i - 1 = j - 1
      BY <1>2, <1>6, <3>1 DEF IsInjective
    <3> QED BY <1>1, <3>2
  <2> QED BY <1>1, <1>3, <2>1, <2>2
<1> QED
  BY <1>1, <1>4, <1>5, <1>6 DEF r

LEMMA Joined ==
    ASSUME NEW S, NEW s \in Seq(S), NEW t \in Seq(S), NEW i \in 1..(Len(s) + Len(t)), ~(i <= Len(s))
    PROVE  (s \o t)[i] = t[i - Len(s)]
OBVIOUS

LEMMA TakeAt ==
    ASSUME NEW S, NEW q \in Seq(S), NEW k \in 1..Len(q)
    PROVE  /\ q[k] \in S /\ q[k] \in Range(q) /\ RemoveAt(q, k) \in Seq(S)
           /\ IsInjective(q) => /\ Range(RemoveAt(q, k)) = Range(q) \ {q[k]}
                                /\ IsInjective(RemoveAt(q, k))
<1> DEFINE r == RemoveAt(q, k)
<1>0. Len(q) \in Nat /\ k \in Nat /\ k >= 1 /\ k <= Len(q)
  OBVIOUS
<1>e. DOMAIN q = 1..Len(q)
  OBVIOUS
<1> DEFINE front == SubSeq(q, 1, k - 1)
           back  == SubSeq(q, k + 1, Len(q))
<1>a. /\ front \in Seq(S) /\ Len(front) = k - 1
      /\ \A i \in 1..(k - 1) : front[i] = q[i]
  BY <1>0
<1>b. back \in Seq(S) /\ Len(back) = Len(q) - k
  <2>1. back \in Seq(S)
    <3>1. k + 1 \in Nat /\ \A i \in (k + 1)..Len(q) : q[i] \in S
      BY <1>0
    <3> QED BY <1>0, <3>1
  <2>2. Len(back) = IF k + 1 <= Len(q) THEN Len(q) - (k + 1) + 1 ELSE 0
    BY <1>0
  <2> HIDE DEF back
  <2>3. ASSUME k + 1 <= Len(q) PROVE Len(back) = Len(q) - k
    BY <1>0, <2>2, <2>3
  <2>4. ASSUME ~(k + 1 <= Len(q)) PROVE Len(back) = Len(q) - k
    <3>1. Len(q) - k = 0
      BY <1>0, <2>4
    <3> QED BY <2>2, <2>4, <3>1
  <2>5. Len(back) = Len(q) - k
    BY <2>3, <2>4
  <2> QED BY <2>1, <2>5
<1>c. \A i \in 1..(Len(q) - k) : back[i] = q[k + i]
  BY <1>0
<1>d. r = front \o back
  BY DEF RemoveAt
<1> HIDE DEF front, back, r
<1>2. /\ r \in Seq(S) /\ Len(r) = Len(q) - 1
      /\ \A i \in 1..(Len(q) - 1) : r[i] = IF i < k THEN q[i] ELSE q[i + 1]
  <2>1. r \in Seq(S) /\ Len(r) = Len(q) - 1
    <3>0. front \in Seq(S) /\ back \in Seq(S)
      BY <1>a, <1>b
    <3>1. r \in Seq(S) /\ Len(r) = Len(front) + Len(back)
      BY <1>d, <3>0
    <3>2. Len(front) + Len(back) = Len(q) - 1
      <4>1. Len(front) = k - 1 /\ Len(back) = Len(q) - k
        BY <1>a, <1>b
      <4>2. (k - 1) + (Len(q) - k) = Len(q) - 1
        BY <1>0
      <4> QED BY <4>1, <4>2
    <3> QED BY <3>1, <3>2
  <2>2. ASSUME NEW i \in 1..(Len(q) - 1), i < k PROVE r[i] = q[i]
    <3>1. i \in 1..(k - 1) /\ i \in 1..Len(front)
      BY <1>0, <1>a, <2>2
    <3>2. (front \o back)[i] = front[i]
      BY <1>0, <1>a, <1>b, <3>1
    <3> QED BY <1>a, <1>d, <3>1, <3>2
  <2>3. ASSUME NEW i \in 1..(Len(q) - 1), ~(i < k) PROVE r[i] = q[i + 1]
    <3>1. i - (k - 1) \in 1..(Len(q) - k) /\ k + (i - (k - 1)) = i + 1
      BY <1>0, <2>3
    <3>2. (front \o back)[i] = back[i - (k - 1)]
      <4>1. Len(front) = k - 1 /\ front \in Seq(S) /\ back \in Seq(S)
        BY <1>a, <1>b
      <4>2. i \in 1..(Len(front) + Len(back)) /\ ~(i <= Len(front))
        BY <1>0, <1>b, <2>3, <4>1
      <4>3. (front \o back)[i] = back[i - Len(front)]
        BY <1>a, <1>b, <4>2, Joined
      <4> QED BY <4>1, <4>3
    <3>3. back[i - (k - 1)] = q[k + (i - (k - 1))]
      BY <1>c, <3>1
    <3> QED BY <1>d, <3>1, <3>2, <3>3
  <2> QED BY <2>1, <2>2, <2>3
<1>3. DOMAIN r = 1..(Len(q) - 1)
  BY <1>2
<1>4. q[k] \in S /\ q[k] \in Range(q)
  BY <1>e DEF Range
<1>5. ASSUME IsInjective(q) PROVE Range(r) = Range(q) \ {q[k]} /\ IsInjective(r)
  <2>0. \A i, j \in 1..Len(q) : q[i] = q[j] => i = j
    BY <1>e, <1>5 DEF IsInjective
  <2>e. ASSUME NEW j \in 1..Len(q), j # k PROVE q[j] \in Range(q) \ {q[k]}
    <3>1. q[j] \in Range(q)
      BY <1>e DEF Range
    <3>2. q[j] # q[k]
      BY <2>0, <2>e
    <3> QED BY <3>1, <3>2
  <2>1. ASSUME NEW i \in 1..(Len(q) - 1) PROVE r[i] \in Range(q) \ {q[k]}
    <3>1. CASE i < k
      <4>1. i \in 1..Len(q) /\ i # k
        BY <1>0, <3>1
      <4>2. r[i] = q[i]
        BY <1>2, <3>1
      <4> QED BY <2>e, <4>1, <4>2
    <3>2. CASE ~(i < k)
      <4>1. i + 1 \in 1..Len(q) /\ i + 1 # k
        BY <1>0, <3>2
      <4>2. r[i] = q[i + 1]
        BY <1>2, <3>2
      <4> QED BY <2>e, <4>1, <4>2
    <3> QED BY <3>1, <3>2
  <2>2. ASSUME NEW j \in 1..Len(q), j # k PROVE q[j] \in Range(r)
    <3>1. CASE j < k
      <4>1. j \in 1..(Len(q) - 1) /\ r[j] = q[j]
        BY <1>0, <1>2, <3>1
      <4> QED BY <1>3, <4>1 DEF Range
    <3>2. CASE ~(j < k)
      <4>1. j - 1 \in 1..(Len(q) - 1) /\ ~(j - 1 < k) /\ (j - 1) + 1 = j
        BY <1>0, <2>2, <3>2
      <4>2. r[j - 1] = q[j]
        BY <1>2, <4>1
      <4> QED BY <1>3, <4>1, <4>2 DEF Range
    <3> QED BY <3>1, <3>2
  <2>3. Range(r) = Range(q) \ {q[k]}
    <3>1. Range(r) \subseteq Range(q) \ {q[k]}
      BY <1>3, <2>1 DEF Range
    <3>2. Range(q) \ {q[k]} \subseteq Range(r)
      BY <1>e, <2>2 DEF Range
    <3> QED BY <3>1, <3>2
  <2>4. IsInjective(r)
    <3> SUFFICES ASSUME NEW i \in 1..(Len(q) - 1), NEW j \in 1..(Len(q) - 1), r[i] = r[j] PROVE i = j
      BY <1>3 DEF IsInjective
    <3>1. i \in 1..Len(q) /\ j \in 1..Len(q) /\ i + 1 \in 1..Len(q) /\ j + 1 \in 1..Len(q)
      BY <1>0
    <3>2. r[i] = (IF i < k THEN q[i] ELSE q[i + 1]) /\ r[j] = (IF j < k THEN q[j] ELSE q[j + 1])
      BY <1>2
    <3>3. CASE i < k /\ j < k
      BY <2>0, <3>1, <3>2, <3>3
    <3>4. CASE i < k /\ ~(j < k)
      <4>1. i = j + 1
        BY <2>0, <3>1, <3>2, <3>4
      <4> QED BY <1>0, <3>4, <4>1
    <3>5. CASE ~(i < k) /\ j < k
      <4>1. i + 1 = j
        BY <2>0, <3>1, <3>2, <3>5
      <4> QED BY <1>0, <3>5, <4>1
    <3>6. CASE ~(i < k) /\ ~(j < k)
      <4>1. i + 1 = j + 1
        BY <2>0, <3>1, <3>2, <3>6
      <4> QED BY <1>0, <4>1
    <3> QED BY <3>3, <3>4, <3>5, <3>6
  <2> QED BY <2>3, <2>4
<1> QED
  BY <1>2, <1>4, <1>5 DEF r

LEMMA TakeFirst ==
    ASSUME NEW S, NEW q \in Seq(S), q # <<>>
    PROVE  /\ q[1] \in S /\ q[1] \in Range(q) /\ Tail(q) \in Seq(S)
           /\ IsInjective(q) => /\ Range(Tail(q)) = Range(q) \ {q[1]} /\ IsInjective(Tail(q))
<1>1. Len(q) \in Nat /\ Len(q) # 0 /\ 1 \in 1..Len(q)
  OBVIOUS
<1>2. q = <<q[1]>> \o Tail(q) /\ Tail(q) \in Seq(S)
  BY <1>1
<1>3. /\ Len(Tail(q)) = Len(q) - 1
      /\ \A i \in 1..(Len(q) - 1) : Tail(q)[i] = q[i + 1]
  BY <1>1
<1>4. DOMAIN q = 1..Len(q) /\ DOMAIN Tail(q) = 1..(Len(q) - 1)
  BY <1>1, <1>2, <1>3
<1>5. ASSUME IsInjective(q) PROVE Range(Tail(q)) = Range(q) \ {q[1]} /\ IsInjective(Tail(q))
  <2>0. \A i, j \in 1..Len(q) : q[i] = q[j] => i = j
    BY <1>4, <1>5 DEF IsInjective
  <2>1. \A i \in 1..(Len(q) - 1) : i + 1 \in 1..Len(q) /\ i + 1 # 1
    BY <1>1
  <2>2. Range(Tail(q)) \subseteq Range(q) \ {q[1]}
    BY <1>1, <1>3, <1>4, <2>0, <2>1 DEF Range
  <2>3. ASSUME NEW j \in 1..Len(q), j # 1 PROVE q[j] \in Range(Tail(q))
    <3>1. j - 1 \in 1..(Len(q) - 1) /\ (j - 1) + 1 = j
      BY <1>1, <2>3
    <3>2. Tail(q)[j - 1] = q[j]
      BY <1>3, <3>1
    <3> QED BY <1>4, <3>1, <3>2 DEF Range
  <2>4. Range(q) \ {q[1]} \subseteq Range(Tail(q))
    BY <1>4, <2>3 DEF Range
  <2>5. IsInjective(Tail(q))
    <3> SUFFICES ASSUME NEW i \in 1..(Len(q) - 1), NEW j \in 1..(Len(q) - 1), Tail(q)[i] = Tail(q)[j]
                 PROVE  i = j
      BY <1>4 DEF IsInjective
    <3>1. q[i + 1] = q[j + 1]
      BY <1>3
    <3>2. i + 1 = j + 1
      BY <2>0, <2>1, <3>1
    <3> QED BY <1>1, <3>2
  <2> QED BY <2>2, <2>4, <2>5
<1> QED
  BY <1>1, <1>2, <1>4, <1>5, QueueType

-----------------------------------------------------------------------------
(* How a turn, a review and a failed review move a task on.                *)

AfterTurnOf(w, a) == [w EXCEPT !.agent = a, !.rounds = @ + 1]

LEMMA AfterTurn ==
    ASSUME NEW a \in Impls, NEW w \in Works, Turned(w), Counted(w)
    PROVE  LET w2 == AfterTurnOf(w, a) IN
           /\ w2 \in Works /\ Counted(w2) /\ w2.agent = a
           /\ ~Spent(w2) => ToReview(w2)
           /\ Spent(w2) => Earned(w2, "reworked-unreviewed")
<1> DEFINE w2 == AfterTurnOf(w, a)
<1>0. w2 = [w EXCEPT !.agent = a, !.rounds = @ + 1]
  BY DEF AfterTurnOf
<1> HIDE DEF w2
<1>1. w.rounds \in Nat /\ w.reviews \in Nat /\ w.rounds = w.reviews /\ Budget \in Nat /\ MaxRounds \in Nat
  BY PipelineAssumption DEF Works, Turned
<1>2. /\ w2 \in Works /\ w2.agent = a /\ w2.rounds = w.rounds + 1 /\ w2.reviews = w.reviews
      /\ w2.verdict = w.verdict
  <2>1. w.rounds + 1 \in Nat /\ a \in Impls \cup {"none"}
    BY <1>1
  <2>2. w2 = [agent |-> a, rounds |-> w.rounds + 1, reviews |-> w.reviews, seen |-> w.seen,
              verdict |-> w.verdict, infra |-> w.infra]
    BY <1>0 DEF Works
  <2> QED BY <2>1, <2>2 DEF Works
<1>3. Spent(w2) <=> Spent(w)
  BY <1>2 DEF Spent
<1>4. Counted(w2)
  BY <1>1, <1>2 DEF Counted
<1>5. ~Spent(w2) => ToReview(w2)
  BY <1>1, <1>2, <1>3 DEF Turned, ToReview
<1>6. ASSUME Spent(w2) PROVE Earned(w2, "reworked-unreviewed")
  <2>1. w.reviews = Budget
    BY <1>1, <1>3, <1>6 DEF Spent, Counted
  <2> QED BY <1>1, <1>2, <2>1 DEF Earned, Turned
<1> QED
  BY <1>2, <1>4, <1>5, <1>6 DEF w2

LEMMA AfterJudge ==
    ASSUME NEW w \in Works, ToReview(w), Counted(w), NEW v \in Verdicts,
           NEW w2, w2 = [w EXCEPT !.reviews = @ + 1, !.verdict = v]
    PROVE  /\ w2 \in Works /\ Counted(w2) /\ w2.agent = w.agent /\ w2.agent \in Impls
           /\ v = "ACCEPT" /\ w.seen = w.rounds => Earned(w2, "implementer-accepted")
           /\ v # "ACCEPT" /\ (Spent(w2) \/ w2.rounds <= MaxRounds) => Turned(w2)
           /\ v # "ACCEPT" /\ ~(Spent(w2) \/ w2.rounds <= MaxRounds) => Fixing(w2)
<1>1. /\ w.rounds \in Nat /\ w.reviews \in Nat /\ w.rounds = w.reviews + 1 /\ Budget \in Nat /\ MaxRounds \in Nat
      /\ w.rounds <= MaxRounds + 1 /\ w.agent \in Impls
  BY PipelineAssumption DEF Works, ToReview
<1>2. /\ w2 \in Works /\ w2.agent = w.agent /\ w2.rounds = w.rounds /\ w2.reviews = w.reviews + 1
      /\ w2.verdict = v /\ w2.seen = w.seen
  BY <1>1 DEF Works
<1>3. Counted(w2)
  BY <1>1, <1>2 DEF Counted, ToReview, Spent
<1> QED
  BY <1>1, <1>2, <1>3 DEF Earned, Turned, Fixing

LEMMA AfterFailure ==
    ASSUME NEW w \in Works, ToReview(w), Counted(w), w.infra < MaxReviewInfra,
           NEW w2, w2 = [w EXCEPT !.infra = @ + 1]
    PROVE  w2 \in Works /\ Counted(w2) /\ ToReview(w2)
<1>1. w.infra \in 0..MaxReviewInfra /\ MaxReviewInfra \in Nat
  BY PipelineAssumption DEF Works
<1>2. w.infra + 1 \in 0..MaxReviewInfra
  BY <1>1
<1>3. /\ w2 \in Works /\ w2.rounds = w.rounds /\ w2.reviews = w.reviews /\ w2.agent = w.agent
  BY <1>2 DEF Works
<1> QED
  BY <1>3 DEF Counted, ToReview, Spent

LEMMA AfterReading ==
    ASSUME NEW w \in Works, ToReview(w), Counted(w), NEW w2, w2 = [w EXCEPT !.seen = w.rounds]
    PROVE  /\ w2 \in Works /\ Counted(w2) /\ ToReview(w2) /\ w2.seen = w2.rounds /\ w2.infra = w.infra
<1>1. /\ w2 \in Works /\ w2.rounds = w.rounds /\ w2.reviews = w.reviews /\ w2.agent = w.agent
      /\ w2.seen = w.rounds /\ w2.infra = w.infra
  BY DEF Works
<1> QED
  BY <1>1 DEF Counted, ToReview, Spent-----------------------------------------------------------------------------
(* Threads and what they hold.                                             *)

\* A thread goes on with the task it holds, in another step.
LEMMA HandSame ==
    ASSUME TypeOK, HeldOnce, NEW x \in Threads, NEW h \in Hands, h.task = act[x].task,
           act' = [act EXCEPT ![x] = h]
    PROVE  act' \in [Threads -> Hands] /\ InHand' = InHand /\ HeldOnce'
<1>1. act \in [Threads -> Hands]
  BY DEF TypeOK, Hands
<1>2. act' \in [Threads -> Hands] /\ \A y \in Threads : act'[y].task = act[y].task
  BY <1>1
<1>3. InHand' = InHand
  BY <1>2 DEF InHand
<1>4. HeldOnce'
  BY <1>2 DEF HeldOnce
<1> QED
  BY <1>2, <1>3, <1>4

\* A thread with nothing takes a task nobody holds.
LEMMA HandTakes ==
    ASSUME TypeOK, HeldOnce, NEW x \in Threads, act[x].task = NoTask, NEW t \in Tasks, t \notin InHand,
           NEW h \in Hands, h.task = t, act' = [act EXCEPT ![x] = h]
    PROVE  act' \in [Threads -> Hands] /\ InHand' = InHand \cup {t} /\ HeldOnce'
<1>1. act \in [Threads -> Hands] /\ NoTask \notin Tasks
  BY PipelineAssumption DEF TypeOK, Hands
<1>2. act' \in [Threads -> Hands] /\ act'[x].task = t /\ \A y \in Threads \ {x} : act'[y] = act[y]
  BY <1>1
<1>3. \A y \in Threads : act[y].task # t
  BY DEF InHand
<1>4. InHand' = InHand \cup {t}
  BY <1>1, <1>2 DEF InHand
<1>5. HeldOnce'
  BY <1>2, <1>3 DEF HeldOnce
<1> QED
  BY <1>2, <1>4, <1>5

\* A thread lets go of what it holds, if anything.
LEMMA HandLets ==
    ASSUME TypeOK, HeldOnce, NEW x \in Threads, NEW h \in Hands, h.task = NoTask,
           act' = [act EXCEPT ![x] = h]
    PROVE  act' \in [Threads -> Hands] /\ InHand' = InHand \ {act[x].task} /\ HeldOnce'
<1>1. act \in [Threads -> Hands] /\ NoTask \notin Tasks
  BY PipelineAssumption DEF TypeOK, Hands
<1>2. act' \in [Threads -> Hands] /\ act'[x].task = NoTask /\ \A y \in Threads \ {x} : act'[y] = act[y]
  BY <1>1
<1>3. InHand' = InHand \ {act[x].task}
  <2>1. ASSUME NEW t \in Tasks, t # act[x].task PROVE t \in InHand' <=> t \in InHand
    BY <1>1, <1>2, <2>1 DEF InHand
  <2>2. act[x].task \notin InHand'
    BY <1>1, <1>2 DEF InHand, HeldOnce
  <2> QED BY <2>1, <2>2 DEF InHand
<1>4. HeldOnce'
  BY <1>2 DEF HeldOnce
<1> QED
  BY <1>2, <1>3, <1>4

\* What the step of one thread leaves of the others' hands.
LEMMA OtherHands ==
    ASSUME TypeOK, HandPhases, NEW x \in Threads, NEW h \in Hands, act' = [act EXCEPT ![x] = h],
           h.step \in {"idle", "stopped"} <=> h.task = NoTask,
           h.task # NoTask => Held(x, h, work'[h.task]),
           \A y \in Threads \ {x} : act[y].task # NoTask => work'[act[y].task] = work[act[y].task]
    PROVE  HandPhases'
<1>1. act \in [Threads -> Hands]
  BY DEF TypeOK, Hands
<1>2. act'[x] = h /\ \A y \in Threads \ {x} : act'[y] = act[y]
  BY <1>1
<1> SUFFICES ASSUME NEW y \in Threads
             PROVE  /\ act'[y].step \in {"idle", "stopped"} <=> act'[y].task = NoTask
                    /\ act'[y].task # NoTask => Held(y, act'[y], work'[act'[y].task])
  BY DEF HandPhases, Held, Turned, ToReview, Fixing, Spent
<1>3. CASE y = x
  BY <1>2, <1>3
<1>4. CASE y # x
  <2>1. act'[y] = act[y] /\ (act[y].task # NoTask => work'[act[y].task] = work[act[y].task])
    BY <1>2, <1>4
  <2> QED BY <2>1 DEF HandPhases
<1> QED
  BY <1>3, <1>4

\* A task one thread holds is nowhere else.
LEMMA Alone ==
    ASSUME TypeOK, OneHome, HeldOnce, NEW x \in Threads, NEW t, t = act[x].task, t # NoTask
    PROVE  /\ t \in Tasks /\ t \in InHand /\ t \notin Pending /\ t \notin Waiting /\ t \notin SentBack
           /\ t \notin Recorded /\ records[t] = "none"
           /\ \A a \in Impls : t \notin Range(rework[a])
           /\ \A y \in Threads \ {x} : act[y].task # t
<1>1. t \in Tasks /\ act \in [Threads -> Hands]
  BY DEF TypeOK, Hands
<1>2. t \in InHand
  BY <1>1 DEF InHand
<1>3. t \notin Pending /\ t \notin Waiting /\ t \notin SentBack /\ t \notin Recorded
  BY <1>2 DEF OneHome
<1>4. records[t] = "none"
  BY <1>1, <1>3 DEF Recorded
<1>5. \A a \in Impls : t \notin Range(rework[a])
  BY <1>1, <1>3 DEF SentBack
<1>6. \A y \in Threads \ {x} : act[y].task # t
  BY DEF HeldOnce
<1> QED
  BY <1>1, <1>2, <1>3, <1>4, <1>5, <1>6-----------------------------------------------------------------------------
(* What happens to a task in a thread's hands.                             *)

WorkersKnown == up \in [Lanes -> BOOLEAN] /\ believed \in [Lanes -> BOOLEAN] /\ outages \in 0..MaxOutages

Learnt(x, t, w) ==
    /\ work' \in [Tasks -> Works] /\ work'[t] = w
    /\ \A u \in Tasks \ {t} : work'[u] = work[u] /\ Earned(work'[u], records[u])
    /\ \A u \in Tasks : Counted(work'[u])
    /\ \A u \in Pending : Turned(work'[u])
    /\ \A a \in Impls : \A u \in Range(rework[a]) : Turned(work'[u]) /\ work'[u].agent = a
    /\ \A u \in Waiting : ToReview(work'[u])
    /\ \A y \in Threads \ {x} : act[y].task # NoTask => work'[act[y].task] = work[act[y].task]

\* What is learnt about it leaves every other task as it was.
LEMMA OtherTasks ==
    ASSUME TypeOK, OneHome, HeldOnce, Phases, NEW x \in Threads, NEW t, t = act[x].task, t # NoTask,
           NEW w \in Works, Counted(w), work' = [work EXCEPT ![t] = w]
    PROVE  Learnt(x, t, w)
<1>1. t \in Tasks /\ t \notin Pending /\ t \notin Waiting /\ \A y \in Threads \ {x} : act[y].task # t
  BY Alone
<1>2. \A a \in Impls : t \notin Range(rework[a])
  BY Alone
<1>3. work \in [Tasks -> Works] /\ act \in [Threads -> Hands]
  BY DEF TypeOK, Works, Hands
<1>4. work' \in [Tasks -> Works] /\ work'[t] = w /\ \A u \in Tasks \ {t} : work'[u] = work[u]
  BY <1>1, <1>3
<1>5. /\ Pending \subseteq Tasks /\ Waiting \subseteq Tasks
      /\ \A a \in Impls : Range(rework[a]) \subseteq Tasks
  BY QueueType DEF TypeOK, Pending, Waiting
<1>6. \A u \in Tasks \ {t} : Earned(work'[u], records[u])
  BY <1>4 DEF Phases
<1>7. \A u \in Tasks : Counted(work'[u])
  BY <1>4 DEF Phases
<1>8. \A u \in Pending : Turned(work'[u])
  BY <1>1, <1>4, <1>5 DEF Phases
<1>9. \A a \in Impls : \A u \in Range(rework[a]) : Turned(work'[u]) /\ work'[u].agent = a
  BY <1>2, <1>4, <1>5 DEF Phases
<1>10. \A u \in Waiting : ToReview(work'[u])
  BY <1>1, <1>4, <1>5 DEF Phases
<1>11. \A y \in Threads \ {x} : act[y].task # NoTask => work'[act[y].task] = work[act[y].task]
  <2> SUFFICES ASSUME NEW y \in Threads \ {x}, act[y].task # NoTask
               PROVE  work'[act[y].task] = work[act[y].task]
    OBVIOUS
  <2>1. act[y].task \in Tasks \ {t}
    BY <1>1, <1>3 DEF Hands
  <2> QED BY <1>4, <2>1
<1> QED
  BY <1>4, <1>6, <1>7, <1>8, <1>9, <1>10, <1>11 DEF Learnt

\* The thread goes on with it.
LEMMA GoesOn ==
    ASSUME IInv, NEW x \in Threads, NEW t, t = act[x].task, t # NoTask,
           NEW h \in Hands, h.task = t, h.step \notin {"idle", "stopped"}, act' = [act EXCEPT ![x] = h],
           NEW w \in Works, Counted(w), Held(x, h, w), work' = [work EXCEPT ![t] = w],
           UNCHANGED <<Board, records>>, WorkersKnown'
    PROVE  IInv'
<1>a. TypeOK /\ OneHome /\ QueuedOnce /\ HeldOnce /\ Phases /\ HandPhases
  BY DEF IInv
<1>1. act' \in [Threads -> Hands] /\ InHand' = InHand /\ HeldOnce'
  BY <1>a, HandSame
<1>2. pending' = pending /\ leadQ' = leadQ /\ rework' = rework /\ records' = records
  BY DEF Board
<1>b. Learnt(x, t, w)
  BY <1>a, OtherTasks
<1>3. /\ work' \in [Tasks -> Works] /\ work'[t] = w
      /\ \A u \in Tasks \ {t} : work'[u] = work[u] /\ Earned(work'[u], records[u])
      /\ \A u \in Tasks : Counted(work'[u])
      /\ \A u \in Pending : Turned(work'[u])
      /\ \A a \in Impls : \A u \in Range(rework[a]) : Turned(work'[u]) /\ work'[u].agent = a
      /\ \A u \in Waiting : ToReview(work'[u])
      /\ \A y \in Threads \ {x} : act[y].task # NoTask => work'[act[y].task] = work[act[y].task]
  BY <1>b DEF Learnt
<1>4. TypeOK'
  <2>1. /\ pending' \in Seq(Tasks) /\ leadQ' \in Seq(Tasks) /\ rework' \in [Impls -> Seq(Tasks)]
        /\ records' \in [Tasks -> Outcomes]
    BY <1>2, <1>a DEF TypeOK
  <2> QED BY <1>1, <1>3, <2>1 DEF TypeOK, WorkersKnown, Works, Hands
<1>5. Pending' = Pending /\ Waiting' = Waiting /\ SentBack' = SentBack /\ Recorded' = Recorded
  BY <1>2 DEF Pending, Waiting, SentBack, Recorded
<1>6. OneHome'
  BY <1>1, <1>5, <1>a DEF OneHome
<1>7. QueuedOnce'
  BY <1>2, <1>a DEF QueuedOnce
<1>8. Phases'
  <2>1. records[t] = "none"
    BY <1>a, Alone
  <2>2. \A u \in Tasks : Earned(work'[u], records'[u])
    BY <1>2, <1>3, <2>1 DEF Earned
  <2> QED BY <1>2, <1>3, <1>5, <1>a, <2>2 DEF Phases
<1>9. HandPhases'
  <2>1. h.step \in {"idle", "stopped"} <=> h.task = NoTask
    OBVIOUS
  <2>2. Held(x, h, work'[h.task])
    BY <1>3
  <2> QED BY <1>a, <1>3, <2>1, <2>2, OtherHands
<1> QED
  BY <1>1, <1>4, <1>6, <1>7, <1>8, <1>9 DEF IInv

\* Its record is written.
LEMMA IsRecorded ==
    ASSUME IInv, NEW x \in Threads, NEW t, t = act[x].task, t # NoTask,
           NEW outcome \in Outcomes \ {"none"}, Record(x, t, outcome),
           NEW w \in Works, Counted(w), Earned(w, outcome), work' = [work EXCEPT ![t] = w],
           UNCHANGED Board, WorkersKnown'
    PROVE  IInv'
<1>a. TypeOK /\ OneHome /\ QueuedOnce /\ HeldOnce /\ Phases /\ HandPhases
  BY DEF IInv
<1>0. Idle \in Hands /\ Idle.task = NoTask /\ Idle.step = "idle" /\ act' = [act EXCEPT ![x] = Idle]
  BY DEF Idle, Hands, Verdicts, Record, Free
<1>1. act' \in [Threads -> Hands] /\ InHand' = InHand \ {t} /\ HeldOnce'
  BY <1>0, <1>a, HandLets
<1>2. pending' = pending /\ leadQ' = leadQ /\ rework' = rework
  BY DEF Board
<1>b. Learnt(x, t, w)
  BY <1>a, OtherTasks
<1>3. /\ work' \in [Tasks -> Works] /\ work'[t] = w
      /\ \A u \in Tasks \ {t} : work'[u] = work[u] /\ Earned(work'[u], records[u])
      /\ \A u \in Tasks : Counted(work'[u])
      /\ \A u \in Pending : Turned(work'[u])
      /\ \A a \in Impls : \A u \in Range(rework[a]) : Turned(work'[u]) /\ work'[u].agent = a
      /\ \A u \in Waiting : ToReview(work'[u])
      /\ \A y \in Threads \ {x} : act[y].task # NoTask => work'[act[y].task] = work[act[y].task]
  BY <1>b DEF Learnt
<1>4. t \in Tasks /\ t \in InHand
  BY <1>a, Alone
<1>5. /\ records' \in [Tasks -> Outcomes] /\ records'[t] = outcome
      /\ \A u \in Tasks \ {t} : records'[u] = records[u]
  BY <1>4, <1>a DEF Record, TypeOK
<1>6. TypeOK'
  BY <1>1, <1>2, <1>3, <1>5, <1>a DEF TypeOK, WorkersKnown, Works, Hands
<1>7. /\ Pending' = Pending /\ Waiting' = Waiting /\ SentBack' = SentBack
      /\ Recorded' = Recorded \cup {t}
  BY <1>2, <1>4, <1>5 DEF Pending, Waiting, SentBack, Recorded
<1>8. OneHome'
  BY <1>1, <1>4, <1>7, <1>a DEF OneHome
<1>9. QueuedOnce'
  BY <1>2, <1>a DEF QueuedOnce
<1>10. Phases'
  <2>1. \A u \in Tasks : Earned(work'[u], records'[u])
    BY <1>3, <1>5
  <2> QED BY <1>2, <1>3, <1>7, <1>a, <2>1 DEF Phases
<1>11. HandPhases'
  BY <1>0, <1>3, <1>a, OtherHands
<1> QED
  BY <1>1, <1>6, <1>8, <1>9, <1>10, <1>11 DEF IInv

\* It waits for a review.
LEMMA GoesToReview ==
    ASSUME IInv, NEW x \in Threads, NEW t, t = act[x].task, t # NoTask, Free(x),
           leadQ' = Append(leadQ, t) \/ leadQ' = <<t>> \o leadQ,
           NEW w \in Works, Counted(w), ToReview(w), work' = [work EXCEPT ![t] = w],
           UNCHANGED <<pending, rework, records>>, WorkersKnown'
    PROVE  IInv'
<1>a. TypeOK /\ OneHome /\ QueuedOnce /\ HeldOnce /\ Phases /\ HandPhases
  BY DEF IInv
<1>0. Idle \in Hands /\ Idle.task = NoTask /\ Idle.step = "idle" /\ act' = [act EXCEPT ![x] = Idle]
  BY DEF Idle, Hands, Verdicts, Free
<1>1. act' \in [Threads -> Hands] /\ InHand' = InHand \ {t} /\ HeldOnce'
  BY <1>0, <1>a, HandLets
<1>2. pending' = pending /\ rework' = rework /\ records' = records
  OBVIOUS
<1>b. Learnt(x, t, w)
  BY <1>a, OtherTasks
<1>3. /\ work' \in [Tasks -> Works] /\ work'[t] = w
      /\ \A u \in Tasks \ {t} : work'[u] = work[u] /\ Earned(work'[u], records[u])
      /\ \A u \in Tasks : Counted(work'[u])
      /\ \A u \in Pending : Turned(work'[u])
      /\ \A a \in Impls : \A u \in Range(rework[a]) : Turned(work'[u]) /\ work'[u].agent = a
      /\ \A u \in Waiting : ToReview(work'[u])
      /\ \A y \in Threads \ {x} : act[y].task # NoTask => work'[act[y].task] = work[act[y].task]
  BY <1>b DEF Learnt
<1>4. t \in Tasks /\ t \in InHand /\ t \notin Waiting /\ records[t] = "none"
  BY <1>a, Alone
<1>5. leadQ' \in Seq(Tasks) /\ Waiting' = Waiting \cup {t} /\ IsInjective(leadQ')
  <2>1. leadQ \in Seq(Tasks) /\ IsInjective(leadQ) /\ t \notin Range(leadQ)
    BY <1>4, <1>a DEF TypeOK, QueuedOnce, Waiting
  <2>2. CASE leadQ' = Append(leadQ, t)
    BY <1>4, <2>1, <2>2, PutLast DEF Waiting
  <2>3. CASE leadQ' = <<t>> \o leadQ
    BY <1>4, <2>1, <2>3, PutFirst DEF Waiting
  <2> QED BY <2>2, <2>3
<1>6. TypeOK'
  BY <1>1, <1>2, <1>3, <1>5, <1>a DEF TypeOK, WorkersKnown, Works, Hands
<1>7. Pending' = Pending /\ SentBack' = SentBack /\ Recorded' = Recorded
  BY <1>2 DEF Pending, SentBack, Recorded
<1>8. OneHome'
  BY <1>1, <1>4, <1>5, <1>7, <1>a DEF OneHome
<1>9. QueuedOnce'
  BY <1>2, <1>5, <1>a DEF QueuedOnce
<1>10. Phases'
  <2>1. \A u \in Tasks : Earned(work'[u], records'[u])
    BY <1>2, <1>3, <1>4 DEF Earned
  <2> QED BY <1>2, <1>3, <1>5, <1>7, <1>a, <2>1 DEF Phases
<1>11. HandPhases'
  BY <1>0, <1>3, <1>a, OtherHands
<1> QED
  BY <1>1, <1>6, <1>8, <1>9, <1>10, <1>11 DEF IInv

\* It goes back to the implementer whose work it is.
LEMMA GoesBack ==
    ASSUME IInv, NEW x \in Threads, NEW t, t = act[x].task, t # NoTask, Free(x),
           NEW b \in Impls, rework' = [rework EXCEPT ![b] = Append(@, t)],
           NEW w \in Works, Counted(w), Turned(w), w.agent = b, work' = [work EXCEPT ![t] = w],
           UNCHANGED <<pending, leadQ, records>>, WorkersKnown'
    PROVE  IInv'
<1>a. TypeOK /\ OneHome /\ QueuedOnce /\ HeldOnce /\ Phases /\ HandPhases
  BY DEF IInv
<1>0. Idle \in Hands /\ Idle.task = NoTask /\ Idle.step = "idle" /\ act' = [act EXCEPT ![x] = Idle]
  BY DEF Idle, Hands, Verdicts, Free
<1>1. act' \in [Threads -> Hands] /\ InHand' = InHand \ {t} /\ HeldOnce'
  BY <1>0, <1>a, HandLets
<1>2. pending' = pending /\ leadQ' = leadQ /\ records' = records
  OBVIOUS
<1>b. Learnt(x, t, w)
  BY <1>a, OtherTasks
<1>3. /\ work' \in [Tasks -> Works] /\ work'[t] = w
      /\ \A u \in Tasks \ {t} : work'[u] = work[u] /\ Earned(work'[u], records[u])
      /\ \A u \in Tasks : Counted(work'[u])
      /\ \A u \in Pending : Turned(work'[u])
      /\ \A a \in Impls : \A u \in Range(rework[a]) : Turned(work'[u]) /\ work'[u].agent = a
      /\ \A u \in Waiting : ToReview(work'[u])
      /\ \A y \in Threads \ {x} : act[y].task # NoTask => work'[act[y].task] = work[act[y].task]
  BY <1>b DEF Learnt
<1>4. t \in Tasks /\ t \in InHand /\ t \notin Range(rework[b]) /\ records[t] = "none"
  BY <1>a, Alone
<1>5. /\ Append(rework[b], t) \in Seq(Tasks) /\ Range(Append(rework[b], t)) = Range(rework[b]) \cup {t}
      /\ IsInjective(Append(rework[b], t))
  BY <1>4, <1>a, PutLast DEF TypeOK, QueuedOnce
<1>6. /\ rework' \in [Impls -> Seq(Tasks)] /\ rework'[b] = Append(rework[b], t)
      /\ \A a \in Impls \ {b} : rework'[a] = rework[a]
  BY <1>5, <1>a DEF TypeOK
<1>7. TypeOK'
  BY <1>1, <1>2, <1>3, <1>6, <1>a DEF TypeOK, WorkersKnown, Works, Hands
<1>8. Pending' = Pending /\ Waiting' = Waiting /\ Recorded' = Recorded
  BY <1>2 DEF Pending, Waiting, Recorded
<1>9. SentBack' = SentBack \cup {t}
  BY <1>4, <1>5, <1>6 DEF SentBack
<1>10. OneHome'
  BY <1>1, <1>4, <1>8, <1>9, <1>a DEF OneHome
<1>11. QueuedOnce'
  BY <1>2, <1>5, <1>6, <1>a DEF QueuedOnce
<1>12. Phases'
  <2>1. \A u \in Tasks : Earned(work'[u], records'[u])
    BY <1>2, <1>3, <1>4 DEF Earned
  <2>2. \A a \in Impls : \A u \in Range(rework'[a]) : Turned(work'[u]) /\ work'[u].agent = a
    BY <1>3, <1>5, <1>6
  <2> QED BY <1>3, <1>8, <2>1, <1>a, <2>2 DEF Phases
<1>13. HandPhases'
  BY <1>0, <1>3, <1>a, OtherHands
<1> QED
  BY <1>1, <1>7, <1>10, <1>11, <1>12, <1>13 DEF IInv
\* A thread with nothing takes it from a queue.
LEMMA TakesUp ==
    ASSUME IInv, NEW x \in Threads, act[x].task = NoTask, NEW t \in Tasks,
           NEW h \in Hands, h.task = t, h.step \notin {"idle", "stopped"}, act' = [act EXCEPT ![x] = h],
           Held(x, h, work[t]), UNCHANGED <<work, records, Workers>>,
           pending' \in Seq(Tasks), leadQ' \in Seq(Tasks), rework' \in [Impls -> Seq(Tasks)], QueuedOnce',
           t \in Pending \cup Waiting \cup SentBack,
           Pending' = Pending \ {t}, Waiting' = Waiting \ {t}, SentBack' = SentBack \ {t},
           \A a \in Impls : Range(rework'[a]) \subseteq Range(rework[a])
    PROVE  IInv'
<1>a. TypeOK /\ OneHome /\ QueuedOnce /\ HeldOnce /\ Phases /\ HandPhases
  BY DEF IInv
<1>0. work' = work /\ records' = records /\ up' = up /\ believed' = believed /\ outages' = outages
  BY DEF Workers
<1>1. t \notin InHand
  BY <1>a DEF OneHome
<1>2. act' \in [Threads -> Hands] /\ InHand' = InHand \cup {t} /\ HeldOnce'
  BY <1>1, <1>a, HandTakes
<1>3. TypeOK'
  BY <1>0, <1>2, <1>a DEF TypeOK, Hands
<1>4. Recorded' = Recorded
  BY <1>0 DEF Recorded
<1>5. OneHome'
  BY <1>2, <1>4, <1>a DEF OneHome
<1>6. Phases'
  BY <1>0, <1>a DEF Phases
<1>7. HandPhases'
  <2>1. h.step \in {"idle", "stopped"} <=> h.task = NoTask
    BY PipelineAssumption
  <2>2. Held(x, h, work'[h.task])
    BY <1>0
  <2> QED BY <1>0, <1>a, <2>1, <2>2, OtherHands
<1> QED
  BY <1>2, <1>3, <1>5, <1>6, <1>7 DEF IInv

-----------------------------------------------------------------------------
(* The steps of the implementers.                                          *)

LEMMA StepTakeRework == ASSUME IInv, NEW a \in Impls, TakeRework(a) PROVE IInv'
<1>a. TypeOK /\ OneHome /\ QueuedOnce /\ HeldOnce /\ Phases /\ HandPhases
  BY DEF IInv
<1> DEFINE t == rework[a][1]
           h == At(t, "turn", "NONE")
<1>1. a \in Threads /\ act[a].task = NoTask
  BY <1>a DEF TakeRework, HandPhases, Threads
<1>2. /\ t \in Tasks /\ t \in Range(rework[a]) /\ Tail(rework[a]) \in Seq(Tasks)
      /\ Range(Tail(rework[a])) = Range(rework[a]) \ {t} /\ IsInjective(Tail(rework[a]))
  <2>1. rework[a] \in Seq(Tasks) /\ rework[a] # <<>> /\ IsInjective(rework[a])
    BY <1>a DEF TakeRework, TypeOK, QueuedOnce
  <2> QED BY <2>1, TakeFirst
<1>3. h \in Hands /\ h.task = t /\ h.step = "turn"
  BY <1>2 DEF At, Hands, Verdicts
<1> HIDE DEF t
<1>4. /\ act' = [act EXCEPT ![a] = h] /\ rework' = [rework EXCEPT ![a] = Tail(@)]
      /\ pending' = pending /\ leadQ' = leadQ /\ UNCHANGED <<work, records, Workers>>
  BY DEF TakeRework, Now, t
<1> HIDE DEF h
<1>5. /\ rework' \in [Impls -> Seq(Tasks)] /\ rework'[a] = Tail(rework[a])
      /\ \A b \in Impls \ {a} : rework'[b] = rework[b]
  BY <1>2, <1>4, <1>a DEF TypeOK
<1>6. \A b \in Impls \ {a} : t \notin Range(rework[b])
  BY <1>2, <1>a DEF Phases
<1>7. /\ \A b \in Impls : Range(rework'[b]) \subseteq Range(rework[b])
      /\ SentBack' = SentBack \ {t}
  BY <1>2, <1>5, <1>6 DEF SentBack
<1>8. t \in SentBack /\ t \notin Pending /\ t \notin Waiting
  BY <1>2, <1>a DEF SentBack, OneHome
<1>9. Pending' = Pending \ {t} /\ Waiting' = Waiting \ {t}
  BY <1>4, <1>8 DEF Pending, Waiting
<1>10. QueuedOnce'
  BY <1>2, <1>4, <1>5, <1>a DEF QueuedOnce
<1>11. Held(a, h, work[t])
  BY <1>2, <1>3, <1>a DEF Held, Phases, ReviewSteps
<1>12. pending' \in Seq(Tasks) /\ leadQ' \in Seq(Tasks)
  BY <1>4, <1>a DEF TypeOK
<1> QED
  BY <1>1, <1>2, <1>3, <1>4, <1>5, <1>7, <1>8, <1>9, <1>10, <1>11, <1>12, TakesUp

LEMMA StepTakeNew == ASSUME IInv, NEW a \in Impls, TakeNew(a) PROVE IInv'
<1>a. TypeOK /\ OneHome /\ QueuedOnce /\ HeldOnce /\ Phases /\ HandPhases
  BY DEF IInv
<1> DEFINE t == pending[1]
           h == At(t, "turn", "NONE")
<1>1. a \in Threads /\ act[a].task = NoTask
  BY <1>a DEF TakeNew, HandPhases, Threads
<1>2. /\ t \in Tasks /\ t \in Range(pending) /\ Tail(pending) \in Seq(Tasks)
      /\ Range(Tail(pending)) = Range(pending) \ {t} /\ IsInjective(Tail(pending))
  <2>1. pending \in Seq(Tasks) /\ pending # <<>> /\ IsInjective(pending)
    BY <1>a DEF TakeNew, TypeOK, QueuedOnce
  <2> QED BY <2>1, TakeFirst
<1>3. h \in Hands /\ h.task = t /\ h.step = "turn"
  BY <1>2 DEF At, Hands, Verdicts
<1> HIDE DEF t
<1>4. /\ act' = [act EXCEPT ![a] = h] /\ pending' = Tail(pending)
      /\ rework' = rework /\ leadQ' = leadQ /\ UNCHANGED <<work, records, Workers>>
  BY DEF TakeNew, Now, t
<1> HIDE DEF h
<1>5. t \in Pending /\ t \notin SentBack /\ t \notin Waiting
  BY <1>2, <1>a DEF Pending, OneHome
<1>6. Pending' = Pending \ {t} /\ Waiting' = Waiting \ {t} /\ SentBack' = SentBack \ {t}
  BY <1>2, <1>4, <1>5 DEF Pending, Waiting, SentBack
<1>7. QueuedOnce'
  BY <1>2, <1>4, <1>a DEF QueuedOnce
<1>8. Held(a, h, work[t])
  BY <1>3, <1>5, <1>a DEF Held, Phases, ReviewSteps
<1>9. /\ pending' \in Seq(Tasks) /\ leadQ' \in Seq(Tasks) /\ rework' \in [Impls -> Seq(Tasks)]
      /\ \A b \in Impls : Range(rework'[b]) \subseteq Range(rework[b])
  BY <1>2, <1>4, <1>a DEF TypeOK
<1> QED
  BY <1>1, <1>2, <1>3, <1>4, <1>5, <1>6, <1>7, <1>8, <1>9, TakesUp
\* What a thread that holds a task knows of it.
LEMMA Holding ==
    ASSUME IInv, NEW x \in Threads, act[x].step \notin {"idle", "stopped"}
    PROVE  /\ act[x].task # NoTask /\ act[x].task \in Tasks /\ act[x] \in Hands
           /\ work[act[x].task] \in Works /\ Counted(work[act[x].task])
           /\ Held(x, act[x], work[act[x].task])
<1>1. TypeOK /\ Phases /\ HandPhases
  BY DEF IInv
<1>2. act[x] \in Hands /\ work \in [Tasks -> Works]
  BY <1>1 DEF TypeOK, Hands, Works
<1>3. act[x].task # NoTask /\ Held(x, act[x], work[act[x].task])
  BY <1>1 DEF HandPhases
<1>4. act[x].task \in Tasks
  BY <1>2, <1>3 DEF Hands
<1> QED
  BY <1>1, <1>2, <1>3, <1>4 DEF Phases

LEMMA WorkersStay == ASSUME IInv, UNCHANGED Workers PROVE WorkersKnown'
BY DEF IInv, TypeOK, Workers, WorkersKnown

LEMMA StepImplement == ASSUME IInv, NEW a \in Impls, Implement(a) PROVE IInv'
<1> DEFINE t == act[a].task
           w == AfterTurnOf(work[t], a)
<1>1. a \in Threads /\ act[a].step = "turn" /\ WorkersKnown' /\ pending' = pending /\ rework' = rework
  BY WorkersStay DEF Implement, Threads
<1>2. t # NoTask /\ t \in Tasks /\ work[t] \in Works /\ Counted(work[t]) /\ Turned(work[t])
  BY <1>1, Holding DEF Held
<1>3. /\ w \in Works /\ Counted(w) /\ (~Spent(w) => ToReview(w))
      /\ (Spent(w) => Earned(w, "reworked-unreviewed"))
  BY <1>2, AfterTurn
<1>4. work' = [work EXCEPT ![t] = w]
  BY DEF Implement, Revise, AfterTurnOf
<1>5. Spent(w) <=> Final(t)
  BY <1>2 DEF Spent, Final, Works, AfterTurnOf
<1> HIDE DEF w
<1>6. CASE ~Reviewing /\ Record(a, t, "implemented") /\ leadQ' = leadQ
  <2>1. "implemented" \in Outcomes \ {"none"} /\ Earned(w, "implemented") /\ UNCHANGED Board
    BY <1>1, <1>6 DEF Outcomes, Earned, Board
  <2> HIDE DEF t
  <2> QED BY <1>1, <1>2, <1>3, <1>4, <1>6, <2>1, IsRecorded DEF t
<1>7. CASE Final(t) /\ Record(a, t, "reworked-unreviewed") /\ leadQ' = leadQ
  <2>1. "reworked-unreviewed" \in Outcomes \ {"none"} /\ Earned(w, "reworked-unreviewed") /\ UNCHANGED Board
    BY <1>1, <1>3, <1>5, <1>7 DEF Outcomes, Board
  <2> QED BY <1>1, <1>2, <1>3, <1>4, <1>7, <2>1, IsRecorded
<1>8. CASE ~Final(t) /\ leadQ' = Append(leadQ, t) /\ Free(a) /\ records' = records
  BY <1>1, <1>2, <1>3, <1>4, <1>5, <1>8, GoesToReview
<1> QED
  BY <1>6, <1>7, <1>8 DEF Implement

LEMMA StepInfraError == ASSUME IInv, NEW a \in Impls, InfraError(a) PROVE IInv'
<1> DEFINE t == act[a].task
           w == [work[t] EXCEPT !.agent = a]
<1>1. a \in Threads /\ act[a].step = "turn" /\ WorkersKnown' /\ UNCHANGED Board
  BY WorkersStay DEF InfraError, Threads
<1>2. t # NoTask /\ t \in Tasks /\ work[t] \in Works /\ Counted(work[t])
  BY <1>1, Holding
<1>3. w \in Works /\ Counted(w) /\ Earned(w, "infra-error") /\ "infra-error" \in Outcomes \ {"none"}
  BY <1>2 DEF Works, Counted, Earned, Outcomes
<1>4. work' = [work EXCEPT ![t] = w] /\ Record(a, t, "infra-error")
  BY DEF InfraError, Revise
<1> HIDE DEF w
<1> QED
  BY <1>1, <1>2, <1>3, <1>4, IsRecorded

-----------------------------------------------------------------------------
(* The steps of the review lanes.                                          *)

LEMMA StepTake == ASSUME IInv, NEW l \in Readers, Take(l) PROVE IInv'
<1>a. TypeOK /\ OneHome /\ QueuedOnce /\ HeldOnce /\ Phases /\ HandPhases
  BY DEF IInv
<1>1. l \in Threads /\ act[l].task = NoTask
  BY <1>a DEF Take, HandPhases, Threads
<1>2. PICK i \in 1..Len(leadQ) :
          /\ Eligible(leadQ[i], l)
          /\ Now(l, leadQ[i], "review", "NONE") /\ leadQ' = RemoveAt(leadQ, i)
  BY DEF Take
<1> DEFINE t == leadQ[i]
           h == At(t, "review", "NONE")
<1>3. /\ t \in Tasks /\ t \in Range(leadQ) /\ leadQ' \in Seq(Tasks)
      /\ Range(leadQ') = Range(leadQ) \ {t} /\ IsInjective(leadQ')
  <2>1. leadQ \in Seq(Tasks) /\ IsInjective(leadQ)
    BY <1>a DEF TypeOK, QueuedOnce
  <2> QED BY <1>2, <2>1, TakeAt
<1>4. h \in Hands /\ h.task = t /\ h.step = "review"
  BY <1>3 DEF At, Hands, Verdicts
<1>5. Eligible(t, l)
  BY <1>2
<1>6. act' = [act EXCEPT ![l] = h]
  BY <1>2 DEF Now
<1> HIDE DEF t, h
<1>7. pending' = pending /\ rework' = rework /\ UNCHANGED <<work, records, Workers>>
  BY DEF Take
<1>8. t \in Waiting /\ t \notin SentBack /\ t \notin Pending
  BY <1>3, <1>a DEF Waiting, OneHome
<1>9. Pending' = Pending \ {t} /\ Waiting' = Waiting \ {t} /\ SentBack' = SentBack \ {t}
  BY <1>3, <1>7, <1>8 DEF Pending, Waiting, SentBack
<1>10. QueuedOnce'
  BY <1>3, <1>7, <1>a DEF QueuedOnce
<1>11. Held(l, h, work[t])
  <2>1. ToReview(work[t])
    BY <1>8, <1>a DEF Phases
  <2>2. l \in Lanes => work[t].infra < MaxReviewInfra
    <3>1. work[t].infra \in 0..MaxReviewInfra /\ MaxReviewInfra \in Nat /\ Lead \notin Lanes
      BY <1>3, <1>a, PipelineAssumption DEF TypeOK
    <3>2. l \in Lanes => ~Forced(t)
      BY <1>5, <3>1 DEF Eligible
    <3> QED BY <3>1, <3>2 DEF Forced
  <2> QED BY <1>4, <2>1, <2>2 DEF Held, ReviewSteps
<1>12. /\ pending' \in Seq(Tasks) /\ rework' \in [Impls -> Seq(Tasks)]
       /\ \A b \in Impls : Range(rework'[b]) \subseteq Range(rework[b])
  BY <1>7, <1>a DEF TypeOK
<1> QED
  BY <1>1, <1>3, <1>4, <1>6, <1>7, <1>8, <1>9, <1>10, <1>11, <1>12, TakesUp

LEMMA StepReview == ASSUME IInv, NEW l \in Readers, Review(l) PROVE IInv'
<1> DEFINE t == act[l].task
           w == [work[t] EXCEPT !.seen = work[t].rounds]
<1>1. l \in Threads /\ act[l].step = "review" /\ WorkersKnown' /\ UNCHANGED <<Board, records>>
  BY WorkersStay DEF Review, Threads
<1>2. PICK v \in Verdicts, session \in BOOLEAN, inspected \in BOOLEAN :
          work' = [work EXCEPT ![t] = w] /\ Now(l, t, Onwards(v, session, inspected), v)
  BY DEF Review, Revise
<1> DEFINE h == At(t, Onwards(v, session, inspected), v)
<1>3. /\ t # NoTask /\ t \in Tasks /\ work[t] \in Works /\ Counted(work[t]) /\ ToReview(work[t])
      /\ l \in Lanes => work[t].infra < MaxReviewInfra
  BY <1>1, Holding DEF Held, ReviewSteps
<1>4. w \in Works /\ Counted(w) /\ ToReview(w) /\ w.seen = w.rounds /\ w.infra = work[t].infra
  BY <1>3, AfterReading
<1>5. h \in Hands /\ h.task = t /\ h.step \in {"verdict", "reread", "judge"}
  BY <1>3 DEF At, Hands, Onwards
<1>6. act' = [act EXCEPT ![l] = h] /\ work' = [work EXCEPT ![t] = w]
  BY <1>2 DEF Now
<1> HIDE DEF h, w
<1>7. Held(l, h, w)
  BY <1>3, <1>4, <1>5 DEF Held, ReviewSteps
<1>8. h.step \notin {"idle", "stopped"}
  BY <1>5
<1> QED
  BY <1>1, <1>3, <1>4, <1>5, <1>6, <1>7, <1>8, GoesOn

\* An answer that only says where the review goes on.
LEMMA Answered ==
    ASSUME IInv, NEW l \in Readers, act[l].step \in {"verdict", "reread"},
           NEW s \in {"verdict", "reread", "judge"}, NEW v \in Verdicts, Now(l, act[l].task, s, v),
           UNCHANGED <<Board, work, records, Workers>>
    PROVE  IInv'
<1> DEFINE t == act[l].task
           h == At(t, s, v)
<1>1. l \in Threads /\ WorkersKnown' /\ UNCHANGED <<Board, records>>
  BY WorkersStay DEF Threads
<1>2. /\ t # NoTask /\ t \in Tasks /\ work[t] \in Works /\ Counted(work[t])
      /\ Held(l, act[l], work[t])
  BY <1>1, Holding
<1>3. h \in Hands /\ h.task = t /\ h.step = s /\ h.step \notin {"idle", "stopped"}
  BY <1>2 DEF At, Hands
<1>4. act' = [act EXCEPT ![l] = h]
  BY DEF Now
<1>5. work' = [work EXCEPT ![t] = work[t]]
  <2>1. work \in [Tasks -> Works]
    BY DEF IInv, TypeOK, Works
  <2> QED BY <1>2, <2>1
<1> HIDE DEF h
<1>6. Held(l, h, work[t])
  BY <1>2, <1>3 DEF Held, ReviewSteps
<1> QED
  BY <1>1, <1>2, <1>3, <1>4, <1>5, <1>6, GoesOn

LEMMA StepVerdictTurn == ASSUME IInv, NEW l \in Readers, VerdictTurn(l) PROVE IInv'
<1>1. PICK v \in Verdicts, inspected \in BOOLEAN :
          Now(l, act[l].task, IF v = "NONE" THEN "judge" ELSE Onwards(v, TRUE, inspected), v)
  BY DEF VerdictTurn
<1>2. (IF v = "NONE" THEN "judge" ELSE Onwards(v, TRUE, inspected)) \in {"verdict", "reread", "judge"}
  BY DEF Onwards
<1> QED
  BY <1>1, <1>2, Answered DEF VerdictTurn

LEMMA StepReread == ASSUME IInv, NEW l \in Readers, Reread(l) PROVE IInv'
<1>1. PICK v \in Verdicts : Now(l, act[l].task, "judge", IF v = "NONE" THEN act[l].said ELSE v)
  BY DEF Reread
<1>2. (IF v = "NONE" THEN act[l].said ELSE v) \in Verdicts
  BY DEF IInv, TypeOK, Threads
<1> QED
  BY <1>1, <1>2, Answered DEF Reread

LEMMA StepWorkerFailed == ASSUME IInv, NEW l \in Readers, WorkerFailed(l) PROVE IInv'
<1> DEFINE t == act[l].task
           w == [work[t] EXCEPT !.infra = @ + 1]
<1>1. /\ l \in Threads /\ l \in Lanes /\ act[l].step \in {"review", "verdict"}
      /\ UNCHANGED <<pending, rework, records>> /\ Free(l)
  BY DEF WorkerFailed, Threads
<1>2. WorkersKnown'
  <2>1. believed' \in [Lanes -> BOOLEAN] /\ up' = up /\ outages' = outages
    BY DEF WorkerFailed, IInv, TypeOK
  <2> QED BY <2>1 DEF WorkersKnown, IInv, TypeOK
<1>3. /\ t # NoTask /\ t \in Tasks /\ work[t] \in Works /\ Counted(work[t]) /\ ToReview(work[t])
      /\ work[t].infra < MaxReviewInfra
  BY <1>1, Holding DEF Held, ReviewSteps
<1>4. w \in Works /\ Counted(w) /\ ToReview(w)
  BY <1>3, AfterFailure
<1>5. work' = [work EXCEPT ![t] = w] /\ leadQ' = <<t>> \o leadQ
  BY DEF WorkerFailed, Revise
<1> HIDE DEF w
<1> QED
  BY <1>1, <1>2, <1>3, <1>4, <1>5, GoesToReview

LEMMA StepJudge == ASSUME IInv, NEW l \in Readers, Judge(l) PROVE IInv'
<1> DEFINE t == act[l].task
           v == act[l].said
           w == [work[t] EXCEPT !.reviews = @ + 1, !.verdict = v]
           again == (Budget # 0 /\ w.reviews >= Budget) \/ w.rounds <= MaxRounds
<1>1. l \in Threads /\ act[l].step = "judge" /\ WorkersKnown' /\ UNCHANGED <<pending, leadQ>>
  BY WorkersStay DEF Judge, Threads
<1>2. /\ t # NoTask /\ t \in Tasks /\ work[t] \in Works /\ Counted(work[t]) /\ ToReview(work[t])
      /\ work[t].seen = work[t].rounds /\ act[l] \in Hands /\ v \in Verdicts
  BY <1>1, Holding DEF Held, ReviewSteps, Hands
<1>3. /\ w \in Works /\ Counted(w) /\ w.agent \in Impls
      /\ v = "ACCEPT" => Earned(w, "implementer-accepted")
      /\ v # "ACCEPT" /\ (Spent(w) \/ w.rounds <= MaxRounds) => Turned(w)
      /\ v # "ACCEPT" /\ ~(Spent(w) \/ w.rounds <= MaxRounds) => Fixing(w)
  <2>1. w = [work[t] EXCEPT !.reviews = @ + 1, !.verdict = v]
    OBVIOUS
  <2> HIDE DEF w, t, v
  <2> QED BY <1>2, <2>1, AfterJudge, ZenonT(30)
<1>4. work' = [work EXCEPT ![t] = w]
  BY DEF Judge, Revise
<1>5. again <=> Spent(w) \/ w.rounds <= MaxRounds
  BY DEF Spent
<1>6. \/ v = "ACCEPT" /\ Record(l, t, "implementer-accepted") /\ rework' = rework
      \/ /\ v # "ACCEPT" /\ again
         /\ rework' = [rework EXCEPT ![w.agent] = Append(@, t)] /\ Free(l) /\ records' = records
      \/ v # "ACCEPT" /\ ~again /\ Now(l, t, "fix", v) /\ rework' = rework /\ records' = records
  BY Zenon DEF Judge
<1> HIDE DEF w, again
<1>7. CASE v = "ACCEPT" /\ Record(l, t, "implementer-accepted") /\ rework' = rework
  <2>1. "implementer-accepted" \in Outcomes \ {"none"} /\ Earned(w, "implementer-accepted") /\ UNCHANGED Board
    BY <1>1, <1>3, <1>7 DEF Outcomes, Board
  <2> QED BY <1>1, <1>2, <1>3, <1>4, <1>7, <2>1, IsRecorded
<1>8. CASE /\ v # "ACCEPT" /\ again
           /\ rework' = [rework EXCEPT ![w.agent] = Append(@, t)] /\ Free(l) /\ records' = records
  <2>1. Turned(w)
    BY <1>3, <1>5, <1>8
  <2> QED BY <1>1, <1>2, <1>3, <1>4, <1>8, <2>1, GoesBack
<1>9. CASE v # "ACCEPT" /\ ~again /\ Now(l, t, "fix", v) /\ rework' = rework /\ records' = records
  <2> DEFINE h == At(t, "fix", v)
  <2>1. h \in Hands /\ h.task = t /\ h.step = "fix" /\ h.step \notin {"idle", "stopped"}
    BY <1>2 DEF At, Hands
  <2>2. act' = [act EXCEPT ![l] = h] /\ UNCHANGED <<Board, records>>
    BY <1>1, <1>9 DEF Now, Board
  <2> HIDE DEF h
  <2>3. Held(l, h, w)
    BY <1>3, <1>5, <1>9, <2>1 DEF Held, ReviewSteps
  <2> QED BY <1>1, <1>2, <1>3, <1>4, <2>1, <2>2, <2>3, GoesOn
<1> QED
  BY <1>6, <1>7, <1>8, <1>9
\* The record of a task whose work is not touched.
LEMMA RecordedAsIs ==
    ASSUME IInv, NEW x \in Threads, act[x].step \notin {"idle", "stopped"},
           NEW outcome \in Outcomes \ {"none"}, Record(x, act[x].task, outcome),
           Earned(work[act[x].task], outcome), UNCHANGED <<Board, work, Workers>>
    PROVE  IInv'
<1> DEFINE t == act[x].task
<1>1. t # NoTask /\ t \in Tasks /\ work[t] \in Works /\ Counted(work[t])
  BY Holding
<1>2. WorkersKnown' /\ UNCHANGED Board
  BY WorkersStay
<1>3. work' = [work EXCEPT ![t] = work[t]]
  <2>1. work \in [Tasks -> Works]
    BY DEF IInv, TypeOK, Works
  <2> QED BY <1>1, <2>1
<1> QED
  BY <1>1, <1>2, <1>3, IsRecorded

LEMMA StepLeadFix == ASSUME IInv, NEW l \in Readers, LeadFix(l) PROVE IInv'
<1>1. l \in Threads /\ act[l].step = "fix" /\ act[l].step \notin {"idle", "stopped"}
  BY DEF LeadFix, Threads
<1>2. Fixing(work[act[l].task]) /\ work[act[l].task] \in Works
  BY <1>1, Holding DEF Held
<1>3. Earned(work[act[l].task], "lead-fixed") /\ "lead-fixed" \in Outcomes \ {"none"}
  BY <1>2 DEF Fixing, Earned, Outcomes
<1> QED
  BY <1>1, <1>3, RecordedAsIs DEF LeadFix

-----------------------------------------------------------------------------
(* The steps of every thread, and of the workers.                          *)

LEMMA StepHarnessError == ASSUME IInv, NEW x \in Threads, HarnessError(x) PROVE IInv'
<1>1. act[x].step \notin {"idle", "stopped"}
  BY DEF HarnessError, IInv, HandPhases
<1>2. Earned(work[act[x].task], "harness-error") /\ "harness-error" \in Outcomes \ {"none"}
  BY DEF Earned, Outcomes
<1> QED
  BY <1>1, <1>2, RecordedAsIs DEF HarnessError

LEMMA StepLeave == ASSUME IInv, NEW x \in Threads, Leave(x) PROVE IInv'
<1>a. TypeOK /\ OneHome /\ QueuedOnce /\ HeldOnce /\ Phases /\ HandPhases
  BY DEF IInv
<1>1. Stopped \in Hands /\ Stopped.task = NoTask /\ Stopped.step = "stopped"
  BY DEF Stopped, Idle, Hands, Verdicts
<1>2. act' = [act EXCEPT ![x] = Stopped] /\ act[x].task = NoTask
  BY <1>a DEF Leave, HandPhases
<1>3. /\ pending' = pending /\ leadQ' = leadQ /\ rework' = rework /\ records' = records /\ work' = work
      /\ up' = up /\ believed' = believed /\ outages' = outages
  BY DEF Leave, Board, Workers
<1> HIDE DEF Stopped
<1>4. act' \in [Threads -> Hands] /\ InHand' = InHand \ {act[x].task} /\ HeldOnce'
  BY <1>1, <1>2, <1>a, HandLets
<1>5. InHand' = InHand
  BY <1>2, <1>4, PipelineAssumption DEF InHand
<1>6. TypeOK'
  BY <1>3, <1>4, <1>a DEF TypeOK, Hands
<1>7. OneHome' /\ QueuedOnce' /\ Phases'
  <2>1. Pending' = Pending /\ Waiting' = Waiting /\ SentBack' = SentBack /\ Recorded' = Recorded
    BY <1>3 DEF Pending, Waiting, SentBack, Recorded
  <2> QED BY <1>3, <1>5, <1>a, <2>1 DEF OneHome, QueuedOnce, Phases
<1>8. HandPhases'
  BY <1>1, <1>2, <1>3, <1>a, OtherHands
<1> QED
  BY <1>4, <1>6, <1>7, <1>8 DEF IInv

\* Nothing of the invariant but the types speaks of the workers.
LEMMA OnlyWorkers ==
    ASSUME IInv, UNCHANGED <<Board, act, work, records>>, WorkersKnown'
    PROVE  IInv'
<1>1. /\ pending' = pending /\ leadQ' = leadQ /\ rework' = rework /\ records' = records /\ work' = work
      /\ act' = act
  BY DEF Board
<1>2. TypeOK'
  BY <1>1 DEF IInv, TypeOK, WorkersKnown
<1>3. /\ Pending' = Pending /\ Waiting' = Waiting /\ SentBack' = SentBack /\ Recorded' = Recorded
      /\ InHand' = InHand
  BY <1>1 DEF Pending, Waiting, SentBack, Recorded, InHand
<1>4. OneHome' /\ QueuedOnce' /\ HeldOnce' /\ Phases' /\ HandPhases'
  BY <1>1, <1>3 DEF IInv, OneHome, QueuedOnce, HeldOnce, Phases, HandPhases
<1> QED
  BY <1>2, <1>4 DEF IInv

LEMMA StepWorkers == ASSUME IInv, (\E l \in Lanes : Goes(l) \/ Returns(l)) \/ PollOnce PROVE IInv'
<1>1. up \in [Lanes -> BOOLEAN] /\ believed \in [Lanes -> BOOLEAN] /\ outages \in 0..MaxOutages /\ MaxOutages \in Nat
  BY PipelineAssumption DEF IInv, TypeOK
<1>2. ASSUME NEW l \in Lanes, Goes(l) PROVE WorkersKnown' /\ UNCHANGED <<Board, act, work, records>>
  BY <1>1, <1>2 DEF Goes, WorkersKnown
<1>3. ASSUME NEW l \in Lanes, Returns(l) PROVE WorkersKnown' /\ UNCHANGED <<Board, act, work, records>>
  BY <1>1, <1>3 DEF Returns, WorkersKnown
<1>4. ASSUME PollOnce PROVE WorkersKnown' /\ UNCHANGED <<Board, act, work, records>>
  BY <1>1, <1>4 DEF PollOnce, WorkersKnown
<1> QED
  BY <1>2, <1>3, <1>4, OnlyWorkers

-----------------------------------------------------------------------------
(* The invariant.                                                          *)

LEMMA InitIInv == Init => IInv
<1> SUFFICES ASSUME Init PROVE IInv
  OBVIOUS
<1>0. /\ Order \in Seq(Tasks) /\ IsInjective(Order) /\ Range(Order) = Tasks /\ NoTask \notin Tasks
      /\ Lead \notin Impls /\ MaxRounds \in Nat /\ MaxReviewInfra \in Nat /\ MaxOutages \in Nat
      /\ Budget \in Nat
  BY PipelineAssumption
<1> DEFINE fresh == [agent |-> "none", rounds |-> 0, reviews |-> 0, seen |-> 0, verdict |-> "NONE", infra |-> 0]
<1>1. /\ pending = Order /\ leadQ = <<>> /\ rework = [a \in Impls |-> <<>>]
      /\ act = [x \in Threads |-> Idle] /\ records = [t \in Tasks |-> "none"]
      /\ up = [l \in Lanes |-> TRUE] /\ believed = [l \in Lanes |-> TRUE] /\ outages = 0
      /\ work = [t \in Tasks |-> fresh]
  BY DEF Init
<1>2. Idle \in Hands /\ Idle.task = NoTask /\ Idle.step = "idle"
  BY DEF Idle, Hands, Verdicts
<1>3. fresh \in Works /\ Turned(fresh) /\ Counted(fresh) /\ Earned(fresh, "none")
  BY <1>0 DEF Works, Verdicts, Turned, Counted, Earned
<1> HIDE DEF fresh
<1>4. /\ act \in [Threads -> Hands] /\ work \in [Tasks -> Works] /\ \A t \in Tasks : work[t] = fresh
      /\ \A x \in Threads : act[x] = Idle
  BY <1>1, <1>2, <1>3
<1>5. TypeOK
  <2>1. rework \in [Impls -> Seq(Tasks)] /\ records \in [Tasks -> Outcomes]
    BY <1>1 DEF Outcomes
  <2>2. up \in [Lanes -> BOOLEAN] /\ believed \in [Lanes -> BOOLEAN] /\ outages \in 0..MaxOutages
    BY <1>0, <1>1
  <2>3. pending \in Seq(Tasks) /\ leadQ \in Seq(Tasks)
    BY <1>0, <1>1
  <2> QED BY <1>4, <2>1, <2>2, <2>3 DEF TypeOK, Hands, Works
<1>6. Range(<<>>) = {} /\ IsInjective(<<>>)
  BY DEF Range, IsInjective
<1>7. Pending = Tasks /\ Waiting = {} /\ SentBack = {} /\ InHand = {} /\ Recorded = {}
  <2>1. Pending = Tasks /\ Waiting = {}
    BY <1>0, <1>1, <1>6 DEF Pending, Waiting
  <2>2. SentBack = {} /\ Recorded = {}
    BY <1>1, <1>6 DEF SentBack, Recorded
  <2>3. InHand = {}
    BY <1>0, <1>2, <1>4 DEF InHand
  <2> QED BY <2>1, <2>2, <2>3
<1>8. OneHome
  BY <1>7 DEF OneHome
<1>9. QueuedOnce
  BY <1>0, <1>1, <1>6 DEF QueuedOnce
<1>10. HeldOnce
  BY <1>2, <1>4 DEF HeldOnce
<1>11. Phases
  BY <1>1, <1>3, <1>4, <1>6, <1>7 DEF Phases
<1>12. HandPhases
  BY <1>2, <1>4 DEF HandPhases
<1> QED
  BY <1>5, <1>8, <1>9, <1>10, <1>11, <1>12 DEF IInv

LEMMA NextIInv == IInv /\ [Next]_vars => IInv'
<1> SUFFICES ASSUME IInv, [Next]_vars PROVE IInv'
  OBVIOUS
<1>1. CASE UNCHANGED vars
  <2>1. UNCHANGED <<Board, act, work, records>> /\ UNCHANGED Workers
    BY <1>1 DEF vars, Board, Workers
  <2> QED BY <2>1, WorkersStay, OnlyWorkers
<1>2. ASSUME NEW a \in Impls, TakeRework(a) \/ TakeNew(a) \/ Implement(a) \/ InfraError(a) PROVE IInv'
  BY <1>2, StepTakeRework, StepTakeNew, StepImplement, StepInfraError
<1>3. ASSUME NEW l \in Readers,
             Take(l) \/ Review(l) \/ VerdictTurn(l) \/ Reread(l) \/ WorkerFailed(l) \/ Judge(l) \/ LeadFix(l)
      PROVE  IInv'
  BY <1>3, StepTake, StepReview, StepVerdictTurn, StepReread, StepWorkerFailed, StepJudge, StepLeadFix
<1>4. ASSUME NEW x \in Threads, HarnessError(x) \/ Leave(x) PROVE IInv'
  BY <1>4, StepHarnessError, StepLeave
<1>5. CASE \E x \in Threads : Own(x)
  BY <1>2, <1>3, <1>4, <1>5 DEF Own
<1>6. CASE (\E l \in Lanes : Goes(l) \/ Returns(l)) \/ PollOnce
  BY <1>6, StepWorkers
<1> QED
  BY <1>1, <1>5, <1>6 DEF Next
-----------------------------------------------------------------------------
(* What it says in the terms of the runs.                                  *)

\* A queue without repetitions holds a task once or not at all.
LEMMA TimesOnce ==
    ASSUME NEW S, NEW q \in Seq(S), IsInjective(q), NEW t
    PROVE  Times(q, t) = IF t \in Range(q) THEN 1 ELSE 0
<1>1. DOMAIN q = 1..Len(q)
  OBVIOUS
<1>2. CASE t \in Range(q)
  <2>1. PICK i \in 1..Len(q) : q[i] = t
    BY <1>1, <1>2 DEF Range
  <2>2. {j \in 1..Len(q) : q[j] = t} = {i}
    BY <1>1, <2>1 DEF IsInjective
  <2> QED BY <1>2, <2>2, FS_Singleton DEF Times
<1>3. CASE t \notin Range(q)
  <2>1. {j \in 1..Len(q) : q[j] = t} = {}
    BY <1>1, <1>3 DEF Range
  <2> QED BY <1>3, <2>1, FS_EmptySet DEF Times
<1> QED
  BY <1>2, <1>3

LEMMA OnePlace == IInv => OneOwner
<1> SUFFICES ASSUME IInv, NEW t \in Tasks
             PROVE  /\ Times(pending, t) + Times(leadQ, t) + Cardinality(OtherQueues(t)) + Cardinality(Holders(t))
                           + (IF records[t] # "none" THEN 1 ELSE 0) = 1
                    /\ \A a \in OtherQueues(t) : Times(rework[a], t) = 1 /\ a = work[t].agent
  BY DEF OneOwner
<1>a. TypeOK /\ OneHome /\ QueuedOnce /\ HeldOnce /\ Phases
  BY DEF IInv
<1>0. /\ pending \in Seq(Tasks) /\ leadQ \in Seq(Tasks) /\ rework \in [Impls -> Seq(Tasks)]
      /\ IsInjective(pending) /\ IsInjective(leadQ) /\ \A a \in Impls : IsInjective(rework[a])
  BY <1>a DEF TypeOK, QueuedOnce
<1>1. Times(pending, t) = IF t \in Pending THEN 1 ELSE 0
  BY <1>0, TimesOnce DEF Pending
<1>2. Times(leadQ, t) = IF t \in Waiting THEN 1 ELSE 0
  BY <1>0, TimesOnce DEF Waiting
<1>3. \A a \in Impls : Times(rework[a], t) = IF t \in Range(rework[a]) THEN 1 ELSE 0
  BY <1>0, TimesOnce
<1>4. OtherQueues(t) = {a \in Impls : t \in Range(rework[a])}
  BY <1>3 DEF OtherQueues
<1>5. \A a \in OtherQueues(t) : Times(rework[a], t) = 1 /\ a = work[t].agent
  BY <1>3, <1>4, <1>a DEF Phases
<1>6. Cardinality(OtherQueues(t)) = IF t \in SentBack THEN 1 ELSE 0
  <2>1. CASE t \in SentBack
    <3>1. PICK a \in Impls : t \in Range(rework[a])
      BY <2>1 DEF SentBack
    <3>2. OtherQueues(t) = {a}
      BY <1>4, <1>5, <3>1
    <3> QED BY <2>1, <3>2, FS_Singleton
  <2>2. CASE t \notin SentBack
    <3>1. OtherQueues(t) = {}
      BY <1>4, <2>2 DEF SentBack
    <3> QED BY <2>2, <3>1, FS_EmptySet
  <2> QED BY <2>1, <2>2
<1>7. Cardinality(Holders(t)) = IF t \in InHand THEN 1 ELSE 0
  <2>1. CASE t \in InHand
    <3>1. PICK x \in Threads : act[x].task = t
      BY <2>1 DEF InHand
    <3>2. Holders(t) = {x}
      BY <1>a, <3>1, PipelineAssumption DEF Holders, HeldOnce
    <3> QED BY <2>1, <3>2, FS_Singleton
  <2>2. CASE t \notin InHand
    <3>1. Holders(t) = {}
      BY <2>2 DEF Holders, InHand
    <3> QED BY <2>2, <3>1, FS_EmptySet
  <2> QED BY <2>1, <2>2
<1>8. records[t] # "none" <=> t \in Recorded
  BY DEF Recorded
<1>9. t \in Pending \cup Waiting \cup SentBack \cup InHand \cup Recorded
  BY <1>a DEF OneHome
<1>10. /\ t \in Pending => t \notin Waiting /\ t \notin SentBack /\ t \notin InHand /\ t \notin Recorded
       /\ t \in Waiting => t \notin SentBack /\ t \notin InHand /\ t \notin Recorded
       /\ t \in SentBack => t \notin InHand /\ t \notin Recorded
       /\ t \in InHand => t \notin Recorded
  BY <1>a DEF OneHome
<1>11. Times(pending, t) + Times(leadQ, t) + Cardinality(OtherQueues(t)) + Cardinality(Holders(t))
           + (IF records[t] # "none" THEN 1 ELSE 0) = 1
  BY <1>1, <1>2, <1>6, <1>7, <1>8, <1>9, <1>10
<1> QED
  BY <1>5, <1>11

LEMMA EachEarned == IInv => OutcomeIsEarned
BY DEF IInv, Phases, Counted, Earned, OutcomeIsEarned

-----------------------------------------------------------------------------
(* Who takes a slot of the GPU.                                            *)

\* A lane never has a task that was forced to the lead; and with a budget of at
\* most MaxRounds + 1 it never has a fix, for a fix comes after MaxRounds + 1
\* reviews and before the last budgeted one.
LEMMA LanesOnlyReview ==
    IInv /\ Constructed /\ Budget <= MaxRounds + 1 => LanesKeepToReviews
<1> SUFFICES ASSUME IInv, Constructed, Budget <= MaxRounds + 1, NEW l \in Lanes, l \in Readers
             PROVE  (act[l].task # NoTask => ~Forced(act[l].task)) /\ act[l].step # "fix"
  BY DEF LanesKeepToReviews
<1>1. l \in Threads /\ l \notin Impls /\ Budget # 0 /\ Budget \in Nat /\ MaxRounds \in Nat
  BY PipelineAssumption DEF Constructed, Threads
<1>2. act[l].step \in {"idle", "stopped"} <=> act[l].task = NoTask
  BY <1>1 DEF IInv, HandPhases
<1>3. ASSUME act[l].task # NoTask PROVE ~Forced(act[l].task) /\ act[l].step # "fix"
  <2> DEFINE w == work[act[l].task]
  <2>1. act[l] \in Hands /\ w \in Works /\ Held(l, act[l], w) /\ act[l].step \notin {"idle", "stopped"}
    BY <1>1, <1>2, <1>3, Holding
  <2>2. act[l].step # "fix"
    <3>1. SUFFICES ASSUME Fixing(w) PROVE FALSE
      BY <2>1 DEF Held
    <3>2. w.reviews \in Nat /\ w.rounds \in Nat
      BY <2>1 DEF Works
    <3> HIDE DEF w
    <3> QED BY <1>1, <3>1, <3>2 DEF Fixing, Spent
  <2>3. act[l].step \in ReviewSteps
    BY <1>1, <2>1, <2>2 DEF Held, Hands, ReviewSteps
  <2>4. w.infra < MaxReviewInfra /\ w.infra \in Nat /\ MaxReviewInfra \in Nat
    BY <2>1, <2>3, PipelineAssumption DEF Held, Works
  <2> QED BY <2>2, <2>4 DEF Forced
<1> QED
  BY <1>2, <1>3

LEMMA TwoSlotsEnough ==
    LanesKeepToReviews /\ Cardinality(GpuImpls) <= 1 => TwoGpuSlots
<1> SUFFICES ASSUME LanesKeepToReviews, Cardinality(GpuImpls) <= 1 PROVE TwoGpuSlots
  OBVIOUS
<1>1. GpuTurns \subseteq GpuImpls \cup {Lead}
  BY DEF GpuTurns, LanesKeepToReviews, Readers
<1>2. IsFiniteSet(GpuImpls)
  BY PipelineAssumption, FS_Subset
<1>3. IsFiniteSet(GpuImpls \cup {Lead}) /\ Cardinality(GpuImpls \cup {Lead}) = Cardinality(GpuImpls) + 1
  BY <1>2, PipelineAssumption, FS_AddElement
<1>4. IsFiniteSet(GpuTurns) /\ Cardinality(GpuTurns) <= Cardinality(GpuImpls \cup {Lead})
  BY <1>1, <1>3, FS_Subset
<1>5. Cardinality(GpuTurns) \in Nat /\ Cardinality(GpuImpls) \in Nat /\ Cardinality(GpuImpls \cup {Lead}) \in Nat
  BY <1>2, <1>3, <1>4, FS_CardinalityType
<1> QED
  BY <1>3, <1>4, <1>5 DEF TwoGpuSlots

-----------------------------------------------------------------------------
\* A task is at any time in one place, and sent back only to the implementer
\* whose session it resumes; what its record says is what happened to it, and
\* no more reviews are spent on it than the budget has, whatever agents answer,
\* runs fail and workers go away (pipeline.py: the queues, _review,
\* _worker_failed, _finalize).
THEOREM PipelineTrue == Spec => []OutcomesAreTrue
<1>1. Init => IInv
  BY InitIInv
<1>2. IInv /\ [Next]_vars => IInv'
  BY NextIInv
<1>3. IInv => OutcomesAreTrue
  BY OnePlace, EachEarned DEF IInv, OutcomesAreTrue
<1> QED
  BY <1>1, <1>2, <1>3, PTL DEF Spec
===============================================================================
