------------------------- MODULE RecommendationProofs -------------------------
(* Proofs about Calculator and Recommendation, for every load and every    *)
(* expected response time.                                                 *)
EXTENDS Recommendation, FiniteSetTheorems, TLAPS

LEMMA Sizes == DOMAIN cpuRequestMap = {250, 500, 750, 1000, 1250, 1500, 1750, 2000, 2250}
  BY DEF cpuRequestMap

LEMMA Served == \A r \in DOMAIN cpuRequestMap : cpuRequestMap[r] \in Nat \ {0}
  BY DEF cpuRequestMap

LEMMA LargestServes == cpuRequestMap[2250] = 60
  BY DEF cpuRequestMap

LEMMA Costs == \A t \in DOMAIN servicePenaltyCostMap : servicePenaltyCostMap[t] \in Nat
  BY DEF servicePenaltyCostMap

LEMMA CostsUpToTen == \A t \in DOMAIN servicePenaltyCostMap : servicePenaltyCostMap[t] \in 0..10
  BY DEF servicePenaltyCostMap

LEMMA LeastThreshold == 0 \in DOMAIN servicePenaltyCostMap
  BY DEF servicePenaltyCostMap

LEMMA CapacityOfPlan ==
    ASSUME NEW plan \in Plan
    PROVE  Capacity(plan) \in Nat \ {0}
<1>1. plan.num \in Nat \ {0} /\ plan.res \in DOMAIN cpuRequestMap
  BY DEF Plan, podNumMin, podNumMax
<1>2. Reqs(plan) \in Nat \ {0}
  BY <1>1, Served DEF Reqs
<1> QED
  BY <1>1, <1>2 DEF Capacity

LEMMA CapacityOfZeroPlan == Capacity(ZeroPlan) = 0 /\ ZeroPlan \notin Plan /\ NoPlan \notin Plan
<1>1. Reqs(ZeroPlan) = 0
  BY Sizes DEF Reqs, ZeroPlan
<1> QED
  BY <1>1 DEF Capacity, ZeroPlan, NoPlan, Plan, podNumMin, podNumMax

-----------------------------------------------------------------------------
(* The scores.                                                             *)

(* A plan scores above zero only if it serves the load.                    *)
LEMMA ScoreServes ==
    ASSUME NEW plan \in Plan, NEW qps \in Nat, NEW wait \in Int,
           NEW s \in evaluatePolicy(plan, qps, wait), s # 0
    PROVE  Serves(plan, qps)
  BY CapacityOfPlan DEF evaluatePolicy

(* Nor does the zero plan score under load.                                *)
LEMMA ZeroPlanScore ==
    ASSUME NEW qps \in Nat, NEW wait \in Int,
           NEW s \in evaluatePolicy(ZeroPlan, qps, wait), s # 0
    PROVE  qps = 0
  BY CapacityOfZeroPlan DEF evaluatePolicy

LEMMA CostsOfPlan ==
    ASSUME NEW plan, NEW qps, NEW wait,
           NEW c \in PenaltyCosts(plan, qps, wait)
    PROVE  c \in Nat
<1>1. servicePenaltyCostMap[0] \in Nat
  BY Costs, LeastThreshold
<1> QED
  BY <1>1, Costs DEF PenaltyCosts

(* Fifteen pods of the largest size score whatever the load below          *)
(* Overload, at whatever cost: their price leaves something of the score.  *)
LargePlan == [num |-> 15, res |-> 2250]

LEMMA LargePlanScores ==
    ASSUME NEW qps \in Nat, qps < Overload, NEW wait \in Int
    PROVE  LargePlan \in Plan /\ 0 \notin evaluatePolicy(LargePlan, qps, wait)
<1>1. LargePlan \in Plan
  BY Sizes DEF LargePlan, Plan, podNumMin, podNumMax
<1>2. Capacity(LargePlan) = 900
  BY Sizes, LargestServes DEF LargePlan, Capacity, Reqs
<1>3. Serves(LargePlan, qps)
  BY <1>2 DEF Serves, Overload
<1>4. ASSUME NEW c \in PenaltyCosts(LargePlan, qps, wait)
      PROVE  calculatePolicyScore(LargePlan, c) # 0
  <2>1. c \in Nat
    BY CostsOfPlan
  <2> QED
    BY <2>1 DEF calculatePolicyScore, LargePlan
<1> QED
  BY <1>1, <1>2, <1>3, <1>4 DEF evaluatePolicy

-----------------------------------------------------------------------------
(* The search.                                                             *)

(* What wins is a plan that serves the load, with a score above zero, or   *)
(* in overload the zero plan, without any.                                 *)
LEMMA WinnerServes ==
    ASSUME NEW qps \in Nat, NEW wait \in Int, NEW w \in recommendResource(qps, wait)
    PROVE  \/ w.plan \in Plan /\ w.score # 0 /\ Serves(w.plan, qps)
           \/ w.plan = ZeroPlan /\ w.score = 0 /\ qps >= Overload
<1> DEFINE scores  == [p \in Plan |-> evaluatePolicy(p, qps, wait)]
           drawn   == {scores[p] : p \in Plan}
           winning == {s \in UNION drawn : s > 0 /\ \A S \in drawn : \E t \in S : t <= s}
<1>1. \/ \E p \in Plan : w \in {[plan |-> p, score |-> s] : s \in scores[p] \cap winning}
      \/ w = [plan |-> ZeroPlan, score |-> 0] /\ \A S \in drawn : 0 \in S
  BY DEF recommendResource
<1>2. CASE \E p \in Plan : w \in {[plan |-> p, score |-> s] : s \in scores[p] \cap winning}
  <2>1. PICK p \in Plan : \E s \in evaluatePolicy(p, qps, wait) :
                              w = [plan |-> p, score |-> s] /\ s > 0
    BY <1>2
  <2>2. PICK s \in evaluatePolicy(p, qps, wait) :
                w = [plan |-> p, score |-> s] /\ s # 0
    BY <2>1
  <2> QED
    BY <2>2, ScoreServes
<1>3. CASE w = [plan |-> ZeroPlan, score |-> 0] /\ \A S \in drawn : 0 \in S
  <2>1. ASSUME qps < Overload PROVE FALSE
    BY <1>3, <2>1, LargePlanScores
  <2> QED
    BY <1>3, <2>1 DEF Overload
<1> QED
  BY <1>1, <1>2, <1>3

LEMMA Waits == \A t \in Int : WaitOfNew(t) \in Int /\ WaitOfOld(t) \in Int
  BY DEF WaitOfNew, WaitOfOld

(* What is applied is a plan that serves the load or, in overload, the     *)
(* zero plan.                                                              *)
LEMMA AppliedServes ==
    ASSUME NEW old, NEW qps \in Nat, NEW t \in Int, NEW out \in Calculate(old, qps, t),
           out.action = "apply"
    PROVE  \/ out.plan \in Plan /\ Serves(out.plan, qps)
           \/ out.plan = ZeroPlan /\ qps >= Overload
<1>1. PICK w \in recommendResource(qps, WaitOfNew(t)) : out = Apply(w.plan)
  BY DEF Calculate, Skip
<1> QED
  BY <1>1, Waits, WinnerServes DEF Apply

(* What is kept had a score: it serves the load, or is the zero plan and   *)
(* there is no load.                                                       *)
LEMMA KeptServes ==
    ASSUME NEW old \in Plan \cup {ZeroPlan, NoPlan}, NEW qps \in Nat, NEW t \in Int,
           Skip \in Calculate(old, qps, t)
    PROVE  \/ Serves(old, qps)
           \/ old = ZeroPlan /\ qps = 0
<1>1. PICK w \in recommendResource(qps, WaitOfNew(t)) :
              \E o \in oldScores(old, w, qps, t) : MaySkip(w.score, o)
  BY DEF Calculate, Skip, Apply
<1>2. PICK o \in oldScores(old, w, qps, t) : o > 0
  BY <1>1 DEF MaySkip
<1>3. o # 0
  BY <1>2
<1>4. CASE old = w.plan
  <2>1. old # NoPlan
    BY <1>2, <1>3 DEF oldScores
  <2>2. w.score # 0
    BY <1>2, <1>3, <1>4, <2>1 DEF oldScores
  <2> QED
    BY <1>4, <2>2, Waits, WinnerServes
<1>5. CASE old # w.plan
  <2>1. old # NoPlan /\ o \in evaluatePolicy(old, qps, WaitOfOld(t))
    BY <1>2, <1>3, <1>5 DEF oldScores
  <2> QED
    BY <1>3, <2>1, Waits, ScoreServes, ZeroPlanScore
<1> QED
  BY <1>4, <1>5

-----------------------------------------------------------------------------
(* The status holds a plan, the zero plan or nothing yet.                  *)
THEOREM TypeCorrect == Spec => []TypeOK
<1>1. Init => TypeOK
  BY DEF Init, TypeOK
<1>2. TypeOK /\ [Next]_vars => TypeOK'
  <2> SUFFICES ASSUME TypeOK, [Next]_vars PROVE TypeOK'
    OBVIOUS
  <2> USE DEF TypeOK
  <2>1. load \in Nat /\ expRespTime \in Int
    BY LoadsAssumption
  <2>2. CASE LoadMoves
    BY <2>2 DEF LoadMoves
  <2>3. CASE Provide
    BY <2>1, <2>3, AppliedServes DEF Provide
  <2>4. CASE KeepPlan \/ NoMetrics
    BY <2>4 DEF KeepPlan, NoMetrics
  <2>5. CASE UNCHANGED vars
    BY <2>5 DEF vars
  <2> QED
    BY <2>2, <2>3, <2>4, <2>5 DEF Next, Tick
<1> QED
  BY <1>1, <1>2, PTL DEF Spec

(* Whatever the load and however it moves, the plan a tick of the          *)
(* recommender decides for can carry it, unless the load is so high that   *)
(* no plan is sure to score, or the zero plan is kept without load         *)
(* (recommendResource, evaluatePolicy, Calculate).                         *)
THEOREM DecidedServes == Spec => []DecidedPlanServes
<1>1. Init => DecidedPlanServes
  BY DEF Init, DecidedPlanServes
<1>2. TypeOK /\ DecidedPlanServes /\ [Next]_vars => DecidedPlanServes'
  <2> SUFFICES ASSUME TypeOK, DecidedPlanServes, [Next]_vars PROVE DecidedPlanServes'
    OBVIOUS
  <2>1. load \in Nat /\ expRespTime \in Int /\ rec \in Plan \cup {ZeroPlan, NoPlan}
    BY LoadsAssumption DEF TypeOK
  <2>2. CASE LoadMoves \/ NoMetrics
    BY <2>2 DEF LoadMoves, NoMetrics, DecidedPlanServes
  <2>3. CASE Provide
    <3>1. PICK out \in Calculate(rec, load, expRespTime) :
                  out.action = "apply" /\ rec' = out.plan /\ load' = load
      BY <2>3 DEF Provide
    <3> QED
      BY <2>1, <3>1, AppliedServes DEF DecidedPlanServes
  <2>4. CASE KeepPlan
    <3>1. Skip \in Calculate(rec, load, expRespTime) /\ rec' = rec /\ load' = load /\ action' = "skip"
      BY <2>4 DEF KeepPlan
    <3> QED
      BY <2>1, <3>1, KeptServes DEF DecidedPlanServes
  <2>5. CASE UNCHANGED vars
    BY <2>5 DEF vars, DecidedPlanServes
  <2> QED
    BY <2>2, <2>3, <2>4, <2>5 DEF Next, Tick
<1> QED
  BY <1>1, <1>2, TypeCorrect, PTL DEF Spec

-----------------------------------------------------------------------------
(* Why a plan stays while the load does.                                   *)

LEMMA TwoElements ==
    ASSUME NEW S, IsFiniteSet(S), NEW a \in S, NEW b \in S, ~(Cardinality(S) > 1)
    PROVE  a = b
<1> SUFFICES ASSUME a # b PROVE FALSE
  OBVIOUS
<1>1. IsFiniteSet({a}) /\ Cardinality({a}) = 1
  BY FS_Singleton
<1>2. Cardinality({a} \cup {b}) = 2
  <2>1. b \notin {a}
    OBVIOUS
  <2>2. Cardinality({a} \cup {b}) = IF b \in {a} THEN Cardinality({a}) ELSE Cardinality({a}) + 1
    BY <1>1, FS_AddElement
  <2> QED
    BY <1>1, <2>1, <2>2
<1>3. Cardinality({a} \cup {b}) <= Cardinality(S)
  BY FS_Subset
<1>4. Cardinality(S) \in Nat
  BY FS_CardinalityType
<1> QED
  BY <1>2, <1>3, <1>4

LEMMA ScoresFinite ==
    ASSUME NEW plan, NEW qps, NEW wait
    PROVE  IsFiniteSet(evaluatePolicy(plan, qps, wait))
<1> DEFINE costs  == PenaltyCosts(plan, qps, wait)
           scores == {calculatePolicyScore(plan, c) : c \in costs}
           score  == [c \in costs |-> calculatePolicyScore(plan, c)]
<1>1. \A x : IsFiniteSet({x})
  BY FS_Singleton
<1>2. costs \subseteq 0..10
  BY CostsUpToTen, LeastThreshold DEF PenaltyCosts
<1>3. IsFiniteSet(costs)
  <2>1. \A a, b \in Int : IsFiniteSet(a..b)
    BY FS_Interval
  <2>2. 0 \in Int /\ 10 \in Int
    OBVIOUS
  <2>3. IsFiniteSet(0..10)
    BY <2>1, <2>2, Zenon
  <2> HIDE DEF costs
  <2> QED
    BY <1>2, <2>3, FS_Subset
<1>4. score \in Surjection(costs, scores)
  <2> HIDE DEF costs
  <2> QED
    BY DEF Surjection
<1>5. IsFiniteSet(scores)
  <2> HIDE DEF costs, scores, score
  <2> QED
    BY <1>3, <1>4, FS_Surjection
<1> QED
  BY <1>1, <1>5 DEF evaluatePolicy

LEMMA ScoresTyped ==
    ASSUME NEW plan \in Plan, NEW qps, NEW wait,
           NEW s \in evaluatePolicy(plan, qps, wait)
    PROVE  s \in Int
<1>1. plan.num \in Int /\ plan.res \in Int
  BY Sizes DEF Plan, podNumMin, podNumMax
<1>2. \A c \in Nat : calculatePolicyScore(plan, c) \in Int
  BY <1>1 DEF calculatePolicyScore
<1>3. \A c \in PenaltyCosts(plan, qps, wait) : c \in Nat
  BY CostsOfPlan
<1> QED
  BY <1>2, <1>3 DEF evaluatePolicy

(* Plans whose lookup is not ambiguous keep the score they won with.       *)
LEMMA OnlyScore ==
    ASSUME NEW plan \in Plan, ~Ambiguous(plan),
           NEW a \in evaluatePolicy(plan, load, WaitOfNew(expRespTime)),
           NEW b \in evaluatePolicy(plan, load, WaitOfNew(expRespTime))
    PROVE  a = b
<1>1. ~(Cardinality(evaluatePolicy(plan, load, WaitOfNew(expRespTime))) > 1)
  BY DEF Ambiguous
<1> QED
  BY <1>1, ScoresFinite, TwoElements

(* A winner's score is reached by no other plan for sure.                  *)
LEMMA WinnerBeats ==
    ASSUME NEW qps, NEW wait, NEW w \in recommendResource(qps, wait), w.plan \in Plan
    PROVE  /\ w.score \in evaluatePolicy(w.plan, qps, wait) /\ w.score > 0
           /\ \A p \in Plan : \E t \in evaluatePolicy(p, qps, wait) : t <= w.score
<1> DEFINE scores  == [p \in Plan |-> evaluatePolicy(p, qps, wait)]
           drawn   == {scores[p] : p \in Plan}
           winning == {s \in UNION drawn : s > 0 /\ \A S \in drawn : \E t \in S : t <= s}
<1>1. \/ \E p \in Plan : w \in {[plan |-> p, score |-> s] : s \in scores[p] \cap winning}
      \/ w.plan = ZeroPlan
  BY DEF recommendResource
<1>2. PICK p \in Plan : w \in {[plan |-> p, score |-> s] : s \in scores[p] \cap winning}
  BY <1>1, CapacityOfZeroPlan
<1>3. PICK s \in scores[p] \cap winning : w = [plan |-> p, score |-> s]
  BY <1>2
<1>4. s > 0 /\ \A q \in Plan : \E t \in scores[q] : t <= s
  BY <1>3
<1> QED
  BY <1>3, <1>4

(* What has just been provided won at the present load.                    *)
ProvidedWon ==
    action = "apply" =>
        \E w \in recommendResource(load, WaitOfNew(expRespTime)) : w.plan = rec

(* At a constant load a plan just provided is replaced only where the      *)
(* lookup of penalties is ambiguous, the response time is not positive or  *)
(* the load is too high (the comparison that ends Calculate): two winners  *)
(* with one score each have the same score.                                *)
THEOREM PlansSettle == Spec => PlanIsSettled
<1>1. Init => ProvidedWon
  BY DEF Init, ProvidedWon
<1>2. TypeOK /\ ProvidedWon /\ [Next]_vars => ProvidedWon'
  <2> SUFFICES ASSUME TypeOK, ProvidedWon, [Next]_vars PROVE ProvidedWon'
    OBVIOUS
  <2>1. CASE Provide
    <3>1. PICK out \in Calculate(rec, load, expRespTime) :
                  out.action = "apply" /\ rec' = out.plan
      BY <2>1 DEF Provide
    <3>2. PICK w \in recommendResource(load, WaitOfNew(expRespTime)) : out = Apply(w.plan)
      BY <3>1 DEF Calculate, Skip
    <3>3. rec' = w.plan
      BY <3>1, <3>2 DEF Apply
    <3>4. UNCHANGED <<load, expRespTime>>
      BY <2>1 DEF Provide
    <3> QED
      BY <3>3, <3>4 DEF ProvidedWon
  <2>2. CASE LoadMoves \/ KeepPlan \/ NoMetrics
    BY <2>2 DEF LoadMoves, KeepPlan, NoMetrics, ProvidedWon
  <2>3. CASE UNCHANGED vars
    BY <2>3 DEF vars, ProvidedWon
  <2> QED
    BY <2>1, <2>2, <2>3 DEF Next, Tick
<1>3. TypeOK /\ ProvidedWon /\ [Next]_vars =>
        [action = "apply" /\ action' = "apply" =>
            \/ Ambiguous(rec) \/ Ambiguous(rec')
            \/ expRespTime <= 0
            \/ load >= Overload]_vars
  <2> SUFFICES ASSUME TypeOK, ProvidedWon, Next, action = "apply", action' = "apply",
                      ~Ambiguous(rec), ~Ambiguous(rec'), ~(expRespTime <= 0), ~(load >= Overload)
               PROVE  FALSE
    OBVIOUS
  <2> DEFINE wait == WaitOfNew(expRespTime)
  <2>1. load \in Nat /\ expRespTime \in Int
    BY LoadsAssumption DEF TypeOK
  <2>2. wait \in Int /\ WaitOfOld(expRespTime) = wait
    BY <2>1 DEF WaitOfNew, WaitOfOld
  <2>3. Provide
    BY DEF Next, Tick, LoadMoves, KeepPlan, NoMetrics
  <2>4. PICK v \in recommendResource(load, wait) : v.plan = rec
    BY DEF ProvidedWon
  <2>5. PICK out \in Calculate(rec, load, expRespTime) :
                out.action = "apply" /\ rec' = out.plan
    BY <2>3 DEF Provide
  <2>6. PICK w \in recommendResource(load, wait) :
                /\ out = Apply(w.plan)
                /\ \E o \in oldScores(rec, w, load, expRespTime) : MayApply(w.score, o)
    BY <2>5 DEF Calculate, Skip
  <2>7. rec' = w.plan
    BY <2>5, <2>6 DEF Apply
  <2> HIDE DEF wait
  <2>8. rec \in Plan /\ w.plan \in Plan
    BY <2>1, <2>2, <2>4, <2>6, WinnerServes
  <2>9. /\ v.score \in evaluatePolicy(rec, load, wait) /\ v.score > 0
        /\ \E t \in evaluatePolicy(w.plan, load, wait) : t <= v.score
    BY <2>4, <2>8, WinnerBeats
  <2>10. w.score \in evaluatePolicy(w.plan, load, wait) /\ w.score > 0
    BY <2>6, <2>8, WinnerBeats
  <2>11. w.score <= v.score
    BY <2>7, <2>8, <2>9, <2>10, OnlyScore DEF wait
  <2>12. PICK o \in oldScores(rec, w, load, expRespTime) : MayApply(w.score, o)
    BY <2>6
  <2>13. o = w.score \/ o = v.score
    <3>1. rec # NoPlan
      BY <2>8, CapacityOfZeroPlan
    <3>2. CASE rec = w.plan
      BY <2>12, <3>1, <3>2 DEF oldScores
    <3>3. CASE rec # w.plan
      <4>1. o \in evaluatePolicy(rec, load, wait)
        BY <2>2, <2>12, <3>1, <3>3 DEF oldScores
      <4> QED
        BY <2>8, <2>9, <4>1, OnlyScore DEF wait
    <3> QED
      BY <3>2, <3>3
  <2>14. w.score \in Int /\ v.score \in Int
    BY <2>8, <2>9, <2>10, ScoresTyped
  <2> QED
    BY <2>9, <2>10, <2>11, <2>12, <2>13, <2>14 DEF MayApply
<1> QED
  BY <1>1, <1>2, <1>3, TypeCorrect, PTL DEF Spec, PlanIsSettled

=============================================================================
