------------------------------ MODULE Calculator ------------------------------
(***************************************************************************)
(* pkg/recommender/recommendation/calculator.go as operators: the score of *)
(* a plan, the search for the best one, and the decision to apply or skip. *)
(*                                                                         *)
(* The code computes in float64.  A score is                               *)
(*     0.6 * (36000 - num*res) / 35750 + 0.4 * penalty                     *)
(* in units of cpuPrice; here it is an integer, scaled by 3575000.  The    *)
(* penalty is looked up by ranging over a Go map and returning at the      *)
(* first threshold the service score reaches, so every threshold it        *)
(* reaches may be the one found.  The service score itself (M/M/c queue)   *)
(* is not computed: MayReach bounds it from above.                         *)
(***************************************************************************)
EXTENDS Integers, FiniteSets

(* cpuRequestMap: requests per second a pod of so many milli-CPU serves.   *)
cpuRequestMap ==
    [r \in {250, 500, 750, 1000, 1250, 1500, 1750, 2000, 2250} |->
        CASE r = 250 -> 6   [] r = 500 -> 12  [] r = 750 -> 20
          [] r = 1000 -> 26 [] r = 1250 -> 34 [] r = 1500 -> 40
          [] r = 1750 -> 46 [] r = 2000 -> 52 [] r = 2250 -> 60]

podNumMin == 1
podNumMax == 16

(* servicePenaltyCostMap: threshold |-> ten times the cost.                *)
servicePenaltyCostMap ==
    [t \in {0, 60, 80, 85, 90, 95} |->
        CASE t = 0 -> 0 [] t = 60 -> 3 [] t = 80 -> 5
          [] t = 85 -> 8 [] t = 90 -> 9 [] t = 95 -> 10]

(* A plan: the pods and the milli-CPU of each.                             *)
Plan == [num : podNumMin..podNumMax, res : DOMAIN cpuRequestMap]

(* What recommendResource returns when no plan scores above zero.          *)
ZeroPlan == [num |-> 0, res |-> 0]

(* Requests per second; the zero value of a missing map key is 0.          *)
Reqs(plan) == IF plan.res \in DOMAIN cpuRequestMap THEN cpuRequestMap[plan.res] ELSE 0
Capacity(plan) == plan.num * Reqs(plan)

(* serviceIntensity < 1.0.                                                 *)
Serves(plan, qps) == qps < Capacity(plan)

(* queueRequests yields 100 * Lq * (1 - e^(-x)).  With x > 0 that is at    *)
(* most 100 * Lq, and Lq <= rho^2 / (1 - rho) for every number of servers. *)
MayReach(plan, qps, t) ==
    100 * qps * qps >= t * Capacity(plan) * (Capacity(plan) - qps)

(* calculatePenaltyCost for a plan that serves qps.  `wait` is the sign of *)
(* waitTime: with 0 the service score is 0, with -1 it is negative unless  *)
(* the queue is empty.                                                     *)
PenaltyCosts(plan, qps, wait) ==
    IF wait < 0 /\ qps > 0 THEN {10}
    ELSE IF wait = 0 THEN {servicePenaltyCostMap[0]}
    ELSE {servicePenaltyCostMap[t] :
            t \in {u \in DOMAIN servicePenaltyCostMap : MayReach(plan, qps, u)}}

(* 0.6 and 0.4 of the two parts.                                           *)
calculatePolicyScore(plan, cost) ==
    60 * (36000 - plan.num * plan.res) + 143000 * cost

(* A variant with a bug: plans that queue without end are scored.          *)
evaluatePolicyUnchecked(plan, qps, wait) ==
    IF Capacity(plan) = 0
    THEN IF qps > 0 THEN {0} ELSE {calculatePolicyScore(plan, 10)}
    ELSE {calculatePolicyScore(plan, c) : c \in PenaltyCosts(plan, qps, wait)}

(* evaluatePolicy: every score the plan may get.  A plan that would queue  *)
(* without end gets zero; the zero plan without load divides zero by zero, *)
(* no comparison with NaN holds, and it gets the full 1.0.                 *)
evaluatePolicy(plan, qps, wait) ==
    IF Capacity(plan) = 0
    THEN IF qps > 0 THEN {0} ELSE {calculatePolicyScore(plan, 10)}
    ELSE IF ~Serves(plan, qps) THEN {0}
    ELSE {calculatePolicyScore(plan, c) : c \in PenaltyCosts(plan, qps, wait)}

(* A variant with a bug: the search starts from one pod of nothing.        *)
recommendResourceFromMin(qps, wait) ==
    LET scores == [p \in Plan |-> evaluatePolicy(p, qps, wait)] IN
    IF \A p \in Plan : 0 \in scores[p]
    THEN {[plan |-> [num |-> podNumMin, res |-> 0], score |-> 0]}
    ELSE UNION {{[plan |-> p, score |-> s] : s \in scores[p]} : p \in Plan}

(* recommendResource: the maps are ranged over in any order and each score *)
(* is drawn anew, so a plan can win with a score that no other plan is     *)
(* sure to exceed; if all can score zero, none may win.                    *)
recommendResource(qps, wait) ==
    LET scores  == [p \in Plan |-> evaluatePolicy(p, qps, wait)]
        drawn   == {scores[p] : p \in Plan}
        Wins(s) == s > 0 /\ \A S \in drawn : \E t \in S : t <= s
        winning == {s \in UNION drawn : Wins(s)}
    IN  (UNION {{[plan |-> p, score |-> s] : s \in scores[p] \cap winning} : p \in Plan})
          \cup {w \in {[plan |-> ZeroPlan, score |-> 0]} : \A S \in drawn : 0 \in S}

(* The status of an MPA that has no recommendation yet: a value no plan    *)
(* has.                                                                    *)
NoPlan == [num |-> -1, res |-> -1]

(* The expected response time after waitTime = expRespTime - 1/reqs, and   *)
(* as it is used for the old plan: only its sign matters here.             *)
WaitOfNew(expRespTime) == IF expRespTime > 0 THEN 1 ELSE -1
WaitOfOld(expRespTime) ==
    IF expRespTime > 0 THEN 1 ELSE IF expRespTime = 0 THEN 0 ELSE -1

oldScores(old, best, qps, expRespTime) ==
    IF old = NoPlan THEN {0}
    ELSE IF old = best.plan THEN {best.score}
    ELSE evaluatePolicy(old, qps, WaitOfOld(expRespTime))

(* A variant with a bug: any plan no worse than the old one is applied.    *)
MayApplyAnyGain(score, old) == score >= old

(* Applied if the old plan scores nothing or is beaten by more than a      *)
(* tenth; a tenth exactly goes either way, as the floats round.            *)
MayApply(score, old) == old = 0 \/ 10 * (score - old) >= old
MaySkip(score, old) == old > 0 /\ 10 * (score - old) <= old

Apply(plan) == [action |-> "apply", plan |-> plan]
Skip == [action |-> "skip", plan |-> NoPlan]
Failed == [action |-> "error", plan |-> NoPlan]

(* Calculate, when the metrics can be had.                                 *)
Calculate(old, qps, expRespTime) ==
    LET wins == recommendResource(qps, WaitOfNew(expRespTime))
        Olds(w) == oldScores(old, w, qps, expRespTime)
    IN  {Apply(w.plan) : w \in {v \in wins : \E o \in Olds(v) : MayApply(v.score, o)}}
          \cup {Skip : w \in {v \in wins : \E o \in Olds(v) : MaySkip(v.score, o)}}

=============================================================================
