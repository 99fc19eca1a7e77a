---------------------------- MODULE Recommendation ----------------------------
(***************************************************************************)
(* One MPA under a changing load: what the calculator makes of it, tick by *)
(* tick (pkg/recommender/recommendation/calculator.go with the part of     *)
(* MainProcedure in pkg/recommender/logic/recommender.go that uses it).    *)
(* Writing the status is taken to succeed; ControlLoop does without that.  *)
(***************************************************************************)
EXTENDS Calculator

CONSTANTS
    Loads,         \* bound: the requests per second the load moves among
    ExpRespTimes   \* the expected response times a policy may hold, in ms

ASSUME LoadsAssumption == Loads \subseteq Nat /\ ExpRespTimes \subseteq Int

VARIABLES
    load,          \* requests per second, as the metrics of the pods add up
    expRespTime,   \* ContainerPolicies[0].ExpRespTime, or the default
    rec,           \* status.recommendationResource
    action         \* what the last tick did; "none" if the load moved since

vars == <<load, expRespTime, rec, action>>

Init ==
    /\ load \in Loads
    /\ expRespTime \in ExpRespTimes
    /\ rec = NoPlan
    /\ action = "none"

LoadMoves ==
    /\ load' \in Loads \ {load}
    /\ action' = "none"
    /\ UNCHANGED <<expRespTime, rec>>

(* A tick whose result is applied, AdjustRecommendation returning it as it *)
(* is, or skipped, or which finds no metrics.                              *)
Provide ==
    /\ \E out \in Calculate(rec, load, expRespTime) :
        /\ out.action = "apply"
        /\ rec' = out.plan
    /\ action' = "apply"
    /\ UNCHANGED <<load, expRespTime>>

KeepPlan ==
    /\ Skip \in Calculate(rec, load, expRespTime)
    /\ action' = "skip"
    /\ UNCHANGED <<load, expRespTime, rec>>

NoMetrics ==
    /\ action' = "error"
    /\ UNCHANGED <<load, expRespTime, rec>>

Tick == Provide \/ KeepPlan \/ NoMetrics

Next == LoadMoves \/ Tick

Spec == Init /\ [][Next]_vars

-----------------------------------------------------------------------------
TypeOK ==
    /\ load \in Loads
    /\ expRespTime \in ExpRespTimes
    /\ rec \in Plan \cup {ZeroPlan, NoPlan}
    /\ action \in {"none", "apply", "skip", "error"}

(* The load from which on no plan is sure to score above zero: 15 pods of  *)
(* the largest size queue without end and 16 cost the maximum.             *)
Overload == 900

(* Whenever a tick ends in a decision, the plan it leaves in the status    *)
(* can carry the load, whether it is a new one or the old one is kept; the *)
(* zero plan is left only in overload, or kept without any load.           *)
DecidedPlanServes ==
    action \in {"apply", "skip"} =>
        \/ Serves(rec, load)
        \/ rec = ZeroPlan /\ load >= Overload
        \/ rec = ZeroPlan /\ load = 0 /\ action = "skip"

Ambiguous(plan) ==
    plan \in Plan /\ Cardinality(evaluatePolicy(plan, load, WaitOfNew(expRespTime))) > 1

(* While the load stands still a plan just provided is replaced only if    *)
(* the lookup of a penalty was ambiguous for it or for its successor, if   *)
(* the response time is not positive (old and new plans are then scored by *)
(* different rules), or in overload.                                       *)
PlanIsSettled ==
    [][action = "apply" /\ action' = "apply" =>
          \/ Ambiguous(rec) \/ Ambiguous(rec')
          \/ expRespTime <= 0
          \/ load >= Overload]_vars

(* calculator.go:53: podNumMin is the least number of pods of a plan, and  *)
(* calculator.go:204: a plan that would queue without end is skipped.      *)
AtLeastPodNumMin == action = "apply" => rec.num >= podNumMin

(* calculator.go:160: a plan that scores is replaced only by one that      *)
(* scores more than the threshold above it.  The scores compared here are  *)
(* those with the highest threshold reached, the order in which            *)
(* calculator.go:29-36 lists them.                                         *)
FullScore(plan) ==
    LET scores == evaluatePolicy(plan, load, WaitOfNew(expRespTime)) IN
    CHOOSE s \in scores : \A t \in scores : t <= s

ReplacedOnlyByBetter ==
    [][action' = "apply" /\ rec \in Plan =>
          \/ FullScore(rec) = 0
          \/ 10 * (FullScore(rec') - FullScore(rec)) > FullScore(rec)]_vars

=============================================================================
