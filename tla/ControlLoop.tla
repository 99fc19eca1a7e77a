------------------------------ MODULE ControlLoop ------------------------------
(***************************************************************************)
(* The three components around one MPA in Auto or Off mode, whose target   *)
(* is a StatefulSet: the recommender's and the updater's MainProcedure,    *)
(* the admission webhook at the creation of each pod, and around them the  *)
(* API server, the StatefulSet controller, the kubelet, the user and the   *)
(* load.  The components share nothing but the objects in the API server.  *)
(*                                                                         *)
(* Each component lists the MPA from an informer of its own, which may be  *)
(* as far behind the server as the last tick; everything done after the    *)
(* listing works on what was listed, however old that has become.          *)
(***************************************************************************)
EXTENDS Evictor, Calculator

CONSTANTS
    Loads,       \* bound: the requests per second the load moves among
    MaxPods,     \* the pods of the largest plan any of the loads can lead to
    MaxEdits,    \* bound: edits of the MPA by the user
    MaxMoves,    \* bound: moves of the load
    MaxFaults,   \* bound: failed calls and restarts
    Prompt       \* each procedure, and what it causes, is over before the next

ASSUME ControlLoopAssumption ==
    /\ Loads \subseteq Nat
    /\ {MaxPods, MaxEdits, MaxMoves, MaxFaults} \subseteq Nat
    /\ Pod = 0..(MaxPods - 1)
    /\ Controller = {"set"} /\ KindOf["set"] = "StatefulSet"
    /\ Prompt \in BOOLEAN

VARIABLES
    mpa,       \* the MPA in the API server: mode, rec, latest condition
    older,     \* its version at the last tick, which an informer may still hold
    replicas,  \* spec.replicas of the target
    pods,      \* ordinal -> Absent or the pod: its phase and CPU request
    load,      \* requests per second on all pods
    rcm,       \* the recommender's procedure
    upd,       \* the updater's procedure
    edits, moves, faults,
    guarded    \* history, for OneAtATime: pods of a target that has come to rest

vars == <<mpa, older, replicas, pods, load, rcm, upd, edits, moves, faults, guarded>>

counters == <<edits, moves, faults>>

Absent == [phase |-> "Absent", res |-> -1]
OwnRequest == -1   \* what the pod template asks for

Plans == {p \in Plan : p.num <= MaxPods} \cup {ZeroPlan}
Conditions == {"None", "RecommendationProvided", "RecommendationSkipped"}
Mpa == [mode : {"Auto", "Off"}, rec : Plans \cup {NoPlan}, condition : Conditions]

(* What Calculate may return, for each load and each plan in the status.   *)
Outcomes ==
    UNION {{[load |-> l, rec |-> r, out |-> out] : out \in Calculate(r, l, 300)} :
              l \in Loads, r \in Plans \cup {NoPlan}}

(* MaxPods is large enough for every plan that may be provided.            *)
ASSUME PlansFit == \A d \in Outcomes : d.out.action = "apply" => d.out.plan \in Plans

Living == {o \in Pod : pods[o] # Absent}

(* The pods a lister may return: those with a node.  A Running pod has     *)
(* one, a Pending pod may; if everything is prompt, it has.                *)
Listings ==
    {S \in SUBSET Living :
        /\ {o \in Living : pods[o].phase = "Running"} \subseteq S
        /\ Prompt => S = Living}

(* What an informer holds.  If everything is prompt it has caught up.      *)
Listed == IF Prompt THEN {mpa} ELSE {mpa, older}

(* The cluster has come to what the target asks for.                       *)
Settled == \A o \in Pod : pods[o] # Absent <=> o < replicas

(* The target is at rest: no pass, its pods are there and run.             *)
AtRest ==
    /\ upd.pc = "idle"
    /\ Settled
    /\ \A o \in Living : pods[o].phase = "Running"

(* The history: all pods of a target at rest are guarded until the target  *)
(* is scaled down, and each of them until it dies by itself.               *)
GuardWhenAtRest == guarded' = IF AtRest' THEN 0..(replicas' - 1) ELSE guarded

Fault == faults < MaxFaults /\ faults' = faults + 1 /\ UNCHANGED <<edits, moves>>

RestOfRcm == [pc |-> "idle"]
RestOfUpd == [pc |-> "idle"]

Init ==
    /\ mpa = [mode |-> "Auto", rec |-> NoPlan, condition |-> "None"]
    /\ older = mpa
    /\ replicas \in 1..MaxPods
    /\ pods = [o \in Pod |-> IF o < replicas
                             THEN [phase |-> "Running", res |-> OwnRequest]
                             ELSE Absent]
    /\ load \in Loads
    /\ rcm = RestOfRcm
    /\ upd = RestOfUpd
    /\ edits = 0 /\ moves = 0 /\ faults = 0
    /\ guarded = 0..(replicas - 1)

-----------------------------------------------------------------------------
(* The recommender.                                                        *)

(* The two procedures belong to processes of their own, each with its own  *)
(* interval: either may tick any number of times between two ticks of the  *)
(* other.                                                                  *)
RecommenderTicks ==
    /\ rcm.pc = "idle"
    /\ Prompt => Settled /\ upd.pc = "idle"
    /\ older' = mpa

(* The MPA is listed with its resourceVersion; `current` says whether that *)
(* is still the server's.                                                  *)
Computed(m, out) ==
    rcm' = [pc |-> "writing", listed |-> m, current |-> m = mpa, out |-> out]

(* A pod for which there is no metric yet counts for nothing, so that the  *)
(* sum may be any smaller load, of those considered.  If everything is     *)
(* prompt the metrics have caught up.                                      *)
Measured == IF Prompt THEN {load} ELSE {l \in Loads : l <= load}

Recommend ==
    /\ RecommenderTicks
    /\ Living # {}
    /\ \E m \in Listed :
        /\ m.mode = "Auto"
        /\ \E d \in Outcomes :
            /\ d.load \in Measured /\ d.rec = m.rec
            /\ Computed(m, d.out)
    /\ UNCHANGED <<mpa, replicas, pods, load, upd, counters, guarded>>

(* The metrics cannot be had.                                              *)
RecommendFails ==
    /\ RecommenderTicks
    /\ Living # {}
    /\ \E m \in Listed : m.mode = "Auto" /\ Computed(m, Failed)
    /\ Fault
    /\ UNCHANGED <<mpa, replicas, pods, load, upd, guarded>>

(* No MPA in Auto mode, or none that controls a pod.                       *)
RecommendNothing ==
    /\ RecommenderTicks
    /\ {} \in Listings \/ \E m \in Listed : m.mode # "Auto"
    /\ UNCHANGED <<mpa, replicas, pods, load, rcm, upd, counters, guarded>>

(* updateRecommendationIfBetter and updateMpaCondition: a copy of the      *)
(* listed object, with the plan if there is one and a condition appended.  *)
Written(listed, out) ==
    IF out.action = "apply"
    THEN [listed EXCEPT !.rec = out.plan, !.condition = "RecommendationProvided"]
    ELSE [listed EXCEPT !.condition = "RecommendationSkipped"]

(* A variant with a bug: the last writer wins.                             *)
CanAlwaysWrite == rcm.pc = "writing"

(* Update carries the resourceVersion of the listed object.                *)
CanWrite == rcm.pc = "writing" /\ rcm.current

(* A variant with a bug: after a conflict the MPA is read again and what   *)
(* was calculated on the old one is written over the new one.              *)
RetryOnConflict ==
    /\ rcm.pc = "writing"
    /\ mpa' = Written(mpa, rcm.out)
    /\ rcm' = RestOfRcm
    /\ UNCHANGED <<older, replicas, pods, load, upd, counters, guarded>>

WriteStatus ==
    /\ CanWrite
    /\ mpa' = Written(rcm.listed, rcm.out)
    /\ rcm' = RestOfRcm
    /\ UNCHANGED <<older, replicas, pods, load, upd, counters, guarded>>

(* A conflict is logged and the result dropped.                            *)
WriteConflicts ==
    /\ rcm.pc = "writing" /\ ~rcm.current
    /\ rcm' = RestOfRcm
    /\ UNCHANGED <<mpa, older, replicas, pods, load, upd, counters, guarded>>

(* The write fails, or the process restarts before it.                     *)
RecommenderFails ==
    /\ rcm.pc = "writing"
    /\ rcm' = RestOfRcm
    /\ Fault
    /\ UNCHANGED <<mpa, older, replicas, pods, load, upd, guarded>>

-----------------------------------------------------------------------------
(* The updater.                                                            *)

UpdaterTicks ==
    /\ upd.pc = "idle"
    /\ Prompt => Settled /\ rcm.pc = "idle"
    /\ older' = mpa

(* GetMpaLatestCondition: without conditions, RecommendationProvided.      *)
LatestCondition(m) ==
    IF m.condition = "None" THEN "RecommendationProvided" ELSE m.condition

(* Variants with a bug: no test for a plan, and none of the condition.     *)
EligibleWithoutPlan(m) ==
    m.mode = "Auto" /\ LatestCondition(m) = "RecommendationProvided"

EligibleWhateverCondition(m) == m.mode = "Auto" /\ m.rec # NoPlan

Eligible(m) ==
    /\ m.mode = "Auto"
    /\ LatestCondition(m) = "RecommendationProvided"
    /\ m.rec # NoPlan

Snapshot(S) == [o \in S |-> [controller |-> "set", phase |-> pods[o].phase]]

Update ==
    /\ UpdaterTicks
    /\ \E m \in Listed, S \in Listings \ {{}} :
        /\ Eligible(m)
        /\ upd' = [pc |-> "scaling", plan |-> m.rec, list |-> Snapshot(S)]
    /\ UNCHANGED <<mpa, replicas, pods, load, rcm, counters, guarded>>

UpdateNothing ==
    /\ UpdaterTicks
    /\ {} \in Listings \/ \E m \in Listed : ~Eligible(m)
    /\ UNCHANGED <<mpa, replicas, pods, load, rcm, upd, counters, guarded>>

(* NewPodEvictor and filterNonEvictablePods, the informer's store holding  *)
(* one of the values of `stored`.                                          *)
Evicting(stored) ==
    \E n \in stored :
        LET ev == NewPodEvictor(upd.list, [c \in Controller |-> n]) IN
        upd' = [pc |-> "evicting", plan |-> upd.plan, list |-> upd.list, ev |-> ev,
                queue |-> {o \in DOMAIN upd.list : Evictable(ev, upd.list, o)}]

(* Variants with a bug: a plan of fewer pods is left to the next one; the  *)
(* plan is taken for a difference.                                         *)
ScaleOnlyUp ==
    /\ upd.pc = "scaling"
    /\ replicas' = IF upd.plan.num > replicas THEN upd.plan.num ELSE replicas
    /\ Evicting({replicas})
    /\ UNCHANGED <<mpa, older, pods, load, rcm, counters, guarded>>

ScaleBy ==
    /\ upd.pc = "scaling"
    /\ replicas' = replicas + upd.plan.num
    /\ Evicting({replicas})
    /\ UNCHANGED <<mpa, older, pods, load, rcm, counters, guarded>>

(* The informer may or may not have seen the new number yet.               *)
Scale ==
    /\ upd.pc = "scaling"
    /\ replicas' = upd.plan.num
    /\ Evicting({replicas, upd.plan.num})
    /\ guarded' = IF upd.plan.num < replicas THEN {} ELSE guarded
    /\ UNCHANGED <<mpa, older, pods, load, rcm, counters>>

(* Scaling failed: the pass goes on all the same.                          *)
ScaleFails ==
    /\ upd.pc = "scaling"
    /\ Evicting({replicas})
    /\ Fault
    /\ UNCHANGED <<mpa, older, replicas, pods, load, rcm, guarded>>

(* The pod is named by its ordinal: what the server evicts is the pod that *)
(* has the name now; what is counted is the pod that was listed.           *)
Evict(o) ==
    /\ upd.pc = "evicting" /\ o \in upd.queue
    /\ Evictable(upd.ev, upd.list, o)
    /\ IF pods[o] # Absent
       THEN /\ pods' = [pods EXCEPT ![o] = Absent]
            /\ upd' = [upd EXCEPT !.queue = @ \ {o},
                                  !.ev = CountEviction(@, upd.list, o)]
       ELSE /\ upd' = [upd EXCEPT !.queue = @ \ {o}]
            /\ UNCHANGED pods
    /\ UNCHANGED <<mpa, older, replicas, load, rcm, counters, guarded>>

SkipPod(o) ==
    /\ upd.pc = "evicting" /\ o \in upd.queue
    /\ ~Evictable(upd.ev, upd.list, o)
    /\ upd' = [upd EXCEPT !.queue = @ \ {o}]
    /\ UNCHANGED <<mpa, older, replicas, pods, load, rcm, counters, guarded>>

EndPass ==
    /\ upd.pc = "evicting" /\ upd.queue = {}
    /\ upd' = RestOfUpd
    /\ UNCHANGED <<mpa, older, replicas, pods, load, rcm, counters>>
    /\ GuardWhenAtRest

UpdaterCrashes ==
    /\ upd.pc # "idle"
    /\ upd' = RestOfUpd
    /\ Fault
    /\ UNCHANGED <<mpa, older, replicas, pods, load, rcm>>
    /\ GuardWhenAtRest

-----------------------------------------------------------------------------
(* The StatefulSet controller, with the webhook at each creation, and the  *)
(* kubelet.                                                                *)

(* GetPodMatchingMpa leaves out an MPA that is off; whatever its latest    *)
(* condition, any other matches.                                           *)
Matches(m) == m.mode # "Off"

(* GetContainerResourcesForPod: Target of the plan, if there is one.       *)
ContainerRequest(m) == IF m.rec # NoPlan THEN m.rec.res ELSE OwnRequest

(* The CPU request GetPatches leaves in a pod.                             *)
PatchedRequest(m) == IF Matches(m) THEN ContainerRequest(m) ELSE OwnRequest

Create(o, request) ==
    /\ o < replicas /\ pods[o] = Absent
    /\ pods' = [pods EXCEPT ![o] = [phase |-> "Pending", res |-> request]]
    /\ UNCHANGED <<mpa, older, replicas, load, rcm, upd, guarded>>

CreatePod(o) ==
    (\E m \in Listed : Create(o, PatchedRequest(m))) /\ UNCHANGED counters

(* failurePolicy Ignore: without an answer the pod is created as it is.    *)
CreateUnpatched(o) == Create(o, OwnRequest) /\ Fault

DeletePod(o) ==
    /\ o >= replicas /\ pods[o] # Absent
    /\ pods' = [pods EXCEPT ![o] = Absent]
    /\ UNCHANGED <<mpa, older, replicas, load, rcm, upd, counters>>
    /\ GuardWhenAtRest

StartPod(o) ==
    /\ pods[o].phase = "Pending"
    /\ pods' = [pods EXCEPT ![o].phase = "Running"]
    /\ UNCHANGED <<mpa, older, replicas, load, rcm, upd, counters>>
    /\ GuardWhenAtRest

(* A pod dies by itself, with its node or by another hand.  It has its     *)
(* name back as soon as it is created again.                               *)
PodDies(o) ==
    /\ pods[o] # Absent
    /\ pods' = [pods EXCEPT ![o] = Absent]
    /\ guarded' = guarded \ {o}
    /\ Fault
    /\ UNCHANGED <<mpa, older, replicas, load, rcm, upd>>

(* The user switches the mode; a copy listed before is out of date.        *)
EditMode ==
    /\ edits < MaxEdits /\ edits' = edits + 1
    /\ mpa' = [mpa EXCEPT !.mode = IF @ = "Auto" THEN "Off" ELSE "Auto"]
    /\ rcm' = IF rcm.pc = "writing" THEN [rcm EXCEPT !.current = FALSE] ELSE rcm
    /\ UNCHANGED <<older, replicas, pods, load, upd, moves, faults, guarded>>

LoadMoves ==
    /\ moves < MaxMoves /\ moves' = moves + 1
    /\ load' \in Loads \ {load}
    /\ UNCHANGED <<mpa, older, replicas, pods, rcm, upd, edits, faults, guarded>>

-----------------------------------------------------------------------------
Recommender ==
    Recommend \/ RecommendFails \/ RecommendNothing
        \/ WriteStatus \/ WriteConflicts \/ RecommenderFails

Updater ==
    \/ Update \/ UpdateNothing \/ Scale \/ ScaleFails
    \/ \E o \in Pod : Evict(o) \/ SkipPod(o)
    \/ EndPass \/ UpdaterCrashes

Cluster ==
    \E o \in Pod : CreatePod(o) \/ CreateUnpatched(o) \/ DeletePod(o) \/ StartPod(o)
                    \/ PodDies(o)

Next == Recommender \/ Updater \/ Cluster \/ EditMode \/ LoadMoves

Spec == Init /\ [][Next]_vars

(* The updater's ticker keeps firing and its procedure goes on, as long as *)
(* no call fails; the controller does its work.  The recommender may have  *)
(* stopped, and pods need not start, as those whose image cannot be        *)
(* pulled; user, load and faults are under no obligation.                  *)
UpdaterFairness ==
    /\ WF_vars(Update)
    /\ WF_vars(Scale)
    /\ WF_vars(EndPass \/ \E o \in Pod : Evict(o) \/ SkipPod(o))
    /\ \A o \in Pod : WF_vars(CreatePod(o)) /\ WF_vars(DeletePod(o))

UpdaterFairSpec == Spec /\ UpdaterFairness

(* The recommender keeps ticking while there are pods, and finishes.  Its  *)
(* ticker waits for nothing, so that it also fires if there are no pods,   *)
(* or the updater is at work, again and again.                             *)
RecommenderFairness ==
    /\ SF_vars(Recommend)
    /\ WF_vars(WriteStatus \/ WriteConflicts)

(* The same goes for the updater's, if everything is prompt, and the       *)
(* kubelet starts the pods.                                                *)
Fairness ==
    /\ UpdaterFairness
    /\ SF_vars(Update)
    /\ \A o \in Pod : WF_vars(StartPod(o))
    /\ RecommenderFairness

FairSpec == Spec /\ Fairness

-----------------------------------------------------------------------------
TypeOK ==
    /\ {mpa, older} \subseteq Mpa
    /\ replicas \in 0..MaxPods
    /\ pods \in [Pod -> {Absent} \cup
                  [phase : {"Pending", "Running"},
                   res : {OwnRequest, 0} \cup DOMAIN cpuRequestMap]]
    /\ load \in Loads
    /\ rcm.pc \in {"idle", "writing"}
    /\ upd.pc \in {"idle", "scaling", "evicting"}
    /\ guarded \subseteq Pod

(* A switch of the mode that happens while the recommender computes is not *)
(* undone by its write, which carries the mode it listed                   *)
(* (recommender.go:177-187).                                               *)
NoEditUndone == [][~EditMode => mpa'.mode = mpa.mode]_vars

(* As long as the calculator finds a plan for the load, the service keeps  *)
(* at least one replica, whichever listing the updater works from.         *)
NeverScaledToZero == replicas >= 1

(* Of a target that has been at rest the updater has at most one pod down  *)
(* at a time, until it scales down: over any number of passes, each with   *)
(* counters of its own (evictor.go:221-233), with pods that are slow to    *)
(* come back, successors evicted under the name of the pod that was        *)
(* listed, failed scalings, restarts, and numbers of replicas and plans    *)
(* the informers have not caught up with.  Pods that die by themselves are *)
(* not held against it.                                                    *)
OneAtATime ==
    \A o1, o2 \in guarded :
        pods[o1].phase # "Running" /\ pods[o2].phase # "Running" => o1 = o2

(* Seen from the status, the recommender's procedure is one step: whatever *)
(* it lists and however long it calculates, what it writes is a decision   *)
(* on the plan and the mode that are there at the write                    *)
(* (recommender.go:137-187).                                               *)
Decided == INSTANCE StatusDecisions WITH Decisions <- Outcomes, status <- mpa

DecisionsAtomic == Decided!Spec

-----------------------------------------------------------------------------
(* The updater comes to rest, if the recommender goes on: the condition it *)
(* acts on is replaced by the recommender's next tick                      *)
(* (recommender.go:137-143), once the plan in the status is good enough,   *)
(* and in Off mode it starts no pass.                                      *)
UpdaterComesToRest == RecommenderFairness => <>[](upd.pc = "idle")

(* A plan that stays announced is scaled to for good: a scaling that       *)
(* fails, or a restart, is made up for by the next pass, as long as the    *)
(* condition stands (updater.go:93-102, 146-152).                          *)
AnnouncedIsScaled ==
    \A n \in 1..MaxPods :
        <>[](Eligible(mpa) /\ mpa.rec.num = n) => <>[](replicas = n)

-----------------------------------------------------------------------------
(* What the source says of the loop and the code does not do.              *)

(* types.go:72: in Auto mode the plan is applied to pods when they are     *)
(* created and while they run, by rebuilding them; so that a rollout in    *)
(* which one pod has got the plan comes to the other ones.                 *)
RolloutBegun == mpa.rec # NoPlan /\ \E o \in Living : pods[o].res = mpa.rec.res

RolloutCompletes ==
    [](mpa.mode = "Auto") /\ <>[]RolloutBegun =>
        <>[](\A o \in Living : pods[o].res = mpa.rec.res)

=============================================================================
