----------------------------- MODULE EvictionPass -----------------------------
(***************************************************************************)
(* The eviction loop of the updater (pkg/updater/logic/updater.go,         *)
(* MainProcedure from NewPodEvictor on) for the pods of one MPA, against   *)
(* an API server that may accept an eviction, refuse it, or accept it and  *)
(* lose the answer.  The updater runs one pass at a time; a pass that dies *)
(* leaves nothing behind.                                                  *)
(***************************************************************************)
EXTENDS Evictor

CONSTANTS
    MaxReplicas,   \* bound: the largest spec.replicas a store holds
    MaxLost        \* bound: answers lost in one pass

ASSUME BoundsAssumption == MaxReplicas \in Nat /\ MaxLost \in Nat

VARIABLES
    pods,     \* the snapshot the pass works on
    store,    \* the informer's store when the evictor was built
    ev,       \* the evictor: podControllerMap and controllerStatesMap
    queue,    \* pods of podsUpdateOrder the loop has not come to
    evicted,  \* pods the API server has evicted in this pass
    lost,     \* those of them whose answer the updater did not get
    refused,  \* pods whose eviction the API server refused
    pc        \* "idle", "evicting", "done"

vars == <<pods, store, ev, queue, evicted, lost, refused, pc>>

NoPods == [p \in {} |-> "no view"]
NoStore == [c \in Controller |-> 0]

Init ==
    /\ pods = NoPods
    /\ store = NoStore
    /\ ev = NewPodEvictor(NoPods, NoStore)
    /\ queue = {}
    /\ evicted = {}
    /\ lost = {}
    /\ refused = {}
    /\ pc = "idle"

(* Only controllers of a kind with an informer are in a store.             *)
InformerStores ==
    {s \in [Controller -> 0..MaxReplicas] :
        \A c \in Controller : KindOf[c] \notin InformersMap => s[c] = 0}

(* A tick: the snapshot, the evictor, filterNonEvictablePods and the order *)
(* of GetPodsUpdateOrder, which is the arbitrary order of the lister.      *)
Tick ==
    /\ pc = "idle"
    /\ \E list \in PodList, s \in InformerStores :
        LET e == NewPodEvictor(list, s) IN
        /\ pods' = list
        /\ store' = s
        /\ ev' = e
        /\ queue' = {p \in DOMAIN list : Evictable(e, list, p)}
    /\ evicted' = {}
    /\ lost' = {}
    /\ refused' = {}
    /\ pc' = "evicting"

(* One turn of the loop: a pod is taken and checked a second time.         *)
Take(p) ==
    /\ pc = "evicting"
    /\ p \in queue
    /\ queue' = queue \ {p}
    /\ UNCHANGED <<pods, store, pc>>

SkipPod(p) ==
    /\ Take(p)
    /\ ~Evictable(ev, pods, p)
    /\ UNCHANGED <<ev, evicted, lost, refused>>

(* Evict succeeds: a pod that was not Pending is counted.                  *)
EvictPod(p) ==
    /\ Take(p)
    /\ Evictable(ev, pods, p)
    /\ evicted' = evicted \cup {p}
    /\ ev' = CountEviction(ev, pods, p)
    /\ UNCHANGED <<lost, refused>>

(* Evict returns an error before it counts: the server refused ...         *)
EvictRefused(p) ==
    /\ Take(p)
    /\ Evictable(ev, pods, p)
    /\ refused' = refused \cup {p}
    /\ UNCHANGED <<ev, evicted, lost>>

(* ... or it evicted the pod and the answer did not arrive.                *)
EvictLost(p) ==
    /\ Take(p)
    /\ Evictable(ev, pods, p)
    /\ Cardinality(lost) < MaxLost
    /\ evicted' = evicted \cup {p}
    /\ lost' = lost \cup {p}
    /\ UNCHANGED <<ev, refused>>

EndPass ==
    /\ pc = "evicting"
    /\ queue = {}
    /\ pc' = "done"
    /\ UNCHANGED <<pods, store, ev, queue, evicted, lost, refused>>

(* MainProcedure returns, or the process dies in the middle of a pass: the *)
(* evictor and all it knew are gone.                                       *)
Forget ==
    /\ pods' = NoPods
    /\ store' = NoStore
    /\ ev' = NewPodEvictor(NoPods, NoStore)
    /\ queue' = {}
    /\ evicted' = {}
    /\ lost' = {}
    /\ refused' = {}
    /\ pc' = "idle"

Return == pc = "done" /\ Forget

Crash == pc = "evicting" /\ Forget

Next ==
    \/ Tick
    \/ \E p \in Pod : SkipPod(p) \/ EvictPod(p) \/ EvictRefused(p) \/ EvictLost(p)
    \/ EndPass
    \/ Return
    \/ Crash

Spec == Init /\ [][Next]_vars

-----------------------------------------------------------------------------
(* Pods of c that were not Pending in the snapshot, and what of a set of   *)
(* pods is theirs.                                                         *)
StartedPods(c) == ControllerPods(pods, c) \ PendingPods(pods, c)
Of(S, c) == S \cap StartedPods(c)

(* Types: the evictor's two maps are about listed pods and their           *)
(* controllers, and the bookkeeping sets are sets of pods it knows.        *)
TypeOK ==
    /\ pods \in PodList
    /\ store \in Store
    /\ DOMAIN ev = {"podControllerMap", "controllerStatesMap"}
    /\ ev.podControllerMap = [p \in RegisteredPods(pods, store) |-> pods[p].controller]
    /\ ev.controllerStatesMap \in [Registered(pods, store) -> States]
    /\ queue \subseteq DOMAIN ev.podControllerMap
    /\ evicted \subseteq DOMAIN ev.podControllerMap
    /\ lost \subseteq evicted
    /\ refused \subseteq DOMAIN ev.podControllerMap
    /\ pc \in {"idle", "evicting", "done"}

(* The counter the loop decides by is exact: it equals the evictions of    *)
(* started pods that the updater knows of (evictor.go:195-203), pod by pod *)
(* and controller by controller, and the counts taken when the evictor was *)
(* built are those of the snapshot throughout.                             *)
CounterExact ==
    \A c \in DOMAIN ev.controllerStatesMap :
        ev.controllerStatesMap[c] =
            [StatesOf(pods, store, c) EXCEPT
                !.evicted = Cardinality(Of(evicted \ lost, c))]

Larger(a, b) == IF a >= b THEN a ELSE b

Floor(c) ==
    Configured(pods, store, c) -
        Larger(1, (Configured(pods, store, c) * Factory.evictionFraction) \div 100)

(* Once the pass has evicted a started pod of a controller, the started    *)
(* pods it left are short of the configured number by one (or by the       *)
(* allowance, if larger), and by one more for each answer that was lost.   *)
(* Evictable decides on two counters; this is about the pods.              *)
BudgetHeld ==
    \A c \in Registered(pods, store) :
        Of(evicted, c) # {} =>
            Cardinality(StartedPods(c) \ evicted)
                >= Floor(c) - Cardinality(Of(lost, c))

(* A pass that ends has not been idle: it asked for every Pending pod it   *)
(* knows, and a controller with all its configured pods started has lost   *)
(* one, or was refused every one.                                          *)
PassMakesProgress ==
    pc = "done" =>
        \A c \in Registered(pods, store) :
            /\ PendingPods(pods, c) \subseteq evicted \cup refused
            /\ Cardinality(StartedPods(c)) >= Configured(pods, store, c) =>
                   \/ Of(evicted, c) # {}
                   \/ StartedPods(c) \subseteq refused

(* The same while the loop runs, the queue counting as work to come.       *)
WorkRemains ==
    pc # "idle" =>
        \A c \in Registered(pods, store) :
            /\ PendingPods(pods, c) \subseteq queue \cup evicted \cup refused
            /\ Cardinality(StartedPods(c)) >= Configured(pods, store, c) =>
                   \/ Of(evicted, c) # {}
                   \/ StartedPods(c) \subseteq queue \cup refused

(* Nothing is evicted that no controller is known to replace: the owner is *)
(* a Job or has an informer whose store wants at least one replica.        *)
EvictedWillBeReplaced ==
    \A p \in evicted :
        \/ KindOf[pods[p].controller] = "Job"
        \/ KindOf[pods[p].controller] \in InformersMap /\ store[pods[p].controller] > 0

-----------------------------------------------------------------------------
(* What the source says of the pass and the code does not do.              *)

(* main.go:31-32 and evictor.go:71: -min-replicas is the least number of   *)
(* replicas an update is executed for.                                     *)
MinReplicasHonoured ==
    \A p \in evicted :
        Cardinality(ControllerPods(pods, pods[p].controller)) >= MinReplicas

-----------------------------------------------------------------------------
(* The pass implements the budget: `up` are the started pods of registered *)
(* controllers that have not been evicted.                                 *)
UpPods == {p \in RegisteredPods(pods, store) : ~Pending(pods, p)} \ evicted

Budget == INSTANCE DisruptionBudget WITH
            active <- (pc = "evicting"),
            up     <- UpPods,
            owner  <- [p \in DOMAIN pods |-> pods[p].controller],
            floor  <- [c \in Controller |-> Floor(c) - MaxLost]

(* Every step of a pass is a step of DisruptionBudget or changes nothing   *)
(* there.                                                                  *)
BudgetSpec == Budget!Spec

=============================================================================
