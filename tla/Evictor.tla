------------------------------- MODULE Evictor -------------------------------
(***************************************************************************)
(* pkg/updater/eviction/evictor.go and the replica-count helper of         *)
(* pkg/updater/util/api.go, as operators.                                  *)
(*                                                                         *)
(* The updater builds one PodEvictor per pass from a snapshot of the pods  *)
(* of one MPA and from the store of the controller informers.  The evictor *)
(* groups the pods by managing controller, counts them once, and from then *)
(* on only its `evicted` counters change: it never looks at the cluster    *)
(* again.                                                                  *)
(***************************************************************************)
EXTENDS Integers, FiniteSets

CONSTANTS
    Pod,               \* names of pods ("namespace/name", GetPodId)
    Controller,        \* controllers that own pods
    KindOf,            \* Controller -> Kinds
    MinReplicas,       \* the flag -min-replicas
    EvictionFraction   \* the flag -eviction-fraction, in percent

(* "Other" stands for every kind without an informer, and for the zero     *)
(* owner reference of a pod that no controller owns                        *)
(* (GetPodManagedControllerRef returns a pointer to it, never nil).        *)
Kinds == {"ReplicaSet", "ReplicationController", "StatefulSet", "Job", "Other"}

(* NewPodLister selects pods that have a node and have not ended: a        *)
(* Pending pod here is one whose containers have not started, or cannot;   *)
(* a pod of phase Unknown counts as Running.                               *)
Phases == {"Pending", "Running"}

ASSUME ConstantsAssumption ==
    /\ IsFiniteSet(Pod)
    /\ KindOf \in [Controller -> Kinds]
    /\ MinReplicas \in Nat
    /\ EvictionFraction \in Nat

(* What an evictor reads of a listed pod.                                  *)
PodView == [controller : Controller, phase : Phases]

(* The pods handed to NewPodEvictor: a view of each listed pod.            *)
PodList == UNION {[S -> PodView] : S \in SUBSET Pod}

(* spec.replicas in the informer's store.  0 is every case in which        *)
(* GetControllerReplicaCount fails: no such object, no replicas, or zero.  *)
Store == [Controller -> Nat]

(***************************************************************************)
(* The factory.  NewPodEvictorFactory receives both flags and stores       *)
(* neither: the struct literal it returns sets client and informersMap     *)
(* only, so both fields keep their zero value.                             *)
(***************************************************************************)
NewPodEvictorFactory(minReplicasToUpdate, evictionFraction) ==
    [minReplicasToUpdate |-> 0, evictionFraction |-> 0]

Factory == NewPodEvictorFactory(MinReplicas, EvictionFraction)

InformersMap == {"ReplicaSet", "ReplicationController", "StatefulSet"}

(***************************************************************************)
(* NewPodEvictor.                                                          *)
(***************************************************************************)
ControllerPods(pods, c) == {p \in DOMAIN pods : pods[p].controller = c}

PendingPods(pods, c) ==
    {p \in ControllerPods(pods, c) : pods[p].phase = "Pending"}

(* A variant with a bug: the store's number is not looked at.              *)
RegisteredWithoutReplicas(pods, store) ==
    {c \in Controller :
        /\ ControllerPods(pods, c) # {}
        /\ KindOf[c] = "Job" \/ KindOf[c] \in InformersMap}

(* The controllers the loop over controllerPods does not `continue` past.  *)
Registered(pods, store) ==
    {c \in Controller :
        /\ ControllerPods(pods, c) # {}
        /\ Cardinality(ControllerPods(pods, c)) >= Factory.minReplicasToUpdate
        /\ \/ KindOf[c] = "Job"
           \/ KindOf[c] \in InformersMap /\ store[c] > 0}

(* What an evictor knows of a controller.                                  *)
States == [configured : Nat, pending : Nat, running : Int, evicted : Nat, evictable : Nat]

Configured(pods, store, c) ==
    IF KindOf[c] = "Job" THEN Cardinality(ControllerPods(pods, c)) ELSE store[c]

(* A variant with a bug: a pod that has not started counts as running.     *)
StatesOfAlive(pods, store, c) ==
    [configured |-> Configured(pods, store, c),
     pending    |-> Cardinality(PendingPods(pods, c)),
     running    |-> Cardinality(ControllerPods(pods, c)),
     evicted    |-> 0,
     evictable  |-> (Configured(pods, store, c) * Factory.evictionFraction) \div 100]

StatesOf(pods, store, c) ==
    [configured |-> Configured(pods, store, c),
     pending    |-> Cardinality(PendingPods(pods, c)),
     running    |-> Cardinality(ControllerPods(pods, c))
                      - Cardinality(PendingPods(pods, c)),
     evicted    |-> 0,
     evictable  |-> (Configured(pods, store, c) * Factory.evictionFraction) \div 100]

RegisteredPods(pods, store) ==
    {p \in DOMAIN pods : pods[p].controller \in Registered(pods, store)}

NewPodEvictor(pods, store) ==
    [podControllerMap    |-> [p \in RegisteredPods(pods, store) |-> pods[p].controller],
     controllerStatesMap |-> [c \in Registered(pods, store) |-> StatesOf(pods, store, c)]]

(***************************************************************************)
(* Evictable and the part of Evict after the API server accepted.          *)
(***************************************************************************)
Pending(pods, p) == pods[p].phase = "Pending"

(* Variants with a bug: no rule for a controller that has exactly its      *)
(* configured pods; that rule for ever.                                    *)
HasAllowanceAboveFloorOnly(s) ==
    s.running - s.evicted > s.configured - s.evictable

HasAllowanceWhenFull(s) ==
    \/ s.running - s.evicted > s.configured - s.evictable
    \/ s.running = s.configured /\ s.evictable = 0

(* More pods alive than the controller may be left with, or every          *)
(* configured pod present, no allowance, and none evicted yet.             *)
HasAllowance(s) ==
    \/ s.running - s.evicted > s.configured - s.evictable
    \/ s.running = s.configured /\ s.evictable = 0 /\ s.evicted = 0

(* A variant with a bug: Pending is tested before the map is looked up.    *)
EvictablePendingFirst(ev, pods, p) ==
    \/ Pending(pods, p)
    \/ /\ p \in DOMAIN ev.podControllerMap
       /\ HasAllowance(ev.controllerStatesMap[ev.podControllerMap[p]])

Evictable(ev, pods, p) ==
    /\ p \in DOMAIN ev.podControllerMap
    /\ \/ Pending(pods, p)
       \/ LET c == ev.podControllerMap[p] IN
            /\ c \in DOMAIN ev.controllerStatesMap
            /\ HasAllowance(ev.controllerStatesMap[c])

(* Variants with a bug: every pod is counted; the struct read from the map *)
(* is changed and never stored back.                                       *)
CountEvictionOfAny(ev, pods, p) ==
    [ev EXCEPT !.controllerStatesMap[ev.podControllerMap[p]].evicted = @ + 1]

CountEvictionInCopy(ev, pods, p) == ev

CountEviction(ev, pods, p) ==
    IF Pending(pods, p) THEN ev
    ELSE [ev EXCEPT !.controllerStatesMap[ev.podControllerMap[p]].evicted = @ + 1]

=============================================================================
