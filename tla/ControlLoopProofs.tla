--------------------------- MODULE ControlLoopProofs ---------------------------
(***************************************************************************)
(* Theorems about ControlLoop, for any loads, numbers of pods and bounds,  *)
(* any delay of the informers and any faults.                              *)
(***************************************************************************)
EXTENDS ControlLoop, EvictorProofs

-----------------------------------------------------------------------------
(* The inductive invariant, one conjunct for each group of variables.      *)

ObjectsInv == {mpa, older} \subseteq Mpa

Requests == {OwnRequest, 0} \cup DOMAIN cpuRequestMap

PodStates == {Absent} \cup [phase : {"Pending", "Running"}, res : Requests]

ClusterInv ==
    /\ replicas \in 0..MaxPods
    /\ pods \in [Pod -> PodStates]
    /\ load \in Loads

(* What the recommender is about to write: a copy of an MPA that some      *)
(* version had, the server's if it is current, and what was calculated.    *)
RcmRecord(m, current, out) == [pc |-> "writing", listed |-> m, current |-> current, out |-> out]

RcmInv ==
    \/ rcm = RestOfRcm
    \/ \E m, current, out :
          /\ m \in Mpa /\ current \in BOOLEAN
          /\ rcm = RcmRecord(m, current, out)
          /\ current => m = mpa
          /\ out.action = "apply" => out.plan \in Plans

EvRecord(f, g) == [podControllerMap |-> f, controllerStatesMap |-> g]

EvMaps(f, g) ==
    /\ DOMAIN g \subseteq Controller
    /\ g \in [DOMAIN g -> States]
    /\ \A o \in DOMAIN f : f[o] \in DOMAIN g

UpdScaling(p, l) == [pc |-> "scaling", plan |-> p, list |-> l]

UpdEvicting(p, l, e, q) == [pc |-> "evicting", plan |-> p, list |-> l, ev |-> e, queue |-> q]

UpdInv ==
    \/ upd = RestOfUpd
    \/ \E p \in Plans, l \in PodList : upd = UpdScaling(p, l)
    \/ \E p, q, f, g : \E l \in PodList :
          upd = UpdEvicting(p, l, EvRecord(f, g), q) /\ EvMaps(f, g)

Inv == ObjectsInv /\ ClusterInv /\ RcmInv /\ UpdInv

-----------------------------------------------------------------------------
(* Plans.                                                                  *)

LEMMA PlanType ==
    /\ NoPlan \notin Plans
    /\ \A p \in Plans : p.num \in 0..MaxPods /\ p.res \in Requests
  <1>1. MaxPods \in Nat
    BY ControlLoopAssumption
  <1>2. \A p \in Plan : p.num \in 1..16 /\ p.res \in DOMAIN cpuRequestMap
    BY DEF Plan, podNumMin, podNumMax
  <1>3. /\ ZeroPlan.num = 0 /\ ZeroPlan.res = 0 /\ NoPlan.num = -1
    BY DEF ZeroPlan, NoPlan
  <1>. QED  BY <1>1, <1>2, <1>3 DEF Plans, Requests

(* What is written is an MPA in the mode of the listed one.                *)
LEMMA WrittenType ==
    ASSUME NEW m \in Mpa, NEW out,
           out.action = "apply" => out.plan \in Plans
    PROVE  Written(m, out) \in Mpa /\ Written(m, out).mode = m.mode
  BY DEF Written, Mpa, Conditions

LEMMA ListedInv ==
    ASSUME ObjectsInv, NEW m \in Listed
    PROVE  m \in Mpa
  BY DEF ObjectsInv, Listed

(* The webhook leaves a request the types know.                            *)
LEMMA PatchedType ==
    ASSUME NEW m \in Mpa
    PROVE  PatchedRequest(m) \in Requests
  BY PlanType DEF PatchedRequest, ContainerRequest, Mpa, Requests

-----------------------------------------------------------------------------
(* The evictor.                                                            *)

LEMMA FreshMaps ==
    ASSUME NEW list \in PodList, NEW n \in Nat
    PROVE  LET store == [c \in Controller |-> n] IN
           \E f, g : /\ NewPodEvictor(list, store) = EvRecord(f, g)
                     /\ EvMaps(f, g)
                     /\ \A c \in DOMAIN g : g[c] = StatesOf(list, store, c)
  <1>. DEFINE s == [c \in Controller |-> n]
              f == [p \in RegisteredPods(list, s) |-> list[p].controller]
              g == [c \in Registered(list, s) |-> StatesOf(list, s, c)]
  <1>1. NewPodEvictor(list, s) = EvRecord(f, g)
    BY DEF NewPodEvictor, EvRecord
  <1>2. s \in Store
    BY DEF Store
  <1>3. Registered(list, s) \subseteq Controller
    BY DEF Registered
  <1>4. \A c \in Registered(list, s) : StatesOf(list, s, c) \in States
    BY <1>2, <1>3, StatesType
  <1>5. EvMaps(f, g)
    BY <1>3, <1>4 DEF EvMaps, RegisteredPods
  <1>6. \A c \in DOMAIN g : g[c] = StatesOf(list, s, c)
    OBVIOUS
  <1>. HIDE DEF f, g
  <1>. QED  BY <1>1, <1>5, <1>6

(* A pod that was listed as Pending is not counted, any other one is.      *)
Counted(g, h, c, pending) ==
    IF pending THEN h = g
    ELSE HasAllowance(g[c]) /\ h[c] = [g[c] EXCEPT !.evicted = @ + 1]

LEMMA CountedMaps ==
    ASSUME NEW f, NEW g, EvMaps(f, g), NEW list, NEW o,
           Evictable(EvRecord(f, g), list, o)
    PROVE  \E h : /\ CountEviction(EvRecord(f, g), list, o) = EvRecord(f, h)
                  /\ EvMaps(f, h)
                  /\ DOMAIN h = DOMAIN g /\ f[o] \in DOMAIN g
                  /\ Counted(g, h, f[o], Pending(list, o))
  <1>1. /\ EvRecord(f, g).podControllerMap = f /\ EvRecord(f, g).controllerStatesMap = g
        /\ o \in DOMAIN f /\ f[o] \in DOMAIN g
    BY DEF EvRecord, Evictable, EvMaps
  <1>2. CASE Pending(list, o)
    BY <1>1, <1>2 DEF CountEviction, Counted
  <1>3. CASE ~Pending(list, o)
    <2>. DEFINE c == f[o]
                t == [g[c] EXCEPT !.evicted = @ + 1]
                h == [g EXCEPT ![c] = t]
    <2>1. HasAllowance(g[c])
      BY <1>1, <1>3 DEF Evictable
    <2>2. CountEviction(EvRecord(f, g), list, o)
            = [EvRecord(f, g) EXCEPT !.controllerStatesMap = h]
      BY <1>1, <1>3 DEF CountEviction
    <2>3. t \in States
      BY <1>1 DEF EvMaps, States
    <2>. HIDE DEF t
    <2>4. DOMAIN h = DOMAIN g /\ h[c] = t /\ EvMaps(f, h)
      BY <1>1, <2>3 DEF EvMaps
    <2>. HIDE DEF h
    <2>5. CountEviction(EvRecord(f, g), list, o) = EvRecord(f, h)
      BY <2>2 DEF EvRecord
    <2>. QED  BY <1>1, <1>3, <2>1, <2>4, <2>5 DEF t, Counted
  <1>. QED  BY <1>2, <1>3

-----------------------------------------------------------------------------
(* What a step leaves alone keeps its conjunct.                            *)

LEMMA ObjectsStay == ASSUME ObjectsInv, UNCHANGED <<mpa, older>> PROVE ObjectsInv'
  BY DEF ObjectsInv

LEMMA ClusterStays ==
    ASSUME ClusterInv, UNCHANGED <<replicas, pods, load>>
    PROVE  ClusterInv'
  BY DEF ClusterInv

LEMMA RcmStays == ASSUME RcmInv, UNCHANGED <<mpa, rcm>> PROVE RcmInv'
  BY DEF RcmInv

LEMMA UpdStays == ASSUME UpdInv, UNCHANGED upd PROVE UpdInv'
  BY DEF UpdInv

(* A tick of either procedure: the server's version becomes the older one. *)
LEMMA TickKeeps ==
    ASSUME ObjectsInv, ClusterInv, older' = mpa,
           UNCHANGED <<mpa, replicas, pods, load>>
    PROVE  ObjectsInv' /\ ClusterInv'
  BY DEF ObjectsInv, ClusterInv

LEMMA InitInv == Init => Inv
  <1>. SUFFICES ASSUME Init PROVE Inv
    OBVIOUS
  <1>1. ObjectsInv
    BY DEF Init, ObjectsInv, Mpa, Conditions
  <1>2. ClusterInv
    BY ControlLoopAssumption DEF Init, ClusterInv, PodStates, Requests
  <1>. QED  BY <1>1, <1>2 DEF Init, Inv, RcmInv, UpdInv

(* The recommender.                                                        *)
LEMMA ComputedKeeps ==
    ASSUME ObjectsInv, NEW m \in Listed, NEW out, Computed(m, out), UNCHANGED mpa,
           out.action = "apply" => out.plan \in Plans
    PROVE  RcmInv'
  <1>1. m \in Mpa
    BY ListedInv
  <1>2. rcm' = RcmRecord(m, m = mpa, out)
    BY DEF Computed, RcmRecord
  <1>3. (m = mpa) \in BOOLEAN
    OBVIOUS
  <1>. QED  BY <1>1, <1>2, <1>3 DEF RcmInv

LEMMA WriteStatusKeeps == ASSUME Inv, WriteStatus PROVE Inv' /\ mpa'.mode = mpa.mode
  <1>1. PICK m, current, out :
            /\ m \in Mpa /\ current \in BOOLEAN
            /\ rcm = RcmRecord(m, current, out)
            /\ current => m = mpa
            /\ out.action = "apply" => out.plan \in Plans
    BY DEF Inv, RcmInv, WriteStatus, CanWrite, RestOfRcm
  <1>2. mpa' = Written(m, out) /\ m = mpa
    BY <1>1 DEF WriteStatus, CanWrite, RcmRecord
  <1>3. mpa' \in Mpa /\ mpa'.mode = mpa.mode
    BY <1>1, <1>2, WrittenType
  <1>4. ObjectsInv'
    BY <1>3 DEF WriteStatus, Inv, ObjectsInv
  <1>5. RcmInv'
    BY DEF WriteStatus, RcmInv
  <1>. QED  BY <1>3, <1>4, <1>5, ClusterStays, UpdStays DEF WriteStatus, Inv

LEMMA RecommenderKeeps == ASSUME Inv, Recommender PROVE Inv' /\ mpa'.mode = mpa.mode
  <1>. USE DEF Inv
  <1>1. CASE Recommend
    <2>1. PICK m \in Listed, d \in Outcomes : Computed(m, d.out)
      BY <1>1 DEF Recommend
    <2>2. d.out.action = "apply" => d.out.plan \in Plans
      BY PlansFit
    <2>3. RcmInv'
      BY <1>1, <2>1, <2>2, ComputedKeeps DEF Recommend
    <2>. QED  BY <1>1, <2>3, TickKeeps, UpdStays DEF Recommend, RecommenderTicks
  <1>2. CASE RecommendFails
    <2>1. RcmInv'
      BY <1>2, ComputedKeeps DEF RecommendFails, Failed
    <2>. QED  BY <1>2, <2>1, TickKeeps, UpdStays DEF RecommendFails, RecommenderTicks
  <1>3. CASE RecommendNothing
    BY <1>3, TickKeeps, RcmStays, UpdStays DEF RecommendNothing, RecommenderTicks
  <1>4. CASE WriteStatus
    BY <1>4, WriteStatusKeeps
  <1>5. CASE WriteConflicts \/ RecommenderFails
    <2>1. RcmInv'
      BY <1>5 DEF WriteConflicts, RecommenderFails, RcmInv
    <2>. QED  BY <1>5, <2>1, ObjectsStay, ClusterStays, UpdStays
              DEF WriteConflicts, RecommenderFails
  <1>. QED  BY <1>1, <1>2, <1>3, <1>4, <1>5 DEF Recommender

(* The updater.                                                            *)
LEMMA SnapshotType ==
    ASSUME ClusterInv, NEW S \in Listings
    PROVE  Snapshot(S) \in PodList
  <1>1. S \in SUBSET Pod /\ \A o \in S : pods[o] # Absent
    BY DEF Listings, Living
  <1>2. "set" \in Controller
    BY ControlLoopAssumption
  <1>3. ASSUME NEW o \in S PROVE [controller |-> "set", phase |-> pods[o].phase] \in PodView
    BY <1>1, <1>2 DEF ClusterInv, PodStates, PodView, Phases
  <1>4. Snapshot(S) \in [S -> PodView]
    BY <1>3 DEF Snapshot
  <1>. QED  BY <1>1, <1>4 DEF PodList

LEMMA UpdateKeeps == ASSUME Inv, Update PROVE UpdInv'
  <1>1. PICK m \in Listed, S \in Listings :
            Eligible(m) /\ upd' = UpdScaling(m.rec, Snapshot(S))
    BY DEF Update, UpdScaling
  <1>2. m.rec \in Plans
    BY <1>1, ListedInv DEF Inv, Eligible, Mpa
  <1>3. Snapshot(S) \in PodList
    BY SnapshotType DEF Inv
  <1>. QED  BY <1>1, <1>2, <1>3 DEF UpdInv

LEMMA EvictingKeeps ==
    ASSUME UpdInv, upd.pc = "scaling", NEW stored \in SUBSET Nat, Evicting(stored)
    PROVE  UpdInv'
  <1>1. PICK p \in Plans, l \in PodList : upd = UpdScaling(p, l)
    BY DEF UpdInv, RestOfUpd, UpdEvicting
  <1>2. PICK n \in stored :
            LET ev == NewPodEvictor(upd.list, [c \in Controller |-> n]) IN
            upd' = UpdEvicting(upd.plan, upd.list, ev,
                               {o \in DOMAIN upd.list : Evictable(ev, upd.list, o)})
    BY DEF Evicting, UpdEvicting
  <1>. DEFINE e == NewPodEvictor(l, [c \in Controller |-> n])
              q == {o \in DOMAIN l : Evictable(e, l, o)}
  <1>3. upd.list = l /\ upd.plan = p
    BY <1>1 DEF UpdScaling
  <1>4. upd' = UpdEvicting(p, l, e, q)
    BY <1>2, <1>3
  <1>5. PICK f, g : e = EvRecord(f, g) /\ EvMaps(f, g)
    BY FreshMaps
  <1>. HIDE DEF e, q
  <1>. QED  BY <1>4, <1>5 DEF UpdInv

LEMMA EvictKeeps ==
    ASSUME Inv, NEW o \in Pod, Evict(o) \/ SkipPod(o)
    PROVE  UpdInv'
  <1>1. PICK p, q, f, g : \E l \in PodList :
            upd = UpdEvicting(p, l, EvRecord(f, g), q) /\ EvMaps(f, g)
    BY DEF Inv, UpdInv, Evict, SkipPod, RestOfUpd, UpdScaling
  <1>2. PICK l \in PodList : upd = UpdEvicting(p, l, EvRecord(f, g), q)
    BY <1>1
  <1>3. upd.list = l /\ upd.ev = EvRecord(f, g) /\ upd.queue = q /\ EvMaps(f, g)
    BY <1>1, <1>2 DEF UpdEvicting
  <1>4. CASE upd' = [upd EXCEPT !.queue = q \ {o}]
    <2>1. upd' = UpdEvicting(p, l, EvRecord(f, g), q \ {o})
      BY <1>2, <1>4 DEF UpdEvicting
    <2>. QED  BY <1>3, <2>1 DEF UpdInv
  <1>5. CASE /\ Evictable(EvRecord(f, g), l, o)
             /\ upd' = [upd EXCEPT !.queue = q \ {o},
                                   !.ev = CountEviction(EvRecord(f, g), l, o)]
    <2>1. PICK h : CountEviction(EvRecord(f, g), l, o) = EvRecord(f, h) /\ EvMaps(f, h)
      BY <1>3, <1>5, CountedMaps
    <2>2. upd' = [upd EXCEPT !.queue = q \ {o}, !.ev = EvRecord(f, h)]
      BY <1>5, <2>1
    <2>3. upd' = UpdEvicting(p, l, EvRecord(f, h), q \ {o})
      BY <1>2, <2>2 DEF UpdEvicting
    <2>. QED  BY <2>1, <2>3 DEF UpdInv
  <1>6. \/ upd' = [upd EXCEPT !.queue = q \ {o}]
        \/ /\ Evictable(EvRecord(f, g), l, o)
           /\ upd' = [upd EXCEPT !.queue = q \ {o}, !.ev = CountEviction(EvRecord(f, g), l, o)]
    BY <1>3 DEF Evict, SkipPod
  <1>. QED  BY <1>4, <1>5, <1>6

LEMMA UpdaterKeeps == ASSUME Inv, Updater PROVE Inv' /\ mpa' = mpa
  <1>. USE DEF Inv
  <1>0. replicas \in Nat
    BY ControlLoopAssumption DEF ClusterInv
  <1>1. CASE Update
    BY <1>1, UpdateKeeps, TickKeeps, RcmStays DEF Update, UpdaterTicks
  <1>2. CASE UpdateNothing
    BY <1>2, TickKeeps, RcmStays, UpdStays DEF UpdateNothing, UpdaterTicks
  <1>3. CASE Scale
    <2>1. upd.plan.num \in 0..MaxPods
      BY <1>3, PlanType DEF Scale, UpdInv, RestOfUpd, UpdScaling, UpdEvicting
    <2>2. upd.plan.num \in Nat
      BY <2>1, ControlLoopAssumption
    <2>3. UpdInv'
      BY <1>0, <1>3, <2>2, EvictingKeeps DEF Scale
    <2>4. ClusterInv'
      BY <1>3, <2>1 DEF Scale, ClusterInv
    <2>. QED  BY <1>3, <2>3, <2>4, ObjectsStay, RcmStays DEF Scale
  <1>4. CASE ScaleFails
    BY <1>0, <1>4, EvictingKeeps, ObjectsStay, ClusterStays, RcmStays DEF ScaleFails
  <1>5. ASSUME NEW o \in Pod, Evict(o) \/ SkipPod(o) PROVE Inv' /\ mpa' = mpa
    <2>1. ClusterInv'
      BY <1>5 DEF Evict, SkipPod, ClusterInv, PodStates
    <2>. QED  BY <1>5, <2>1, EvictKeeps, ObjectsStay, RcmStays DEF Evict, SkipPod
  <1>6. CASE EndPass \/ UpdaterCrashes
    <2>1. UpdInv'
      BY <1>6 DEF EndPass, UpdaterCrashes, UpdInv
    <2>. QED  BY <1>6, <2>1, ObjectsStay, ClusterStays, RcmStays DEF EndPass, UpdaterCrashes
  <1>. QED  BY <1>1, <1>2, <1>3, <1>4, <1>5, <1>6 DEF Updater

(* The cluster, the user and the load.                                     *)
LEMMA ClusterKeeps == ASSUME Inv, Cluster PROVE Inv' /\ mpa' = mpa
  <1>1. ClusterInv' /\ UNCHANGED <<mpa, older, rcm, upd>>
    <2>1. PICK o \in Pod : CreatePod(o) \/ CreateUnpatched(o) \/ DeletePod(o) \/ StartPod(o)
                            \/ PodDies(o)
      BY DEF Cluster
    <2>2. ASSUME NEW r \in Requests, Create(o, r)
          PROVE  ClusterInv' /\ UNCHANGED <<mpa, older, rcm, upd>>
      BY <2>2 DEF Create, Inv, ClusterInv, PodStates
    <2>3. CASE CreatePod(o)
      BY <2>2, <2>3, ListedInv, PatchedType DEF CreatePod, Inv
    <2>4. CASE CreateUnpatched(o)
      BY <2>2, <2>4 DEF CreateUnpatched, Requests
    <2>5. CASE DeletePod(o) \/ PodDies(o)
      BY <2>5 DEF DeletePod, PodDies, Inv, ClusterInv, PodStates
    <2>6. CASE StartPod(o)
      <3>1. pods[o] \in [phase : {"Pending", "Running"}, res : Requests]
        BY <2>6 DEF StartPod, Inv, ClusterInv, PodStates, Absent
      <3>2. [pods[o] EXCEPT !.phase = "Running"] \in PodStates
        BY <3>1 DEF PodStates
      <3>. QED  BY <2>6, <3>2 DEF StartPod, Inv, ClusterInv
    <2>. QED  BY <2>1, <2>3, <2>4, <2>5, <2>6
  <1>. QED  BY <1>1, ObjectsStay, RcmStays, UpdStays DEF Inv

LEMMA EditModeKeeps == ASSUME Inv, EditMode PROVE Inv'
  <1>1. ObjectsInv'
    BY DEF EditMode, Inv, ObjectsInv, Mpa
  <1>2. RcmInv'
    <2>1. CASE rcm = RestOfRcm
      BY <2>1 DEF EditMode, RcmInv, RestOfRcm
    <2>2. CASE rcm # RestOfRcm
      <3>1. PICK m, current, out :
                /\ m \in Mpa
                /\ rcm = RcmRecord(m, current, out)
                /\ out.action = "apply" => out.plan \in Plans
        BY <2>2 DEF Inv, RcmInv
      <3>2. rcm' = RcmRecord(m, FALSE, out)
        BY <3>1 DEF EditMode, RcmRecord
      <3>. QED  BY <3>1, <3>2 DEF RcmInv
    <2>. QED  BY <2>1, <2>2
  <1>. QED  BY <1>1, <1>2, ClusterStays, UpdStays DEF EditMode, Inv

LEMMA InvNext == Inv /\ [Next]_vars => Inv'
  <1>. SUFFICES ASSUME Inv, [Next]_vars PROVE Inv'
    OBVIOUS
  <1>1. CASE LoadMoves
    BY <1>1, ObjectsStay, RcmStays, UpdStays DEF LoadMoves, Inv, ClusterInv
  <1>2. CASE UNCHANGED vars
    BY <1>2, ObjectsStay, ClusterStays, RcmStays, UpdStays DEF vars, Inv
  <1>. QED  BY <1>1, <1>2, RecommenderKeeps, UpdaterKeeps, ClusterKeeps, EditModeKeeps DEF Next

LEMMA InvAlways == Spec => []Inv
  BY InitInv, InvNext, PTL DEF Spec

-----------------------------------------------------------------------------
(* The theorems that follow from the invariant.                            *)

(* The recommender's write carries the mode it listed, but never over one  *)
(* that the user has changed since.                                        *)
THEOREM EditsSurvive == Spec => NoEditUndone
  <1>1. Inv /\ [Next]_vars => [~EditMode => mpa'.mode = mpa.mode]_vars
    <2>. SUFFICES ASSUME Inv, Next, ~EditMode PROVE mpa'.mode = mpa.mode
      BY DEF vars
    <2>1. CASE LoadMoves
      BY <2>1 DEF LoadMoves
    <2>. QED  BY <2>1, RecommenderKeeps, UpdaterKeeps, ClusterKeeps DEF Next
  <1>. QED  BY <1>1, InvAlways, PTL DEF Spec, NoEditUndone

-----------------------------------------------------------------------------
(* Scaling to zero.                                                        *)

(* Of the loads none is an overload.                                       *)
PlansFound == \A d \in Outcomes : d.out.action = "apply" => d.out.plan # ZeroPlan

NotZero ==
    /\ mpa.rec # ZeroPlan /\ older.rec # ZeroPlan
    /\ replicas >= 1
    /\ rcm.pc = "writing" =>
          /\ rcm.listed.rec # ZeroPlan
          /\ rcm.out.action = "apply" => rcm.out.plan # ZeroPlan
    /\ upd.pc = "scaling" => upd.plan # ZeroPlan

LEMMA NotZeroPlan ==
    ASSUME NEW p \in Plans, p # ZeroPlan
    PROVE  p.num >= 1
  BY DEF Plans, Plan, podNumMin, podNumMax

LEMMA NotZeroRecommender ==
    ASSUME PlansFound, Inv, NotZero, Recommender
    PROVE  NotZero'
  <1>1. CASE Recommend
    <2>1. PICK m \in Listed, d \in Outcomes : Computed(m, d.out)
      BY <1>1 DEF Recommend
    <2>2. m.rec # ZeroPlan
      BY DEF Listed, NotZero
    <2>. QED  BY <1>1, <2>1, <2>2
              DEF PlansFound, Recommend, RecommenderTicks, Computed, NotZero
  <1>2. CASE RecommendFails
    BY <1>2 DEF RecommendFails, RecommenderTicks, Computed, Failed, Listed, NotZero
  <1>3. CASE RecommendNothing
    BY <1>3 DEF RecommendNothing, RecommenderTicks, NotZero
  <1>4. CASE WriteStatus
    <2>1. PICK m, current, out : m \in Mpa /\ rcm = RcmRecord(m, current, out)
      BY <1>4 DEF Inv, RcmInv, WriteStatus, CanWrite, RestOfRcm
    <2>2. mpa' = Written(m, out) /\ m.rec # ZeroPlan
          /\ (out.action = "apply" => out.plan # ZeroPlan)
      BY <1>4, <2>1 DEF WriteStatus, CanWrite, RcmRecord, NotZero
    <2>3. Written(m, out).rec # ZeroPlan
      BY <2>2 DEF Written, Mpa
    <2>. QED  BY <1>4, <2>2, <2>3 DEF WriteStatus, RestOfRcm, NotZero
  <1>5. CASE WriteConflicts \/ RecommenderFails
    BY <1>5 DEF WriteConflicts, RecommenderFails, RestOfRcm, NotZero
  <1>. QED  BY <1>1, <1>2, <1>3, <1>4, <1>5 DEF Recommender

LEMMA NotZeroUpdater ==
    ASSUME Inv, NotZero, Updater
    PROVE  NotZero'
  <1>1. CASE Update
    BY <1>1 DEF Update, UpdaterTicks, Listed, NotZero
  <1>2. CASE UpdateNothing
    BY <1>2 DEF UpdateNothing, UpdaterTicks, NotZero
  <1>3. CASE Scale
    <2>1. upd.plan \in Plans /\ upd.plan # ZeroPlan
      BY <1>3 DEF Scale, Inv, UpdInv, RestOfUpd, UpdScaling, UpdEvicting, NotZero
    <2>2. upd'.pc = "evicting" /\ replicas' >= 1
      BY <1>3, <2>1, NotZeroPlan DEF Scale, Evicting
    <2>. QED  BY <1>3, <2>2 DEF Scale, NotZero
  <1>4. CASE ScaleFails
    BY <1>4 DEF ScaleFails, Evicting, NotZero
  <1>5. ASSUME NEW o \in Pod, Evict(o) \/ SkipPod(o) PROVE NotZero'
    <2>1. upd'.pc = "evicting"
      BY <1>5 DEF Evict, SkipPod, Inv, UpdInv, RestOfUpd, UpdScaling, UpdEvicting
    <2>. QED  BY <1>5, <2>1 DEF Evict, SkipPod, NotZero
  <1>6. CASE EndPass \/ UpdaterCrashes
    BY <1>6 DEF EndPass, UpdaterCrashes, RestOfUpd, NotZero
  <1>. QED  BY <1>1, <1>2, <1>3, <1>4, <1>5, <1>6 DEF Updater

LEMMA NotZeroNext ==
    ASSUME PlansFound
    PROVE  Inv /\ NotZero /\ [Next]_vars => NotZero'
  <1>. SUFFICES ASSUME Inv, NotZero, [Next]_vars PROVE NotZero'
    OBVIOUS
  <1>1. CASE Cluster
    <2>1. UNCHANGED <<mpa, older, replicas, rcm, upd>>
      BY <1>1 DEF Cluster, CreatePod, CreateUnpatched, Create, DeletePod, StartPod, PodDies
    <2>. QED  BY <2>1 DEF NotZero
  <1>2. CASE EditMode
    <2>1. mpa'.rec = mpa.rec
      BY <1>2 DEF EditMode, Inv, ObjectsInv, Mpa
    <2>2. CASE rcm = RestOfRcm
      BY <1>2, <2>1, <2>2 DEF EditMode, RestOfRcm, NotZero
    <2>3. CASE rcm # RestOfRcm
      <3>1. PICK m, current, out : rcm = RcmRecord(m, current, out)
        BY <2>3 DEF Inv, RcmInv
      <3>2. rcm' = RcmRecord(m, FALSE, out)
        BY <1>2, <3>1 DEF EditMode, RcmRecord
      <3>. QED  BY <1>2, <2>1, <3>1, <3>2 DEF EditMode, RcmRecord, NotZero
    <2>. QED  BY <2>2, <2>3
  <1>3. CASE LoadMoves \/ UNCHANGED vars
    BY <1>3 DEF LoadMoves, vars, NotZero
  <1>. QED  BY <1>1, <1>2, <1>3, NotZeroRecommender, NotZeroUpdater DEF Next

(* As long as the calculator finds a plan for every load there may be, the *)
(* target keeps a replica, whichever plan the updater has listed.          *)
THEOREM NeverToZero ==
    ASSUME PlansFound
    PROVE  Spec => []NeverScaledToZero
  <1>1. Init => NotZero
    BY ControlLoopAssumption DEF Init, NotZero, RestOfRcm, RestOfUpd, ZeroPlan, NoPlan
  <1>2. Inv /\ NotZero /\ [Next]_vars => NotZero'
    BY NotZeroNext
  <1>3. NotZero => NeverScaledToZero
    BY DEF NotZero, NeverScaledToZero
  <1>. QED  BY <1>1, <1>2, <1>3, InvAlways, PTL DEF Spec

-----------------------------------------------------------------------------
(* The refinement of StatusDecisions.                                      *)

(* What is about to be written was calculated on the listed MPA, which was *)
(* in Auto mode.                                                           *)
DecisionInv ==
    rcm.pc = "writing" =>
        /\ rcm.listed.mode = "Auto"
        /\ rcm.out.action = "apply" =>
              \E d \in Outcomes : d.rec = rcm.listed.rec /\ d.out = rcm.out

LEMMA ComputedDecides ==
    ASSUME NEW m, NEW out, Computed(m, out), m.mode = "Auto",
           out.action = "apply" => \E d \in Outcomes : d.rec = m.rec /\ d.out = out
    PROVE  DecisionInv'
  <1>1. rcm'.listed = m /\ rcm'.out = out
    BY DEF Computed
  <1>2. m.mode = "Auto" /\ Outcomes' = Outcomes
    OBVIOUS
  <1>. QED  BY <1>1, <1>2 DEF DecisionInv

(* A write that finds the listed version still there is a decision on it.  *)
LEMMA WriteDecides ==
    ASSUME Inv, DecisionInv, WriteStatus
    PROVE  Decided!Next
  <1>1. PICK m, current, out : rcm = RcmRecord(m, current, out) /\ (current => m = mpa)
    BY DEF Inv, RcmInv, WriteStatus, CanWrite, RestOfRcm
  <1>2. /\ rcm.pc = "writing" /\ rcm.current /\ rcm.listed = mpa /\ rcm.out = out
        /\ mpa' = Written(mpa, out) /\ mpa.mode = "Auto"
    BY <1>1 DEF WriteStatus, CanWrite, RcmRecord, DecisionInv
  <1>3. CASE out.action = "apply"
    <2>1. PICK d \in Outcomes : d.rec = mpa.rec /\ d.out = out
      BY <1>2, <1>3 DEF DecisionInv
    <2>2. mpa' = [mpa EXCEPT !.rec = d.out.plan, !.condition = "RecommendationProvided"]
      BY <1>2, <1>3, <2>1 DEF Written
    <2>3. Decided!Provide(d)
      BY <1>2, <1>3, <2>1, <2>2 DEF Decided!Provide
    <2>. QED  BY <2>3 DEF Decided!Next
  <1>4. CASE out.action # "apply"
    BY <1>2, <1>4 DEF Written, Decided!Skip, Decided!Next
  <1>. QED  BY <1>3, <1>4

LEMMA RecommenderDecides ==
    ASSUME Inv, DecisionInv, Recommender
    PROVE  DecisionInv' /\ [Decided!Next]_mpa
  <1>1. CASE Recommend
    <2>1. PICK m \in Listed, d \in Outcomes :
              m.mode = "Auto" /\ d.rec = m.rec /\ Computed(m, d.out)
      BY <1>1 DEF Recommend
    <2>2. DecisionInv'
      BY <2>1, ComputedDecides
    <2>. QED  BY <1>1, <2>2 DEF Recommend
  <1>2. CASE RecommendFails
    <2>1. PICK m \in Listed : m.mode = "Auto" /\ Computed(m, Failed)
      BY <1>2 DEF RecommendFails
    <2>2. Failed.action # "apply"
      BY DEF Failed
    <2>3. DecisionInv'
      BY <2>1, <2>2, ComputedDecides
    <2>. QED  BY <1>2, <2>3 DEF RecommendFails
  <1>3. CASE RecommendNothing
    BY <1>3 DEF RecommendNothing, DecisionInv
  <1>4. CASE WriteStatus
    BY <1>4, WriteDecides DEF WriteStatus, RestOfRcm, DecisionInv
  <1>5. CASE WriteConflicts \/ RecommenderFails
    BY <1>5 DEF WriteConflicts, RecommenderFails, RestOfRcm, DecisionInv
  <1>. QED  BY <1>1, <1>2, <1>3, <1>4, <1>5 DEF Recommender

LEMMA EditSwitches ==
    ASSUME Inv, DecisionInv, EditMode
    PROVE  DecisionInv' /\ Decided!Next
  <1>1. Decided!Next
    BY DEF EditMode, Decided!Next, Decided!Switch
  <1>2. CASE rcm = RestOfRcm
    BY <1>1, <1>2 DEF EditMode, RestOfRcm, DecisionInv
  <1>3. CASE rcm # RestOfRcm
    <2>1. PICK m, current, out : rcm = RcmRecord(m, current, out)
      BY <1>3 DEF Inv, RcmInv
    <2>2. rcm' = RcmRecord(m, FALSE, out)
      BY <2>1 DEF EditMode, RcmRecord
    <2>. QED  BY <1>1, <2>1, <2>2 DEF RcmRecord, DecisionInv
  <1>. QED  BY <1>1, <1>2, <1>3

LEMMA RestKeepsDecision ==
    ASSUME Inv, DecisionInv, Updater \/ Cluster \/ LoadMoves \/ UNCHANGED vars
    PROVE  DecisionInv' /\ UNCHANGED mpa
  <1>1. UNCHANGED <<mpa, rcm>>
    <2>1. CASE Updater
      BY <2>1, UpdaterKeeps
         DEF Updater, Update, UpdateNothing, Scale, ScaleFails, Evict, SkipPod, EndPass,
             UpdaterCrashes
    <2>2. CASE Cluster
      BY <2>2 DEF Cluster, CreatePod, CreateUnpatched, Create, DeletePod, StartPod, PodDies
    <2>. QED  BY <2>1, <2>2 DEF LoadMoves, vars
  <1>. QED  BY <1>1 DEF DecisionInv

(* Every step of the three components, the cluster and the user changes    *)
(* the status as StatusDecisions does or leaves it alone: no plan appears  *)
(* that was calculated for another one, or for an MPA that is off now.     *)
THEOREM DecisionsAreAtomic == Spec => DecisionsAtomic
  <1>1. Init => DecisionInv /\ Decided!Init
    BY DEF Init, RestOfRcm, DecisionInv, Decided!Init
  <1>2. Inv /\ DecisionInv /\ [Next]_vars => DecisionInv' /\ [Decided!Next]_mpa
    BY RecommenderDecides, EditSwitches, RestKeepsDecision DEF Next
  <1>. QED  BY <1>1, <1>2, InvAlways, PTL DEF Spec, DecisionsAtomic, Decided!Spec

-----------------------------------------------------------------------------
(* The guarded pods.  A pass works on a list taken after the target came   *)
(* to rest, and the number of replicas has not fallen since: so the        *)
(* listed pods are as many as the store has them at most, and if as many   *)
(* have started, they are all there is.  Only then does the evictor count; *)
(* before it has, every guarded pod that was listed as started is up, and  *)
(* the one that was not is the only one that is down.                      *)
StartedIn(l) == {o \in DOMAIN l : ~Pending(l, o)}

Up(o) == pods[o].phase = "Running"

OneNotStarted(l) == \A o1, o2 \in guarded \ StartedIn(l) : o1 = o2

StartedAreUp(l) == \A o \in guarded \cap StartedIn(l) : Up(o)

ListGuards(l) ==
    /\ DOMAIN l \subseteq 0..(replicas - 1)
    /\ OneNotStarted(l)
    /\ StartedAreUp(l)

StateGuards(l, s) ==
    /\ OneNotStarted(l)
    /\ s.evictable = 0 /\ s.running <= s.configured
    /\ s.running = s.configured => guarded \subseteq StartedIn(l)
    /\ IF s.evicted = 0 THEN StartedAreUp(l) ELSE s.running = s.configured

PassGuards ==
    /\ upd.pc = "scaling" => ListGuards(upd.list)
    /\ upd.pc = "evicting" =>
          \A c \in DOMAIN upd.ev.controllerStatesMap :
              StateGuards(upd.list, upd.ev.controllerStatesMap[c])

GuardInv ==
    /\ guarded \subseteq 0..(replicas - 1)
    /\ OneAtATime
    /\ guarded # {} => Living \subseteq 0..(replicas - 1) /\ PassGuards

(* What changes none of the guarded pods, or takes the guard from those it *)
(* changes.                                                                *)
LEMMA GuardStays ==
    ASSUME GuardInv, UNCHANGED <<replicas, upd>>, guarded' \subseteq guarded,
           \A o \in guarded' : Up(o) => Up(o)',
           Living' \subseteq Living \cup 0..(replicas - 1)
    PROVE  GuardInv'
  <1>1. \A l : OneNotStarted(l) => OneNotStarted(l)'
    BY DEF OneNotStarted, StartedIn, Pending
  <1>2. \A l : StartedAreUp(l) => StartedAreUp(l)'
    BY DEF StartedAreUp, StartedIn, Pending
  <1>3. ASSUME PassGuards PROVE PassGuards'
    <2>1. upd.pc = "scaling" => ListGuards(upd.list)'
      BY <1>1, <1>2, <1>3 DEF PassGuards, ListGuards
    <2>2. ASSUME upd.pc = "evicting", NEW c \in DOMAIN upd.ev.controllerStatesMap
          PROVE  StateGuards(upd.list, upd.ev.controllerStatesMap[c])'
      <3>1. StateGuards(upd.list, upd.ev.controllerStatesMap[c])
        BY <1>3, <2>2 DEF PassGuards
      <3>2. guarded' \subseteq guarded /\ StartedIn(upd.list)' = StartedIn(upd.list)
        BY DEF StartedIn, Pending
      <3>. QED  BY <1>1, <1>2, <3>1, <3>2 DEF StateGuards
    <2>. QED  BY <2>1, <2>2 DEF PassGuards
  <1>4. OneAtATime'
    BY DEF GuardInv, OneAtATime, Up
  <1>. QED  BY <1>3, <1>4 DEF GuardInv

LEMMA GuardDropped == ASSUME guarded' = {} PROVE GuardInv'
  BY DEF GuardInv, OneAtATime

(* A target at rest is as OneAtATime wants it, and there is no pass.       *)
LEMMA GuardTaken ==
    ASSUME AtRest', guarded' = 0..(replicas' - 1), replicas' \in 0..MaxPods
    PROVE  GuardInv'
  <1>1. /\ upd'.pc = "idle"
        /\ \A o \in Pod : pods'[o] # Absent <=> o < replicas'
        /\ \A o \in Pod : pods'[o] # Absent => pods'[o].phase = "Running"
    BY DEF AtRest, Settled, Living
  <1>2. \A o \in guarded' : pods'[o].phase = "Running"
    <2>1. PICK r \in 0..MaxPods : r = replicas'
      OBVIOUS
    <2>2. MaxPods \in Nat /\ Pod = 0..(MaxPods - 1)
      BY ControlLoopAssumption
    <2>3. \A o \in 0..(r - 1) : o \in Pod /\ o < r
      BY <2>2
    <2>. QED  BY <1>1, <2>1, <2>3
  <1>3. Living' \subseteq 0..(replicas' - 1)
    BY <1>1, ControlLoopAssumption DEF Living
  <1>. QED  BY <1>1, <1>2, <1>3 DEF GuardInv, PassGuards, OneAtATime

(* A tick takes its list while the target may be at work, but of the       *)
(* guarded pods at most one is down.                                       *)
LEMMA GuardUpdate == ASSUME Inv, GuardInv, Update PROVE GuardInv'
  <1>0. PICK m \in Listed, S \in Listings : upd' = UpdScaling(m.rec, Snapshot(S))
    BY DEF Update, UpdScaling
  <1>1. PICK l : l = Snapshot(S)
    OBVIOUS
  <1>2. /\ S \subseteq Living /\ DOMAIN l = S
        /\ \A o \in Living : pods[o].phase = "Running" => o \in S
        /\ \A o \in S : Pending(l, o) <=> pods[o].phase = "Pending"
    BY <1>1 DEF Listings, Snapshot, Pending
  <1>3. \A o \in S : pods[o].phase \in {"Pending", "Running"}
    BY <1>2 DEF Inv, ClusterInv, PodStates, Living
  <1>4. guarded \subseteq Pod
    BY ControlLoopAssumption DEF Inv, ClusterInv, GuardInv
  <1>5. \A o \in guarded : o \in StartedIn(l) <=> Up(o)
    BY <1>2, <1>3, <1>4 DEF StartedIn, Up, Living, Absent
  <1>6. UNCHANGED <<replicas, pods, guarded>>
    BY DEF Update
  <1>7. upd'.pc = "scaling" /\ upd'.list = l
    BY <1>0, <1>1 DEF UpdScaling
  <1>8. OneNotStarted(l) /\ StartedAreUp(l)
    BY <1>5 DEF OneNotStarted, StartedAreUp, GuardInv, OneAtATime, Up
  <1>9. ASSUME guarded # {} PROVE ListGuards(l)'
    BY <1>2, <1>6, <1>8, <1>9
       DEF ListGuards, OneNotStarted, StartedAreUp, StartedIn, Pending, Up, GuardInv
  <1>10. OneAtATime' /\ Living' = Living
    BY <1>6 DEF GuardInv, OneAtATime, Living
  <1>. QED  BY <1>6, <1>7, <1>9, <1>10 DEF GuardInv, PassGuards

(* The counts of a list: no more have started than the store wants, and if *)
(* as many have, they are all there is.                                    *)
LEMMA StartedCount ==
    ASSUME NEW l \in PodList, NEW r \in Nat, DOMAIN l \subseteq 0..(r - 1),
           NEW store \in Store, NEW c \in Controller, store[c] >= r,
           NEW s, s = StatesOf(l, store, c)
    PROVE  /\ s.evicted = 0 /\ s.evictable = 0
           /\ s.running <= s.configured
           /\ s.running = s.configured => 0..(r - 1) \subseteq StartedIn(l)
  <1>1. c = "set" /\ KindOf[c] # "Job"
    BY ControlLoopAssumption
  <1>2. ControllerPods(l, c) = DOMAIN l
    BY <1>1, ControlLoopAssumption, ListType DEF ControllerPods, PodView
  <1>3. ControllerPods(l, c) \ PendingPods(l, c) = StartedIn(l)
    BY <1>2 DEF PendingPods, StartedIn, Pending
  <1>4. s.running = Cardinality(StartedIn(l)) /\ s.configured = store[c]
    BY <1>1, <1>3, GroupType DEF StatesOf, Configured
  <1>5. IsFiniteSet(0..(r - 1)) /\ Cardinality(0..(r - 1)) = r
    BY FS_Interval
  <1>6. StartedIn(l) \in SUBSET (0..(r - 1))
    BY DEF StartedIn
  <1>7. /\ Cardinality(StartedIn(l)) \in Nat
        /\ Cardinality(StartedIn(l)) <= r
        /\ Cardinality(StartedIn(l)) = r => StartedIn(l) = 0..(r - 1)
    BY <1>5, <1>6, FS_Subset, FS_CardinalityType
  <1>8. s.evicted = 0 /\ s.evictable = 0
    <2>1. store[c] \in Nat
      BY DEF Store
    <2>2. store[c] * 0 = 0 /\ 0 \div 100 = 0
      BY <2>1
    <2>. QED  BY <1>1, <2>2 DEF StatesOf, Configured, Factory, NewPodEvictorFactory
  <1>9. store[c] \in Nat
    BY DEF Store
  <1>. QED  BY <1>4, <1>9, <1>7, <1>8

(* The counting starts with a scaling that leaves the guarded pods alone.  *)
LEMMA GuardScaled ==
    ASSUME Inv, GuardInv, upd.pc = "scaling", guarded' = guarded, UNCHANGED pods,
           replicas' \in Nat, replicas' >= replicas,
           NEW stored \in SUBSET {n \in Nat : n >= replicas}, Evicting(stored)
    PROVE  GuardInv'
  <1>1. PICK p \in Plans, l \in PodList : upd = UpdScaling(p, l)
    BY DEF Inv, UpdInv, RestOfUpd, UpdEvicting
  <1>2. PICK n \in stored :
            upd' = UpdEvicting(upd.plan, upd.list, NewPodEvictor(upd.list, [c \in Controller |-> n]),
                       {o \in DOMAIN upd.list :
                           Evictable(NewPodEvictor(upd.list, [c \in Controller |-> n]), upd.list, o)})
    BY DEF Evicting, UpdEvicting
  <1>3. upd.list = l
    BY <1>1 DEF UpdScaling
  <1>4. PICK f, g : /\ NewPodEvictor(l, [c \in Controller |-> n]) = EvRecord(f, g)
                    /\ EvMaps(f, g)
                    /\ \A c \in DOMAIN g : g[c] = StatesOf(l, [d \in Controller |-> n], c)
    BY FreshMaps
  <1>5. upd'.pc = "evicting" /\ upd'.list = l /\ upd'.ev.controllerStatesMap = g
    BY <1>2, <1>3, <1>4 DEF UpdEvicting, EvRecord
  <1>6. replicas \in Nat
    BY ControlLoopAssumption DEF Inv, ClusterInv
  <1>7. ASSUME guarded # {}, NEW c \in DOMAIN g PROVE StateGuards(l, g[c])'
    <2>1. ListGuards(l) /\ guarded \subseteq 0..(replicas - 1)
      BY <1>1, <1>3, <1>7 DEF GuardInv, PassGuards, UpdScaling
    <2>2. c \in Controller
      BY <1>4, <1>7 DEF EvMaps
    <2>3. /\ g[c].evicted = 0 /\ g[c].evictable = 0
          /\ g[c].running <= g[c].configured
          /\ g[c].running = g[c].configured => 0..(replicas - 1) \subseteq StartedIn(l)
      <3>1. PICK store : store = [d \in Controller |-> n]
        OBVIOUS
      <3>2. DOMAIN l \subseteq 0..(replicas - 1)
        BY <2>1 DEF ListGuards
      <3>3. g[c] = StatesOf(l, store, c)
        BY <1>4, <1>7, <3>1
      <3>4. store \in Store /\ store[c] >= replicas
        BY <2>2, <3>1 DEF Store
      <3>. QED  BY <1>6, <2>2, <3>2, <3>3, <3>4, StartedCount
    <2>4. OneNotStarted(l)' /\ StartedAreUp(l)'
      BY <2>1 DEF ListGuards, OneNotStarted, StartedAreUp, StartedIn, Pending, Up
    <2>. QED  BY <2>1, <2>3, <2>4 DEF StateGuards, StartedIn, Pending
  <1>8. OneAtATime' /\ Living' = Living
    BY DEF GuardInv, OneAtATime, Living
  <1>9. \A x \in 0..(replicas - 1) : x \in 0..(replicas' - 1)
    <2>1. PICK r \in Nat : r = replicas
      BY <1>6
    <2>2. PICK s \in Nat : s = replicas'
      OBVIOUS
    <2>3. s >= r
      BY <2>1, <2>2
    <2>4. \A x \in 0..(r - 1) : x \in 0..(s - 1)
      BY <2>3
    <2>. QED  BY <2>1, <2>2, <2>4
  <1>. QED  BY <1>5, <1>7, <1>8, <1>9 DEF GuardInv, PassGuards

(* An eviction.  Either the list had all pods as started, which were up    *)
(* until this one; or this one was the pod that had not started.           *)
LEMMA GuardEvicted ==
    ASSUME Inv, GuardInv, NEW o \in Pod, Evict(o)
    PROVE  GuardInv'
  <1>1. PICK p, q, f, g : \E l \in PodList :
            upd = UpdEvicting(p, l, EvRecord(f, g), q) /\ EvMaps(f, g)
    BY DEF Inv, UpdInv, Evict, RestOfUpd, UpdScaling
  <1>2. PICK l \in PodList : upd = UpdEvicting(p, l, EvRecord(f, g), q)
    BY <1>1
  <1>3. /\ upd.list = l /\ upd.ev = EvRecord(f, g) /\ upd.pc = "evicting" /\ EvMaps(f, g)
        /\ upd.ev.controllerStatesMap = g
    BY <1>1, <1>2 DEF UpdEvicting, EvRecord
  <1>4. PICK h : /\ CountEviction(EvRecord(f, g), l, o) = EvRecord(f, h)
                 /\ DOMAIN h = DOMAIN g /\ f[o] \in DOMAIN g
                 /\ Counted(g, h, f[o], Pending(l, o))
    BY <1>3, CountedMaps DEF Evict
  <1>5. CASE pods[o] = Absent
    <2>1. upd' = [upd EXCEPT !.queue = @ \ {o}] /\ UNCHANGED <<replicas, pods, guarded>>
      BY <1>5 DEF Evict
    <2>2. upd'.pc = upd.pc /\ upd'.list = upd.list /\ upd'.ev = upd.ev
      BY <1>2, <2>1 DEF UpdEvicting
    <2>. QED  BY <1>3, <2>1, <2>2
              DEF GuardInv, PassGuards, StateGuards, OneNotStarted, StartedAreUp, StartedIn,
                  Pending, Up, OneAtATime, Living
  <1>6. CASE pods[o] # Absent
    <2>1. /\ upd' = [upd EXCEPT !.queue = @ \ {o}, !.ev = EvRecord(f, h)]
          /\ pods' = [pods EXCEPT ![o] = Absent]
          /\ UNCHANGED <<replicas, guarded>>
      BY <1>3, <1>4, <1>6 DEF Evict
    <2>2. upd'.pc = "evicting" /\ upd'.list = l /\ upd'.ev.controllerStatesMap = h
      BY <1>2, <2>1 DEF UpdEvicting, EvRecord
    <2>3. SUFFICES ASSUME guarded # {}
                   PROVE  OneAtATime' /\ Living' \subseteq Living /\ PassGuards'
      BY <2>1 DEF GuardInv, OneAtATime
    <2>4. guarded \subseteq Pod
      BY ControlLoopAssumption DEF Inv, ClusterInv, GuardInv
    <2>5. pods \in [Pod -> PodStates]
      BY DEF Inv, ClusterInv
    <2>6. /\ \A x \in Pod \ {o} : pods'[x] = pods[x]
          /\ pods'[o] = Absent
      BY <2>1, <2>5
    <2>7. Living' \subseteq Living
      BY <1>6, <2>6 DEF Living
    <2>. DEFINE c == f[o]
    <2>8. c \in DOMAIN g /\ g[c] \in States /\ StateGuards(l, g[c])
      BY <1>3, <1>4, <2>3 DEF EvMaps, GuardInv, PassGuards
    <2>9. DOMAIN h = {c}
      <3>1. Controller = {"set"}
        BY ControlLoopAssumption
      <3>. QED  BY <1>3, <1>4, <3>1 DEF EvMaps
    <2>10. CASE Pending(l, o)
      <3>1. h = g /\ o \notin StartedIn(l)
        BY <1>4, <2>10 DEF Counted, StartedIn
      <3>2. OneNotStarted(l)' /\ (StartedAreUp(l) => StartedAreUp(l)')
        BY <2>1, <2>4, <2>6, <2>8, <3>1
           DEF StateGuards, OneNotStarted, StartedAreUp, StartedIn, Pending, Up
      <3>3. StateGuards(l, h[c])'
        BY <2>1, <2>8, <3>1, <3>2 DEF StateGuards, StartedIn, Pending
      <3>4. OneAtATime'
        <4>1. CASE o \notin guarded
          BY <2>1, <2>4, <2>6, <4>1 DEF OneAtATime, GuardInv
        <4>2. CASE o \in guarded
          <5>1. OneNotStarted(l) /\ StartedAreUp(l)
            BY <2>8, <3>1, <4>2 DEF StateGuards
          <5>2. \A x \in guarded : x \in StartedIn(l) => pods'[x].phase = "Running"
            BY <2>4, <2>6, <3>1, <5>1 DEF StartedAreUp, Up
          <5>. QED  BY <2>1, <5>1, <5>2 DEF OneNotStarted, OneAtATime
        <4>. QED  BY <4>1, <4>2
      <3>. QED  BY <2>2, <2>7, <2>9, <3>3, <3>4 DEF PassGuards
    <2>11. CASE ~Pending(l, o)
      <3>1. HasAllowance(g[c]) /\ h[c] = [g[c] EXCEPT !.evicted = @ + 1]
        BY <1>4, <2>11 DEF Counted
      <3>2. g[c].running = g[c].configured /\ g[c].evicted = 0
        BY <2>8, <3>1 DEF HasAllowance, StateGuards, States
      <3>3. h[c].evicted = 1 /\ h[c].running = g[c].running
            /\ h[c].configured = g[c].configured /\ h[c].evictable = g[c].evictable
        BY <2>8, <3>1, <3>2 DEF States
      <3>4. guarded \subseteq StartedIn(l) /\ StartedAreUp(l)
        BY <2>8, <3>2 DEF StateGuards
      <3>5. StateGuards(l, h[c])'
        BY <2>1, <2>8, <3>2, <3>3, <3>4 DEF StateGuards, OneNotStarted, StartedIn, Pending
      <3>6. \A x \in guarded : x # o => pods'[x].phase = "Running"
        BY <2>4, <2>6, <3>4 DEF StartedAreUp, Up
      <3>7. OneAtATime'
        BY <2>1, <3>6 DEF OneAtATime
      <3>. QED  BY <2>2, <2>7, <2>9, <3>5, <3>7 DEF PassGuards
    <2>. QED  BY <2>10, <2>11
  <1>. QED  BY <1>5, <1>6

LEMMA GuardUpdater == ASSUME Inv, GuardInv, Updater PROVE GuardInv'
  <1>0. replicas \in Nat /\ MaxPods \in Nat
    BY ControlLoopAssumption DEF Inv, ClusterInv
  <1>1. CASE Update
    BY <1>1, GuardUpdate
  <1>2. CASE UpdateNothing
    BY <1>2, GuardStays DEF UpdateNothing, Up, Living
  <1>3. CASE Scale
    <2>1. upd.plan.num \in Nat
      BY <1>0, <1>3, PlanType DEF Scale, Inv, UpdInv, RestOfUpd, UpdScaling, UpdEvicting
    <2>2. CASE upd.plan.num < replicas
      BY <1>3, <2>2, GuardDropped DEF Scale
    <2>3. CASE upd.plan.num >= replicas
      BY <1>0, <1>3, <2>1, <2>3, GuardScaled DEF Scale
    <2>. QED  BY <1>0, <2>1, <2>2, <2>3
  <1>4. CASE ScaleFails
    BY <1>0, <1>4, GuardScaled DEF ScaleFails
  <1>5. ASSUME NEW o \in Pod, Evict(o) PROVE GuardInv'
    BY <1>5, GuardEvicted
  <1>6. ASSUME NEW o \in Pod, SkipPod(o) PROVE GuardInv'
    <2>1. upd'.pc = upd.pc /\ upd'.list = upd.list /\ upd'.ev = upd.ev
      BY <1>6 DEF SkipPod, Inv, UpdInv, RestOfUpd, UpdScaling, UpdEvicting
    <2>. QED  BY <1>6, <2>1
              DEF SkipPod, GuardInv, PassGuards, StateGuards, OneNotStarted, StartedAreUp,
                  StartedIn, Pending, Up, OneAtATime, Living
  <1>7. CASE EndPass \/ UpdaterCrashes
    <2>1. replicas' \in 0..MaxPods
      BY <1>7 DEF EndPass, UpdaterCrashes, Inv, ClusterInv
    <2>2. CASE AtRest'
      BY <1>7, <2>1, <2>2, GuardTaken DEF EndPass, UpdaterCrashes, GuardWhenAtRest
    <2>3. CASE ~AtRest'
      <3>1. UNCHANGED <<replicas, pods, guarded>> /\ upd'.pc = "idle"
        BY <1>7, <2>3 DEF EndPass, UpdaterCrashes, GuardWhenAtRest, RestOfUpd
      <3>. QED  BY <3>1 DEF GuardInv, PassGuards, OneAtATime, Living
    <2>. QED  BY <2>2, <2>3
  <1>. QED  BY <1>1, <1>2, <1>3, <1>4, <1>5, <1>6, <1>7 DEF Updater

LEMMA GuardCluster == ASSUME Inv, GuardInv, Cluster PROVE GuardInv'
  <1>1. PICK o \in Pod : CreatePod(o) \/ CreateUnpatched(o) \/ DeletePod(o) \/ StartPod(o)
                            \/ PodDies(o)
    BY DEF Cluster
  <1>2. /\ pods \in [Pod -> PodStates] /\ replicas \in 0..MaxPods
        /\ guarded \subseteq 0..(replicas - 1) /\ guarded \subseteq Pod
    BY ControlLoopAssumption DEF Inv, ClusterInv, GuardInv
  <1>3. CASE CreatePod(o) \/ CreateUnpatched(o)
    <2>1. /\ pods[o] = Absent /\ o < replicas /\ UNCHANGED <<replicas, upd, guarded>>
          /\ \A x \in Pod \ {o} : pods'[x] = pods[x]
      BY <1>2, <1>3 DEF CreatePod, CreateUnpatched, Create
    <2>2. o \in 0..(replicas - 1)
      BY <1>2, <2>1, ControlLoopAssumption
    <2>3. Living' \subseteq Living \cup 0..(replicas - 1)
      BY <2>1, <2>2 DEF Living
    <2>4. \A x \in guarded : Up(x) => Up(x)'
      BY <1>2, <2>1 DEF Up, Absent
    <2>. QED  BY <2>1, <2>3, <2>4, GuardStays
  <1>4. CASE DeletePod(o) \/ StartPod(o)
    <2>1. UNCHANGED <<replicas, upd>> /\ GuardWhenAtRest
      BY <1>4 DEF DeletePod, StartPod
    <2>2. CASE AtRest'
      BY <1>2, <2>1, <2>2, GuardTaken DEF GuardWhenAtRest
    <2>3. CASE ~AtRest'
      <3>1. guarded' = guarded
        BY <2>1, <2>3 DEF GuardWhenAtRest
      <3>2. \A x \in guarded : Up(x) => Up(x)'
        <4>1. CASE StartPod(o)
          BY <1>2, <4>1 DEF StartPod, Up
        <4>2. CASE DeletePod(o)
          <5>1. o \notin guarded
            BY <1>2, <4>2, ControlLoopAssumption DEF DeletePod
          <5>. QED  BY <1>2, <4>2, <5>1 DEF DeletePod, Up
        <4>. QED  BY <1>4, <4>1, <4>2
      <3>3. Living' \subseteq Living
        BY <1>2, <1>4 DEF DeletePod, StartPod, Living, Absent
      <3>. QED  BY <2>1, <3>1, <3>2, <3>3, GuardStays
    <2>. QED  BY <2>2, <2>3
  <1>5. CASE PodDies(o)
    <2>1. /\ UNCHANGED <<replicas, upd>> /\ guarded' = guarded \ {o}
          /\ \A x \in Pod \ {o} : pods'[x] = pods[x]
      BY <1>2, <1>5 DEF PodDies
    <2>2. \A x \in guarded' : Up(x) => Up(x)'
      BY <1>2, <2>1 DEF Up
    <2>3. Living' \subseteq Living
      BY <1>5, <2>1 DEF PodDies, Living
    <2>. QED  BY <2>1, <2>2, <2>3, GuardStays
  <1>. QED  BY <1>1, <1>3, <1>4, <1>5

LEMMA GuardNext == Inv /\ GuardInv /\ [Next]_vars => GuardInv'
  <1>. SUFFICES ASSUME Inv, GuardInv, [Next]_vars PROVE GuardInv'
    OBVIOUS
  <1>1. CASE Recommender \/ EditMode \/ LoadMoves \/ UNCHANGED vars
    <2>1. UNCHANGED <<replicas, pods, upd, guarded>>
      BY <1>1 DEF Recommender, Recommend, RecommendFails, RecommendNothing, WriteStatus,
                  WriteConflicts, RecommenderFails, EditMode, LoadMoves, vars
    <2>. QED  BY <2>1, GuardStays DEF Up, Living
  <1>. QED  BY <1>1, GuardUpdater, GuardCluster DEF Next

LEMMA GuardAlways == Spec => []GuardInv
  <1>1. Init => GuardInv
    <2>. SUFFICES ASSUME Init PROVE GuardInv
      OBVIOUS
    <2>1. replicas \in 1..MaxPods /\ Pod = 0..(MaxPods - 1) /\ MaxPods \in Nat
      BY ControlLoopAssumption DEF Init
    <2>2. \A o \in Pod : pods[o] = IF o < replicas
                                  THEN [phase |-> "Running", res |-> OwnRequest] ELSE Absent
      BY DEF Init
    <2>3. guarded = 0..(replicas - 1) /\ upd.pc = "idle"
      BY DEF Init, RestOfUpd
    <2>4. \A o \in 0..(replicas - 1) : o \in Pod /\ o < replicas
      BY <2>1
    <2>5. \A o \in guarded : pods[o].phase = "Running"
      BY <2>2, <2>3, <2>4
    <2>6. Living \subseteq 0..(replicas - 1)
      BY <2>1, <2>2 DEF Living
    <2>. QED  BY <2>3, <2>5, <2>6 DEF GuardInv, PassGuards, OneAtATime
  <1>. QED  BY <1>1, GuardNext, InvAlways, PTL DEF Spec

(* The updater keeps a target that has been at rest within one pod of its  *)
(* number, over any number of passes.                                      *)
THEOREM OneDownAtATime == Spec => []OneAtATime
  <1>1. GuardInv => OneAtATime
    BY DEF GuardInv
  <1>. QED  BY <1>1, GuardAlways, PTL

(* The types, with the bound on the plans the calculator may provide.      *)
THEOREM TypeCorrect == Spec => []TypeOK
  <1>1. Inv /\ GuardInv => TypeOK
    <2>. SUFFICES ASSUME Inv, GuardInv PROVE TypeOK
      OBVIOUS
    <2>1. rcm.pc \in {"idle", "writing"}
      BY DEF Inv, RcmInv, RestOfRcm, RcmRecord
    <2>2. upd.pc \in {"idle", "scaling", "evicting"}
      BY DEF Inv, UpdInv, RestOfUpd, UpdScaling, UpdEvicting
    <2>3. guarded \subseteq Pod
      BY ControlLoopAssumption DEF Inv, ClusterInv, GuardInv
    <2>. QED  BY <2>1, <2>2, <2>3 DEF Inv, ObjectsInv, ClusterInv, PodStates, Requests, TypeOK
  <1>. QED  BY <1>1, InvAlways, GuardAlways, PTL

=============================================================================
