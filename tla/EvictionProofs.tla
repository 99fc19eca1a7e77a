---------------------------- MODULE EvictionProofs ----------------------------
(***************************************************************************)
(* Theorems about EvictionPass, for every set of pods, every controller,   *)
(* every value of the two flags and every bound.                           *)
(***************************************************************************)
EXTENDS EvictionPass, EvictorProofs

-----------------------------------------------------------------------------
(* Type correctness.                                                       *)

LEMMA EmptyListType == NoPods \in PodList /\ NoStore \in Store
  BY DEF NoPods, NoStore, PodList, Store

LEMMA InitTyped == Init => TypeOK
  <1>. SUFFICES ASSUME Init PROVE TypeOK
    OBVIOUS
  <1>1. pods \in PodList /\ store \in Store
    BY EmptyListType DEF Init
  <1>. QED  BY <1>1, NewEvictorType DEF Init, TypeOK

LEMMA TickTyped == TypeOK /\ Tick => TypeOK'
  <1>. SUFFICES ASSUME TypeOK, Tick PROVE TypeOK'
    OBVIOUS
  <1>1. PICK list \in PodList, s \in InformerStores :
          /\ pods' = list
          /\ store' = s
          /\ ev' = NewPodEvictor(list, s)
          /\ queue' = {p \in DOMAIN list : Evictable(NewPodEvictor(list, s), list, p)}
    BY DEF Tick
  <1>2. s \in Store
    BY BoundsAssumption DEF InformerStores, Store
  <1>3. queue' \subseteq DOMAIN ev'.podControllerMap
    BY <1>1 DEF Evictable
  <1>4. evicted' = {} /\ lost' = {} /\ refused' = {} /\ pc' = "evicting"
    BY DEF Tick
  <1>. QED  BY <1>1, <1>2, <1>3, <1>4, NewEvictorType DEF TypeOK

(* A queued pod belongs to a registered controller.                        *)
LEMMA QueuedPod ==
    ASSUME TypeOK, NEW p \in DOMAIN ev.podControllerMap
    PROVE  /\ p \in DOMAIN pods
           /\ ev.podControllerMap[p] = pods[p].controller
           /\ pods[p].controller \in Registered(pods, store)
           /\ Registered(pods, store) \subseteq Controller
  BY DEF TypeOK, RegisteredPods, Registered

(* Counting an eviction changes one counter of one controller.             *)
LEMMA CountOne ==
    ASSUME TypeOK, NEW p \in DOMAIN ev.podControllerMap
    PROVE  LET e == CountEviction(ev, pods, p) IN
           /\ DOMAIN e = {"podControllerMap", "controllerStatesMap"}
           /\ e.podControllerMap = ev.podControllerMap
           /\ DOMAIN e.controllerStatesMap = Registered(pods, store)
           /\ \A c \in Registered(pods, store) :
                e.controllerStatesMap[c] =
                  IF c = pods[p].controller /\ ~Pending(pods, p)
                  THEN [ev.controllerStatesMap[c] EXCEPT !.evicted = @ + 1]
                  ELSE ev.controllerStatesMap[c]
  <1>. DEFINE d == pods[p].controller
  <1>1. CASE Pending(pods, p)
    BY <1>1 DEF CountEviction, TypeOK
  <1>2. CASE ~Pending(pods, p)
    <2>1. CountEviction(ev, pods, p)
            = [ev EXCEPT !.controllerStatesMap =
                [ev.controllerStatesMap EXCEPT ![d] =
                  [ev.controllerStatesMap[d] EXCEPT !.evicted = @ + 1]]]
      BY <1>2, QueuedPod DEF CountEviction
    <2>2. DOMAIN ev = {"podControllerMap", "controllerStatesMap"}
          /\ DOMAIN ev.controllerStatesMap = Registered(pods, store)
      BY DEF TypeOK
    <2>. QED  BY <1>2, <2>1, <2>2
  <1>. QED  BY <1>1, <1>2

LEMMA CountTyped ==
    ASSUME TypeOK, NEW p \in DOMAIN ev.podControllerMap
    PROVE  CountEviction(ev, pods, p).controllerStatesMap
             \in [Registered(pods, store) -> States]
  <1>. DEFINE e == CountEviction(ev, pods, p)
  <1>1. ASSUME NEW c \in Registered(pods, store)
        PROVE  e.controllerStatesMap[c] \in States
    <2>1. ev.controllerStatesMap[c] \in States
      BY DEF TypeOK
    <2>2. [ev.controllerStatesMap[c] EXCEPT !.evicted = @ + 1] \in States
      BY <2>1 DEF States
    <2>. QED  BY <2>1, <2>2, CountOne
  <1>2. e.controllerStatesMap
          = [c \in Registered(pods, store) |-> e.controllerStatesMap[c]]
    <2>1. CASE Pending(pods, p)
      BY <2>1 DEF CountEviction, TypeOK
    <2>2. CASE ~Pending(pods, p)
      BY <2>2, QueuedPod DEF CountEviction, TypeOK
    <2>. QED  BY <2>1, <2>2
  <1>. QED  BY <1>1, <1>2

(* Every step of Next keeps the types.                                     *)
LEMMA StepTyped == TypeOK /\ [Next]_vars => TypeOK'
  <1>. SUFFICES ASSUME TypeOK, [Next]_vars PROVE TypeOK'
    OBVIOUS
  <1>1. CASE Tick
    BY <1>1, TickTyped
  <1>2. ASSUME NEW p \in Pod, SkipPod(p) PROVE TypeOK'
    BY <1>2 DEF SkipPod, Take, TypeOK
  <1>3. ASSUME NEW p \in Pod, EvictPod(p) PROVE TypeOK'
    <2>1. p \in DOMAIN ev.podControllerMap
      BY <1>3 DEF EvictPod, Evictable
    <2>2. DOMAIN ev'.podControllerMap = DOMAIN ev.podControllerMap
      BY <1>3, <2>1, CountOne DEF EvictPod
    <2>3. /\ DOMAIN ev' = {"podControllerMap", "controllerStatesMap"}
          /\ ev'.podControllerMap
               = [q \in RegisteredPods(pods, store) |-> pods[q].controller]
      BY <1>3, <2>1, CountOne DEF EvictPod, TypeOK
    <2>4. ev'.controllerStatesMap \in [Registered(pods, store) -> States]
      BY <1>3, <2>1, CountTyped DEF EvictPod
    <2>. QED  BY <1>3, <2>1, <2>2, <2>3, <2>4 DEF EvictPod, Take, TypeOK
  <1>4. ASSUME NEW p \in Pod, EvictRefused(p) PROVE TypeOK'
    BY <1>4 DEF EvictRefused, Take, TypeOK
  <1>5. ASSUME NEW p \in Pod, EvictLost(p) PROVE TypeOK'
    BY <1>5 DEF EvictLost, Take, TypeOK
  <1>6. CASE EndPass
    BY <1>6 DEF EndPass, TypeOK
  <1>7. CASE Return \/ Crash
    <2>1. Forget
      BY <1>7 DEF Return, Crash
    <2>. QED  BY <2>1, EmptyListType, NewEvictorType DEF Forget, TypeOK
  <1>8. CASE UNCHANGED vars
    BY <1>8 DEF vars, TypeOK
  <1>. QED  BY <1>1, <1>2, <1>3, <1>4, <1>5, <1>6, <1>7, <1>8 DEF Next

(* The pass keeps its types: the evictor never counts for a controller or  *)
(* looks up a pod it has not registered.                                   *)
THEOREM Typed == Spec => []TypeOK
  BY InitTyped, StepTyped, PTL DEF Spec

-----------------------------------------------------------------------------
(* A pod is handled once: what is still queued has been neither evicted    *)
(* nor refused, and no pod is both.                                        *)
HandledOnce ==
    /\ queue \cap (evicted \cup refused) = {}
    /\ evicted \cap refused = {}

(* The counters.  BudgetHeld is not inductive alone: Evictable decides on  *)
(* running and evicted, so one has to know that these are the sizes of     *)
(* sets of pods (CounterExact), and that an evicted pod is one more than   *)
(* before (HandledOnce).                                                   *)
IInv == TypeOK /\ HandledOnce /\ CounterExact /\ BudgetHeld

LEMMA StartedPod ==
    ASSUME NEW p \in DOMAIN pods, NEW c
    PROVE  p \in StartedPods(c) <=> c = pods[p].controller /\ ~Pending(pods, p)
  BY DEF StartedPods, ControllerPods, PendingPods, Pending

(* What the counters of a registered controller say of its pods.           *)
LEMMA Counts ==
    ASSUME TypeOK, CounterExact, NEW c \in Registered(pods, store)
    PROVE  LET s == ev.controllerStatesMap[c] IN
           /\ s.configured = Configured(pods, store, c)
           /\ s.evictable = (Configured(pods, store, c) * Factory.evictionFraction) \div 100
           /\ s.configured \in Nat /\ s.evictable \in Nat
           /\ s.evicted \in Nat
           /\ s.running = Cardinality(StartedPods(c))
           /\ s.evicted = Cardinality(Of(evicted \ lost, c))
           /\ Cardinality(Of(lost, c)) \in Nat
           /\ IsFiniteSet(StartedPods(c) \ evicted)
           /\ Cardinality(StartedPods(c)) \in Nat
           /\ Cardinality(StartedPods(c) \ evicted) \in Nat
           /\ Cardinality(StartedPods(c) \ evicted)
                = s.running - s.evicted - Cardinality(Of(lost, c))
  <1>. DEFINE s == ev.controllerStatesMap[c]
  <1>1. c \in Controller /\ pods \in PodList /\ c \in DOMAIN ev.controllerStatesMap
        /\ s \in States
    BY DEF TypeOK, Registered
  <1>2. s = [StatesOf(pods, store, c) EXCEPT !.evicted = Cardinality(Of(evicted \ lost, c))]
    BY <1>1 DEF CounterExact
  <1>3. IsFiniteSet(StartedPods(c)) /\ Cardinality(StartedPods(c)) \in Nat
        /\ Cardinality(StartedPods(c))
             = Cardinality(ControllerPods(pods, c)) - Cardinality(PendingPods(pods, c))
    BY <1>1, GroupType, FS_CardinalityType DEF StartedPods
  <1>4. Of(evicted, c) \in SUBSET StartedPods(c) /\ Of(lost, c) \in SUBSET Of(evicted, c)
    BY DEF Of, TypeOK
  <1>5. /\ StartedPods(c) \ evicted = StartedPods(c) \ Of(evicted, c)
        /\ Of(evicted \ lost, c) = Of(evicted, c) \ Of(lost, c)
    BY DEF Of
  <1>6. /\ IsFiniteSet(Of(evicted, c)) /\ IsFiniteSet(StartedPods(c) \ evicted)
        /\ Cardinality(Of(evicted, c)) \in Nat
        /\ Cardinality(StartedPods(c) \ evicted)
             = Cardinality(StartedPods(c)) - Cardinality(Of(evicted, c))
    BY <1>3, <1>4, <1>5, SetMinus
  <1>7. /\ Cardinality(Of(lost, c)) \in Nat
        /\ Cardinality(Of(evicted \ lost, c))
             = Cardinality(Of(evicted, c)) - Cardinality(Of(lost, c))
    BY <1>4, <1>5, <1>6, SetMinus
  <1>8. /\ s.configured = Configured(pods, store, c)
        /\ s.evictable = (Configured(pods, store, c) * Factory.evictionFraction) \div 100
        /\ s.running = Cardinality(StartedPods(c))
        /\ s.evicted = Cardinality(Of(evicted \ lost, c))
    BY <1>2, <1>3 DEF StatesOf
  <1>9. s.configured \in Nat /\ s.evictable \in Nat /\ s.evicted \in Nat
    BY <1>1 DEF States
  <1>10. Cardinality(StartedPods(c) \ evicted) \in Nat
    BY <1>6, FS_CardinalityType
  <1>. QED  BY <1>3, <1>6, <1>7, <1>8, <1>9, <1>10

(* The arithmetic of the guard: whichever way Evictable says yes, one pod  *)
(* less is still enough.                                                   *)
LEMMA GuardMeansFloor ==
    ASSUME TypeOK, CounterExact, NEW c \in Registered(pods, store),
           HasAllowance(ev.controllerStatesMap[c])
    PROVE  /\ Floor(c) \in Int
           /\ Cardinality(StartedPods(c) \ evicted) > Floor(c) - Cardinality(Of(lost, c))
  <1>. DEFINE s == ev.controllerStatesMap[c]
  <1>1. Floor(c) = s.configured - Larger(1, s.evictable)
    BY Counts DEF Floor
  <1>2. s.running - s.evicted > s.configured - s.evictable
        \/ (s.running = s.configured /\ s.evictable = 0 /\ s.evicted = 0)
    BY DEF HasAllowance
  <1>3. /\ s.configured \in Nat /\ s.evictable \in Nat /\ s.evicted \in Nat
        /\ s.running \in Nat /\ Cardinality(Of(lost, c)) \in Nat
        /\ Cardinality(StartedPods(c) \ evicted)
             = s.running - s.evicted - Cardinality(Of(lost, c))
    BY Counts
  <1>. HIDE DEF s
  <1>. QED  BY <1>1, <1>2, <1>3 DEF Larger

(* A pod that is up for eviction has not been dealt with, and its          *)
(* controller has allowance if it is a started pod.                        *)
LEMMA Candidate ==
    ASSUME IInv, NEW p, p \in queue, Evictable(ev, pods, p)
    PROVE  /\ p \in DOMAIN ev.podControllerMap /\ p \in DOMAIN pods
           /\ p \notin evicted /\ p \notin lost /\ p \notin refused
           /\ \A c \in Registered(pods, store) :
                p \in StartedPods(c) => HasAllowance(ev.controllerStatesMap[c])
  <1>1. p \in DOMAIN ev.podControllerMap /\ p \in DOMAIN pods
        /\ ev.podControllerMap[p] = pods[p].controller
    BY QueuedPod DEF IInv, Evictable
  <1>2. p \notin evicted /\ p \notin lost /\ p \notin refused
    BY DEF IInv, HandledOnce, TypeOK
  <1>. QED  BY <1>1, <1>2, StartedPod DEF Evictable

-----------------------------------------------------------------------------
(* A new snapshot, or none: nothing is evicted and the counters are fresh. *)
LEMMA FreshHolds ==
    ASSUME evicted' = {}, lost' = {}, refused' = {},
           pods' \in PodList, store' \in Store,
           ev' = NewPodEvictor(pods', store')
    PROVE  HandledOnce' /\ CounterExact' /\ BudgetHeld'
  <1>1. HandledOnce'
    BY DEF HandledOnce
  <1>2. \A c : Of(evicted, c)' = {} /\ Of(evicted \ lost, c)' = {}
    BY DEF Of
  <1>3. CounterExact'
    <2>1. SUFFICES ASSUME NEW c \in Registered(pods', store')
                   PROVE  ev'.controllerStatesMap[c] =
                            [StatesOf(pods', store', c) EXCEPT !.evicted = 0]
      BY <1>2, FS_EmptySet, NewEvictorType DEF CounterExact
    <2>2. ev'.controllerStatesMap[c] = StatesOf(pods', store', c)
      BY NewEvictorType
    <2>. QED  BY <2>2 DEF StatesOf
  <1>4. BudgetHeld'
    BY <1>2 DEF BudgetHeld
  <1>. QED  BY <1>1, <1>3, <1>4

LEMMA InitHolds == Init => IInv
  <1>. SUFFICES ASSUME Init PROVE IInv
    OBVIOUS
  <1>1. TypeOK
    BY InitTyped
  <1>2. \A c : Of(evicted, c) = {} /\ Of(evicted \ lost, c) = {}
    BY DEF Of, Init
  <1>3. CounterExact
    <2>1. SUFFICES ASSUME NEW c \in Registered(pods, store)
                   PROVE  ev.controllerStatesMap[c] =
                            [StatesOf(pods, store, c) EXCEPT !.evicted = 0]
      BY <1>1, <1>2, FS_EmptySet DEF CounterExact, TypeOK
    <2>2. ev.controllerStatesMap[c] = StatesOf(pods, store, c)
      BY EmptyListType, NewEvictorType DEF Init
    <2>. QED  BY <2>2 DEF StatesOf
  <1>4. BudgetHeld
    BY <1>2 DEF BudgetHeld
  <1>5. HandledOnce
    BY DEF HandledOnce, Init
  <1>. QED  BY <1>1, <1>3, <1>4, <1>5 DEF IInv

(* Evicting p, whether or not its answer is lost.                          *)
LEMMA EvictionHolds ==
    ASSUME IInv, NEW p, p \in queue, Evictable(ev, pods, p),
           evicted' = evicted \cup {p}, UNCHANGED <<pods, store>>,
           \/ lost' = lost /\ ev' = CountEviction(ev, pods, p)
           \/ lost' = lost \cup {p} /\ ev' = ev
    PROVE  CounterExact' /\ BudgetHeld'
  <1>1. TypeOK /\ HandledOnce /\ CounterExact /\ BudgetHeld
    BY DEF IInv
  <1>2. \A c : StartedPods(c)' = StartedPods(c)
    BY DEF StartedPods
  <1>3. \A c : p \notin StartedPods(c) =>
          /\ Of(evicted, c)' = Of(evicted, c)
          /\ Of(lost, c)' = Of(lost, c)
          /\ Of(evicted \ lost, c)' = Of(evicted \ lost, c)
          /\ (StartedPods(c) \ evicted)' = StartedPods(c) \ evicted
    BY <1>2 DEF Of
  <1>4. p \notin evicted /\ p \notin lost /\ p \in DOMAIN ev.podControllerMap
    BY Candidate
  <1>5. \A c : p \in StartedPods(c) =>
          Of(evicted \ lost, c)' = IF lost' = lost THEN Of(evicted \ lost, c) \cup {p}
                                   ELSE Of(evicted \ lost, c)
    BY <1>2, <1>4 DEF Of
  <1>6. ASSUME NEW c \in Registered(pods, store)
        PROVE  ev'.controllerStatesMap[c] =
                 [StatesOf(pods, store, c) EXCEPT
                    !.evicted = Cardinality(Of(evicted \ lost, c)')]
    <2>. DEFINE n == Cardinality(Of(evicted \ lost, c))
    <2>1. ev.controllerStatesMap[c] = [StatesOf(pods, store, c) EXCEPT !.evicted = n]
      BY <1>1 DEF CounterExact, TypeOK
    <2>2. p \in StartedPods(c) <=> c = pods[p].controller /\ ~Pending(pods, p)
      BY StartedPod, Candidate
    <2>3. CASE p \in StartedPods(c) /\ lost' = lost
      <3>1. ev'.controllerStatesMap[c] = [ev.controllerStatesMap[c] EXCEPT !.evicted = @ + 1]
        <4>1. ev' = CountEviction(ev, pods, p)
          BY <1>4, <2>3
        <4>. QED  BY <1>1, <1>4, <2>2, <2>3, <4>1, CountOne
      <3>2. IsFiniteSet(Of(evicted \ lost, c))
        <4>1. Of(evicted \ lost, c) \in SUBSET StartedPods(c)
          BY DEF Of
        <4>2. IsFiniteSet(StartedPods(c))
          BY <1>1, GroupType DEF StartedPods, TypeOK, Registered
        <4>. QED  BY <4>1, <4>2, FS_Subset
      <3>3. p \notin Of(evicted \ lost, c)
        BY <1>4 DEF Of
      <3>4. Cardinality(Of(evicted \ lost, c)') = n + 1
        BY <1>5, <2>3, <3>2, <3>3, FS_AddElement
      <3>. QED  BY <2>1, <3>1, <3>4 DEF StatesOf
    <2>4. CASE p \in StartedPods(c) /\ lost' # lost
      BY <1>5, <2>1, <2>4
    <2>5. CASE p \notin StartedPods(c)
      <3>1. ev'.controllerStatesMap[c] = ev.controllerStatesMap[c]
        BY <1>1, <1>4, <2>2, <2>5, CountOne
      <3>. QED  BY <1>3, <2>1, <2>5, <3>1
    <2>. QED  BY <2>3, <2>4, <2>5
  <1>7. CounterExact'
    <2>1. DOMAIN ev'.controllerStatesMap = Registered(pods, store)
      BY <1>1, <1>4, CountOne DEF TypeOK
    <2>. QED  BY <1>6, <2>1 DEF CounterExact
  <1>8. BudgetHeld'
    <2>. SUFFICES ASSUME NEW c \in Registered(pods, store), Of(evicted, c)' # {}
                  PROVE  Cardinality(StartedPods(c)' \ evicted')
                           >= Floor(c)' - Cardinality(Of(lost, c)')
      BY DEF BudgetHeld
    <2>1. Floor(c)' = Floor(c)
      BY DEF Floor
    <2>2. CASE p \notin StartedPods(c)
      BY <1>1, <1>3, <2>1, <2>2 DEF BudgetHeld
    <2>3. CASE p \in StartedPods(c)
      <3>1. /\ Floor(c) \in Int
            /\ Cardinality(StartedPods(c) \ evicted) > Floor(c) - Cardinality(Of(lost, c))
        BY <1>1, <2>3, Candidate, GuardMeansFloor
      <3>2. IsFiniteSet(StartedPods(c) \ evicted)
            /\ Cardinality(StartedPods(c) \ evicted) \in Nat
            /\ Cardinality(Of(lost, c)) \in Nat
        BY <1>1, Counts
      <3>3. (StartedPods(c) \ evicted)' = (StartedPods(c) \ evicted) \ {p}
            /\ p \in StartedPods(c) \ evicted
        BY <1>2, <1>4, <2>3
      <3>4. Cardinality((StartedPods(c) \ evicted)') = Cardinality(StartedPods(c) \ evicted) - 1
        BY <3>2, <3>3, FS_RemoveElement
      <3>5. Cardinality(Of(lost, c)') \in Nat
            /\ Cardinality(Of(lost, c)') >= Cardinality(Of(lost, c))
        <4>1. IsFiniteSet(StartedPods(c))
          BY <1>1, GroupType DEF StartedPods, TypeOK, Registered
        <4>2. Of(lost, c) \in SUBSET Of(lost, c)' /\ Of(lost, c)' \in SUBSET StartedPods(c)
          BY <1>2 DEF Of
        <4>3. IsFiniteSet(Of(lost, c)')
          BY <4>1, <4>2, FS_Subset
        <4>. QED  BY <4>2, <4>3, FS_Subset, FS_CardinalityType
      <3>. QED  BY <2>1, <3>1, <3>2, <3>4, <3>5
    <2>. QED  BY <2>2, <2>3
  <1>. QED  BY <1>7, <1>8

(* Steps that touch no pod, counter or answer.                             *)
LEMMA NothingEvicted ==
    ASSUME IInv, UNCHANGED <<pods, store, ev, evicted, lost>>
    PROVE  CounterExact' /\ BudgetHeld'
  BY DEF IInv, CounterExact, BudgetHeld, Of, StartedPods, Floor

LEMMA StepHolds == IInv /\ [Next]_vars => IInv'
  <1>. SUFFICES ASSUME IInv, [Next]_vars PROVE HandledOnce' /\ CounterExact' /\ BudgetHeld'
    BY StepTyped DEF IInv
  <1>0. HandledOnce /\ TypeOK'
    BY StepTyped DEF IInv
  <1>1. CASE Tick
    <2>1. pods' \in PodList /\ store' \in Store
      BY <1>0 DEF TypeOK
    <2>. QED  BY <1>1, <2>1, FreshHolds DEF Tick
  <1>2. ASSUME NEW p \in Pod, SkipPod(p) PROVE HandledOnce' /\ CounterExact' /\ BudgetHeld'
    BY <1>0, <1>2, NothingEvicted DEF SkipPod, Take, HandledOnce
  <1>3. ASSUME NEW p \in Pod, EvictPod(p) PROVE HandledOnce' /\ CounterExact' /\ BudgetHeld'
    <2>1. HandledOnce'
      BY <1>0, <1>3, Candidate DEF EvictPod, Take, HandledOnce
    <2>. QED  BY <1>3, <2>1, EvictionHolds DEF EvictPod, Take
  <1>4. ASSUME NEW p \in Pod, EvictRefused(p) PROVE HandledOnce' /\ CounterExact' /\ BudgetHeld'
    <2>1. HandledOnce'
      BY <1>0, <1>4, Candidate DEF EvictRefused, Take, HandledOnce
    <2>. QED  BY <1>4, <2>1, NothingEvicted DEF EvictRefused, Take
  <1>5. ASSUME NEW p \in Pod, EvictLost(p) PROVE HandledOnce' /\ CounterExact' /\ BudgetHeld'
    <2>1. HandledOnce'
      BY <1>0, <1>5, Candidate DEF EvictLost, Take, HandledOnce
    <2>. QED  BY <1>5, <2>1, EvictionHolds DEF EvictLost, Take
  <1>6. CASE EndPass
    BY <1>0, <1>6, NothingEvicted DEF EndPass, HandledOnce
  <1>7. CASE Return \/ Crash
    <2>1. Forget
      BY <1>7 DEF Return, Crash
    <2>. QED  BY <2>1, EmptyListType, FreshHolds DEF Forget
  <1>8. CASE UNCHANGED vars
    BY <1>0, <1>8, NothingEvicted DEF vars, HandledOnce
  <1>. QED  BY <1>1, <1>2, <1>3, <1>4, <1>5, <1>6, <1>7, <1>8 DEF Next

(* The counters the loop decides by always equal what it has done.         *)
THEOREM Counted == Spec => []CounterExact
  <1>1. IInv => CounterExact
    BY DEF IInv
  <1>. QED  BY InitHolds, StepHolds, <1>1, PTL DEF Spec

(* No pass takes a controller further below its configured number than one *)
(* pod, or the allowance, and one pod for each answer lost.                *)
THEOREM BudgetNeverExceeded == Spec => []BudgetHeld
  <1>1. IInv => BudgetHeld
    BY DEF IInv
  <1>. QED  BY InitHolds, StepHolds, <1>1, PTL DEF Spec

(* Whatever is evicted has an owner that is known to make up for it.       *)
THEOREM AlwaysReplaced == Spec => []EvictedWillBeReplaced
  <1>1. TypeOK => EvictedWillBeReplaced
    BY DEF TypeOK, EvictedWillBeReplaced, RegisteredPods, Registered
  <1>. QED  BY Typed, <1>1, PTL

-----------------------------------------------------------------------------
(* Progress within a pass.  WorkRemains is the inductive form of           *)
(* PassMakesProgress; what it needs of the counters is that a controller   *)
(* with nothing evicted yet and no pod missing has allowance.              *)

LEMMA FullHasAllowance ==
    ASSUME NEW s, s.running \in Int, s.configured \in Nat, s.evictable \in Nat,
           s.evicted = 0, s.running >= s.configured
    PROVE  HasAllowance(s)
  BY DEF HasAllowance

LEMMA TickLeavesWork == IInv /\ Tick => WorkRemains'
  <1>. SUFFICES ASSUME IInv, Tick, NEW c \in Registered(pods', store')
                PROVE  /\ PendingPods(pods', c) \subseteq queue'
                       /\ Cardinality(StartedPods(c)') >= Configured(pods', store', c) =>
                            StartedPods(c)' \subseteq queue'
    BY DEF WorkRemains
  <1>1. PICK list \in PodList, s \in InformerStores :
          /\ pods' = list
          /\ store' = s
          /\ ev' = NewPodEvictor(list, s)
          /\ queue' = {p \in DOMAIN list : Evictable(NewPodEvictor(list, s), list, p)}
    BY DEF Tick
  <1>2. IInv'
    BY StepHolds DEF Next
  <1>3. s \in Store /\ TypeOK'
    BY <1>1, <1>2 DEF IInv, TypeOK
  <1>. DEFINE st == ev'.controllerStatesMap[c]
  <1>4. /\ st = StatesOf(list, s, c) /\ st \in States
        /\ DOMAIN ev'.controllerStatesMap = Registered(list, s)
    BY <1>1, <1>3, NewEvictorType
  <1>5. \A p \in ControllerPods(list, c) :
          /\ p \in DOMAIN list /\ p \in DOMAIN ev'.podControllerMap
          /\ ev'.podControllerMap[p] = c
    BY <1>1, <1>3 DEF ControllerPods, TypeOK, RegisteredPods
  <1>6. PendingPods(pods', c) \subseteq queue'
    BY <1>1, <1>5 DEF PendingPods, Evictable, Pending
  <1>7. ASSUME Cardinality(StartedPods(c)') >= Configured(pods', store', c)
        PROVE  StartedPods(c)' \subseteq queue'
    <2>1. Cardinality(StartedPods(c)')
            = Cardinality(ControllerPods(list, c)) - Cardinality(PendingPods(list, c))
      BY <1>1, <1>3, GroupType DEF StartedPods, Registered
    <2>2. HasAllowance(st)
      <3>1. /\ st.evicted = 0 /\ st.configured = Configured(list, s, c)
            /\ st.running = Cardinality(StartedPods(c)')
        BY <1>4, <2>1 DEF StatesOf
      <3>2. st.running \in Int /\ st.configured \in Nat /\ st.evictable \in Nat
        BY <1>4 DEF States
      <3>3. st.running >= st.configured
        BY <1>1, <1>7, <3>1
      <3>. HIDE DEF st
      <3>. QED  BY <3>1, <3>2, <3>3, FullHasAllowance
    <2>3. StartedPods(c)' \subseteq ControllerPods(list, c)
      BY <1>1 DEF StartedPods
    <2>. QED  BY <1>1, <1>4, <1>5, <2>2, <2>3 DEF Evictable
  <1>. QED  BY <1>6, <1>7

(* A pod is skipped only if it has started and another of its controller   *)
(* went before it, or its controller was short of pods from the start.     *)
LEMMA SkipLeavesWork ==
    ASSUME IInv, WorkRemains, NEW p, SkipPod(p)
    PROVE  WorkRemains'
  <1>1. TypeOK /\ CounterExact /\ HandledOnce
    BY DEF IInv
  <1>2. /\ pc = "evicting" /\ p \in queue /\ queue' = queue \ {p}
        /\ ~Evictable(ev, pods, p)
        /\ UNCHANGED <<pods, store, ev, evicted, refused, pc>>
    BY DEF SkipPod, Take
  <1>3. p \in DOMAIN ev.podControllerMap /\ p \in DOMAIN pods
        /\ ev.podControllerMap[p] = pods[p].controller
        /\ pods[p].controller \in Registered(pods, store)
    BY <1>1, <1>2, QueuedPod DEF TypeOK
  <1>4. ~Pending(pods, p)
        /\ ~HasAllowance(ev.controllerStatesMap[pods[p].controller])
    BY <1>1, <1>2, <1>3 DEF Evictable, TypeOK
  <1>. SUFFICES ASSUME NEW c \in Registered(pods, store)
                PROVE  /\ PendingPods(pods, c) \subseteq (queue \ {p}) \cup evicted \cup refused
                       /\ Cardinality(StartedPods(c)) >= Configured(pods, store, c) =>
                            \/ Of(evicted, c) # {}
                            \/ StartedPods(c) \subseteq (queue \ {p}) \cup refused
    BY <1>2 DEF WorkRemains, Of, StartedPods
  <1>5. PendingPods(pods, c) \subseteq (queue \ {p}) \cup evicted \cup refused
    BY <1>2, <1>4 DEF WorkRemains, PendingPods, Pending
  <1>6. ASSUME Cardinality(StartedPods(c)) >= Configured(pods, store, c),
               Of(evicted, c) = {}
        PROVE  StartedPods(c) \subseteq (queue \ {p}) \cup refused
    <2>1. StartedPods(c) \subseteq queue \cup refused
      BY <1>2, <1>6 DEF WorkRemains
    <2>2. HasAllowance(ev.controllerStatesMap[c])
      <3>. DEFINE s == ev.controllerStatesMap[c]
      <3>1. /\ s.configured \in Nat /\ s.evictable \in Nat /\ s.running \in Int
            /\ s.running >= s.configured
            /\ s.evicted = Cardinality(Of(evicted \ lost, c))
        <4>1. /\ s.configured = Configured(pods, store, c)
              /\ s.running = Cardinality(StartedPods(c))
              /\ Cardinality(StartedPods(c)) \in Nat
              /\ s.configured \in Nat /\ s.evictable \in Nat
              /\ s.evicted = Cardinality(Of(evicted \ lost, c))
          BY <1>1, Counts
        <4>. HIDE DEF s
        <4>. QED  BY <1>6, <4>1
      <3>2. Of(evicted \ lost, c) = {}
        BY <1>6 DEF Of
      <3>3. s.evicted = 0
        BY <3>1, <3>2, FS_EmptySet
      <3>. HIDE DEF s
      <3>4. HasAllowance(s)
        BY <3>1, <3>3, FullHasAllowance
      <3>. QED  BY <3>4 DEF s
    <2>3. p \notin StartedPods(c)
      BY <1>3, <1>4, <2>2, StartedPod
    <2>. QED  BY <2>1, <2>3
  <1>. QED  BY <1>5, <1>6

LEMMA StepLeavesWork == IInv /\ WorkRemains /\ [Next]_vars => WorkRemains'
  <1>. SUFFICES ASSUME IInv, WorkRemains, [Next]_vars PROVE WorkRemains'
    OBVIOUS
  <1>1. CASE Tick
    BY <1>1, TickLeavesWork
  <1>2. ASSUME NEW p \in Pod, SkipPod(p) PROVE WorkRemains'
    BY <1>2, SkipLeavesWork
  <1>3. ASSUME NEW p \in Pod, EvictPod(p) \/ EvictLost(p) PROVE WorkRemains'
    <2>1. /\ queue' = queue \ {p} /\ evicted' = evicted \cup {p}
          /\ UNCHANGED <<pods, store, refused, pc>>
      BY <1>3 DEF EvictPod, EvictLost, Take
    <2>. QED  BY <2>1 DEF WorkRemains, Of, StartedPods
  <1>4. ASSUME NEW p \in Pod, EvictRefused(p) PROVE WorkRemains'
    <2>1. /\ queue' = queue \ {p} /\ refused' = refused \cup {p}
          /\ UNCHANGED <<pods, store, evicted, pc>>
      BY <1>4 DEF EvictRefused, Take
    <2>. QED  BY <2>1 DEF WorkRemains, Of, StartedPods
  <1>5. CASE EndPass \/ UNCHANGED vars
    <2>1. UNCHANGED <<pods, store, queue, evicted, refused>> /\ (pc = "idle" => pc' = "idle")
      BY <1>5 DEF EndPass, vars
    <2>. QED  BY <1>5, <2>1 DEF WorkRemains, Of, StartedPods, EndPass, vars
  <1>6. CASE Return \/ Crash
    BY <1>6 DEF Return, Crash, Forget, WorkRemains
  <1>. QED  BY <1>1, <1>2, <1>3, <1>4, <1>5, <1>6 DEF Next

(* A pass that runs to its end has evicted from every full controller it   *)
(* knows, unless the server would not let it.                              *)
THEOREM NoIdlePass == Spec => []PassMakesProgress
  <1>1. Init => WorkRemains
    BY DEF Init, WorkRemains
  <1>2. TypeOK /\ WorkRemains /\ (pc = "done" => queue = {}) => PassMakesProgress
    BY DEF WorkRemains, PassMakesProgress
  <1>3. Init => (pc = "done" => queue = {})
    BY DEF Init
  <1>4. (pc = "done" => queue = {}) /\ [Next]_vars => (pc = "done" => queue = {})'
    BY DEF Next, Tick, SkipPod, EvictPod, EvictRefused, EvictLost, Take, EndPass,
           Return, Crash, Forget, vars
  <1>. QED  BY InitHolds, StepHolds, StepLeavesWork, Typed, <1>1, <1>2, <1>3, <1>4, PTL DEF Spec

-----------------------------------------------------------------------------
(* Refinement.                                                             *)

LEMMA LostBound == TypeOK /\ Cardinality(lost) <= MaxLost /\ [Next]_vars
                     => Cardinality(lost)' <= MaxLost
  <1>. SUFFICES ASSUME TypeOK, Cardinality(lost) <= MaxLost, [Next]_vars
                PROVE  Cardinality(lost') <= MaxLost
    OBVIOUS
  <1>1. Cardinality({}) <= MaxLost
    BY FS_EmptySet, BoundsAssumption
  <1>2. ASSUME NEW p \in Pod, EvictLost(p) PROVE Cardinality(lost') <= MaxLost
    <2>1. IsFiniteSet(lost)
      <3>1. DOMAIN ev.podControllerMap \in SUBSET DOMAIN pods
        BY DEF TypeOK, RegisteredPods
      <3>2. lost \in SUBSET DOMAIN pods
        BY <3>1 DEF TypeOK
      <3>. QED  BY <3>2, ListType, FS_Subset DEF TypeOK
    <2>2. lost' = lost \cup {p} /\ Cardinality(lost) < MaxLost
      BY <1>2 DEF EvictLost
    <2>3. Cardinality(lost') = Cardinality(lost) \/ Cardinality(lost') = Cardinality(lost) + 1
      BY <2>1, <2>2, FS_AddElement
    <2>4. Cardinality(lost) \in Nat
      BY <2>1, FS_CardinalityType
    <2>. QED  BY <2>2, <2>3, <2>4, BoundsAssumption
  <1>3. CASE lost' = lost
    BY <1>3
  <1>4. CASE lost' = {}
    BY <1>1, <1>4
  <1>5. lost' = lost \/ lost' = {} \/ \E p \in Pod : EvictLost(p)
    BY DEF Next, Tick, SkipPod, EvictPod, EvictRefused, EndPass, Return, Crash, Forget, vars
  <1>. QED  BY <1>2, <1>3, <1>4, <1>5

(* The instance counts with the same Cardinality.                          *)
LEMMA SameCardinality == \A S : Budget!Cardinality(S) = Cardinality(S)
  BY DEF Budget!Cardinality, Budget!IsFiniteSet, Cardinality, IsFiniteSet

(* The pods that are up, seen per owner.                                   *)
LEMMA UpOfOwner ==
    ASSUME TypeOK, NEW p \in UpPods
    PROVE  /\ p \in DOMAIN pods
           /\ pods[p].controller \in Registered(pods, store)
           /\ Budget!UpOf(pods[p].controller) = StartedPods(pods[p].controller) \ evicted
  <1>. DEFINE d == pods[p].controller
  <1>1. p \in DOMAIN pods /\ d \in Registered(pods, store)
    BY DEF UpPods, RegisteredPods
  <1>2. ASSUME NEW q
        PROVE  q \in Budget!UpOf(d) <=> q \in StartedPods(d) \ evicted
    <2>1. q \in UpPods => q \in DOMAIN pods
      BY DEF UpPods, RegisteredPods
    <2>2. q \in StartedPods(d) => q \in DOMAIN pods
      BY DEF StartedPods, ControllerPods
    <2>3. CASE q \in DOMAIN pods
      BY <1>1, <2>3, StartedPod DEF UpPods, RegisteredPods, Budget!UpOf
    <2>4. CASE q \notin DOMAIN pods
      BY <2>1, <2>2, <2>4 DEF Budget!UpOf
    <2>. QED  BY <2>3, <2>4
  <1>. HIDE DEF d
  <1>3. Budget!UpOf(d) = StartedPods(d) \ evicted
    BY <1>2
  <1>. QED  BY <1>1, <1>3 DEF d

(* An eviction disrupts a pod that is up, above its owner's floor, or is   *)
(* of a Pending pod and changes nothing there.                             *)
LEMMA EvictionDisrupts ==
    ASSUME IInv, Cardinality(lost) \in Nat, Cardinality(lost) <= MaxLost, pc = "evicting",
           NEW p, p \in queue, Evictable(ev, pods, p),
           evicted' = evicted \cup {p}, UNCHANGED <<pods, store, pc>>
    PROVE  [Budget!Next]_(Budget!vars)
  <1>. DEFINE d == pods[p].controller
  <1>1. TypeOK /\ CounterExact
    BY DEF IInv
  <1>2. p \in DOMAIN pods /\ d \in Registered(pods, store) /\ d \in Controller
    BY <1>1, Candidate, QueuedPod DEF Registered
  <1>3. UpPods' = UpPods \ {p}
    BY DEF UpPods
  <1>4. \A c \in Controller : Floor(c)' = Floor(c)
    BY DEF Floor
  <1>5. CASE Pending(pods, p)
    <2>1. p \notin UpPods
      BY <1>5 DEF UpPods
    <2>. QED  BY <1>3, <1>4, <2>1 DEF Budget!vars
  <1>6. CASE ~Pending(pods, p)
    <2>1. p \in StartedPods(d) /\ p \in UpPods
      BY <1>2, <1>6, StartedPod, Candidate DEF UpPods, RegisteredPods
    <2>2. /\ Floor(d) \in Int
          /\ Cardinality(StartedPods(d) \ evicted) > Floor(d) - Cardinality(Of(lost, d))
      BY <1>1, <1>2, <2>1, Candidate, GuardMeansFloor
    <2>3. Cardinality(Of(lost, d)) \in Nat /\ Cardinality(Of(lost, d)) <= Cardinality(lost)
      <3>1. IsFiniteSet(lost)
        <4>1. lost \in SUBSET DOMAIN pods
          BY <1>1 DEF TypeOK, RegisteredPods
        <4>. QED  BY <1>1, <4>1, ListType, FS_Subset DEF TypeOK
      <3>2. Of(lost, d) \in SUBSET lost
        BY DEF Of
      <3>. QED  BY <3>1, <3>2, FS_Subset, FS_CardinalityType
    <2>4. Cardinality(StartedPods(d) \ evicted) \in Nat
      BY <1>1, <1>2, Counts
    <2>5. Cardinality(Budget!UpOf(d)) > Floor(d) - MaxLost
      <3>1. Budget!UpOf(d) = StartedPods(d) \ evicted
        BY <1>1, <2>1, UpOfOwner
      <3>2. Cardinality(Of(lost, d)) <= MaxLost
        BY <2>3, BoundsAssumption
      <3>. HIDE DEF d
      <3>. QED  BY <2>2, <2>3, <2>4, <3>1, <3>2, BoundsAssumption
    <2>6. Budget!Disrupt(p)
      <3>1. [q \in DOMAIN pods |-> pods[q].controller][p] = d
        BY <1>2
      <3>2. [c \in Controller |-> Floor(c) - MaxLost][d] = Floor(d) - MaxLost
        BY <1>2
      <3>3. /\ [q \in DOMAIN pods |-> pods[q].controller]'
                 = [q \in DOMAIN pods |-> pods[q].controller]
            /\ [c \in Controller |-> Floor(c) - MaxLost]'
                 = [c \in Controller |-> Floor(c) - MaxLost]
        BY <1>4
      <3>4. (pc = "evicting")' = (pc = "evicting")
        OBVIOUS
      <3>. HIDE DEF d
      <3>. QED  BY <1>3, <2>1, <2>5, <3>1, <3>2, <3>3, <3>4, SameCardinality DEF Budget!Disrupt
    <2>. QED  BY <2>1, <2>6 DEF Budget!Next
  <1>. QED  BY <1>5, <1>6

LEMMA StepDisrupts ==
    ASSUME IInv, Cardinality(lost) \in Nat, Cardinality(lost) <= MaxLost, [Next]_vars
    PROVE  [Budget!Next]_(Budget!vars)
  <1>1. CASE Tick \/ Return
    BY <1>1 DEF Tick, Return, Budget!Next, Budget!Between
  <1>2. CASE EndPass \/ Crash
    BY <1>2 DEF EndPass, Crash, Forget, Budget!Next, Budget!End
  <1>3. CASE UNCHANGED <<pods, store, evicted, pc>>
    BY <1>3 DEF Budget!vars, UpPods, Floor
  <1>4. ASSUME NEW p \in Pod, SkipPod(p) \/ EvictRefused(p)
        PROVE  UNCHANGED <<pods, store, evicted, pc>>
    BY <1>4 DEF SkipPod, EvictRefused, Take
  <1>5. ASSUME NEW p \in Pod, EvictPod(p) \/ EvictLost(p)
        PROVE  [Budget!Next]_(Budget!vars)
    BY <1>5, EvictionDisrupts DEF EvictPod, EvictLost, Take
  <1>6. CASE UNCHANGED vars
    BY <1>3, <1>6 DEF vars
  <1>. QED  BY <1>1, <1>2, <1>3, <1>4, <1>5, <1>6 DEF Next

(* A pass implements DisruptionBudget: no step of it, whatever the server  *)
(* answers, disrupts a pod of an owner that is at its floor.               *)
THEOREM PassKeepsBudget == Spec => BudgetSpec
  <1>. DEFINE Few == Cardinality(lost) <= MaxLost
  <1>1. Init => Few /\ Budget!Init
    BY FS_EmptySet, BoundsAssumption DEF Init, Budget!Init
  <1>2. TypeOK => Cardinality(lost) \in Nat
    <2>1. TypeOK => lost \in SUBSET DOMAIN pods
      BY DEF TypeOK, RegisteredPods
    <2>. QED  BY <2>1, ListType, FS_Subset, FS_CardinalityType DEF TypeOK
  <1>3. IInv /\ Few /\ [Next]_vars => Few' /\ [Budget!Next]_(Budget!vars)
    BY <1>2, LostBound, StepDisrupts DEF IInv
  <1>. HIDE DEF Few
  <1>. QED  BY <1>1, <1>3, InitHolds, StepHolds, PTL DEF Spec, BudgetSpec, Budget!Spec

=============================================================================
