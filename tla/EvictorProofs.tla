----------------------------- MODULE EvictorProofs -----------------------------
(***************************************************************************)
(* Lemmas about the operators of Evictor, for the proofs about the modules *)
(* that use them.                                                          *)
(***************************************************************************)
EXTENDS Evictor, TLAPS, FiniteSetTheorems

LEMMA FactoryType ==
    Factory.minReplicasToUpdate \in Nat /\ Factory.evictionFraction \in Nat
  BY DEF Factory, NewPodEvictorFactory

(* Taking a subset away from a finite set.                                 *)
LEMMA SetMinus ==
    ASSUME NEW S, IsFiniteSet(S), NEW T \in SUBSET S
    PROVE  /\ IsFiniteSet(T) /\ IsFiniteSet(S \ T)
           /\ Cardinality(S) \in Nat /\ Cardinality(T) \in Nat
           /\ Cardinality(S \ T) = Cardinality(S) - Cardinality(T)
  <1>1. S \cap T = T
    OBVIOUS
  <1>2. IsFiniteSet(T)
    BY FS_Subset
  <1>3. Cardinality(S) \in Nat /\ Cardinality(T) \in Nat
    BY <1>2, FS_CardinalityType
  <1>4. IsFiniteSet(S \ T) /\ Cardinality(S \ T) = Cardinality(S) - Cardinality(T)
    BY <1>1, FS_Difference
  <1>. QED  BY <1>2, <1>3, <1>4

(* A listed pod has a view, and a list is finite.                          *)
LEMMA ListType ==
    ASSUME NEW list \in PodList
    PROVE  /\ list \in [DOMAIN list -> PodView]
           /\ DOMAIN list \in SUBSET Pod
           /\ IsFiniteSet(DOMAIN list)
  <1>1. PICK S \in SUBSET Pod : list \in [S -> PodView]
    BY DEF PodList
  <1>2. DOMAIN list = S
    BY <1>1
  <1>3. IsFiniteSet(S)
    BY ConstantsAssumption, FS_Subset
  <1>. QED  BY <1>1, <1>2, <1>3

(* The two groups an evictor counts, and their sizes.                      *)
LEMMA GroupType ==
    ASSUME NEW list \in PodList, NEW c \in Controller
    PROVE  /\ IsFiniteSet(ControllerPods(list, c))
           /\ PendingPods(list, c) \in SUBSET ControllerPods(list, c)
           /\ Cardinality(ControllerPods(list, c)) \in Nat
           /\ Cardinality(PendingPods(list, c)) \in Nat
           /\ IsFiniteSet(ControllerPods(list, c) \ PendingPods(list, c))
           /\ Cardinality(ControllerPods(list, c) \ PendingPods(list, c))
                = Cardinality(ControllerPods(list, c)) - Cardinality(PendingPods(list, c))
  <1>1. ControllerPods(list, c) \in SUBSET DOMAIN list
    BY DEF ControllerPods
  <1>2. IsFiniteSet(ControllerPods(list, c))
    BY <1>1, ListType, FS_Subset
  <1>3. PendingPods(list, c) \in SUBSET ControllerPods(list, c)
    BY DEF PendingPods
  <1>. QED  BY <1>2, <1>3, SetMinus

LEMMA StatesType ==
    ASSUME NEW list \in PodList, NEW s \in Store, NEW c \in Controller
    PROVE  StatesOf(list, s, c) \in States
  <1>1. Configured(list, s, c) \in Nat
    BY GroupType DEF Configured, Store
  <1>2. Configured(list, s, c) * Factory.evictionFraction \in Nat
    BY <1>1, FactoryType
  <1>3. (Configured(list, s, c) * Factory.evictionFraction) \div 100 \in Nat
    BY <1>2
  <1>4. /\ Cardinality(ControllerPods(list, c)) \in Nat
        /\ Cardinality(PendingPods(list, c)) \in Nat
    BY GroupType
  <1>5. Cardinality(ControllerPods(list, c)) - Cardinality(PendingPods(list, c)) \in Int
    BY <1>4
  <1>. QED  BY <1>1, <1>3, <1>4, <1>5, 0 \in Nat DEF StatesOf, States

(* A fresh evictor is about the registered pods and controllers.           *)
LEMMA NewEvictorType ==
    ASSUME NEW list \in PodList, NEW s \in Store
    PROVE  LET e == NewPodEvictor(list, s) IN
           /\ DOMAIN e = {"podControllerMap", "controllerStatesMap"}
           /\ e.podControllerMap = [p \in RegisteredPods(list, s) |-> list[p].controller]
           /\ e.controllerStatesMap \in [Registered(list, s) -> States]
           /\ \A c \in Registered(list, s) :
                e.controllerStatesMap[c] = StatesOf(list, s, c)
  <1>1. Registered(list, s) \in SUBSET Controller
    BY DEF Registered
  <1>. QED  BY <1>1, StatesType DEF NewPodEvictor

=============================================================================
