--------------------------- MODULE SharedPodsProofs ---------------------------
(***************************************************************************)
(* Theorems about Matching and SharedPods, for any MPAs, pods, labels,     *)
(* targets and bounds, and any order of the lists.                         *)
(***************************************************************************)
EXTENDS SharedPods, TLAPS

-----------------------------------------------------------------------------
(* strongerMpa orders the MPAs of a namespace.                             *)

LEMMA StrongerIrreflexive ==
    ASSUME NEW a \in Mpa
    PROVE  ~strongerMpa(a, a)
  BY MatchingAssumption DEF strongerMpa

LEMMA StrongerTransitive ==
    ASSUME NEW a \in Mpa, NEW b \in Mpa, NEW c \in Mpa,
           strongerMpa(a, b), strongerMpa(b, c)
    PROVE  strongerMpa(a, c)
  <1>1. /\ CreatedAt[a] \in Nat /\ CreatedAt[b] \in Nat /\ CreatedAt[c] \in Nat
        /\ NameRank[a] \in Nat /\ NameRank[b] \in Nat /\ NameRank[c] \in Nat
    BY MatchingAssumption
  <1>. QED  BY <1>1 DEF strongerMpa

LEMMA StrongerTotal ==
    ASSUME NEW a \in Mpa, NEW b \in Mpa, a # b, MpaNamespace[a] = MpaNamespace[b]
    PROVE  strongerMpa(a, b) \/ strongerMpa(b, a)
  <1>1. /\ CreatedAt[a] \in Nat /\ CreatedAt[b] \in Nat
        /\ NameRank[a] \in Nat /\ NameRank[b] \in Nat
    BY MatchingAssumption
  <1>2. NameRank[a] # NameRank[b]
    BY NamesUnique
  <1>. QED  BY <1>1, <1>2 DEF strongerMpa

(* Of the MPAs that select a pod, no two are equally strong: the order in  *)
(* which GetControllingMpaForPod meets them cannot matter.                 *)
THEOREM ControllingIsUnique ==
    ASSUME NEW p \in Pod, NEW S \in SUBSET Mpa, NEW F,
           \A m \in S : PodMatchesMpa(p, m, F[m].selector),
           NEW a \in S, NEW b \in S,
           \A n \in S \ {a} : strongerMpa(a, n),
           \A n \in S \ {b} : strongerMpa(b, n)
    PROVE  a = b
  <1>1. SUFFICES ASSUME a # b PROVE FALSE
    OBVIOUS
  <1>2. strongerMpa(a, b) /\ strongerMpa(b, a)
    BY <1>1
  <1>3. strongerMpa(a, a)
    BY <1>2, StrongerTransitive
  <1>. QED  BY <1>3, StrongerIrreflexive

-----------------------------------------------------------------------------
(* The loop over a list.                                                   *)

LookType(look) ==
    /\ look.todo \subseteq Mpa /\ look.seen \subseteq Mpa
    /\ look.todo \cap look.seen = {}
    /\ DOMAIN look.controlling \subseteq Pod
    /\ look.controlling \in [DOMAIN look.controlling -> Mpa \cup {NoMpa}]

LookInv(look) == LookType(look) /\ Strongest(look)

LEMMA LookupEstablishes ==
    ASSUME NEW listed \in SUBSET Mpa, NEW fetched, NEW ps \in SUBSET Pod
    PROVE  LookInv(Lookup(listed, fetched, ps))
  BY DEF LookInv, LookType, Lookup, Strongest, Selecting

LEMMA ConsideredType ==
    ASSUME NEW look, LookType(look), NEW m \in look.todo
    PROVE  LookType(Considered(look, m))
  BY DEF LookType, Considered, KeepStronger

(* One turn of the loop: the MPA kept for a pod stays the strongest.       *)
LEMMA ConsideredStrongest ==
    ASSUME NEW look, LookInv(look), NEW m \in look.todo
    PROVE  Strongest(Considered(look, m))
  <1>. DEFINE new == Considered(look, m)
              old == look.controlling
  <1>0. LookType(look) /\ Strongest(look) /\ m \in Mpa /\ m \notin look.seen
    BY DEF LookInv, LookType
  <1>1. /\ new.seen = look.seen \cup {m} /\ new.fetched = look.fetched
        /\ new.controlling = KeepStronger(old, m, look.fetched[m].selector)
        /\ DOMAIN new.controlling = DOMAIN old
    BY DEF Considered, KeepStronger
  <1>. HIDE DEF new
  <1>. SUFFICES ASSUME NEW p \in DOMAIN old
                PROVE  IF Selecting(new, p) = {} THEN new.controlling[p] = NoMpa
                       ELSE /\ new.controlling[p] \in Selecting(new, p)
                            /\ \A n \in Selecting(new, p) \ {new.controlling[p]} :
                                  strongerMpa(new.controlling[p], n)
    BY <1>1 DEF Strongest, new
  <1>2. new.controlling[p] =
          IF /\ PodMatchesMpa(p, m, look.fetched[m].selector)
             /\ old[p] = NoMpa \/ strongerMpa(m, old[p])
          THEN m ELSE old[p]
    BY <1>1 DEF KeepStronger
  <1>3. IF Selecting(look, p) = {} THEN old[p] = NoMpa
        ELSE /\ old[p] \in Selecting(look, p)
             /\ \A n \in Selecting(look, p) \ {old[p]} : strongerMpa(old[p], n)
    BY <1>0 DEF Strongest
  <1>4. Selecting(look, p) \subseteq Mpa /\ NoMpa \notin Mpa
    BY <1>0, MatchingAssumption DEF Selecting, LookType
  <1>5. CASE ~PodMatchesMpa(p, m, look.fetched[m].selector)
    <2>1. Selecting(new, p) = Selecting(look, p)
      BY <1>1, <1>5 DEF Selecting
    <2>. QED  BY <2>1, <1>2, <1>3, <1>5
  <1>6. CASE PodMatchesMpa(p, m, look.fetched[m].selector)
    <2>1. Selecting(new, p) = Selecting(look, p) \cup {m}
      BY <1>1, <1>6 DEF Selecting
    <2>2. CASE Selecting(look, p) = {}
      BY <2>1, <2>2, <1>2, <1>3, <1>6
    <2>3. CASE Selecting(look, p) # {}
      <3>1. old[p] \in Selecting(look, p) /\ old[p] \in Mpa /\ old[p] # NoMpa /\ old[p] # m
        BY <2>3, <1>0, <1>3, <1>4 DEF Selecting
      <3>2. MpaNamespace[m] = MpaNamespace[old[p]]
        BY <3>1, <1>6 DEF Selecting, PodMatchesMpa
      <3>3. CASE strongerMpa(m, old[p])
        <4>1. new.controlling[p] = m
          BY <3>3, <1>2, <1>6
        <4>2. ASSUME NEW n \in Selecting(look, p) PROVE strongerMpa(m, n)
          BY <4>2, <3>1, <3>3, <1>0, <1>3, <1>4, <2>3, StrongerTransitive
        <4>. QED  BY <4>1, <4>2, <2>1
      <3>4. CASE ~strongerMpa(m, old[p])
        <4>1. strongerMpa(old[p], m)
          BY <3>1, <3>2, <3>4, <1>0, StrongerTotal
        <4>2. new.controlling[p] = old[p]
          BY <3>1, <3>4, <1>2
        <4>. QED  BY <4>1, <4>2, <3>1, <2>1, <2>3, <1>3
      <3>. QED  BY <3>3, <3>4
    <2>. QED  BY <2>2, <2>3
  <1>. QED  BY <1>5, <1>6

LEMMA ConsideredKeeps ==
    ASSUME NEW look, LookInv(look), NEW m \in look.todo
    PROVE  LookInv(Considered(look, m))
  BY ConsideredType, ConsideredStrongest DEF LookInv

-----------------------------------------------------------------------------
(* The inductive invariant: what the variables look like, one conjunct for *)
(* each procedure.  A procedure serves nobody before its loop has ended,   *)
(* since a later MPA of the list may take all pods of an earlier one.      *)

DataInv ==
    /\ mpa \in [Mpa -> [mode : {"", "Auto", "Off"}, plan : BOOLEAN,
                        condition : {"None", "RecommendationProvided", "RecommendationSkipped"}]]
    /\ pods \in [Pod -> [exists : BOOLEAN, patchedBy : Mpa \cup {NoMpa}]]
    /\ scaledBy \in [{Key(m) : m \in Mpa} -> Mpa \cup {NoMpa}]

Served(s, l) == LookInv(l) /\ s \subseteq Groups(l) /\ (l.todo # {} => s = {})

RcmRecord(f, s, l) == [pc |-> "matching", fresh |-> f, served |-> s, look |-> l]

RcmInv == rcm = Idle \/ \E f, s, l : rcm = RcmRecord(f, s, l) /\ Served(s, l)

UpdMatching(s, l) == [pc |-> "matching", served |-> s, look |-> l]

UpdEvicting(s, l, m, e, q) ==
    [pc |-> "evicting", served |-> s, look |-> l, serving |-> m, ev |-> e, queue |-> q]

UpdInv ==
    \/ upd = Idle
    \/ \E s, l : upd = UpdMatching(s, l) /\ Served(s, l)
    \/ \E s, l, m, e, q :
          /\ upd = UpdEvicting(s, l, m, e, q) /\ Served(s, l) /\ l.todo = {}
          /\ m \in Groups(l) /\ q \subseteq GroupOf(l, m)

AdmRecord(p, n, l) == [pc |-> "matching", pod |-> p, planned |-> n, look |-> l]

AdmInv ==
    \/ adm = Idle
    \/ \E p, n, l :
          /\ p \in Pod
          /\ adm = AdmRecord(p, n, l) /\ LookInv(l) /\ DOMAIN l.controlling = {p}
          /\ ~pods[p].exists

Inv == DataInv /\ RcmInv /\ UpdInv /\ AdmInv

LEMMA GroupsType ==
    ASSUME NEW l, LookInv(l)
    PROVE  /\ Groups(l) \subseteq l.seen /\ Groups(l) \subseteq Mpa
           /\ \A m : GroupOf(l, m) \subseteq Pod
  <1>1. Groups(l) \subseteq Mpa /\ \A m : GroupOf(l, m) \subseteq Pod
    BY DEF LookInv, LookType, Groups, GroupOf
  <1>2. ASSUME NEW p \in DOMAIN l.controlling, l.controlling[p] # NoMpa
        PROVE  l.controlling[p] \in l.seen
    BY <1>2 DEF LookInv, Strongest, Selecting
  <1>. QED  BY <1>1, <1>2 DEF Groups

(* A list that has just been drawn up, and one more MPA of it considered.  *)
LEMMA ServedAtFirst ==
    ASSUME NEW listed \in SUBSET Mpa, NEW fetched, NEW ps \in SUBSET Pod
    PROVE  Served({}, Lookup(listed, fetched, ps))
  BY LookupEstablishes DEF Served

LEMMA ServedConsidered ==
    ASSUME NEW s, NEW l, Served(s, l), NEW m \in l.todo
    PROVE  Served(s, Considered(l, m))
  BY ConsideredKeeps DEF Served

LEMMA ServedOneMore ==
    ASSUME NEW s, NEW l, Served(s, l), l.todo = {}, NEW m \in Groups(l)
    PROVE  Served(s \cup {m}, l)
  BY DEF Served

LEMMA InvInit == Init => Inv
  <1>. SUFFICES ASSUME Init PROVE Inv
    OBVIOUS
  <1>1. RcmInv /\ UpdInv /\ AdmInv
    BY DEF Init, RcmInv, UpdInv, AdmInv
  <1>. DEFINE targets == {Key(m) : m \in Mpa}
  <1>2. scaledBy = [t \in targets |-> NoMpa]
    BY DEF Init
  <1>. HIDE DEF targets
  <1>3. scaledBy \in [targets -> Mpa \cup {NoMpa}]
    BY <1>2
  <1>4. DataInv
    BY <1>3 DEF Init, DataInv, targets
  <1>. QED  BY <1>1, <1>4 DEF Inv

(* What a step leaves alone keeps its conjunct.                            *)
LEMMA DataStays == ASSUME DataInv, UNCHANGED <<mpa, pods, scaledBy>> PROVE DataInv'
  BY DEF DataInv

LEMMA RcmStays == ASSUME RcmInv, UNCHANGED rcm PROVE RcmInv'
  BY DEF RcmInv

LEMMA UpdStays == ASSUME UpdInv, UNCHANGED upd PROVE UpdInv'
  BY DEF UpdInv

LEMMA AdmStays == ASSUME AdmInv, UNCHANGED <<adm, pods>> PROVE AdmInv'
  BY DEF AdmInv

(* The recommender.                                                        *)
LEMMA RcmListKeeps == ASSUME RcmList PROVE RcmInv'
  <1>1. PICK failing \in SUBSET AskedScale :
            rcm' = RcmRecord(Mpa, {}, Lookup({m \in Mpa : RecommenderLists(m)},
                                            FetchAll(failing), Existing))
    BY DEF RcmList, RcmRecord
  <1>2. {m \in Mpa : RecommenderLists(m)} \subseteq Mpa /\ Existing \subseteq Pod
    BY DEF Existing
  <1>3. Served({}, Lookup({m \in Mpa : RecommenderLists(m)}, FetchAll(failing), Existing))
    BY <1>2, ServedAtFirst
  <1>. QED  BY <1>1, <1>3 DEF RcmInv

LEMMA RcmConsiderKeeps ==
    ASSUME RcmInv, NEW m \in Mpa, RcmConsider(m)
    PROVE  RcmInv'
  <1>1. PICK f, s, l : rcm = RcmRecord(f, s, l) /\ Served(s, l)
    BY DEF RcmInv, RcmConsider, Idle
  <1>2. m \in l.todo /\ rcm' = RcmRecord(f, s, Considered(l, m))
    <2>1. rcm.look = l /\ m \in l.todo
      BY <1>1 DEF RcmConsider, RcmRecord
    <2>2. rcm' = [rcm EXCEPT !.look = Considered(l, m)]
      BY <2>1 DEF RcmConsider
    <2>. QED  BY <1>1, <2>1, <2>2 DEF RcmRecord
  <1>. QED  BY <1>1, <1>2, ServedConsidered DEF RcmInv

LEMMA RcmServes ==
    ASSUME RcmInv, NEW m \in Mpa, RcmTurn(m), rcm' = [rcm EXCEPT !.served = @ \cup {m}]
    PROVE  RcmInv'
  <1>1. PICK f, s, l : rcm = RcmRecord(f, s, l) /\ Served(s, l)
    BY DEF RcmInv, RcmTurn, Idle
  <1>2. l.todo = {} /\ m \in Groups(l) /\ rcm' = RcmRecord(f, s \cup {m}, l)
    BY <1>1 DEF RcmTurn, RcmRecord
  <1>. QED  BY <1>1, <1>2, ServedOneMore DEF RcmInv

LEMMA RecommenderKeeps == ASSUME Inv, Recommender PROVE Inv'
  <1>. USE DEF Inv
  <1>1. CASE RcmList
    BY <1>1, RcmListKeeps, DataStays, UpdStays, AdmStays DEF RcmList
  <1>2. CASE RcmEnd \/ RcmCrash
    <2>1. RcmInv'
      BY <1>2 DEF RcmEnd, RcmCrash, RcmInv
    <2>. QED  BY <1>2, <2>1, DataStays, UpdStays, AdmStays DEF RcmEnd, RcmCrash
  <1>3. ASSUME NEW m \in Mpa, RcmFails(m) \/ RcmProvides(m) \/ RcmSkips(m) \/ RcmWriteFails(m)
        PROVE  Inv'
    <2>1. RcmTurn(m) /\ rcm' = [rcm EXCEPT !.served = @ \cup {m}]
      BY <1>3 DEF RcmFails, FailedContinues, RcmProvides, RcmSkips, RcmWriteFails
    <2>2. UNCHANGED <<pods, scaledBy, upd, adm>>
      BY <1>3 DEF RcmFails, RcmProvides, RcmSkips, RcmWriteFails
    <2>3. DataInv'
      <3>1. CASE RcmFails(m)
        BY <3>1 DEF RcmFails, DataInv
      <3>2. CASE RcmProvides(m)
        BY <3>2 DEF RcmProvides, DataInv
      <3>3. CASE RcmSkips(m)
        BY <3>3 DEF RcmSkips, DataInv
      <3>4. CASE RcmWriteFails(m)
        BY <3>4 DEF RcmWriteFails, DataInv
      <3>. QED  BY <1>3, <3>1, <3>2, <3>3, <3>4
    <2>. QED  BY <2>1, <2>2, <2>3, RcmServes, UpdStays, AdmStays
  <1>. QED  BY <1>1, <1>2, <1>3 DEF Recommender

(* The updater.                                                            *)
LEMMA UpdListKeeps == ASSUME UpdList PROVE UpdInv'
  <1>1. PICK failing \in SUBSET AskedScale :
            upd' = UpdMatching({}, Lookup({m \in Mpa : UpdaterLists(m)},
                                         FetchAll(failing), Existing))
    BY DEF UpdList, UpdMatching
  <1>2. {m \in Mpa : UpdaterLists(m)} \subseteq Mpa /\ Existing \subseteq Pod
    BY DEF Existing
  <1>3. Served({}, Lookup({m \in Mpa : UpdaterLists(m)}, FetchAll(failing), Existing))
    BY <1>2, ServedAtFirst
  <1>. QED  BY <1>1, <1>3 DEF UpdInv

LEMMA UpdConsiderKeeps ==
    ASSUME UpdInv, NEW m \in Mpa, UpdConsider(m)
    PROVE  UpdInv'
  <1>1. PICK s, l : upd = UpdMatching(s, l) /\ Served(s, l)
    BY DEF UpdInv, UpdConsider, Idle, UpdEvicting
  <1>2. m \in l.todo /\ upd' = UpdMatching(s, Considered(l, m))
    <2>1. upd.look = l /\ m \in l.todo
      BY <1>1 DEF UpdConsider, UpdMatching
    <2>2. upd' = [upd EXCEPT !.look = Considered(l, m)]
      BY <2>1 DEF UpdConsider
    <2>. QED  BY <1>1, <2>1, <2>2 DEF UpdMatching
  <1>. QED  BY <1>1, <1>2, ServedConsidered DEF UpdInv

LEMMA StartEvictingKeeps ==
    ASSUME UpdInv, NEW m \in Mpa, UpdTurn(m), StartEvicting(m)
    PROVE  UpdInv'
  <1>1. PICK s, l : upd = UpdMatching(s, l) /\ Served(s, l)
    BY DEF UpdInv, UpdTurn, Idle, UpdEvicting
  <1>. DEFINE view == View(GroupOf(l, m))
              ev   == NewPodEvictor(view, Replicas)
              q    == {p \in DOMAIN view : Evictable(ev, view, p)}
  <1>2. l.todo = {} /\ m \in Groups(l) /\ upd.look = l /\ upd.served = s
    BY <1>1 DEF UpdTurn, UpdMatching
  <1>3. upd' = UpdEvicting(s, l, m, ev, q)
    BY <1>2 DEF StartEvicting, UpdEvicting
  <1>4. q \subseteq GroupOf(l, m)
    BY DEF View
  <1>. HIDE DEF q, ev
  <1>. QED  BY <1>1, <1>2, <1>3, <1>4 DEF UpdInv

LEMMA UpdEvictKeeps ==
    ASSUME Inv, NEW p \in Pod, UpdEvict(p)
    PROVE  DataInv' /\ UpdInv' /\ AdmInv'
  <1>1. PICK s, l, m, e, q :
            /\ upd = UpdEvicting(s, l, m, e, q) /\ Served(s, l) /\ l.todo = {}
            /\ m \in Groups(l) /\ q \subseteq GroupOf(l, m)
    BY DEF Inv, UpdInv, UpdEvict, Idle, UpdMatching
  <1>2. \E ee : upd' = UpdEvicting(s, l, m, ee, q \ {p})
    <2>1. upd.queue = q
      BY <1>1 DEF UpdEvicting
    <2>2. \/ upd' = [upd EXCEPT !.queue = q \ {p}]
          \/ \E ee : upd' = [upd EXCEPT !.queue = q \ {p}, !.ev = ee]
      BY <2>1 DEF UpdEvict
    <2>. QED  BY <1>1, <2>2 DEF UpdEvicting
  <1>3. UpdInv'
    BY <1>1, <1>2 DEF UpdInv
  <1>4. \/ UNCHANGED pods
        \/ pods' = [pods EXCEPT ![p] = [exists |-> FALSE, patchedBy |-> NoMpa]]
    BY DEF UpdEvict
  <1>. DEFINE gone == [exists |-> FALSE, patchedBy |-> NoMpa]
  <1>5. /\ pods' \in [Pod -> [exists : BOOLEAN, patchedBy : Mpa \cup {NoMpa}]]
        /\ \A o \in Pod : ~pods[o].exists => ~pods'[o].exists
    <2>1. /\ gone \in [exists : BOOLEAN, patchedBy : Mpa \cup {NoMpa}]
          /\ ~gone.exists
      OBVIOUS
    <2>2. pods \in [Pod -> [exists : BOOLEAN, patchedBy : Mpa \cup {NoMpa}]]
      BY DEF Inv, DataInv
    <2>3. UNCHANGED pods \/ pods' = [pods EXCEPT ![p] = gone]
      BY <1>4
    <2>. HIDE DEF gone
    <2>. QED  BY <2>1, <2>2, <2>3
  <1>6. DataInv'
    BY <1>5 DEF UpdEvict, Inv, DataInv
  <1>7. AdmInv'
    BY <1>5 DEF UpdEvict, Inv, AdmInv
  <1>. QED  BY <1>3, <1>6, <1>7

LEMMA UpdaterKeeps == ASSUME Inv, Updater PROVE Inv'
  <1>. USE DEF Inv
  <1>1. CASE UpdList
    BY <1>1, UpdListKeeps, DataStays, RcmStays, AdmStays DEF UpdList
  <1>2. CASE UpdEnd \/ UpdCrash
    <2>1. UpdInv'
      BY <1>2 DEF UpdEnd, UpdCrash, UpdInv
    <2>. QED  BY <1>2, <2>1, DataStays, RcmStays, AdmStays DEF UpdEnd, UpdCrash
  <1>3. CASE UpdEndTurn
    <2>1. PICK s, l, m, e, q :
              upd = UpdEvicting(s, l, m, e, q) /\ Served(s, l) /\ l.todo = {} /\ m \in Groups(l)
      BY <1>3 DEF UpdInv, UpdEndTurn, Idle, UpdMatching
    <2>2. upd' = UpdMatching(s \cup {m}, l)
      BY <1>3, <2>1 DEF UpdEndTurn, UpdEvicting, UpdMatching
    <2>3. UpdInv'
      BY <2>1, <2>2, ServedOneMore DEF UpdInv
    <2>. QED  BY <1>3, <2>3, DataStays, RcmStays, AdmStays DEF UpdEndTurn
  <1>4. ASSUME NEW m \in Mpa, UpdScale(m) \/ UpdScaleFails(m) PROVE Inv'
    <2>1. UpdTurn(m) /\ StartEvicting(m) /\ UNCHANGED <<mpa, pods, rcm, adm>>
      BY <1>4 DEF UpdScale, UpdScaleFails
    <2>2. DataInv'
      BY <1>4, <2>1 DEF UpdScale, UpdScaleFails, DataInv
    <2>. QED  BY <2>1, <2>2, StartEvictingKeeps, RcmStays, AdmStays
  <1>5. ASSUME NEW p \in Pod, UpdEvict(p) PROVE Inv'
    BY <1>5, UpdEvictKeeps, RcmStays DEF UpdEvict
  <1>. QED  BY <1>1, <1>2, <1>3, <1>4, <1>5 DEF Updater

(* The webhook.                                                            *)
LEMMA AdmListKeeps == ASSUME NEW p \in Pod, AdmList(p) PROVE AdmInv'
  <1>1. PICK failing \in SUBSET AskedScale :
            adm' = AdmRecord(p, {m \in Mpa : mpa[m].plan},
                             Lookup({m \in Mpa : WebhookLists(m, p)}, FetchAll(failing), {p}))
    BY DEF AdmList, AdmRecord
  <1>. DEFINE l == Lookup({m \in Mpa : WebhookLists(m, p)}, FetchAll(failing), {p})
  <1>2. LookInv(l)
    BY LookupEstablishes
  <1>3. DOMAIN l.controlling = {p}
    BY DEF Lookup
  <1>4. ~pods'[p].exists
    BY DEF AdmList
  <1>. HIDE DEF l
  <1>. QED  BY <1>1, <1>2, <1>3, <1>4 DEF AdmInv, l

LEMMA AdmConsiderKeeps ==
    ASSUME AdmInv, NEW m \in Mpa, AdmConsider(m)
    PROVE  AdmInv'
  <1>1. PICK p, n, l :
            /\ p \in Pod
            /\ adm = AdmRecord(p, n, l) /\ LookInv(l) /\ DOMAIN l.controlling = {p}
            /\ ~pods[p].exists
    BY DEF AdmInv, AdmConsider, Idle
  <1>2. adm.look = l /\ m \in l.todo
    BY <1>1 DEF AdmConsider, AdmRecord
  <1>3. adm' = [adm EXCEPT !.look = Considered(l, m)]
    BY <1>2 DEF AdmConsider
  <1>4. adm' = AdmRecord(p, n, Considered(l, m))
    BY <1>1, <1>3 DEF AdmRecord
  <1>5. DOMAIN Considered(l, m).controlling = {p}
    BY <1>1 DEF Considered, KeepStronger
  <1>6. LookInv(Considered(l, m)) /\ UNCHANGED pods
    BY <1>1, <1>2, ConsideredKeeps DEF AdmConsider
  <1>. QED  BY <1>1, <1>4, <1>5, <1>6 DEF AdmInv

LEMMA WebhookKeeps == ASSUME Inv, Webhook PROVE Inv'
  <1>. USE DEF Inv
  <1>1. ASSUME NEW p \in Pod, AdmList(p) PROVE Inv'
    BY <1>1, AdmListKeeps, DataStays, RcmStays, UpdStays DEF AdmList
  <1>2. CASE AdmPatch \/ AdmFails
    <2>1. PICK p, n, l :
              p \in Pod /\ adm = AdmRecord(p, n, l) /\ LookInv(l) /\ DOMAIN l.controlling = {p}
      BY <1>2 DEF AdmInv, AdmPatch, AdmFails, Idle
    <2>2. /\ adm.pod = p /\ l.controlling[p] \in Mpa \cup {NoMpa}
          /\ adm.look = l
      BY <2>1 DEF AdmRecord, LookInv, LookType
    <2>3. \E m \in Mpa \cup {NoMpa} :
              pods' = [pods EXCEPT ![p] = [exists |-> TRUE, patchedBy |-> m]]
      <3>1. PatchedBy(l.controlling[p]) \in Mpa \cup {NoMpa}
        BY <2>2 DEF PatchedBy
      <3>2. CASE AdmPatch
        <4>1. pods' = [pods EXCEPT ![p] =
                          [exists |-> TRUE, patchedBy |-> PatchedBy(l.controlling[p])]]
          BY <2>2, <3>2 DEF AdmPatch
        <4>. QED  BY <3>1, <4>1
      <3>3. CASE AdmFails
        BY <2>2, <3>3 DEF AdmFails
      <3>. QED  BY <1>2, <3>2, <3>3
    <2>4. DataInv'
      <3>1. PICK m \in Mpa \cup {NoMpa} :
                pods' = [pods EXCEPT ![p] = [exists |-> TRUE, patchedBy |-> m]]
        BY <2>3
      <3>. DEFINE new == [exists |-> TRUE, patchedBy |-> m]
                  Pods == [exists : BOOLEAN, patchedBy : Mpa \cup {NoMpa}]
      <3>2. new \in Pods /\ pods \in [Pod -> Pods]
        BY DEF DataInv
      <3>. HIDE DEF new, Pods
      <3>3. pods' \in [Pod -> Pods]
        BY <3>1, <3>2 DEF new
      <3>. QED  BY <1>2, <3>3 DEF DataInv, AdmPatch, AdmFails, Pods
    <2>5. AdmInv'
      BY <1>2 DEF AdmPatch, AdmFails, AdmInv
    <2>. QED  BY <1>2, <2>4, <2>5, RcmStays, UpdStays DEF AdmPatch, AdmFails
  <1>. QED  BY <1>1, <1>2 DEF Webhook

(* The loops and the user.                                                 *)
LEMMA LoopKeeps == ASSUME Inv, Loop PROVE Inv'
  <1>. USE DEF Inv
  <1>1. ASSUME NEW m \in Mpa, RcmConsider(m) PROVE Inv'
    BY <1>1, RcmConsiderKeeps, DataStays, UpdStays, AdmStays DEF RcmConsider
  <1>2. ASSUME NEW m \in Mpa, UpdConsider(m) PROVE Inv'
    BY <1>2, UpdConsiderKeeps, DataStays, RcmStays, AdmStays DEF UpdConsider
  <1>3. ASSUME NEW m \in Mpa, AdmConsider(m) PROVE Inv'
    BY <1>3, AdmConsiderKeeps, DataStays, RcmStays, UpdStays DEF AdmConsider
  <1>. QED  BY <1>1, <1>2, <1>3 DEF Loop

LEMMA EditModeKeeps == ASSUME Inv, NEW m \in Mpa, EditMode(m) PROVE Inv'
  <1>1. DataInv'
    <2>. DEFINE Mpas == [mode : {"", "Auto", "Off"}, plan : BOOLEAN,
                         condition : {"None", "RecommendationProvided",
                                      "RecommendationSkipped"}]
    <2>1. mpa \in [Mpa -> Mpas]
      BY DEF Inv, DataInv
    <2>2. mpa' \in [Mpa -> Mpas]
      BY <2>1 DEF EditMode
    <2>. QED  BY <2>2 DEF EditMode, Inv, DataInv
  <1>2. RcmInv'
    <2>1. CASE rcm.pc = "matching"
      <3>1. PICK f, s, l : rcm = RcmRecord(f, s, l) /\ Served(s, l)
        BY <2>1 DEF Inv, RcmInv, Idle
      <3>2. rcm' = RcmRecord(f \ {m}, s, l)
        BY <2>1, <3>1 DEF EditMode, RcmRecord
      <3>. QED  BY <3>1, <3>2 DEF RcmInv
    <2>2. CASE rcm.pc # "matching"
      BY <2>2, RcmStays DEF EditMode, Inv
    <2>. QED  BY <2>1, <2>2
  <1>. QED  BY <1>1, <1>2, UpdStays, AdmStays DEF EditMode, Inv

LEMMA InvNext == Inv /\ [Next]_vars => Inv'
  <1>. SUFFICES ASSUME Inv, [Next]_vars PROVE Inv'
    OBVIOUS
  <1>1. CASE UNCHANGED vars
    BY <1>1, DataStays, RcmStays, UpdStays, AdmStays DEF vars, Inv
  <1>. QED  BY <1>1, RecommenderKeeps, UpdaterKeeps, WebhookKeeps, LoopKeeps, EditModeKeeps
            DEF Next

LEMMA InvAlways == Spec => []Inv
  BY InvInit, InvNext, PTL DEF Spec

(* What a procedure works with meets the loop's invariant.                 *)
LEMMA LooksInv ==
    ASSUME Inv
    PROVE  \A look \in Looks : LookInv(look)
  <1>1. rcm.pc # "idle" => LookInv(rcm.look)
    BY DEF Inv, RcmInv, Idle, RcmRecord, Served
  <1>2. upd.pc # "idle" => LookInv(upd.look)
    BY DEF Inv, UpdInv, Idle, UpdMatching, UpdEvicting, Served
  <1>3. adm.pc # "idle" => LookInv(adm.look)
    BY DEF Inv, AdmInv, Idle, AdmRecord
  <1>. QED  BY <1>1, <1>2, <1>3 DEF Looks

(* Type correctness, with what the three procedures never do: give a pod   *)
(* to an MPA they have not considered, or serve one without pods.          *)
THEOREM TypeCorrect == Spec => []TypeOK
  <1>1. Inv => TypeOK
    <2>. SUFFICES ASSUME Inv PROVE TypeOK
      OBVIOUS
    <2>1. \A look \in Looks :
              /\ look.todo \subseteq Mpa /\ look.seen \subseteq Mpa
              /\ look.todo \cap look.seen = {}
              /\ DOMAIN look.controlling \subseteq Pod
              /\ Groups(look) \subseteq look.seen
      BY LooksInv, GroupsType DEF LookInv, LookType
    <2>2. rcm.pc # "idle" => rcm.served \subseteq Groups(rcm.look)
      BY DEF Inv, RcmInv, Idle, RcmRecord, Served
    <2>3. /\ upd.pc # "idle" => upd.served \subseteq Groups(upd.look)
          /\ upd.pc = "evicting" => upd.queue \subseteq GroupOf(upd.look, upd.serving)
      BY DEF Inv, UpdInv, Idle, UpdMatching, UpdEvicting, Served
    <2>4. adm.pc # "idle" => ~pods[adm.pod].exists
      BY DEF Inv, AdmInv, Idle, AdmRecord
    <2>. QED  BY <2>1, <2>2, <2>3, <2>4 DEF TypeOK, Inv, DataInv
  <1>. QED  BY <1>1, InvAlways, PTL

(* However the lister orders the MPAs, and whatever fails between, every   *)
(* pod of every procedure is with the strongest MPA that selects it.       *)
THEOREM ControllingStaysStrongest == Spec => []ControllingIsStrongest
  <1>1. Inv => ControllingIsStrongest
    BY LooksInv DEF ControllingIsStrongest, LookInv
  <1>. QED  BY <1>1, InvAlways, PTL

-----------------------------------------------------------------------------
(* An MPA that stronger ones shadow.                                       *)

ShadowedMpas == {m \in Mpa : Shadowed(m)}

(* The loop of the recommender is over all MPAs whose selectors it got.    *)
ListsAll(look) ==
    /\ \E failing \in SUBSET AskedScale : look.fetched = FetchAll(failing)
    /\ look.todo \cup look.seen = {m \in Mpa : look.fetched[m].ok}

(* As long as no mode has been edited: every mode is the default one, no   *)
(* shadowed MPA has left a trace, and what the updater and the webhook     *)
(* work with are MPAs that have a plan.                                    *)
DefaultModes == \A m \in Mpa : mpa[m].mode = ""

NoTrace ==
    \A m \in ShadowedMpas :
        /\ ~mpa[m].plan
        /\ scaledBy[Key(m)] # m
        /\ \A p \in Pod : pods[p].patchedBy # m

RcmListsAll == rcm.pc # "idle" => ListsAll(rcm.look)

UpdPlanned == upd.pc # "idle" => \A m \in upd.look.todo \cup upd.look.seen : mpa[m].plan

AdmPlanned == adm.pc # "idle" => \A m \in adm.planned : m \in Mpa /\ mpa[m].plan

Unedited == DefaultModes /\ NoTrace /\ RcmListsAll /\ UpdPlanned /\ AdmPlanned

ShadowInv == edits \in Nat /\ (edits = 0 => Unedited)

(* A failed call never yields a selector, and does not touch another MPA.  *)
LEMMA FailedHasNone ==
    ASSUME NEW failing \in SUBSET AskedScale, NEW m \in failing
    PROVE  ~FetchAll(failing)[m].ok
  <1>. DEFINE answers == [i \in DOMAIN Answers[m] |-> [outcome |-> "error"]]
  <1>1. m \in Mpa /\ TargetRef[m].kind \notin FetcherKinds
    BY DEF AskedScale
  <1>2. FetchAll(failing)[m] = Fetch(m, Objects, answers)
    BY <1>1 DEF FetchAll
  <1>3. Deciding(answers) = {}
    BY DEF Deciding
  <1>4. getLabelSelectorFromResource(answers) = FetchError
    BY <1>3 DEF getLabelSelectorFromResource
  <1>. HIDE DEF answers
  <1>5. Fetch(m, Objects, answers) = FetchError
    <2>1. CASE TargetRef[m] = NoTarget
      BY <2>1 DEF Fetch
    <2>2. CASE TargetRef[m] # NoTarget
      BY <2>2, <1>1, <1>4 DEF Fetch
    <2>. QED  BY <2>1, <2>2
  <1>. QED  BY <1>2, <1>5 DEF FetchError

LEMMA OtherFetched ==
    ASSUME NEW failing \in SUBSET AskedScale, NEW m \in Mpa, m \notin failing
    PROVE  FetchAll(failing)[m] = FetchAll({})[m]
  BY DEF FetchAll

(* At the end of its loop the recommender has given no pod to a shadowed   *)
(* MPA: the stronger one, whose selector it never fails to get, has it.    *)
LEMMA ShadowedControlsNone ==
    ASSUME NEW look, LookInv(look), ListsAll(look), look.todo = {},
           NEW m \in Groups(look)
    PROVE  ~Shadowed(m)
  <1>. SUFFICES ASSUME Shadowed(m) PROVE FALSE
    OBVIOUS
  <1>1. PICK p \in DOMAIN look.controlling : look.controlling[p] = m /\ m # NoMpa
    BY DEF Groups
  <1>2. /\ p \in Pod /\ m \in Selecting(look, p)
        /\ \A n \in Selecting(look, p) \ {m} : strongerMpa(m, n)
    BY <1>1 DEF LookInv, LookType, Strongest
  <1>3. PICK failing \in SUBSET AskedScale : look.fetched = FetchAll(failing)
    BY DEF ListsAll
  <1>4. m \in Mpa /\ look.fetched[m].ok /\ PodMatchesMpa(p, m, look.fetched[m].selector)
    BY <1>2 DEF Selecting, ListsAll
  <1>5. look.fetched[m] = FetchAll({})[m]
    BY <1>3, <1>4, FailedHasNone, OtherFetched
  <1>6. Selects(m, p)
    BY <1>4, <1>5 DEF Selects
  <1>7. PICK n \in Mpa \ AskedScale : Selects(n, p) /\ strongerMpa(n, m)
    BY <1>2, <1>6 DEF Shadowed
  <1>8. look.fetched[n] = FetchAll({})[n]
    BY <1>3, <1>7, OtherFetched
  <1>9. n \in Selecting(look, p)
    BY <1>7, <1>8 DEF Selects, Selecting, ListsAll
  <1>10. n # m
    BY <1>4, <1>7, StrongerIrreflexive
  <1>11. strongerMpa(m, n)
    BY <1>2, <1>9, <1>10
  <1>. QED  BY <1>4, <1>7, <1>11, StrongerTransitive, StrongerIrreflexive

(* One more MPA considered.                                                *)
LEMMA ConsideredLists ==
    ASSUME NEW look, NEW m \in look.todo
    PROVE  /\ Considered(look, m).todo \cup Considered(look, m).seen = look.todo \cup look.seen
           /\ Considered(look, m).fetched = look.fetched
           /\ ListsAll(look) => ListsAll(Considered(look, m))
  BY DEF Considered, ListsAll

(* Plans are provided and never taken away: what is known to have one      *)
(* keeps it.                                                               *)
PlansStay == \A m \in Mpa : mpa[m].plan => mpa'[m].plan

LEMMA PlannedStay ==
    ASSUME Inv, PlansStay
    PROVE  /\ UpdPlanned /\ UNCHANGED upd => UpdPlanned'
           /\ AdmPlanned /\ UNCHANGED adm => AdmPlanned'
  <1>1. upd.pc # "idle" => upd.look.todo \cup upd.look.seen \subseteq Mpa
    BY DEF Inv, UpdInv, Idle, UpdMatching, UpdEvicting, Served, LookInv, LookType
  <1>2. UpdPlanned /\ UNCHANGED upd => UpdPlanned'
    BY <1>1 DEF PlansStay, UpdPlanned
  <1>3. AdmPlanned /\ UNCHANGED adm => AdmPlanned'
    BY DEF PlansStay, AdmPlanned
  <1>. QED  BY <1>2, <1>3

LEMMA SameMpas ==
    ASSUME UNCHANGED mpa
    PROVE  PlansStay /\ (DefaultModes => DefaultModes')
  BY DEF PlansStay, DefaultModes

LEMMA TraceStays == ASSUME NoTrace, UNCHANGED <<mpa, scaledBy, pods>> PROVE NoTrace'
  BY DEF NoTrace, ShadowedMpas, Shadowed, Selects

LEMMA RcmAllStays == ASSUME RcmListsAll, UNCHANGED rcm PROVE RcmListsAll'
  BY DEF RcmListsAll

(* Whom the recommender serves is not shadowed.                            *)
LEMMA RcmTurnOfUnshadowed ==
    ASSUME Inv, Unedited, NEW m \in Mpa, RcmTurn(m)
    PROVE  ~Shadowed(m)
  <1>1. rcm.pc # "idle" /\ rcm.look.todo = {} /\ m \in Groups(rcm.look)
    BY DEF RcmTurn
  <1>2. LookInv(rcm.look) /\ ListsAll(rcm.look)
    BY <1>1, LooksInv DEF Looks, Unedited, RcmListsAll
  <1>. QED  BY <1>1, <1>2, ShadowedControlsNone

LEMMA ShadowRecommender ==
    ASSUME Inv, Unedited, Recommender
    PROVE  Unedited'
  <1>. USE DEF Unedited
  <1>1. CASE RcmList
    <2>1. PICK failing \in SUBSET AskedScale :
              rcm' = RcmRecord(Mpa, {}, Lookup({m \in Mpa : RecommenderLists(m)},
                                              FetchAll(failing), Existing))
      BY <1>1 DEF RcmList, RcmRecord
    <2>2. {m \in Mpa : RecommenderLists(m)} = Mpa
      BY DEF RecommenderLists, UpdateMode, DefaultModes
    <2>3. ListsAll(rcm'.look)
      BY <2>1, <2>2 DEF RcmRecord, Lookup, ListsAll
    <2>. QED  BY <1>1, <2>3, SameMpas, PlannedStay, TraceStays DEF RcmList, RcmListsAll
  <1>2. CASE RcmEnd \/ RcmCrash
    <2>1. RcmListsAll'
      BY <1>2 DEF RcmEnd, RcmCrash, RcmListsAll, Idle
    <2>. QED  BY <1>2, <2>1, SameMpas, PlannedStay, TraceStays DEF RcmEnd, RcmCrash
  <1>3. ASSUME NEW m \in Mpa, RcmFails(m) \/ RcmProvides(m) \/ RcmSkips(m) \/ RcmWriteFails(m)
        PROVE  Unedited'
    <2>1. RcmTurn(m) /\ rcm' = [rcm EXCEPT !.served = @ \cup {m}]
      BY <1>3 DEF RcmFails, FailedContinues, RcmProvides, RcmSkips, RcmWriteFails
    <2>2. UNCHANGED <<pods, scaledBy, upd, adm>>
      BY <1>3 DEF RcmFails, RcmProvides, RcmSkips, RcmWriteFails
    <2>3. ~Shadowed(m)
      BY <2>1, RcmTurnOfUnshadowed
    <2>4. RcmListsAll'
      <3>1. PICK f, s, l : rcm = RcmRecord(f, s, l)
        BY <2>1 DEF Inv, RcmInv, RcmTurn, Idle
      <3>2. rcm' = RcmRecord(f, s \cup {m}, l)
        BY <2>1, <3>1 DEF RcmRecord
      <3>. QED  BY <3>1, <3>2 DEF RcmListsAll, RcmRecord
    <2>5. \A n \in Mpa : /\ mpa'[n].mode = mpa[n].mode
                         /\ mpa[n].plan => mpa'[n].plan
                         /\ n # m => mpa'[n] = mpa[n]
      <3>. USE DEF Inv, DataInv
      <3>1. CASE RcmFails(m)
        BY <3>1 DEF RcmFails
      <3>2. CASE RcmProvides(m)
        BY <3>2 DEF RcmProvides
      <3>3. CASE RcmSkips(m)
        BY <3>3 DEF RcmSkips
      <3>4. CASE RcmWriteFails(m)
        BY <3>4 DEF RcmWriteFails
      <3>. QED  BY <1>3, <3>1, <3>2, <3>3, <3>4
    <2>6. NoTrace'
      BY <2>2, <2>3, <2>5 DEF NoTrace, ShadowedMpas
    <2>7. PlansStay /\ DefaultModes'
      BY <2>5 DEF PlansStay, DefaultModes
    <2>. QED  BY <2>2, <2>4, <2>6, <2>7, PlannedStay
  <1>. QED  BY <1>1, <1>2, <1>3 DEF Recommender

(* Whom the updater serves has a plan, and therefore is not shadowed.      *)
LEMMA UpdServesUnshadowed ==
    ASSUME Inv, Unedited, upd.pc # "idle", NEW m \in Groups(upd.look)
    PROVE  m \in Mpa /\ ~Shadowed(m)
  <1>1. LookInv(upd.look)
    BY LooksInv DEF Looks
  <1>2. m \in upd.look.seen /\ m \in Mpa
    BY <1>1, GroupsType
  <1>. QED  BY <1>2 DEF Unedited, UpdPlanned, NoTrace, ShadowedMpas

LEMMA UpdEvictingInv ==
    ASSUME Inv, upd.pc = "evicting"
    PROVE  upd.serving \in Groups(upd.look)
  BY DEF Inv, UpdInv, Idle, UpdMatching, UpdEvicting

LEMMA ShadowUpdater ==
    ASSUME Inv, Unedited, Updater
    PROVE  Unedited'
  <1>. USE DEF Unedited
  <1>1. CASE UpdList
    <2>1. PICK failing \in SUBSET AskedScale :
              upd' = UpdMatching({}, Lookup({m \in Mpa : UpdaterLists(m)},
                                           FetchAll(failing), Existing))
      BY <1>1 DEF UpdList, UpdMatching
    <2>2. UNCHANGED <<mpa, pods, scaledBy, rcm, adm>>
      BY <1>1 DEF UpdList
    <2>3. \A m \in upd'.look.todo \cup upd'.look.seen : mpa[m].plan
      BY <2>1 DEF UpdMatching, Lookup, UpdaterLists
    <2>4. UpdPlanned'
      BY <2>2, <2>3 DEF UpdPlanned
    <2>. QED  BY <2>2, <2>4, SameMpas, PlannedStay, TraceStays, RcmAllStays
  <1>2. ASSUME NEW m \in Mpa, UpdScale(m) \/ UpdScaleFails(m)
        PROVE  Unedited'
    <2>1. UpdTurn(m) /\ StartEvicting(m) /\ UNCHANGED <<mpa, pods, rcm, adm>>
      BY <1>2 DEF UpdScale, UpdScaleFails
    <2>2. upd.pc # "idle" /\ m \in Groups(upd.look) /\ upd'.look = upd.look
      BY <2>1 DEF UpdTurn, StartEvicting
    <2>3. m \in Mpa /\ ~Shadowed(m)
      BY <2>2, UpdServesUnshadowed
    <2>4. \A n \in ShadowedMpas : scaledBy'[Key(n)] # n
      <3>. DEFINE targets == {Key(n) : n \in Mpa}
      <3>1. scaledBy' = [scaledBy EXCEPT ![Key(m)] = m] \/ UNCHANGED scaledBy
        BY <1>2 DEF UpdScale, UpdScaleFails
      <3>2. DOMAIN scaledBy = targets /\ \A n \in Mpa : Key(n) \in targets
        BY DEF Inv, DataInv
      <3>. SUFFICES ASSUME NEW n \in ShadowedMpas PROVE scaledBy'[Key(n)] # n
        OBVIOUS
      <3>3. n \in Mpa /\ n # m /\ scaledBy[Key(n)] # n
        BY <2>3 DEF ShadowedMpas, NoTrace
      <3>4. Key(n) \in DOMAIN scaledBy
        BY <3>2, <3>3
      <3>. HIDE DEF targets
      <3>. QED  BY <3>1, <3>3, <3>4
    <2>5. NoTrace'
      BY <2>1, <2>4 DEF NoTrace, ShadowedMpas
    <2>6. UpdPlanned'
      BY <2>1, <2>2 DEF UpdPlanned
    <2>. QED  BY <2>1, <2>5, <2>6, SameMpas, PlannedStay, RcmAllStays
  <1>3. ASSUME NEW p \in Pod, UpdEvict(p)
        PROVE  Unedited'
    <2>1. UNCHANGED <<mpa, scaledBy, rcm, adm>>
      BY <1>3 DEF UpdEvict
    <2>2. \/ UNCHANGED pods
          \/ pods' = [pods EXCEPT ![p] = [exists |-> FALSE, patchedBy |-> NoMpa]]
      BY <1>3 DEF UpdEvict
    <2>3. \A q \in Pod : \A m \in ShadowedMpas : pods'[q].patchedBy # m
      <3>1. DOMAIN pods = Pod /\ NoMpa \notin ShadowedMpas
        BY MatchingAssumption DEF Inv, DataInv, ShadowedMpas
      <3>. QED  BY <2>2, <3>1 DEF NoTrace
    <2>4. NoTrace'
      BY <2>1, <2>3 DEF NoTrace, ShadowedMpas
    <2>5. upd.pc # "idle" /\ upd'.look = upd.look
      <3>1. PICK s, l, m, e, q : upd = UpdEvicting(s, l, m, e, q)
        BY <1>3 DEF Inv, UpdInv, UpdEvict, Idle, UpdMatching
      <3>2. \/ \E qq : upd' = [upd EXCEPT !.queue = qq]
            \/ \E qq, ee : upd' = [upd EXCEPT !.queue = qq, !.ev = ee]
        BY <1>3 DEF UpdEvict
      <3>. QED  BY <3>1, <3>2 DEF UpdEvicting
    <2>6. UpdPlanned'
      BY <2>1, <2>5 DEF UpdPlanned
    <2>. QED  BY <2>1, <2>4, <2>6, SameMpas, PlannedStay, RcmAllStays
  <1>4. CASE UpdEndTurn
    <2>1. UpdPlanned'
      BY <1>4 DEF UpdEndTurn, UpdPlanned
    <2>. QED  BY <1>4, <2>1, SameMpas, PlannedStay, TraceStays, RcmAllStays DEF UpdEndTurn
  <1>5. CASE UpdEnd \/ UpdCrash
    <2>1. UpdPlanned'
      BY <1>5 DEF UpdEnd, UpdCrash, UpdPlanned, Idle
    <2>. QED  BY <1>5, <2>1, SameMpas, PlannedStay, TraceStays, RcmAllStays DEF UpdEnd, UpdCrash
  <1>. QED  BY <1>1, <1>2, <1>3, <1>4, <1>5 DEF Updater

LEMMA ShadowWebhook ==
    ASSUME Inv, Unedited, Webhook
    PROVE  Unedited'
  <1>. USE DEF Unedited
  <1>1. ASSUME NEW p \in Pod, AdmList(p)
        PROVE  Unedited'
    <2>1. UNCHANGED <<mpa, pods, scaledBy, rcm, upd>>
      BY <1>1 DEF AdmList
    <2>2. adm'.planned = {m \in Mpa : mpa[m].plan}
      BY <1>1 DEF AdmList
    <2>3. AdmPlanned'
      BY <2>1, <2>2 DEF AdmPlanned
    <2>. QED  BY <2>1, <2>3, SameMpas, PlannedStay, TraceStays, RcmAllStays
  <1>2. CASE AdmPatch \/ AdmFails
    <2>1. UNCHANGED <<mpa, scaledBy, rcm, upd>> /\ adm' = Idle /\ adm.pc # "idle"
      BY <1>2 DEF AdmPatch, AdmFails
    <2>2. AdmPlanned'
      BY <2>1 DEF AdmPlanned, Idle
    <2>3. \A m : PatchedBy(m) \notin ShadowedMpas
      <3>1. NoMpa \notin ShadowedMpas
        BY MatchingAssumption DEF ShadowedMpas
      <3>. QED  BY <2>1, <3>1 DEF PatchedBy, AdmPlanned, NoTrace
    <2>4. \A p \in Pod : \A m \in ShadowedMpas : pods'[p].patchedBy # m
      <3>1. PICK n : /\ pods' = [pods EXCEPT ![adm.pod] = [exists |-> TRUE, patchedBy |-> n]]
                     /\ n \notin ShadowedMpas
        <4>1. NoMpa \notin ShadowedMpas
          BY MatchingAssumption DEF ShadowedMpas
        <4>. QED  BY <1>2, <2>3, <4>1 DEF AdmPatch, AdmFails
      <3>2. DOMAIN pods = Pod
        BY DEF Inv, DataInv
      <3>. QED  BY <3>1, <3>2 DEF NoTrace
    <2>5. NoTrace'
      BY <2>1, <2>4 DEF NoTrace, ShadowedMpas
    <2>. QED  BY <2>1, <2>2, <2>5, SameMpas, PlannedStay, RcmAllStays
  <1>. QED  BY <1>1, <1>2 DEF Webhook

LEMMA ShadowLoop ==
    ASSUME Inv, Unedited, Loop
    PROVE  Unedited'
  <1>. USE DEF Unedited
  <1>1. ASSUME NEW m \in Mpa, RcmConsider(m) PROVE Unedited'
    <2>1. PICK f, s, l : rcm = RcmRecord(f, s, l)
      BY <1>1 DEF Inv, RcmInv, RcmConsider, Idle
    <2>2. m \in l.todo /\ ListsAll(l) /\ rcm' = RcmRecord(f, s, Considered(l, m))
      BY <1>1, <2>1 DEF RcmConsider, RcmRecord, RcmListsAll
    <2>3. ListsAll(Considered(l, m))
      BY <2>2, ConsideredLists
    <2>4. RcmListsAll'
      BY <2>2, <2>3 DEF RcmListsAll, RcmRecord
    <2>. QED  BY <1>1, <2>4, SameMpas, PlannedStay, TraceStays DEF RcmConsider
  <1>2. ASSUME NEW m \in Mpa, UpdConsider(m) PROVE Unedited'
    <2>1. PICK s, l : upd = UpdMatching(s, l)
      BY <1>2 DEF Inv, UpdInv, UpdConsider, Idle, UpdEvicting
    <2>2. m \in l.todo /\ upd' = UpdMatching(s, Considered(l, m))
      BY <1>2, <2>1 DEF UpdConsider, UpdMatching
    <2>3. upd'.look.todo \cup upd'.look.seen = upd.look.todo \cup upd.look.seen
      BY <2>1, <2>2, ConsideredLists DEF UpdMatching
    <2>4. UpdPlanned'
      BY <1>2, <2>3 DEF UpdPlanned, UpdConsider
    <2>. QED  BY <1>2, <2>4, SameMpas, PlannedStay, TraceStays, RcmAllStays DEF UpdConsider
  <1>3. ASSUME NEW m \in Mpa, AdmConsider(m) PROVE Unedited'
    <2>1. PICK p, n, l : adm = AdmRecord(p, n, l)
      BY <1>3 DEF Inv, AdmInv, AdmConsider, Idle
    <2>2. adm'.planned = adm.planned
      BY <1>3, <2>1 DEF AdmConsider, AdmRecord
    <2>3. AdmPlanned'
      BY <1>3, <2>2 DEF AdmPlanned, AdmConsider
    <2>. QED  BY <1>3, <2>3, SameMpas, PlannedStay, TraceStays, RcmAllStays DEF AdmConsider
  <1>. QED  BY <1>1, <1>2, <1>3 DEF Loop

LEMMA ShadowInit == Init => ShadowInv
  <1>. SUFFICES ASSUME Init PROVE ShadowInv
    OBVIOUS
  <1>1. DefaultModes /\ RcmListsAll /\ UpdPlanned /\ AdmPlanned
    BY DEF Init, Idle, DefaultModes, RcmListsAll, UpdPlanned, AdmPlanned
  <1>2. \A m \in Mpa : ~mpa[m].plan /\ scaledBy[Key(m)] # m
    <2>. DEFINE targets == {Key(m) : m \in Mpa}
    <2>1. scaledBy = [t \in targets |-> NoMpa] /\ \A m \in Mpa : Key(m) \in targets
      BY DEF Init
    <2>. HIDE DEF targets
    <2>2. \A m \in Mpa : scaledBy[Key(m)] = NoMpa /\ m # NoMpa
      BY <2>1, MatchingAssumption
    <2>. QED  BY <2>2 DEF Init
  <1>3. \A m \in Mpa : \A p \in Pod : pods[p].patchedBy # m
    BY MatchingAssumption DEF Init
  <1>4. NoTrace
    BY <1>2, <1>3 DEF NoTrace, ShadowedMpas
  <1>. QED  BY <1>1, <1>4 DEF Init, Unedited, ShadowInv

LEMMA ShadowNext == Inv /\ ShadowInv /\ [Next]_vars => ShadowInv'
  <1>. SUFFICES ASSUME Inv, ShadowInv, [Next]_vars PROVE ShadowInv'
    OBVIOUS
  <1>1. CASE UNCHANGED vars
    <2>1. Unedited => Unedited'
      BY <1>1, SameMpas, PlannedStay, TraceStays, RcmAllStays DEF vars, Unedited
    <2>. QED  BY <1>1, <2>1 DEF vars, ShadowInv
  <1>2. CASE \E m \in Mpa : EditMode(m)
    BY <1>2 DEF EditMode, ShadowInv
  <1>3. CASE Recommender \/ Updater \/ Webhook \/ Loop
    <2>1. Unedited => Unedited'
      BY <1>3, ShadowRecommender, ShadowUpdater, ShadowWebhook, ShadowLoop
    <2>2. UNCHANGED edits
      <3>1. CASE Recommender
        BY <3>1 DEF Recommender, RcmList, RcmEnd, RcmCrash, RcmFails, RcmProvides, RcmSkips,
                    RcmWriteFails
      <3>2. CASE Updater
        BY <3>2 DEF Updater, UpdList, UpdEndTurn, UpdEnd, UpdCrash, UpdScale, UpdScaleFails,
                    UpdEvict
      <3>3. CASE Webhook
        BY <3>3 DEF Webhook, AdmPatch, AdmFails, AdmList
      <3>4. CASE Loop
        BY <3>4 DEF Loop, RcmConsider, UpdConsider, AdmConsider
      <3>. QED  BY <1>3, <3>1, <3>2, <3>3, <3>4
    <2>. QED  BY <2>1, <2>2 DEF ShadowInv
  <1>. QED  BY <1>1, <1>2, <1>3 DEF Next

(* Before a mode is edited, an MPA that a stronger one shadows never gets  *)
(* a plan, scales, evicts or patches, although each procedure draws up its *)
(* own list and any call may fail: a failed call can only take an MPA off  *)
(* a list whose target is not in the informers' stores.                    *)
THEOREM ShadowedStaysIdle == Spec => []ShadowedNeverActs
  <1>1. Spec => []ShadowInv
    BY InvAlways, ShadowInit, ShadowNext, PTL DEF Spec
  <1>2. Inv /\ ShadowInv => ShadowedNeverActs
    <2>. SUFFICES ASSUME Inv, Unedited, edits = 0, NEW m \in ShadowedMpas
                  PROVE  /\ ~mpa[m].plan /\ scaledBy[Key(m)] # m
                         /\ upd.pc = "evicting" => upd.serving # m
                         /\ \A p \in Pod : pods[p].patchedBy # m
      BY DEF ShadowInv, ShadowedNeverActs, ShadowedMpas
    <2>1. upd.pc = "evicting" => upd.serving # m
      BY UpdEvictingInv, UpdServesUnshadowed DEF ShadowedMpas
    <2>. QED  BY <2>1 DEF Unedited, NoTrace
  <1>. QED  BY <1>1, <1>2, InvAlways, PTL

=============================================================================
