------------------------------ MODULE SharedPods ------------------------------
(***************************************************************************)
(* Several MPAs that may select the same pods.  The recommender, the       *)
(* updater and the webhook each draw up a list of MPAs, by rules of their  *)
(* own, and give each pod to the strongest of the list that selects it:    *)
(* GetControllingMpaForPod, a loop over a list in the arbitrary order of   *)
(* the lister.  Here the loop is stepped through, MPA by MPA, for all pods *)
(* of the procedure at once, as they share the list.                       *)
(*                                                                         *)
(* A plan is only known by the MPA it belongs to, and leaves the number of *)
(* pods as it is: numbers and loads are the subject of ControlLoop.        *)
(***************************************************************************)
EXTENDS Matching, FiniteSets

CONSTANTS
    Controller, KindOf, MinReplicas, EvictionFraction,   \* as in Evictor
    OwnerOf,     \* Pod -> Controller
    Objects,     \* the stores of the fetcher's informers
    Answers,     \* Mpa -> what the API server answers about its target's scale
    Broken,      \* MPAs whose pods have no metrics
    MaxEdits,    \* bound: edits of a mode by the user
    MaxFaults    \* bound: failed calls and restarts

INSTANCE Evictor

ASSUME SharedPodsAssumption ==
    /\ OwnerOf \in [Pod -> Controller]
    /\ Broken \subseteq Mpa
    /\ MaxEdits \in Nat /\ MaxFaults \in Nat

VARIABLES
    mpa,        \* the MPAs in the API server: mode, plan or not, latest condition
    pods,       \* each pod: does it exist, and whose plan it was created with
    scaledBy,   \* target -> the MPA whose plan it was last scaled to
    rcm,        \* the recommender's procedure
    upd,        \* the updater's procedure
    adm,        \* the webhook's request in progress
    edits, faults

vars == <<mpa, pods, scaledBy, rcm, upd, adm, edits, faults>>

Idle == [pc |-> "idle"]

Fault == faults < MaxFaults /\ faults' = faults + 1

Init ==
    /\ mpa = [m \in Mpa |-> [mode |-> "", plan |-> FALSE, condition |-> "None"]]
    /\ pods = [p \in Pod |-> [exists |-> TRUE, patchedBy |-> NoMpa]]
    /\ scaledBy = [t \in {Key(m) : m \in Mpa} |-> NoMpa]
    /\ rcm = Idle
    /\ upd = Idle
    /\ adm = Idle
    /\ edits = 0 /\ faults = 0

-----------------------------------------------------------------------------
(* Lists of MPAs.                                                          *)

(* An unspecified mode is Auto.                                            *)
UpdateMode(m) == IF mpa[m].mode = "" THEN "Auto" ELSE mpa[m].mode

LatestCondition(m) ==
    IF mpa[m].condition = "None" THEN "RecommendationProvided" ELSE mpa[m].condition

(* Fetch for each MPA, the calls about the targets of some of them failing.*)
AskedScale == {m \in Mpa : TargetRef[m].kind \notin FetcherKinds}

FetchAll(failing) ==
    [m \in Mpa |->
        Fetch(m, Objects,
              IF m \in failing THEN [i \in DOMAIN Answers[m] |-> [outcome |-> "error"]]
              ELSE Answers[m])]

(* The tests before Fetch, one procedure each.                             *)
RecommenderLists(m) == UpdateMode(m) = "Auto"

UpdaterLists(m) ==
    /\ UpdateMode(m) = "Auto"
    /\ LatestCondition(m) = "RecommendationProvided"
    /\ mpa[m].plan

WebhookLists(m, p) ==
    /\ MpaNamespace[m] = PodNamespace[p]
    /\ UpdateMode(m) # "Off"

Existing == {p \in Pod : pods[p].exists}

(* The start of the loop over `listed`, for the pods of `ps`.              *)
Lookup(listed, fetched, ps) ==
    [todo        |-> {m \in listed : fetched[m].ok},
     fetched     |-> fetched,
     seen        |-> {},
     controlling |-> [p \in ps |-> NoMpa]]

(* A variant with a bug: the last MPA of the list that selects a pod gets  *)
(* it.                                                                     *)
ConsideredLast(look, m) ==
    [look EXCEPT !.todo = @ \ {m}, !.seen = @ \cup {m},
                 !.controlling =
                    [p \in DOMAIN @ |->
                        IF PodMatchesMpa(p, m, look.fetched[m].selector) THEN m ELSE @[p]]]

Considered(look, m) ==
    [todo        |-> look.todo \ {m},
     fetched     |-> look.fetched,
     seen        |-> look.seen \cup {m},
     controlling |-> KeepStronger(look.controlling, m, look.fetched[m].selector)]

(* mpaControlledPods: the MPAs that got at least one pod.                  *)
Groups(look) == {look.controlling[p] : p \in DOMAIN look.controlling} \ {NoMpa}

GroupOf(look, m) == {p \in DOMAIN look.controlling : look.controlling[p] = m}

-----------------------------------------------------------------------------
(* The recommender.  `fresh` are the MPAs whose listed version is still    *)
(* the server's, `served` those whose turn in the loop is over.            *)

RcmList ==
    /\ rcm.pc = "idle"
    /\ \E failing \in SUBSET AskedScale :
        /\ IF failing = {} THEN UNCHANGED faults ELSE Fault
        /\ rcm' = [pc |-> "matching", fresh |-> Mpa, served |-> {},
                   look |-> Lookup({m \in Mpa : RecommenderLists(m)},
                                   FetchAll(failing), Existing)]
    /\ UNCHANGED <<mpa, pods, scaledBy, upd, adm, edits>>

RcmConsider(m) ==
    /\ rcm.pc = "matching" /\ m \in rcm.look.todo
    /\ rcm' = [rcm EXCEPT !.look = Considered(@, m)]
    /\ UNCHANGED <<mpa, pods, scaledBy, upd, adm, edits, faults>>

RcmTurn(m) ==
    /\ rcm.pc = "matching" /\ rcm.look.todo = {}
    /\ m \in Groups(rcm.look) \ rcm.served

(* A variant with a bug: the procedure returns where the code continues.   *)
FailedReturns(m) == rcm' = Idle

(* After an MPA that failed the loop goes on.                              *)
FailedContinues(m) == rcm' = [rcm EXCEPT !.served = @ \cup {m}]

(* Without metrics nothing is calculated, and the condition says so.       *)
RcmFails(m) ==
    /\ RcmTurn(m)
    /\ IF m \in Broken THEN UNCHANGED faults ELSE Fault
    /\ mpa' = IF m \in rcm.fresh
              THEN [mpa EXCEPT ![m].condition = "RecommendationSkipped"] ELSE mpa
    /\ FailedContinues(m)
    /\ UNCHANGED <<pods, scaledBy, upd, adm, edits>>

(* A plan is provided, or the one there is kept; the write is lost if the  *)
(* MPA has changed since it was listed.                                    *)
RcmProvides(m) ==
    /\ RcmTurn(m) /\ m \notin Broken
    /\ mpa' = IF m \in rcm.fresh
              THEN [mpa EXCEPT ![m].plan = TRUE, ![m].condition = "RecommendationProvided"]
              ELSE mpa
    /\ rcm' = [rcm EXCEPT !.served = @ \cup {m}]
    /\ UNCHANGED <<pods, scaledBy, upd, adm, edits, faults>>

RcmSkips(m) ==
    /\ RcmTurn(m) /\ m \notin Broken /\ mpa[m].plan
    /\ mpa' = IF m \in rcm.fresh
              THEN [mpa EXCEPT ![m].condition = "RecommendationSkipped"] ELSE mpa
    /\ rcm' = [rcm EXCEPT !.served = @ \cup {m}]
    /\ UNCHANGED <<pods, scaledBy, upd, adm, edits, faults>>

(* The write of a result fails and is only logged.                         *)
RcmWriteFails(m) ==
    /\ RcmTurn(m)
    /\ Fault
    /\ rcm' = [rcm EXCEPT !.served = @ \cup {m}]
    /\ UNCHANGED <<mpa, pods, scaledBy, upd, adm, edits>>

RcmEnd ==
    /\ rcm.pc = "matching" /\ rcm.look.todo = {}
    /\ Groups(rcm.look) \subseteq rcm.served
    /\ rcm' = Idle
    /\ UNCHANGED <<mpa, pods, scaledBy, upd, adm, edits, faults>>

RcmCrash ==
    /\ rcm.pc # "idle"
    /\ rcm' = Idle
    /\ Fault
    /\ UNCHANGED <<mpa, pods, scaledBy, upd, adm, edits>>

-----------------------------------------------------------------------------
(* The updater.  While it evicts, `serving` is the MPA it does so for.     *)

UpdList ==
    /\ upd.pc = "idle"
    /\ \E failing \in SUBSET AskedScale :
        LET look == Lookup({m \in Mpa : UpdaterLists(m)}, FetchAll(failing), Existing) IN
        /\ IF failing = {} THEN UNCHANGED faults ELSE Fault
        /\ look.todo # {}
        /\ upd' = [pc |-> "matching", served |-> {}, look |-> look]
    /\ UNCHANGED <<mpa, pods, scaledBy, rcm, adm, edits>>

UpdConsider(m) ==
    /\ upd.pc = "matching" /\ m \in upd.look.todo
    /\ upd' = [upd EXCEPT !.look = Considered(@, m)]
    /\ UNCHANGED <<mpa, pods, scaledBy, rcm, adm, edits, faults>>

(* The evictor knows the pods of the group only, but the replicas of the   *)
(* whole controller.                                                       *)
View(ps) == [p \in ps |-> [controller |-> OwnerOf[p], phase |-> "Running"]]

Replicas == [c \in Controller |-> Cardinality({p \in Pod : OwnerOf[p] = c})]

(* A variant with a bug: the evictor is handed all pods there are.         *)
StartEvictingAll(m) ==
    LET view == View(DOMAIN upd.look.controlling)
        ev   == NewPodEvictor(view, Replicas)
    IN  upd' = [pc |-> "evicting", served |-> upd.served, look |-> upd.look,
                serving |-> m, ev |-> ev,
                queue |-> {p \in DOMAIN view : Evictable(ev, view, p)}]

StartEvicting(m) ==
    LET view == View(GroupOf(upd.look, m))
        ev   == NewPodEvictor(view, Replicas)
    IN  upd' = [pc |-> "evicting", served |-> upd.served, look |-> upd.look,
                serving |-> m, ev |-> ev,
                queue |-> {p \in DOMAIN view : Evictable(ev, view, p)}]

UpdTurn(m) ==
    /\ upd.pc = "matching" /\ upd.look.todo = {}
    /\ m \in Groups(upd.look) \ upd.served

UpdScale(m) ==
    /\ UpdTurn(m)
    /\ scaledBy' = [scaledBy EXCEPT ![Key(m)] = m]
    /\ StartEvicting(m)
    /\ UNCHANGED <<mpa, pods, rcm, adm, edits, faults>>

UpdScaleFails(m) ==
    /\ UpdTurn(m)
    /\ Fault
    /\ StartEvicting(m)
    /\ UNCHANGED <<mpa, pods, scaledBy, rcm, adm, edits>>

(* The eviction is by name, whatever pod has it now; it finds none, or is  *)
(* refused, and the loop goes on.                                          *)
UpdEvict(p) ==
    LET view == View(GroupOf(upd.look, upd.serving)) IN
    /\ upd.pc = "evicting" /\ p \in upd.queue
    /\ \/ /\ Evictable(upd.ev, view, p) /\ pods[p].exists
          /\ pods' = [pods EXCEPT ![p] = [exists |-> FALSE, patchedBy |-> NoMpa]]
          /\ upd' = [upd EXCEPT !.queue = @ \ {p}, !.ev = CountEviction(@, view, p)]
          /\ UNCHANGED faults
       \/ /\ Evictable(upd.ev, view, p) /\ pods[p].exists
          /\ Fault
          /\ upd' = [upd EXCEPT !.queue = @ \ {p}]
          /\ UNCHANGED pods
       \/ /\ ~Evictable(upd.ev, view, p) \/ ~pods[p].exists
          /\ upd' = [upd EXCEPT !.queue = @ \ {p}]
          /\ UNCHANGED <<pods, faults>>
    /\ UNCHANGED <<mpa, scaledBy, rcm, adm, edits>>

UpdEndTurn ==
    /\ upd.pc = "evicting" /\ upd.queue = {}
    /\ upd' = [pc |-> "matching", served |-> upd.served \cup {upd.serving}, look |-> upd.look]
    /\ UNCHANGED <<mpa, pods, scaledBy, rcm, adm, edits, faults>>

UpdEnd ==
    /\ upd.pc = "matching" /\ upd.look.todo = {}
    /\ Groups(upd.look) \subseteq upd.served
    /\ upd' = Idle
    /\ UNCHANGED <<mpa, pods, scaledBy, rcm, adm, edits, faults>>

UpdCrash ==
    /\ upd.pc # "idle"
    /\ upd' = Idle
    /\ Fault
    /\ UNCHANGED <<mpa, pods, scaledBy, rcm, adm, edits>>

-----------------------------------------------------------------------------
(* A pod that was evicted is created again, and the webhook is asked.      *)

AdmList(p) ==
    /\ adm.pc = "idle" /\ ~pods[p].exists
    /\ \E failing \in SUBSET AskedScale :
        /\ IF failing = {} THEN UNCHANGED faults ELSE Fault
        /\ adm' = [pc |-> "matching", pod |-> p,
                   planned |-> {m \in Mpa : mpa[m].plan},
                   look |-> Lookup({m \in Mpa : WebhookLists(m, p)}, FetchAll(failing), {p})]
    /\ UNCHANGED <<mpa, pods, scaledBy, rcm, upd, edits>>

AdmConsider(m) ==
    /\ adm.pc = "matching" /\ m \in adm.look.todo
    /\ adm' = [adm EXCEPT !.look = Considered(@, m)]
    /\ UNCHANGED <<mpa, pods, scaledBy, rcm, upd, edits, faults>>

(* Without a plan in the MPA that controls it the pod stays as it is.      *)
PatchedBy(m) == IF m \in adm.planned THEN m ELSE NoMpa

AdmPatch ==
    /\ adm.pc = "matching" /\ adm.look.todo = {}
    /\ pods' = [pods EXCEPT ![adm.pod] =
                  [exists |-> TRUE, patchedBy |-> PatchedBy(adm.look.controlling[adm.pod])]]
    /\ adm' = Idle
    /\ UNCHANGED <<mpa, scaledBy, rcm, upd, edits, faults>>

(* No answer: the pod is created as it is.                                 *)
AdmFails ==
    /\ adm.pc = "matching"
    /\ Fault
    /\ pods' = [pods EXCEPT ![adm.pod] = [exists |-> TRUE, patchedBy |-> NoMpa]]
    /\ adm' = Idle
    /\ UNCHANGED <<mpa, scaledBy, rcm, upd, edits>>

-----------------------------------------------------------------------------
(* The user switches a mode; a version listed before is out of date.           *)
EditMode(m) ==
    /\ edits < MaxEdits /\ edits' = edits + 1
    /\ mpa' = [mpa EXCEPT ![m].mode = IF @ = "Off" THEN "Auto" ELSE "Off"]
    /\ rcm' = IF rcm.pc = "matching" THEN [rcm EXCEPT !.fresh = @ \ {m}] ELSE rcm
    /\ UNCHANGED <<pods, scaledBy, upd, adm, faults>>

Recommender ==
    \/ RcmList \/ RcmEnd \/ RcmCrash
    \/ \E m \in Mpa : RcmFails(m) \/ RcmProvides(m) \/ RcmSkips(m) \/ RcmWriteFails(m)

Updater ==
    \/ UpdList \/ UpdEndTurn \/ UpdEnd \/ UpdCrash
    \/ \E m \in Mpa : UpdScale(m) \/ UpdScaleFails(m)
    \/ \E p \in Pod : UpdEvict(p)

Webhook ==
    \/ AdmPatch \/ AdmFails
    \/ \E p \in Pod : AdmList(p)

Looks ==
    {l.look : l \in {k \in {rcm, upd, adm} : k.pc # "idle"}}

(* A loop reads nothing but its own list, so that nothing else needs to be *)
(* interleaved with it: other steps come before its first or after its     *)
(* last one.                                                               *)
Looping == \E look \in Looks : look.todo # {}

Loop == \E m \in Mpa : RcmConsider(m) \/ UpdConsider(m) \/ AdmConsider(m)

Next ==
    \/ Loop
    \/ /\ ~Looping
       /\ Recommender \/ Updater \/ Webhook \/ \E m \in Mpa : EditMode(m)

Spec == Init /\ [][Next]_vars

RcmStep ==
    \/ RcmList \/ RcmEnd
    \/ \E m \in Mpa : RcmFails(m) \/ RcmProvides(m) \/ RcmSkips(m)

(* Loops end, the recommender's ticker keeps firing and its procedure goes *)
(* on.  (A loop of another procedure may hold up a step here, so the       *)
(* fairness is strong; in the code it holds up nothing.)                   *)
FairSpec ==
    /\ Spec
    /\ WF_vars(Loop)
    /\ SF_vars(~Looping /\ RcmStep)

-----------------------------------------------------------------------------
(* Types; each MPA of a list is considered once, only the listed ones get  *)
(* pods, a procedure serves MPAs that have pods, and a pod waits for the   *)
(* webhook as long as the request is not answered.                         *)
TypeOK ==
    /\ mpa \in [Mpa -> [mode : {"", "Auto", "Off"}, plan : BOOLEAN,
                        condition : {"None", "RecommendationProvided", "RecommendationSkipped"}]]
    /\ pods \in [Pod -> [exists : BOOLEAN, patchedBy : Mpa \cup {NoMpa}]]
    /\ scaledBy \in [{Key(m) : m \in Mpa} -> Mpa \cup {NoMpa}]
    /\ \A look \in Looks :
        /\ look.todo \subseteq Mpa /\ look.seen \subseteq Mpa
        /\ look.todo \cap look.seen = {}
        /\ DOMAIN look.controlling \subseteq Pod
        /\ Groups(look) \subseteq look.seen
    /\ rcm.pc # "idle" => rcm.served \subseteq Groups(rcm.look)
    /\ upd.pc # "idle" => upd.served \subseteq Groups(upd.look)
    /\ upd.pc = "evicting" => upd.queue \subseteq GroupOf(upd.look, upd.serving)
    /\ adm.pc # "idle" => ~pods[adm.pod].exists

(* Among the MPAs considered so far, those that select a pod.              *)
Selecting(look, p) ==
    {m \in look.seen : PodMatchesMpa(p, m, look.fetched[m].selector)}

(* Whatever the order of the list, each pod is with the one MPA that is    *)
(* stronger than every other considered so far that selects it, and with   *)
(* none only if none does (api.go:113-121).                                *)
Strongest(look) ==
    \A p \in DOMAIN look.controlling :
        IF Selecting(look, p) = {} THEN look.controlling[p] = NoMpa
        ELSE /\ look.controlling[p] \in Selecting(look, p)
             /\ \A n \in Selecting(look, p) \ {look.controlling[p]} :
                    strongerMpa(look.controlling[p], n)

ControllingIsStrongest == \A look \in Looks : Strongest(look)

Selects(m, p) ==
    LET fetched == FetchAll({})[m] IN fetched.ok /\ PodMatchesMpa(p, m, fetched.selector)

(* Every pod an MPA selects is selected by a stronger one, whose target is *)
(* in the informers' stores.                                               *)
Shadowed(m) ==
    \A p \in Pod : Selects(m, p) =>
        \E n \in Mpa \ AskedScale : Selects(n, p) /\ strongerMpa(n, m)

(* An MPA that a stronger one shadows gets no plan, scales nothing, evicts *)
(* nothing and patches nothing, as long as no mode is edited, whatever     *)
(* fails: the three procedures agree on it although they draw up different *)
(* lists (recommender.go:61-79, updater.go:86-114, matcher.go:31-66).      *)
ShadowedNeverActs ==
    edits = 0 =>
        \A m \in {n \in Mpa : Shadowed(n)} :
            /\ ~mpa[m].plan /\ scaledBy[Key(m)] # m
            /\ upd.pc = "evicting" => upd.serving # m
            /\ \A p \in Pod : pods[p].patchedBy # m

(* An MPA that is in control of a pod.                                     *)
Controls(m) ==
    /\ UpdateMode(m) = "Auto"
    /\ \E p \in Existing :
        /\ Selects(m, p)
        /\ \A n \in Mpa \ {m} :
            UpdateMode(n) = "Auto" /\ Selects(n, p) => strongerMpa(m, n)

(* An MPA that stays in control of a pod is served again and again,        *)
(* however the MPAs beside it fail (recommender.go:107-116).               *)
EveryControllerServed ==
    \A m \in Mpa : <>[]Controls(m) => []<>(rcm.pc = "matching" /\ m \in rcm.served)

(* api.go:155-156: of two MPAs that select the same pod the one created    *)
(* earlier has priority.                                                   *)
OlderHasPriority ==
    upd.pc = "evicting" =>
        \A p \in upd.queue, m \in Mpa :
            UpdateMode(m) = "Auto" /\ mpa[m].plan /\ Selects(m, p)
                => CreatedAt[upd.serving] <= CreatedAt[m]

=============================================================================
