------------------------------- MODULE Matching -------------------------------
(***************************************************************************)
(* Which MPA controls a pod, as operators: the label selector of an MPA's  *)
(* target (pkg/target/fetch.go), the test whether it selects a pod, and    *)
(* the order in which MPAs that select the same pod take precedence        *)
(* (pkg/util/mpa/api.go).                                                  *)
(*                                                                         *)
(* A selector is the set of label sets it matches, the label set of a pod  *)
(* one value.                                                              *)
(***************************************************************************)
EXTENDS Integers, Sequences

CONSTANTS
    Mpa,            \* objects, each with namespace/name
    NoMpa,          \* the nil pointer to one
    Pod,            \* pods, each with namespace/name
    Label,          \* the label sets pods may carry
    MpaNamespace,   \* Mpa -> namespace
    PodNamespace,   \* Pod -> namespace
    LabelsOf,       \* Pod -> Label
    CreatedAt,      \* Mpa -> creationTimestamp, in seconds
    NameRank,       \* Mpa -> place of its name in the alphabet
    TargetRef       \* Mpa -> NoTarget or [apiVersion, kind, name]

ASSUME MatchingAssumption ==
    /\ NoMpa \notin Mpa
    /\ LabelsOf \in [Pod -> Label]
    /\ CreatedAt \in [Mpa -> Nat]
    /\ NameRank \in [Mpa -> Nat]

(* An object's name is unique in its namespace.                            *)
ASSUME NamesUnique ==
    \A a, b \in Mpa :
        a # b /\ MpaNamespace[a] = MpaNamespace[b] => NameRank[a] # NameRank[b]

NoTarget == [apiVersion |-> "", kind |-> "", name |-> ""]

(* Kinds the fetcher has an informer for.                                  *)
FetcherKinds ==
    {"DaemonSet", "Deployment", "ReplicaSet", "StatefulSet",
     "ReplicationController", "Job", "CronJob"}

(* What Fetch returns.                                                     *)
FetchError == [ok |-> FALSE, selector |-> {}]
Fetched(selector) == [ok |-> TRUE, selector |-> selector]

-----------------------------------------------------------------------------
(* A pointer that may be nil is a set of at most one value.  A nil label   *)
(* selector selects nothing, and so does a nil map of labels.              *)
LabelSelectorAsSelector(pointer) == UNION pointer

(* `store` maps the objects of the informers' stores, by kind, namespace   *)
(* and name, to the selector and the labels of the pod template they hold. *)
Key(m) ==
    [kind |-> TargetRef[m].kind, namespace |-> MpaNamespace[m], name |-> TargetRef[m].name]

getLabelSelector(store, key) ==
    IF key \notin DOMAIN store THEN FetchError
    ELSE Fetched(LabelSelectorAsSelector(
            IF key.kind = "CronJob" THEN store[key].template ELSE store[key].selector))

(* The answers of the API server, one for each REST mapping of the kind:   *)
(* a failed call, or a scale with an empty selector, a selector that does  *)
(* not parse, or a selector.  The first call that succeeds decides.  A     *)
(* kind without mappings is a single failed call.                          *)
Deciding(answers) ==
    {i \in DOMAIN answers :
        /\ answers[i].outcome # "error"
        /\ \A j \in 1..(i - 1) : answers[j].outcome = "error"}

getLabelSelectorFromResource(answers) ==
    LET found == {i \in Deciding(answers) : answers[i].outcome = "selector"} IN
    IF found = {} THEN FetchError
    ELSE Fetched(UNION {answers[i].selector : i \in found})

Fetch(m, store, answers) ==
    CASE TargetRef[m] = NoTarget -> FetchError
      [] TargetRef[m] # NoTarget /\ TargetRef[m].kind \in FetcherKinds ->
            getLabelSelector(store, Key(m))
      [] TargetRef[m] # NoTarget /\ TargetRef[m].kind \notin FetcherKinds ->
            IF TargetRef[m].apiVersion = "unparsable" THEN FetchError
            ELSE getLabelSelectorFromResource(answers)

-----------------------------------------------------------------------------
PodMatchesMpa(p, m, selector) ==
    /\ PodNamespace[p] = MpaNamespace[m]
    /\ LabelsOf[p] \in selector

(* A variant with a bug: of two MPAs created in the same second, neither   *)
(* is stronger.                                                            *)
strongerByTime(a, b) == CreatedAt[a] < CreatedAt[b]

strongerMpa(a, b) ==
    \/ CreatedAt[a] < CreatedAt[b]
    \/ CreatedAt[a] = CreatedAt[b] /\ NameRank[a] < NameRank[b]

(* The loop of GetControllingMpaForPod, for several pods over one list:    *)
(* `controlling` maps each pod to the MPA kept for it so far, and `m` is   *)
(* the next of the list.                                                   *)
KeepStronger(controlling, m, selector) ==
    [p \in DOMAIN controlling |->
        IF /\ PodMatchesMpa(p, m, selector)
           /\ controlling[p] = NoMpa \/ strongerMpa(m, controlling[p])
        THEN m ELSE controlling[p]]

=============================================================================
