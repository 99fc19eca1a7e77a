------------------------------- MODULE Admission -------------------------------
(***************************************************************************)
(* The admission webhook: pods are created while its replicas register     *)
(* themselves (Registration), and a pod whose creation reaches a replica   *)
(* is answered with JSON patches (pkg/admission/pod, pkg/admission/logic)  *)
(* that the API server applies.  failurePolicy is Ignore: without an       *)
(* answer the pod is created from its template.                            *)
(*                                                                         *)
(* A document is a function from paths to values: an object is -1, a       *)
(* string 0, a quantity its thousandths.  Only the names of annotations    *)
(* count.                                                                  *)
(***************************************************************************)
EXTENDS Limits, Registration

CONSTANTS
    Template,    \* the pods that are created
    LimitItems,  \* the LimitRange items there may be, as the lister orders them
    Target       \* the CPU a plan may give to every container

ASSUME AdmissionAssumption ==
    /\ Target \subseteq 0..MaxInt64
    /\ \A template \in Template :
        /\ template.annotated \in BOOLEAN
        /\ template.containers \in Seq(ToSet(template.containers))
        /\ \A c \in ToSet(template.containers) :
              IsResourceList(c.requests) /\ IsResourceList(c.limits)
    /\ \A items \in LimitItems :
        /\ items \in Seq(ToSet(items))
        /\ \A item \in ToSet(items) :
              IsResourceList(item.default) /\ IsResourceList(item.min) /\ IsResourceList(item.max)

VARIABLE pod     \* the last pod whose creation was asked for

vars == <<regVars, pod>>

NoPod == [outcome |-> "none"]

NoTarget == -1   \* no plan yet

-----------------------------------------------------------------------------
(* Documents and patches.                                                  *)

Object == -1
Text == 0

Add(path, value) == [path |-> path, value |-> value]

(* A path names a place, a field there and an entry of the field, each ""  *)
(* where the path ends before: place 0 is the annotations, whose fields    *)
(* are their names, and place i the resources of container i.              *)
AnnotationsPath == <<0, "", "">>
AnnotationPath(name) == <<0, name, "">>
ResourcesPath(i) == <<i, "", "">>
FieldPath(i, field) == <<i, field, "">>
QuantityPath(i, field, r) == <<i, field, r>>

Within(q, path) ==
    /\ q[1] = path[1]
    /\ path[2] # "" => q[2] = path[2] /\ (path[3] # "" => q[3] = path[3])

(* What the API server sends: of each container its resources, and each    *)
(* list that has an entry.                                                 *)
ListAt(template, i, field) ==
    CASE field = "requests" -> template.containers[i].requests
      [] field = "limits"   -> template.containers[i].limits
      [] OTHER              -> NoList

Written(template) ==
    (IF template.annotated THEN {AnnotationsPath, AnnotationPath("team")} ELSE {})
        \cup {p \in (DOMAIN template.containers) \X {"", "requests", "limits"}
                                                  \X ({""} \cup Resource) :
                LET list == ListAt(template, p[1], p[2]) IN
                \/ p = ResourcesPath(p[1])
                \/ p[3] = "" /\ list # NoList
                \/ p[3] \in DOMAIN list}

Document(template) ==
    [p \in Written(template) |->
        IF p[3] # "" THEN ListAt(template, p[1], p[2])[p[3]]
        ELSE IF p = AnnotationPath("team") THEN Text
        ELSE Object]

Parent(path) ==
    IF path[3] = "" THEN <<path[1], "", "">> ELSE <<path[1], path[2], "">>

(* A patch needs the parent of its path, and replaces what is at the path. *)
CanApply(document, patch) == patch.path[2] = "" \/ Parent(patch.path) \in DOMAIN document

ApplyPatch(document, patch) ==
    [p \in {q \in DOMAIN document : ~Within(q, patch.path)} \cup {patch.path} |->
        IF p = patch.path THEN patch.value ELSE document[p]]

ApplyNext(result, patch) ==
    IF result.ok /\ CanApply(result.document, patch)
    THEN [ok |-> TRUE, document |-> ApplyPatch(result.document, patch)]
    ELSE [ok |-> FALSE, document |-> result.document]

(* One patch that cannot be applied fails them all.                        *)
Applied(result, patches) ==
    LET after[i \in 0..Len(patches)] ==
            IF i = 0 THEN result ELSE ApplyNext(after[i - 1], patches[i])
    IN  after[Len(patches)]

-----------------------------------------------------------------------------
(* The patches.                                                            *)

(* In the arbitrary order of a Go map.                                     *)
QuantityPatches(i, field, list) ==
    SetToSeq({Add(QuantityPath(i, field, r), list[r]) : r \in DOMAIN list})

(* A variant with a bug: the field is emptied even if the pod has it.      *)
FieldEmptied(i, field, podResource, newResource) ==
    (IF newResource # NoList THEN <<Add(FieldPath(i, field), Object)>> ELSE <<>>)
        \o QuantityPatches(i, field, newResource)

getResourcesPatch(i, field, podResource, newResource) ==
    (IF podResource = NoList /\ newResource # NoList
     THEN <<Add(FieldPath(i, field), Object)>> ELSE <<>>)
        \o QuantityPatches(i, field, newResource)

(* A variant with a bug: one missing list is enough to reset both.         *)
ResetIfEitherMissing(container, i, new) ==
    (IF container.limits = NoList \/ container.requests = NoList
     THEN <<Add(ResourcesPath(i), Object)>> ELSE <<>>)
        \o getResourcesPatch(i, "requests", container.requests, new.requests)
        \o getResourcesPatch(i, "limits", container.limits, new.limits)

getContainerPatch(container, i, new) ==
    (IF container.limits = NoList /\ container.requests = NoList
     THEN <<Add(ResourcesPath(i), Object)>> ELSE <<>>)
        \o getResourcesPatch(i, "requests", container.requests, new.requests)
        \o getResourcesPatch(i, "limits", container.limits, new.limits)

(* What each container is to get; nothing if the MPA has no plan yet.      *)
GetContainerResourcesForPod(template, mpa, items) ==
    IF mpa.target = NoTarget THEN <<>>
    ELSE [i \in DOMAIN template.containers |->
            ContainerResources(template.containers[i].name, template.containers[i],
                               <<[containerName |-> "*", target |-> CpuOnly(mpa.target)]>>,
                               getLimitRangeItem(items).default)]

ObservedPodPatches == <<Add(AnnotationPath("mpaObservedPod"), Text)>>

ContainerPatches(template, resources) ==
    LET upTo[i \in 0..Len(resources)] ==
            IF i = 0 THEN <<>>
            ELSE upTo[i - 1] \o getContainerPatch(template.containers[i], i,
                                                  resources[i].resources)
    IN  upTo[Len(resources)]

ResourceUpdatesPatches(template, resources) ==
    ContainerPatches(template, resources)
        \o (IF resources # <<>> THEN <<Add(AnnotationPath("MpaUpdates"), Text)>> ELSE <<>>)

GetPatches(template, mpa, resources) ==
    IF ~mpa.matched THEN <<>>
    ELSE (IF ~template.annotated THEN <<Add(AnnotationsPath, Object)>> ELSE <<>>)
            \o ObservedPodPatches
            \o ResourceUpdatesPatches(template, resources)

-----------------------------------------------------------------------------
(* The creation of a pod.  The MPA that controls it (Matching) and its     *)
(* plan are any: none, one without a plan, one with a plan, which in       *)
(* overload gives no CPU at all.                                           *)

Mpas == [matched : {FALSE}, target : {NoTarget}]
           \cup [matched : {TRUE}, target : Target \cup {NoTarget}]

(* net/http recovers a panic and closes the connection; the API server     *)
(* ignores it like any call that fails.  Patches it cannot apply it does   *)
(* not ignore.                                                             *)
Answer(template, mpa, items) ==
    LET resources == GetContainerResourcesForPod(template, mpa, items)
        patches   == GetPatches(template, mpa, resources)
        asked     == Document(template)
        result    == Applied([ok |-> TRUE, document |-> asked], patches)
        panics    == \E i \in DOMAIN resources : resources[i].panics
        answered(outcome, document) ==
            [template |-> template, mpa |-> mpa, items |-> items,
             outcome |-> outcome, document |-> document]
    IN  IF panics THEN answered("panicked", asked)
        ELSE IF patches = <<>> THEN answered("unpatched", asked)
        ELSE IF result.ok THEN answered("patched", result.document)
        ELSE answered("rejected", asked)

Admit(template, mpa, items) ==
    /\ pod = NoPod /\ registered /\ Serving
    /\ pod' = Answer(template, mpa, items)
    /\ UNCHANGED regVars

(* Nobody is asked, or nobody answers in time.                             *)
Ignored(template) ==
    /\ pod = NoPod
    /\ pod' = [outcome |-> "ignored", template |-> template, document |-> Document(template)]
    /\ \/ ~(registered /\ Serving) /\ UNCHANGED regVars
       \/ registered /\ Serving /\ Fault /\ UNCHANGED <<registered, replica>>

Gone == pod # NoPod /\ pod' = NoPod /\ UNCHANGED regVars

Init == RegInit /\ pod = NoPod

Next ==
    \/ RegNext /\ UNCHANGED pod
    \/ \E template \in Template, mpa \in Mpas, items \in LimitItems :
          Admit(template, mpa, items)
    \/ \E template \in Template : Ignored(template)
    \/ Gone

Spec == Init /\ [][Next]_vars

FairSpec == Spec /\ RegFairness

-----------------------------------------------------------------------------
Patched == pod.outcome = "patched"
Answered == pod.outcome \in {"unpatched", "panicked", "rejected", "patched"}

Containers == pod.template.containers

(* Type invariant.  No quantity is above the cap either, since             *)
(* scaleQuantityProportionally cuts what int64 cannot hold.                *)
TypeOK ==
    /\ RegTypeOK
    /\ pod.outcome \in {"none", "ignored", "unpatched", "panicked", "rejected", "patched"}
    /\ Answered =>
          /\ pod.template \in Template /\ pod.mpa \in Mpas /\ pod.items \in LimitItems
          /\ \A p \in DOMAIN pod.document : pod.document[p] \in {Object} \cup 0..MaxInt64

(* The patches can always be applied in their order, whatever of metadata  *)
(* and resources the template leaves out: pkg/admission/pod never keeps a  *)
(* pod from being created, which failurePolicy Ignore would not prevent.   *)
PatchesApply == pod.outcome # "rejected"

(* A patched pod of an MPA with a plan has the plan's CPU as the request   *)
(* of every container, and a limit (getContainersResources, getContainer-  *)
(* Patch), whatever its template and the limit ranges say.                 *)
PlanInEveryContainer ==
    Patched /\ pod.mpa.target # NoTarget =>
        \A i \in DOMAIN Containers :
            LET request == QuantityPath(i, "requests", "cpu")
                limit   == QuantityPath(i, "limits", "cpu")
            IN  /\ {request, limit} \subseteq DOMAIN pod.document
                /\ pod.document[request] = pod.mpa.target

(* What a template says of memory, and its annotations, survive the        *)
(* patches, some of which put an empty object where something may be.      *)
NothingElseChanges ==
    LET template == Document(pod.template) IN
    Patched => \A p \in DOMAIN template :
                  p[3] # "cpu" => p \in DOMAIN pod.document /\ pod.document[p] = template[p]

(* A container that asks for something and whose limit, its own or the     *)
(* default one, is at least what it asks for, is not given a limit below   *)
(* its new request: scaling keeps the order though it rounds down and      *)
(* caps (GetProportionalResourceLimit), and the API server would refuse    *)
(* the pod.                                                                *)
LimitCoversRequest ==
    LET default == Quantity(getLimitRangeItem(pod.items).default, "cpu")
    IN  Patched /\ pod.mpa.target # NoTarget =>
            \A i \in DOMAIN Containers :
                LET own   == Quantity(Containers[i].limits, "cpu")
                    limit == IF own = 0 THEN default ELSE own
                IN  limit = 0 \/ limit >= Quantity(Containers[i].requests, "cpu") =>
                       pod.document[QuantityPath(i, "limits", "cpu")] >=
                          pod.document[QuantityPath(i, "requests", "cpu")]

(* Whatever the order in which the limit ranges are listed, the merged one *)
(* has the least maximum and the greatest minimum of each resource         *)
(* (getLimitRangeItem; an item may speak of one resource only).            *)
MergedRangeIsTightest ==
    Answered =>
        LET item   == getLimitRangeItem(pod.items)
            max(r) == {i.max[r] : i \in {j \in ToSet(pod.items) : r \in DOMAIN j.max}}
            min(r) == {i.min[r] : i \in {j \in ToSet(pod.items) : r \in DOMAIN j.min}}
        IN  \A r \in Resource :
                /\ max(r) # {} => item.max[r] = Min(max(r))
                /\ min(r) # {} => item.min[r] = Max(min(r))

(* When every replica has registered, the configuration is there, although *)
(* each deletes that of another first (WebhookRegistration).               *)
RegisteredOnceDone == AllDone => registered

(* The replicas do not keep deleting each other's configuration: in the    *)
(* end all have registered, whatever failed on the way.                    *)
RegistrationEnds == <>[](AllDone /\ registered)

(* A comment of GetProportionalResourceLimit (limit_request.go:106) says   *)
(* that where the request is not specified the limit is what is            *)
(* recommended.                                                            *)
UnspecifiedRequestGetsPlan ==
    pod.outcome \in {"panicked", "patched"} /\ pod.mpa.target # NoTarget =>
        \A i \in DOMAIN Containers :
            Quantity(Containers[i].requests, "cpu") = 0 =>
                LET limit == QuantityPath(i, "limits", "cpu")
                IN  limit \in DOMAIN pod.document /\ pod.document[limit] = pod.mpa.target

=============================================================================
