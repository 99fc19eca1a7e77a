---------------------------- MODULE AdmissionProofs ----------------------------
(***************************************************************************)
(* Proofs about Admission: the registration of any number of replicas, and *)
(* what an answer makes of a pod, for every template, plan and limit       *)
(* ranges.                                                                 *)
(*                                                                         *)
(* The patches of an answer are a concatenation of lists, and so is their  *)
(* application (AppliedBoth): the proof goes from one patch (PatchedAlone) *)
(* to those of a field, of a container, of all containers by induction     *)
(* over them, and of an answer (AnswerFacts).  The invariant of the pod is *)
(* that it is an answer to something (PodIsAnswer).                        *)
(***************************************************************************)
EXTENDS Admission, LimitsProofs, FiniteSetTheorems

-----------------------------------------------------------------------------
(* The application of patches, step by step.                               *)

IsRun(f, result, patches, k) ==
    f = [i \in 0..k |-> IF i = 0 THEN result ELSE ApplyNext(f[i - 1], patches[i])]

(* There is a function with the results of the patches up to any of them.  *)
LEMMA RunExists ==
    ASSUME NEW result, NEW patches, NEW n \in Nat
    PROVE  \E f : IsRun(f, result, patches, n)
  <1>. DEFINE T == {k \in 0..n : \E f : IsRun(f, result, patches, k)}
  <1>1. 0 \in T
    <2>. DEFINE g == [i \in 0..0 |-> result]
    <2>1. IsRun(g, result, patches, 0)
      BY DEF IsRun
    <2>. QED  BY <2>1
  <1>2. ASSUME NEW k \in 1..n, k - 1 \in T PROVE k \in T
    <2>1. PICK f : IsRun(f, result, patches, k - 1)
      BY <1>2
    <2>. DEFINE g == [i \in 0..k |-> IF i = k THEN ApplyNext(f[k - 1], patches[k]) ELSE f[i]]
    <2>2. \A i \in 0..k : g[i] = IF i = 0 THEN result ELSE ApplyNext(g[i - 1], patches[i])
      BY <2>1 DEF IsRun
    <2>3. g = [i \in 0..k |-> g[i]]
      OBVIOUS
    <2>. HIDE DEF g
    <2>4. IsRun(g, result, patches, k)
      BY <2>2, <2>3 DEF IsRun
    <2>. QED  BY <2>4
  <1>. HIDE DEF T
  <1>3. T \in SUBSET (0..n)
    BY DEF T
  <1>4. T = 0..n
    BY <1>1, <1>2, <1>3, InductionUpTo
  <1>. QED  BY <1>4 DEF T

(* What Applied does, step by step.                                        *)
Steps(f, patches, n) == \A i \in 1..n : f[i] = ApplyNext(f[i - 1], patches[i])

Run(f, result, patches) == f[0] = result /\ Steps(f, patches, Len(patches))

(* Applied is the last value of a run.                                     *)
LEMMA AppliedRuns ==
    ASSUME NEW result, NEW patches, Len(patches) \in Nat
    PROVE  \E f : Run(f, result, patches) /\ Applied(result, patches) = f[Len(patches)]
  <1>. DEFINE n == Len(patches)
              g == CHOOSE f : f = [i \in 0..n |-> IF i = 0 THEN result
                                                  ELSE ApplyNext(f[i - 1], patches[i])]
  <1>1. Applied(result, patches) = g[n]
    BY DEF Applied
  <1>2. IsRun(g, result, patches, n)
    BY RunExists DEF IsRun
  <1>. HIDE DEF g
  <1>3. Run(g, result, patches)
    BY <1>2 DEF IsRun, Run, Steps
  <1>. QED  BY <1>1, <1>3

(* Two runs that begin alike and take the same steps end alike.            *)
LEMMA RunsAgree ==
    ASSUME NEW f, NEW g, NEW n \in Nat, f[0] = g[0], NEW patches,
           Steps(f, patches, n), Steps(g, patches, n)
    PROVE  f[n] = g[n]
  <1>. DEFINE T == {i \in 0..n : f[i] = g[i]}
  <1>1. 0 \in T /\ T \in SUBSET (0..n) /\ \A i \in 1..n : i - 1 \in T => i \in T
    BY DEF Steps
  <1>. HIDE DEF T
  <1>2. T = 0..n
    BY <1>1, InductionUpTo
  <1>. QED  BY <1>2 DEF T

(* No patch changes nothing.                                               *)
LEMMA AppliedNone ==
    ASSUME NEW result
    PROVE  Applied(result, <<>>) = result
  <1>1. Len(<<>>) = 0
    OBVIOUS
  <1>. QED  BY <1>1, AppliedRuns DEF Run, Steps

(* One patch is applied by one step.                                       *)
LEMMA AppliedOne ==
    ASSUME NEW result, NEW patch
    PROVE  Applied(result, <<patch>>) = ApplyNext(result, patch)
  <1>1. Len(<<patch>>) = 1 /\ <<patch>>[1] = patch
    OBVIOUS
  <1>2. PICK f : Run(f, result, <<patch>>) /\ Applied(result, <<patch>>) = f[1]
    BY <1>1, AppliedRuns
  <1>. QED  BY <1>1, <1>2 DEF Run, Steps

(* The patches of two lists are applied one list after the other.          *)
LEMMA AppliedBoth ==
    ASSUME NEW result, NEW S, NEW s \in Seq(S), NEW t \in Seq(S)
    PROVE  Applied(result, s \o t) = Applied(Applied(result, s), t)
  <1>. DEFINE m == Len(s)
              n == Len(t)
              both == s \o t
  <1>1. /\ m \in Nat /\ n \in Nat /\ Len(both) = m + n
        /\ \A i \in 1..m : both[i] = s[i]
        /\ \A i \in 1..n : both[m + i] = t[i]
    OBVIOUS
  <1>. HIDE DEF m, n, both
  <1>2. PICK f : Run(f, result, both) /\ Applied(result, both) = f[m + n]
    BY <1>1, AppliedRuns
  <1>3. PICK g : Run(g, result, s) /\ Applied(result, s) = g[m]
    BY <1>1, AppliedRuns DEF m
  <1>4. PICK h : Run(h, g[m], t) /\ Applied(g[m], t) = h[n]
    BY <1>1, AppliedRuns DEF n
  <1>5. f[m] = g[m]
    <2>1. f[0] = g[0] /\ Steps(f, s, m) /\ Steps(g, s, m)
      BY <1>1, <1>2, <1>3 DEF Run, Steps, m
    <2>. QED  BY <1>1, <2>1, RunsAgree
  <1>6. f[m + n] = h[n]
    <2>. DEFINE e == [i \in 0..n |-> f[m + i]]
    <2>1. /\ e[0] = h[0] /\ e[n] = f[m + n]
          /\ Steps(e, t, n) /\ Steps(h, t, n)
      <3>1. e[0] = h[0] /\ e[n] = f[m + n]
        BY <1>1, <1>4, <1>5 DEF Run, Steps
      <3>2. ASSUME NEW i \in 1..n PROVE e[i] = ApplyNext(e[i - 1], t[i])
        <4>1. m + i \in 1..(m + n) /\ (m + i) - 1 = m + (i - 1) /\ i - 1 \in 0..n
          BY <1>1
        <4>2. f[m + i] = ApplyNext(f[m + (i - 1)], t[i])
          BY <1>1, <1>2, <4>1 DEF Run, Steps
        <4>. QED  BY <4>1, <4>2
      <3>3. Steps(h, t, n)
        BY <1>4 DEF Run, n
      <3>. HIDE DEF e
      <3>. QED  BY <3>1, <3>2, <3>3 DEF Steps
    <2>. HIDE DEF e
    <2>. QED  BY <1>1, <2>1, RunsAgree
  <1>. QED  BY <1>2, <1>3, <1>4, <1>6 DEF both

-----------------------------------------------------------------------------
(* Documents, and what a patch of one of them leaves alone.                *)

Name == {"", "requests", "limits", "team", "mpaObservedPod", "MpaUpdates"}
Path == Nat \X Name \X ({""} \cup Resource)
Values == {Object} \cup 0..MaxInt64
Patch == [path : Path, value : Values]

IsDocument(doc) == DOMAIN doc \subseteq Path /\ \A p \in DOMAIN doc : doc[p] \in Values

(* Outside of S nothing comes, goes or changes.                            *)
SameBeside(S, doc, new) ==
    \A p : p \notin S =>
        /\ p \in DOMAIN new <=> p \in DOMAIN doc
        /\ p \in DOMAIN doc => new[p] = doc[p]

(* A set of one element has one order.                                     *)
LEMMA SetToSeqOfOne ==
    ASSUME NEW x
    PROVE  SetToSeq({x}) = <<x>>
  <1>1. Cardinality({x}) = 1
    BY FS_Singleton
  <1>2. \A f \in [1..1 -> {x}] : f = <<x>>
    OBVIOUS
  <1>3. <<x>> \in [1..1 -> {x}] /\ IsInjective(<<x>>)
    BY DEF IsInjective
  <1>. DEFINE good(f) == f \in [1..1 -> {x}] /\ IsInjective(f)
  <1>4. SetToSeq({x}) = CHOOSE f \in [1..1 -> {x}] : IsInjective(f)
    BY <1>1 DEF SetToSeq
  <1>5. (CHOOSE f \in [1..1 -> {x}] : IsInjective(f)) \in [1..1 -> {x}]
    BY <1>3
  <1>. QED  BY <1>2, <1>4, <1>5

(* A list with nothing but CPU gives one patch.                            *)
LEMMA OneQuantityPatch ==
    ASSUME NEW i, NEW field, NEW n
    PROVE  QuantityPatches(i, field, CpuOnly(n)) = <<Add(QuantityPath(i, field, "cpu"), n)>>
  <1>1. {Add(QuantityPath(i, field, r), CpuOnly(n)[r]) : r \in DOMAIN CpuOnly(n)}
           = {Add(QuantityPath(i, field, "cpu"), n)}
    BY DEF CpuOnly
  <1>. QED  BY <1>1, SetToSeqOfOne DEF QuantityPatches

(* A patch of a path below which there is nothing changes this path only.  *)
LEMMA PatchedAlone ==
    ASSUME NEW result, result.ok, IsDocument(result.document),
           NEW patch \in Patch, CanApply(result.document, patch),
           \A q \in DOMAIN result.document : Within(q, patch.path) => q = patch.path
    PROVE  /\ ApplyNext(result, patch).ok
           /\ IsDocument(ApplyNext(result, patch).document)
           /\ patch.path \in DOMAIN ApplyNext(result, patch).document
           /\ ApplyNext(result, patch).document[patch.path] = patch.value
           /\ SameBeside({patch.path}, result.document, ApplyNext(result, patch).document)
  <1>. DEFINE doc == result.document
              new == ApplyPatch(doc, patch)
              D   == {q \in DOMAIN doc : ~Within(q, patch.path)} \cup {patch.path}
  <1>1. ApplyNext(result, patch) = [ok |-> TRUE, document |-> new]
    BY DEF ApplyNext
  <1>2. DOMAIN new = D /\ \A p \in D : new[p] = IF p = patch.path THEN patch.value ELSE doc[p]
    BY DEF ApplyPatch
  <1>3. D = DOMAIN doc \cup {patch.path}
    OBVIOUS
  <1>. HIDE DEF D, new
  <1>4. patch.path \in Path /\ patch.value \in Values
    BY DEF Patch
  <1>5. IsDocument(new) /\ SameBeside({patch.path}, doc, new)
    BY <1>2, <1>3, <1>4 DEF IsDocument, SameBeside
  <1>. QED  BY <1>1, <1>2, <1>3, <1>5

Fields == {"requests", "limits"}

(* A field of a container after its patches.                               *)
FieldHas(doc, new, i, field, n) ==
    /\ FieldPath(i, field) \in DOMAIN new
    /\ FieldPath(i, field) \in DOMAIN doc => new[FieldPath(i, field)] = doc[FieldPath(i, field)]
    /\ QuantityPath(i, field, "cpu") \in DOMAIN new
    /\ new[QuantityPath(i, field, "cpu")] = n
    /\ SameBeside({FieldPath(i, field), QuantityPath(i, field, "cpu")}, doc, new)

(* The field is in the document if and only if the pod has the list.       *)
FieldShape(doc, i, field, list) ==
    /\ list # NoList => FieldPath(i, field) \in DOMAIN doc
    /\ list = NoList => \A q \in DOMAIN doc : ~Within(q, FieldPath(i, field))

(* The paths of a field and of its CPU are paths, and differ.              *)
LEMMA FieldPaths ==
    ASSUME NEW i \in Nat, NEW field \in Fields
    PROVE  /\ FieldPath(i, field) \in Path /\ QuantityPath(i, field, "cpu") \in Path
           /\ FieldPath(i, field) # QuantityPath(i, field, "cpu")
  <1>1. field # "" /\ field \in Name /\ "cpu" \in Resource
    BY DEF Fields, Name, Resource
  <1>. QED  BY <1>1 DEF QuantityPath, FieldPath, Path

(* A field is in the resources of the container, its CPU in the field.     *)
LEMMA Parents ==
    ASSUME NEW i, NEW field
    PROVE  /\ Parent(FieldPath(i, field)) = ResourcesPath(i)
           /\ Parent(QuantityPath(i, field, "cpu")) = FieldPath(i, field)
  <1>. DEFINE f == FieldPath(i, field)
              q == QuantityPath(i, field, "cpu")
  <1>1. f[1] = i /\ f[3] = "" /\ q[1] = i /\ q[2] = field /\ q[3] = "cpu"
    BY DEF FieldPath, QuantityPath
  <1>. HIDE DEF f, q
  <1>2. Parent(f) = ResourcesPath(i) /\ Parent(q) = FieldPath(i, field)
    BY <1>1 DEF Parent, ResourcesPath, FieldPath
  <1>. QED  BY <1>2 DEF f, q

(* What a member of a product of three sets is made of.                    *)
LEMMA Triple ==
    ASSUME NEW A, NEW B, NEW C, NEW q \in A \X B \X C
    PROVE  q = <<q[1], q[2], q[3]>> /\ q[1] \in A /\ q[2] \in B /\ q[3] \in C
  OBVIOUS

(* A path is its place, its field and its entry.                           *)
LEMMA PathIsTriple ==
    ASSUME NEW q \in Path
    PROVE  /\ q = <<q[1], q[2], q[3]>>
           /\ q[1] \in Nat /\ q[2] \in Name /\ q[3] \in {""} \cup Resource
  <1>. DEFINE A == Nat
              B == Name
              C == {""} \cup Resource
  <1>1. q \in A \X B \X C
    BY DEF Path
  <1>. HIDE DEF A, B, C
  <1>2. q = <<q[1], q[2], q[3]>> /\ q[1] \in A /\ q[2] \in B /\ q[3] \in C
    BY <1>1, Triple
  <1>. QED  BY <1>2 DEF A, B, C

(* There is nothing below a quantity.                                      *)
LEMMA OnlyWithinItself ==
    ASSUME NEW i \in Nat, NEW field \in Fields, NEW q \in Path,
           Within(q, QuantityPath(i, field, "cpu"))
    PROVE  q = QuantityPath(i, field, "cpu")
  <1>1. q = <<q[1], q[2], q[3]>>
    BY PathIsTriple
  <1>2. field # ""
    BY DEF Fields
  <1>. QED  BY <1>1, <1>2 DEF Within, QuantityPath

(* The patches of a field apply, put its CPU there and keep the rest       *)
(* (getResourcesPatch).                                                    *)
LEMMA FieldPatched ==
    ASSUME NEW result, result.ok, IsDocument(result.document),
           NEW i \in Nat, NEW field \in Fields, NEW list, NEW n \in 0..MaxInt64,
           ResourcesPath(i) \in DOMAIN result.document,
           FieldShape(result.document, i, field, list),
           NEW new, new = Applied(result, getResourcesPatch(i, field, list, CpuOnly(n)))
    PROVE  /\ new.ok /\ IsDocument(new.document)
           /\ FieldHas(result.document, new.document, i, field, n)
  <1>. DEFINE doc == result.document
              F   == FieldPath(i, field)
              Q   == QuantityPath(i, field, "cpu")
              put == Add(Q, n)
              empty == Add(F, Object)
  <1>0. field # "" /\ Object \in Values /\ n \in Values
    BY DEF Fields, Values
  <1>1. CpuOnly(n) # NoList
    <2>1. DOMAIN CpuOnly(n) = {"cpu"} /\ DOMAIN NoList = {}
      BY DEF CpuOnly, NoList
    <2>. QED  BY <2>1
  <1>2. getResourcesPatch(i, field, list, CpuOnly(n))
           = (IF list = NoList THEN <<empty>> ELSE <<>>) \o <<put>>
    BY <1>1, OneQuantityPatch DEF getResourcesPatch
  <1>3. put \in Patch /\ empty \in Patch
    BY <1>0, FieldPaths DEF Patch, Add
  <1>4. put.path = Q /\ put.value = n /\ empty.path = F /\ empty.value = Object
    BY DEF Add
  <1>. HIDE DEF put, empty
  <1>5. PICK mid : /\ mid.ok /\ IsDocument(mid.document)
                   /\ F \in DOMAIN mid.document /\ SameBeside({F}, doc, mid.document)
                   /\ F \in DOMAIN doc => mid.document[F] = doc[F]
                   /\ new = ApplyNext(mid, put)
    <2>1. CASE list = NoList
      <3>. DEFINE mid == ApplyNext(result, empty)
      <3>1. new = ApplyNext(mid, put)
        <4>1. new = Applied(result, <<empty>> \o <<put>>)
          BY <1>2, <2>1
        <4>2. <<empty>> \in Seq({empty, put}) /\ <<put>> \in Seq({empty, put})
          OBVIOUS
        <4>. DEFINE S == {empty, put}
                    a == <<empty>>
                    b == <<put>>
        <4>3. new = Applied(Applied(result, a), b)
          <5>1. a \in Seq(S) /\ b \in Seq(S) /\ new = Applied(result, a \o b)
            BY <4>1, <4>2
          <5>. HIDE DEF S, a, b
          <5>. QED  BY <5>1, AppliedBoth
        <4>4. Applied(result, <<empty>>) = mid /\ Applied(mid, <<put>>) = ApplyNext(mid, put)
          BY AppliedOne
        <4>. QED  BY <4>3, <4>4
      <3>2. CanApply(doc, empty)
        <4>1. Parent(empty.path) = ResourcesPath(i)
          BY <1>4, Parents
        <4>. QED  BY <4>1 DEF CanApply
      <3>3. F \notin DOMAIN doc /\ \A q \in DOMAIN doc : ~Within(q, empty.path)
        <4>1. Within(F, F)
          BY DEF Within
        <4>. QED  BY <1>4, <2>1, <4>1 DEF FieldShape
      <3>4. mid.ok /\ IsDocument(mid.document) /\ F \in DOMAIN mid.document
            /\ SameBeside({F}, doc, mid.document)
        BY <1>3, <1>4, <3>2, <3>3, PatchedAlone
      <3>. HIDE DEF mid
      <3>. QED  BY <3>1, <3>3, <3>4
    <2>2. CASE list # NoList
      <3>1. new = Applied(result, <<put>>)
        BY <1>2, <2>2
      <3>2. new = ApplyNext(result, put)
        BY <3>1, AppliedOne
      <3>. QED  BY <3>2, <2>2 DEF FieldShape, SameBeside
    <2>. QED  BY <2>1, <2>2
  <1>6. CanApply(mid.document, put)
    <2>1. Parent(put.path) = FieldPath(i, field)
      BY <1>4, Parents
    <2>. QED  BY <1>5, <2>1 DEF CanApply
  <1>7. \A q \in DOMAIN mid.document : Within(q, put.path) => q = put.path
    BY <1>4, <1>5, OnlyWithinItself DEF IsDocument
  <1>8. /\ new.ok /\ IsDocument(new.document)
        /\ Q \in DOMAIN new.document /\ new.document[Q] = n
        /\ SameBeside({Q}, mid.document, new.document)
    BY <1>3, <1>4, <1>5, <1>6, <1>7, PatchedAlone
  <1>9. F # Q
    BY FieldPaths
  <1>. HIDE DEF F, Q
  <1>10. /\ SameBeside({F, Q}, doc, new.document)
         /\ F \in DOMAIN new.document
         /\ F \in DOMAIN doc => new.document[F] = doc[F]
    BY <1>5, <1>8, <1>9 DEF SameBeside
  <1>. QED  BY <1>8, <1>10 DEF FieldHas, F, Q

(* The patches of a field are patches.                                     *)
LEMMA FieldPatchesType ==
    ASSUME NEW i \in Nat, NEW field \in Fields, NEW list, NEW n \in 0..MaxInt64
    PROVE  getResourcesPatch(i, field, list, CpuOnly(n)) \in Seq(Patch)
  <1>. DEFINE put   == Add(QuantityPath(i, field, "cpu"), n)
              empty == Add(FieldPath(i, field), Object)
  <1>1. put \in Patch /\ empty \in Patch
    BY FieldPaths DEF Patch, Add, Values
  <1>2. QuantityPatches(i, field, CpuOnly(n)) = <<put>>
    BY OneQuantityPatch
  <1>. HIDE DEF put, empty
  <1>3. /\ <<put>> \in Seq(Patch) /\ <<empty>> \in Seq(Patch)
        /\ <<empty>> \o <<put>> \in Seq(Patch) /\ <<>> \o <<put>> \in Seq(Patch)
    BY <1>1
  <1>4. \/ getResourcesPatch(i, field, list, CpuOnly(n)) = <<empty>> \o <<put>>
        \/ getResourcesPatch(i, field, list, CpuOnly(n)) = <<>> \o <<put>>
    BY <1>2 DEF getResourcesPatch, empty
  <1>. QED  BY <1>3, <1>4

(* The resources of a container are in the document as the pod has them.   *)
ContainerShape(doc, i, container) ==
    /\ ResourcesPath(i) \in DOMAIN doc /\ doc[ResourcesPath(i)] = Object
    /\ FieldShape(doc, i, "requests", container.requests)
    /\ FieldShape(doc, i, "limits", container.limits)
    /\ container.requests = NoList /\ container.limits = NoList =>
          \A q \in DOMAIN doc : Within(q, ResourcesPath(i)) => q = ResourcesPath(i)

(* A container after its patches: the two quantities are there, and what   *)
(* was there is unless it is a quantity of CPU of the container.           *)
ContainerHas(doc, new, i, request, limit) ==
    /\ QuantityPath(i, "requests", "cpu") \in DOMAIN new
    /\ new[QuantityPath(i, "requests", "cpu")] = request
    /\ QuantityPath(i, "limits", "cpu") \in DOMAIN new
    /\ new[QuantityPath(i, "limits", "cpu")] = limit
    /\ \A p \in DOMAIN doc :
          p[1] # i \/ p[3] # "cpu" => p \in DOMAIN new /\ new[p] = doc[p]
    /\ \A p \in DOMAIN new : p[1] # i => p \in DOMAIN doc

(* The patches of a container apply, put its CPU request and limit there   *)
(* and keep the rest (getContainerPatch).                                  *)
LEMMA ContainerPatched ==
    ASSUME NEW result, result.ok, IsDocument(result.document),
           NEW i \in Nat, NEW container, ContainerShape(result.document, i, container),
           NEW request \in 0..MaxInt64, NEW limit \in 0..MaxInt64, NEW resources,
           resources.requests = CpuOnly(request), resources.limits = CpuOnly(limit),
           NEW new, new = Applied(result, getContainerPatch(container, i, resources))
    PROVE  /\ getContainerPatch(container, i, resources) \in Seq(Patch)
           /\ new.ok /\ IsDocument(new.document)
           /\ ContainerHas(result.document, new.document, i, request, limit)
  <1>. DEFINE doc == result.document
              bare == container.limits = NoList /\ container.requests = NoList
              empty == Add(ResourcesPath(i), Object)
              first == IF bare THEN <<empty>> ELSE <<>>
              second == getResourcesPatch(i, "requests", container.requests, CpuOnly(request))
              third == getResourcesPatch(i, "limits", container.limits, CpuOnly(limit))
              one == Applied(result, first)
              two == Applied(one, second)
  <1>. USE DEF ContainerShape
  <1>0. "requests" \in Fields /\ "limits" \in Fields
    BY DEF Fields
  <1>1. empty \in Patch /\ empty.path = ResourcesPath(i) /\ empty.value = Object
    <2>1. ResourcesPath(i) \in Path /\ Object \in Values
      BY DEF ResourcesPath, Path, Name, Values
    <2>. QED  BY <2>1 DEF Patch, Add
  <1>. HIDE DEF empty
  <1>2. first \in Seq(Patch) /\ second \in Seq(Patch) /\ third \in Seq(Patch)
    BY <1>0, <1>1, FieldPatchesType
  <1>3. getContainerPatch(container, i, resources) = (first \o second) \o third
    BY DEF getContainerPatch, empty
  <1>4. /\ one.ok /\ IsDocument(one.document) /\ SameBeside({}, doc, one.document)
        /\ ContainerShape(one.document, i, container)
    <2>1. CASE bare
      <3>1. one = ApplyNext(result, empty)
        BY <2>1, AppliedOne
      <3>2. CanApply(doc, empty)
        <4>1. ResourcesPath(i)[2] = ""
          BY DEF ResourcesPath
        <4>. QED  BY <1>1, <4>1 DEF CanApply
      <3>3. \A q \in DOMAIN doc : Within(q, empty.path) => q = empty.path
        BY <1>1, <2>1
      <3>4. /\ one.ok /\ IsDocument(one.document) /\ SameBeside({ResourcesPath(i)}, doc, one.document)
            /\ ResourcesPath(i) \in DOMAIN one.document
            /\ one.document[ResourcesPath(i)] = Object
        BY <1>1, <3>1, <3>2, <3>3, PatchedAlone
      <3>. HIDE DEF one
      <3>5. SameBeside({}, doc, one.document) /\ DOMAIN one.document = DOMAIN doc
        BY <3>4 DEF SameBeside
      <3>. QED  BY <3>4, <3>5 DEF FieldShape
    <2>2. CASE ~bare
      <3>1. one = result
        BY <2>2, AppliedNone
      <3>. QED  BY <3>1 DEF SameBeside
    <2>. QED  BY <2>1, <2>2
  <1>. HIDE DEF first, second, third, one, two
  <1>5. /\ first \o second \in Seq(Patch)
        /\ Applied(result, first \o second) = two
        /\ (first \o second) \o third \in Seq(Patch)
        /\ new = Applied(two, third)
    <2>1. first \o second \in Seq(Patch) /\ (first \o second) \o third \in Seq(Patch)
      BY <1>2
    <2>2. Applied(result, first \o second) = two
      BY <1>2, AppliedBoth DEF one, two
    <2>3. new = Applied(Applied(result, first \o second), third)
      <3>. DEFINE both == first \o second
      <3>1. both \in Seq(Patch) /\ new = Applied(result, both \o third)
        BY <1>3, <2>1
      <3>. HIDE DEF both
      <3>2. new = Applied(Applied(result, both), third)
        BY <1>2, <3>1, AppliedBoth
      <3>. QED  BY <3>2 DEF both
    <2>. QED  BY <2>1, <2>2, <2>3
  <1>6. /\ two.ok /\ IsDocument(two.document)
        /\ FieldHas(one.document, two.document, i, "requests", request)
    BY <1>0, <1>4, FieldPatched DEF two, second
  <1>7. FieldShape(two.document, i, "limits", container.limits)
           /\ ResourcesPath(i) \in DOMAIN two.document
    <2>. DEFINE S == {FieldPath(i, "requests"), QuantityPath(i, "requests", "cpu")}
    <2>1. \A q \in S : ~Within(q, FieldPath(i, "limits")) /\ q # ResourcesPath(i)
                          /\ q # FieldPath(i, "limits")
      <3>. DEFINE f == FieldPath(i, "requests")
                  q == QuantityPath(i, "requests", "cpu")
                  l == FieldPath(i, "limits")
                  r == ResourcesPath(i)
      <3>1. /\ f[2] = "requests" /\ q[2] = "requests" /\ l[2] = "limits" /\ r[2] = ""
        BY DEF FieldPath, QuantityPath, ResourcesPath
      <3>. HIDE DEF f, q, l, r
      <3>2. \A x \in {f, q} : ~Within(x, l) /\ x # r /\ x # l
        BY <3>1 DEF Within
      <3>. QED  BY <3>2 DEF f, q, l, r
    <2>2. \A q : q \notin S => (q \in DOMAIN two.document <=> q \in DOMAIN one.document)
      BY <1>6 DEF FieldHas, SameBeside
    <2>. HIDE DEF S
    <2>. QED  BY <1>4, <2>1, <2>2 DEF FieldShape
  <1>8. /\ new.ok /\ IsDocument(new.document)
        /\ FieldHas(two.document, new.document, i, "limits", limit)
    BY <1>0, <1>5, <1>6, <1>7, FieldPatched DEF third
  <1>9. ContainerHas(doc, new.document, i, request, limit)
    <2>. DEFINE F(f) == FieldPath(i, f)
                Q(f) == QuantityPath(i, f, "cpu")
    <2>1. /\ F("requests")[1] = i /\ F("limits")[1] = i
          /\ Q("requests")[1] = i /\ Q("limits")[1] = i
          /\ Q("requests")[3] = "cpu" /\ Q("limits")[3] = "cpu"
          /\ Q("requests") # Q("limits") /\ Q("requests") # F("limits")
      BY DEF FieldPath, QuantityPath
    <2>. HIDE DEF F, Q
    <2>2. /\ F("requests") \in DOMAIN two.document
          /\ F("requests") \in DOMAIN doc =>
                two.document[F("requests")] = doc[F("requests")]
          /\ Q("requests") \in DOMAIN two.document /\ two.document[Q("requests")] = request
          /\ SameBeside({F("requests"), Q("requests")}, doc, two.document)
      BY <1>4, <1>6 DEF FieldHas, SameBeside, F, Q
    <2>3. /\ F("limits") \in DOMAIN two.document =>
                F("limits") \in DOMAIN new.document
                   /\ new.document[F("limits")] = two.document[F("limits")]
          /\ Q("limits") \in DOMAIN new.document /\ new.document[Q("limits")] = limit
          /\ SameBeside({F("limits"), Q("limits")}, two.document, new.document)
      BY <1>8 DEF FieldHas, F, Q
    <2>4. Q("requests") \in DOMAIN new.document /\ new.document[Q("requests")] = request
      BY <2>1, <2>2, <2>3 DEF SameBeside
    <2>5. ASSUME NEW p \in DOMAIN doc, p[1] # i \/ p[3] # "cpu"
          PROVE  p \in DOMAIN two.document /\ two.document[p] = doc[p]
      BY <2>1, <2>2, <2>5 DEF SameBeside
    <2>6. ASSUME NEW p \in DOMAIN two.document, p[1] # i \/ p[3] # "cpu"
          PROVE  p \in DOMAIN new.document /\ new.document[p] = two.document[p]
      BY <2>1, <2>3, <2>6 DEF SameBeside
    <2>7. ASSUME NEW p \in DOMAIN new.document, p[1] # i
          PROVE  p \in DOMAIN doc
      BY <2>1, <2>2, <2>3, <2>7 DEF SameBeside
    <2>. QED  BY <2>3, <2>4, <2>5, <2>6, <2>7 DEF ContainerHas, Q
  <1>. QED  BY <1>3, <1>5, <1>8, <1>9

-----------------------------------------------------------------------------
(* The document of a template.                                             *)

(* What the assumption says of a template and of its containers.           *)
LEMMA TemplateFacts ==
    ASSUME NEW template \in Template
    PROVE  /\ template.annotated \in BOOLEAN
           /\ Len(template.containers) \in Nat
           /\ DOMAIN template.containers = 1..Len(template.containers)
           /\ \A i \in DOMAIN template.containers :
                 /\ IsResourceList(template.containers[i].requests)
                 /\ IsResourceList(template.containers[i].limits)
  <1>1. /\ template.annotated \in BOOLEAN
        /\ template.containers \in Seq(ToSet(template.containers))
        /\ \A c \in ToSet(template.containers) :
              IsResourceList(c.requests) /\ IsResourceList(c.limits)
    BY AdmissionAssumption
  <1>2. \A i \in DOMAIN template.containers :
            template.containers[i] \in ToSet(template.containers)
    BY DEF ToSet
  <1>3. /\ Len(template.containers) \in Nat
        /\ DOMAIN template.containers = 1..Len(template.containers)
    BY <1>1
  <1>. QED  BY <1>1, <1>2, <1>3

(* Whatever is asked for of a container is a resource list.                *)
LEMMA ListAtIsList ==
    ASSUME NEW template \in Template, NEW i \in DOMAIN template.containers, NEW field
    PROVE  IsResourceList(ListAt(template, i, field))
  <1>1. IsResourceList(NoList)
    BY DEF IsResourceList, NoList
  <1>2. CASE field = "requests"
    BY <1>2, TemplateFacts DEF ListAt
  <1>3. CASE field = "limits"
    BY <1>3, TemplateFacts DEF ListAt
  <1>4. CASE field # "requests" /\ field # "limits"
    BY <1>1, <1>4 DEF ListAt
  <1>. QED  BY <1>2, <1>3, <1>4

Annotations(template) ==
    IF template.annotated THEN {AnnotationsPath, AnnotationPath("team")} ELSE {}

(* The paths the API server sends.                                         *)
LEMMA WrittenPaths ==
    ASSUME NEW template \in Template
    PROVE  /\ \A p \in Written(template) \ Annotations(template) :
                 /\ p \in Path /\ p[1] \in DOMAIN template.containers
                 /\ p[2] \in {"", "requests", "limits"}
                 /\ \/ p = ResourcesPath(p[1])
                    \/ p[3] = "" /\ ListAt(template, p[1], p[2]) # NoList
                    \/ p[3] \in DOMAIN ListAt(template, p[1], p[2])
           /\ Annotations(template) \subseteq Written(template)
           /\ \A i \in DOMAIN template.containers : ResourcesPath(i) \in Written(template)
           /\ \A i \in DOMAIN template.containers : \A field \in Fields :
                 ListAt(template, i, field) # NoList => FieldPath(i, field) \in Written(template)
  <1>. DEFINE A == DOMAIN template.containers
              B == {"", "requests", "limits"}
              C == {""} \cup Resource
              good(p) == LET list == ListAt(template, p[1], p[2]) IN
                         \/ p = ResourcesPath(p[1])
                         \/ p[3] = "" /\ list # NoList
                         \/ p[3] \in DOMAIN list
  <1>1. Written(template) = Annotations(template) \cup {p \in A \X B \X C : good(p)}
    BY DEF Written, Annotations
  <1>2. A \X B \X C \subseteq Path
    <2>1. A \subseteq Nat /\ B \subseteq Name
      BY TemplateFacts DEF Name
    <2>. HIDE DEF A, B, C
    <2>. QED  BY <2>1 DEF Path, C
  <1>3. ASSUME NEW p \in Written(template) \ Annotations(template)
        PROVE  p \in A \X B \X C /\ good(p)
    BY <1>1
  <1>4. ASSUME NEW i \in A
        PROVE  ResourcesPath(i) \in A \X B \X C /\ good(ResourcesPath(i))
    <2>1. ResourcesPath(i) \in A \X B \X C
      <3>. HIDE DEF A
      <3>. QED  BY DEF ResourcesPath
    <2>2. ResourcesPath(i)[1] = i
      BY DEF ResourcesPath
    <2>. QED  BY <2>1, <2>2
  <1>5. ASSUME NEW i \in A, NEW field \in Fields, ListAt(template, i, field) # NoList
        PROVE  FieldPath(i, field) \in A \X B \X C /\ good(FieldPath(i, field))
    <2>. DEFINE f == FieldPath(i, field)
    <2>1. f \in A \X B \X C
      <3>. HIDE DEF A
      <3>. QED  BY DEF FieldPath, Fields
    <2>2. f[1] = i /\ f[2] = field /\ f[3] = ""
      BY DEF FieldPath
    <2>. HIDE DEF f
    <2>3. good(f)
      BY <1>5, <2>2
    <2>. QED  BY <2>1, <2>3 DEF f
  <1>. HIDE DEF A, B, C, good
  <1>6. ASSUME NEW p \in A \X B \X C PROVE p[1] \in A /\ p[2] \in B
    BY Triple
  <1>7. ASSUME NEW p, good(p)
        PROVE  \/ p = ResourcesPath(p[1])
               \/ p[3] = "" /\ ListAt(template, p[1], p[2]) # NoList
               \/ p[3] \in DOMAIN ListAt(template, p[1], p[2])
    BY <1>7 DEF good
  <1>8. \A p \in Written(template) \ Annotations(template) :
            /\ p \in Path /\ p[1] \in A /\ p[2] \in B
            /\ \/ p = ResourcesPath(p[1])
               \/ p[3] = "" /\ ListAt(template, p[1], p[2]) # NoList
               \/ p[3] \in DOMAIN ListAt(template, p[1], p[2])
    BY <1>2, <1>3, <1>6, <1>7
  <1>9. \A i \in A : ResourcesPath(i) \in Written(template)
    BY <1>1, <1>4
  <1>10. \A i \in A : \A field \in Fields :
            ListAt(template, i, field) # NoList => FieldPath(i, field) \in Written(template)
    BY <1>1, <1>5
  <1>11. Annotations(template) \subseteq Written(template)
    BY <1>1
  <1>. QED  BY <1>8, <1>9, <1>10, <1>11 DEF A, B

(* The paths of the annotations of a template.                             *)
LEMMA AnnotationPaths ==
    ASSUME NEW template \in Template, NEW p \in Annotations(template)
    PROVE  /\ p \in Path /\ p[1] = 0 /\ p[2] \in {"", "team"} /\ p[3] = ""
           /\ template.annotated
  <1>. DEFINE a == AnnotationsPath
              t == AnnotationPath("team")
  <1>1. /\ a \in Path /\ a[1] = 0 /\ a[2] = "" /\ a[3] = ""
        /\ t \in Path /\ t[1] = 0 /\ t[2] = "team" /\ t[3] = ""
    BY DEF AnnotationsPath, AnnotationPath, Path, Name
  <1>. HIDE DEF a, t
  <1>2. (p = a \/ p = t) /\ template.annotated
    BY DEF Annotations, a, t
  <1>. QED  BY <1>1, <1>2

(* The document of a template is a document, and has every container in    *)
(* shape.                                                                  *)
LEMMA DocumentFacts ==
    ASSUME NEW template \in Template
    PROVE  /\ IsDocument(Document(template))
           /\ \A i \in DOMAIN template.containers :
                 ContainerShape(Document(template), i, template.containers[i])
           /\ \A p \in DOMAIN Document(template) :
                 p[1] = 0 => template.annotated /\ p[2] \in {"", "team"} /\ p[3] = ""
           /\ template.annotated => AnnotationsPath \in DOMAIN Document(template)
  <1>. DEFINE doc == Document(template)
              W   == Written(template)
              own == Annotations(template)
              n   == Len(template.containers)
  <1>1. /\ DOMAIN doc = W
        /\ \A p \in W : doc[p] = IF p[3] # "" THEN ListAt(template, p[1], p[2])[p[3]]
                                 ELSE IF p = AnnotationPath("team") THEN Text
                                 ELSE Object
    BY DEF Document
  <1>. HIDE DEF doc, W, own
  <1>2. /\ n \in Nat /\ DOMAIN template.containers = 1..n
    BY TemplateFacts
  <1>3. ASSUME NEW p \in W \ own
        PROVE  /\ p \in Path /\ p[1] \in 1..n
               /\ p[2] \in {"", "requests", "limits"}
               /\ \/ p = ResourcesPath(p[1])
                  \/ p[3] = "" /\ ListAt(template, p[1], p[2]) # NoList
                  \/ p[3] \in DOMAIN ListAt(template, p[1], p[2])
    BY <1>2, WrittenPaths DEF W, own
  <1>4. ASSUME NEW p \in own
        PROVE  p \in Path /\ p[1] = 0 /\ p[2] \in {"", "team"} /\ p[3] = "" /\ template.annotated
    BY AnnotationPaths DEF own
  <1>5. ASSUME NEW p \in W PROVE doc[p] \in Values
    <2>1. CASE p[3] = ""
      <3>1. doc[p] = Text \/ doc[p] = Object
        BY <1>1, <2>1
      <3>. QED  BY <3>1, MaxInt64Assumption DEF Values, Text, Object
    <2>2. CASE p[3] # ""
      <3>1. p \notin own /\ p # ResourcesPath(p[1])
        <4>1. ResourcesPath(p[1])[3] = ""
          BY DEF ResourcesPath
        <4>. QED  BY <1>4, <2>2, <4>1
      <3>2. p[1] \in DOMAIN template.containers /\ p[3] \in DOMAIN ListAt(template, p[1], p[2])
        BY <1>2, <1>3, <2>2, <3>1
      <3>3. ListAt(template, p[1], p[2])[p[3]] \in 0..MaxInt64
        BY <3>2, ListAtIsList DEF IsResourceList
      <3>. QED  BY <1>1, <2>2, <3>3 DEF Values
    <2>. QED  BY <2>1, <2>2
  <1>6. IsDocument(doc)
    BY <1>1, <1>3, <1>4, <1>5 DEF IsDocument
  <1>7. ASSUME NEW i \in 1..n
        PROVE  ContainerShape(doc, i, template.containers[i])
    <2>. DEFINE c == template.containers[i]
                r == ResourcesPath(i)
    <2>1. ListAt(template, i, "requests") = c.requests /\ ListAt(template, i, "limits") = c.limits
          /\ ListAt(template, i, "") = NoList
      BY DEF ListAt
    <2>2. r[1] = i /\ r[2] = "" /\ r[3] = "" /\ r # AnnotationPath("team")
      BY DEF ResourcesPath, AnnotationPath
    <2>3. r \in DOMAIN doc /\ doc[r] = Object
      <3>1. r \in W
        BY <1>2, WrittenPaths DEF W
      <3>. HIDE DEF r
      <3>. QED  BY <1>1, <2>2, <3>1
    <2>4. ASSUME NEW p \in W, p[1] = i
          PROVE  /\ p[2] \in {"", "requests", "limits"}
                 /\ p = r \/ ListAt(template, i, p[2]) # NoList
      <3>1. p \notin own
        <4>1. p[1] # 0
          <5>. HIDE DEF n
          <5>. QED  BY <1>2, <2>4
        <4>. QED  BY <1>4, <4>1
      <3>2. /\ p[2] \in {"", "requests", "limits"}
            /\ \/ p = ResourcesPath(p[1])
               \/ p[3] = "" /\ ListAt(template, p[1], p[2]) # NoList
               \/ p[3] \in DOMAIN ListAt(template, p[1], p[2])
        BY <1>3, <3>1
      <3>3. DOMAIN NoList = {}
        BY DEF NoList
      <3>. QED  BY <2>4, <3>2, <3>3
    <2>5. ASSUME NEW field \in Fields
          PROVE  FieldShape(doc, i, field, ListAt(template, i, field))
      <3>. DEFINE f == FieldPath(i, field)
      <3>0. f[1] = i /\ f[2] = field /\ field # ""
        BY DEF FieldPath, Fields
      <3>1. ListAt(template, i, field) # NoList => f \in W
        BY <1>2, WrittenPaths DEF W
      <3>2. ASSUME ListAt(template, i, field) = NoList, NEW q \in W
            PROVE  ~Within(q, f)
        <4>. HIDE DEF f
        <4>1. Within(q, f) => q[1] = i /\ q[2] = field
          BY <3>0 DEF Within
        <4>. HIDE DEF r
        <4>2. Within(q, f) => q # r /\ ListAt(template, i, q[2]) = NoList /\ q[1] = i
          BY <2>2, <3>0, <3>2, <4>1
        <4>. QED  BY <2>4, <4>2
      <3>. QED  BY <1>1, <3>1, <3>2 DEF FieldShape
    <2>6. ASSUME c.requests = NoList, c.limits = NoList, NEW q \in W, Within(q, r)
          PROVE  q = r
      <3>1. q[1] = i
        <4>. HIDE DEF r
        <4>. QED  BY <2>2, <2>6 DEF Within
      <3>2. q[2] \in {"", "requests", "limits"} /\ (q = r \/ ListAt(template, i, q[2]) # NoList)
        BY <2>4, <3>1
      <3>. QED  BY <2>1, <2>6, <3>2
    <2>7. "requests" \in Fields /\ "limits" \in Fields
      BY DEF Fields
    <2>. HIDE DEF c
    <2>8. FieldShape(doc, i, "requests", c.requests) /\ FieldShape(doc, i, "limits", c.limits)
      BY <2>1, <2>5, <2>7
    <2>9. c.requests = NoList /\ c.limits = NoList =>
             \A q \in DOMAIN doc : Within(q, ResourcesPath(i)) => q = ResourcesPath(i)
      BY <1>1, <2>6
    <2>. QED  BY <2>3, <2>8, <2>9 DEF ContainerShape, c
  <1>8. ASSUME NEW p \in W, p[1] = 0
        PROVE  template.annotated /\ p[2] \in {"", "team"} /\ p[3] = ""
    <2>1. p \in own
      <3>1. p[1] \notin 1..n
        <4>. HIDE DEF n
        <4>. QED  BY <1>2, <1>8
      <3>. QED  BY <1>3, <3>1
    <2>. QED  BY <1>4, <2>1
  <1>9. template.annotated => AnnotationsPath \in W
    BY WrittenPaths DEF Annotations, W
  <1>. QED  BY <1>1, <1>2, <1>6, <1>7, <1>8, <1>9 DEF doc

-----------------------------------------------------------------------------
(* The patches of the containers, one container after the other.           *)

PatchOf(template, resources, i) ==
    getContainerPatch(template.containers[i], i, resources[i].resources)

Longer(patches, template, resources, i) == patches \o PatchOf(template, resources, i)

IsJoin(f, template, resources, k) ==
    f = [i \in 0..k |-> IF i = 0 THEN <<>> ELSE Longer(f[i - 1], template, resources, i)]

(* There is a function with the patches of the containers up to any of     *)
(* them.                                                                   *)
LEMMA JoinExists ==
    ASSUME NEW template, NEW resources, NEW n \in Nat
    PROVE  \E f : IsJoin(f, template, resources, n)
  <1>. DEFINE T == {k \in 0..n : \E f : IsJoin(f, template, resources, k)}
  <1>1. 0 \in T
    <2>. DEFINE g == [i \in 0..0 |-> <<>>]
    <2>1. IsJoin(g, template, resources, 0)
      BY DEF IsJoin
    <2>. QED  BY <2>1
  <1>2. ASSUME NEW k \in 1..n, k - 1 \in T PROVE k \in T
    <2>1. PICK f : IsJoin(f, template, resources, k - 1)
      BY <1>2
    <2>. DEFINE g == [i \in 0..k |-> IF i = k THEN Longer(f[k - 1], template, resources, k)
                                     ELSE f[i]]
    <2>2. \A i \in 0..k :
             g[i] = IF i = 0 THEN <<>> ELSE Longer(g[i - 1], template, resources, i)
      BY <2>1 DEF IsJoin
    <2>3. g = [i \in 0..k |-> g[i]]
      OBVIOUS
    <2>. HIDE DEF g
    <2>4. IsJoin(g, template, resources, k)
      BY <2>2, <2>3 DEF IsJoin
    <2>. QED  BY <2>4
  <1>. HIDE DEF T
  <1>3. T \in SUBSET (0..n)
    BY DEF T
  <1>4. T = 0..n
    BY <1>1, <1>2, <1>3, InductionUpTo
  <1>. QED  BY <1>4 DEF T

Join(f, template, resources, n) ==
    /\ f[0] = <<>>
    /\ \A i \in 1..n : f[i] = Longer(f[i - 1], template, resources, i)

(* ContainerPatches is the last value of such a function.                  *)
LEMMA ContainerPatchesJoin ==
    ASSUME NEW template, NEW resources, Len(resources) \in Nat
    PROVE  \E f : /\ Join(f, template, resources, Len(resources))
                  /\ ContainerPatches(template, resources) = f[Len(resources)]
  <1>. DEFINE n == Len(resources)
              g == CHOOSE f : f = [i \in 0..n |->
                                     IF i = 0 THEN <<>>
                                     ELSE f[i - 1] \o getContainerPatch(template.containers[i], i,
                                                                        resources[i].resources)]
  <1>1. ContainerPatches(template, resources) = g[n]
    BY DEF ContainerPatches
  <1>2. IsJoin(g, template, resources, n)
    <2>. DEFINE h == CHOOSE f : IsJoin(f, template, resources, n)
    <2>1. h = g
      BY DEF IsJoin, Longer, PatchOf
    <2>2. IsJoin(h, template, resources, n)
      BY JoinExists
    <2>. QED  BY <2>1, <2>2
  <1>. HIDE DEF g
  <1>3. Join(g, template, resources, n)
    BY <1>2 DEF IsJoin, Join
  <1>. QED  BY <1>1, <1>3

(* Nothing that the shape of a container depends on has another place.     *)
LEMMA ShapeStays ==
    ASSUME NEW doc, NEW new, NEW i, NEW container, ContainerShape(doc, i, container),
           \A p : p[1] = i => /\ p \in DOMAIN new <=> p \in DOMAIN doc
                              /\ p \in DOMAIN doc => new[p] = doc[p]
    PROVE  ContainerShape(new, i, container)
  <1>. DEFINE r == ResourcesPath(i)
              f == FieldPath(i, "requests")
              g == FieldPath(i, "limits")
  <1>1. r[1] = i /\ f[1] = i /\ g[1] = i
    BY DEF ResourcesPath, FieldPath
  <1>. HIDE DEF r, f, g
  <1>2. \A q : Within(q, r) \/ Within(q, f) \/ Within(q, g) => q[1] = i
    BY <1>1 DEF Within
  <1>3. r \in DOMAIN new /\ new[r] = Object
    BY <1>1 DEF ContainerShape, r
  <1>4. \A q \in DOMAIN new : Within(q, r) \/ Within(q, f) \/ Within(q, g) => q \in DOMAIN doc
    BY <1>2
  <1>5. FieldShape(new, i, "requests", container.requests)
    BY <1>1, <1>4 DEF ContainerShape, FieldShape, f
  <1>6. FieldShape(new, i, "limits", container.limits)
    BY <1>1, <1>4 DEF ContainerShape, FieldShape, g
  <1>7. container.requests = NoList /\ container.limits = NoList =>
            \A q \in DOMAIN new : Within(q, r) => q = r
    BY <1>4 DEF ContainerShape, r
  <1>. QED  BY <1>3, <1>5, <1>6, <1>7 DEF ContainerShape, r

(* The containers up to k have what the plan gives them, the others what   *)
(* they had, and every container has kept what is not a quantity of CPU.   *)
PlanUpTo(doc, new, resources, target, k) ==
    /\ \A p \in DOMAIN doc :
          p[1] \notin 1..k \/ p[3] # "cpu" => p \in DOMAIN new /\ new[p] = doc[p]
    /\ \A p \in DOMAIN new : p[1] \notin 1..k => p \in DOMAIN doc
    /\ \A i \in 1..k :
          /\ QuantityPath(i, "requests", "cpu") \in DOMAIN new
          /\ new[QuantityPath(i, "requests", "cpu")] = target
          /\ QuantityPath(i, "limits", "cpu") \in DOMAIN new
          /\ resources[i].resources.limits = CpuOnly(new[QuantityPath(i, "limits", "cpu")])

IsPlan(resources, target, n) ==
    /\ target \in 0..MaxInt64
    /\ \A i \in 1..n :
          /\ resources[i].resources.requests = CpuOnly(target)
          /\ \E limit \in 0..MaxInt64 : resources[i].resources.limits = CpuOnly(limit)

(* The patches of the next container keep what those before it have        *)
(* reached.                                                                *)
LEMMA PlanNext ==
    ASSUME NEW doc, NEW mid, NEW new, NEW resources, NEW target, NEW k \in Nat \ {0},
           PlanUpTo(doc, mid, resources, target, k - 1),
           NEW limit, resources[k].resources.limits = CpuOnly(limit),
           ContainerHas(mid, new, k, target, limit)
    PROVE  PlanUpTo(doc, new, resources, target, k)
  <1>. DEFINE req(i) == QuantityPath(i, "requests", "cpu")
              lim(i) == QuantityPath(i, "limits", "cpu")
  <1>1. \A i : req(i)[1] = i /\ lim(i)[1] = i
    BY DEF QuantityPath
  <1>. HIDE DEF req, lim
  <1>2. \A i : i \in 1..k <=> i \in 1..(k - 1) \/ i = k
    OBVIOUS
  <1>3. k \notin 1..(k - 1)
    OBVIOUS
  <1>4. ASSUME NEW p \in DOMAIN doc, p[1] \notin 1..k \/ p[3] # "cpu"
        PROVE  p \in DOMAIN new /\ new[p] = doc[p]
    <2>1. p \in DOMAIN mid /\ mid[p] = doc[p]
      BY <1>2, <1>4 DEF PlanUpTo
    <2>. QED  BY <1>2, <1>4, <2>1 DEF ContainerHas
  <1>5. ASSUME NEW p \in DOMAIN new, p[1] \notin 1..k
        PROVE  p \in DOMAIN doc
    BY <1>2, <1>5 DEF PlanUpTo, ContainerHas
  <1>6. /\ req(k) \in DOMAIN new /\ new[req(k)] = target
        /\ lim(k) \in DOMAIN new /\ resources[k].resources.limits = CpuOnly(new[lim(k)])
    BY DEF ContainerHas, req, lim
  <1>7. ASSUME NEW i \in 1..(k - 1)
        PROVE  /\ req(i) \in DOMAIN new /\ new[req(i)] = target
               /\ lim(i) \in DOMAIN new /\ resources[i].resources.limits = CpuOnly(new[lim(i)])
    <2>1. /\ req(i) \in DOMAIN mid /\ mid[req(i)] = target
          /\ lim(i) \in DOMAIN mid /\ resources[i].resources.limits = CpuOnly(mid[lim(i)])
      BY DEF PlanUpTo, req, lim
    <2>2. i # k
      OBVIOUS
    <2>3. \A p \in DOMAIN mid : p[1] = i => p \in DOMAIN new /\ new[p] = mid[p]
      BY <2>2 DEF ContainerHas
    <2>. QED  BY <1>1, <2>1, <2>3
  <1>8. ASSUME NEW i \in 1..k
        PROVE  /\ req(i) \in DOMAIN new /\ new[req(i)] = target
               /\ lim(i) \in DOMAIN new /\ resources[i].resources.limits = CpuOnly(new[lim(i)])
    BY <1>2, <1>6, <1>7
  <1>. QED  BY <1>4, <1>5, <1>8 DEF PlanUpTo, req, lim

Carried(result, patches, resources, target, k) ==
    /\ patches \in Seq(Patch)
    /\ Applied(result, patches).ok /\ IsDocument(Applied(result, patches).document)
    /\ PlanUpTo(result.document, Applied(result, patches).document, resources, target, k)

(* The patches of all containers apply and give each its plan.             *)
LEMMA ContainersPatched ==
    ASSUME NEW template \in Template, NEW resources, NEW target,
           Len(resources) \in Nat, Len(resources) <= Len(template.containers),
           IsPlan(resources, target, Len(resources)),
           NEW result, result.ok, IsDocument(result.document),
           \A i \in DOMAIN template.containers :
               ContainerShape(result.document, i, template.containers[i])
    PROVE  Carried(result, ContainerPatches(template, resources), resources, target,
                   Len(resources))
  <1>. DEFINE n == Len(resources)
  <1>0. \A i \in 1..n : i \in DOMAIN template.containers
    BY TemplateFacts
  <1>1. PICK f : /\ Join(f, template, resources, n)
                 /\ ContainerPatches(template, resources) = f[n]
    BY ContainerPatchesJoin
  <1>. DEFINE T == {k \in 0..n : Carried(result, f[k], resources, target, k)}
  <1>2. 0 \in T
    <2>1. f[0] = <<>> /\ f[0] \in Seq(Patch)
      BY <1>1 DEF Join
    <2>2. Applied(result, f[0]) = result
      BY <2>1, AppliedNone
    <2>3. PlanUpTo(result.document, result.document, resources, target, 0)
      BY DEF PlanUpTo
    <2>4. Carried(result, f[0], resources, target, 0)
      BY <2>1, <2>2, <2>3 DEF Carried
    <2>. QED  BY <2>4
  <1>3. ASSUME NEW k \in 1..n, k - 1 \in T PROVE k \in T
    <2>. DEFINE before == f[k - 1]
                patches == PatchOf(template, resources, k)
                mid == Applied(result, before)
                new == Applied(result, f[k])
                container == template.containers[k]
    <2>1. Carried(result, before, resources, target, k - 1) /\ f[k] = before \o patches
      BY <1>1, <1>3 DEF Join, Longer
    <2>2. PICK limit \in 0..MaxInt64 : resources[k].resources.limits = CpuOnly(limit)
      BY DEF IsPlan
    <2>3. ContainerShape(mid.document, k, container)
      <3>1. ContainerShape(result.document, k, container)
        BY <1>0
      <3>2. k \notin 1..(k - 1)
        OBVIOUS
      <3>3. PlanUpTo(result.document, mid.document, resources, target, k - 1)
        BY <2>1 DEF Carried
      <3>. HIDE DEF mid, container
      <3>4. \A p : p[1] = k => /\ p \in DOMAIN mid.document <=> p \in DOMAIN result.document
                               /\ p \in DOMAIN result.document =>
                                     mid.document[p] = result.document[p]
        BY <3>2, <3>3 DEF PlanUpTo
      <3>. QED  BY <3>1, <3>4, ShapeStays
    <2>4. /\ mid.ok /\ IsDocument(mid.document) /\ target \in 0..MaxInt64
          /\ resources[k].resources.requests = CpuOnly(target)
      BY <2>1 DEF Carried, IsPlan
    <2>. HIDE DEF mid, container
    <2>5. /\ patches \in Seq(Patch)
          /\ Applied(mid, patches).ok /\ IsDocument(Applied(mid, patches).document)
          /\ ContainerHas(mid.document, Applied(mid, patches).document, k, target, limit)
      BY <2>2, <2>3, <2>4, ContainerPatched DEF PatchOf, container
    <2>6. new = Applied(mid, patches) /\ f[k] \in Seq(Patch)
      <3>1. before \in Seq(Patch)
        BY <2>1 DEF Carried
      <3>. HIDE DEF before, patches
      <3>. QED  BY <2>1, <2>5, <3>1, AppliedBoth DEF mid
    <2>. HIDE DEF new, patches
    <2>7. PlanUpTo(result.document, new.document, resources, target, k)
      <3>1. PlanUpTo(result.document, mid.document, resources, target, k - 1)
        BY <2>1 DEF Carried, mid
      <3>2. k \in Nat \ {0}
        OBVIOUS
      <3>. QED  BY <2>2, <2>5, <2>6, <3>1, <3>2, PlanNext
    <2>. QED  BY <2>5, <2>6, <2>7 DEF Carried, new
  <1>. HIDE DEF T
  <1>4. T \in SUBSET (0..n)
    BY DEF T
  <1>5. T = 0..n
    BY <1>2, <1>3, <1>4, InductionUpTo
  <1>. QED  BY <1>1, <1>5 DEF T

-----------------------------------------------------------------------------
(* All the patches of an answer.                                           *)

(* There are annotations, and nothing below an annotation.                 *)
HasAnnotations(doc) ==
    AnnotationsPath \in DOMAIN doc /\ \A p \in DOMAIN doc : p[1] = 0 => p[3] = ""

(* The patch of an annotation applies where there are annotations, and     *)
(* changes nothing else.                                                   *)
LEMMA AnnotationPatched ==
    ASSUME NEW result, result.ok, IsDocument(result.document), HasAnnotations(result.document),
           NEW name \in {"mpaObservedPod", "MpaUpdates"},
           NEW new, new = ApplyNext(result, Add(AnnotationPath(name), Text))
    PROVE  /\ Add(AnnotationPath(name), Text) \in Patch
           /\ new.ok /\ IsDocument(new.document) /\ HasAnnotations(new.document)
           /\ SameBeside({AnnotationPath(name)}, result.document, new.document)
  <1>. DEFINE a == AnnotationPath(name)
              patch == Add(a, Text)
              doc == result.document
  <1>1. a[1] = 0 /\ a[2] = name /\ a[3] = "" /\ a = <<0, name, "">>
    BY DEF AnnotationPath
  <1>2. a \in Path /\ name # ""
    BY DEF AnnotationPath, Path, Name
  <1>. HIDE DEF a
  <1>3. patch \in Patch /\ patch.path = a /\ new = ApplyNext(result, patch)
    <2>1. Text \in Values
      BY MaxInt64Assumption DEF Values, Text
    <2>2. patch \in Patch
      BY <1>2, <2>1 DEF Patch, Add
    <2>3. patch.path = a
      BY DEF Add
    <2>. QED  BY <2>2, <2>3 DEF a
  <1>. HIDE DEF patch
  <1>4. CanApply(doc, patch)
    <2>1. Parent(a) = AnnotationsPath
      BY <1>1 DEF Parent, AnnotationsPath
    <2>. QED  BY <1>3, <2>1 DEF CanApply, HasAnnotations
  <1>5. ASSUME NEW q \in DOMAIN doc, Within(q, patch.path)
        PROVE  q = patch.path
    <2>1. q[1] = 0 /\ q[2] = name
      BY <1>1, <1>2, <1>3, <1>5 DEF Within
    <2>2. q[3] = "" /\ q \in Path
      BY <2>1 DEF HasAnnotations, IsDocument
    <2>3. q = <<q[1], q[2], q[3]>>
      BY <2>2, PathIsTriple
    <2>. QED  BY <1>1, <1>3, <2>1, <2>2, <2>3
  <1>6. /\ new.ok /\ IsDocument(new.document) /\ SameBeside({a}, doc, new.document)
    BY <1>3, <1>4, <1>5, PatchedAlone DEF patch
  <1>7. AnnotationsPath # a
    <2>1. AnnotationsPath[2] = ""
      BY DEF AnnotationsPath
    <2>. QED  BY <1>1, <1>2, <2>1
  <1>8. HasAnnotations(new.document)
    BY <1>1, <1>6, <1>7 DEF HasAnnotations, SameBeside
  <1>. QED  BY <1>3, <1>6, <1>8 DEF a, patch

Beginning(template) ==
    (IF ~template.annotated THEN <<Add(AnnotationsPath, Object)>> ELSE <<>>)
        \o ObservedPodPatches

(* The first patches leave the pod as it is but for its annotations.       *)
LEMMA BeginningPatched ==
    ASSUME NEW template \in Template, NEW result, result.ok,
           result.document = Document(template),
           NEW new, new = Applied(result, Beginning(template))
    PROVE  /\ Beginning(template) \in Seq(Patch)
           /\ new.ok /\ IsDocument(new.document) /\ HasAnnotations(new.document)
           /\ \A p : p[1] # 0 => /\ p \in DOMAIN new.document <=> p \in DOMAIN result.document
                                 /\ p \in DOMAIN result.document =>
                                       new.document[p] = result.document[p]
           /\ \A p \in DOMAIN result.document :
                 p \in DOMAIN new.document /\ new.document[p] = result.document[p]
  <1>. DEFINE doc == result.document
              empty == Add(AnnotationsPath, Object)
              put == Add(AnnotationPath("mpaObservedPod"), Text)
              first == IF ~template.annotated THEN <<empty>> ELSE <<>>
              mid == Applied(result, first)
  <1>1. /\ IsDocument(doc)
        /\ \A p \in DOMAIN doc : p[1] = 0 =>
              template.annotated /\ p[2] \in {"", "team"} /\ p[3] = ""
        /\ template.annotated => AnnotationsPath \in DOMAIN doc
    BY DocumentFacts
  <1>2. empty \in Patch /\ empty.path = AnnotationsPath /\ AnnotationsPath[1] = 0
        /\ AnnotationsPath[2] = "" /\ AnnotationsPath[3] = ""
    BY DEF Patch, Add, AnnotationsPath, Path, Name, Values
  <1>. HIDE DEF empty
  <1>3. /\ mid.ok /\ IsDocument(mid.document) /\ HasAnnotations(mid.document)
        /\ SameBeside(IF template.annotated THEN {} ELSE {AnnotationsPath}, doc, mid.document)
    <2>1. CASE template.annotated
      <3>1. mid = result
        BY <2>1, AppliedNone
      <3>. QED  BY <1>1, <2>1, <3>1 DEF SameBeside, HasAnnotations
    <2>2. CASE ~template.annotated
      <3>1. mid = ApplyNext(result, empty)
        BY <2>2, AppliedOne
      <3>2. CanApply(doc, empty)
        BY <1>2 DEF CanApply
      <3>3. \A q \in DOMAIN doc : Within(q, empty.path) => q = empty.path
        BY <1>1, <1>2, <2>2 DEF Within
      <3>. HIDE DEF mid
      <3>4. /\ mid.ok /\ IsDocument(mid.document) /\ AnnotationsPath \in DOMAIN mid.document
            /\ SameBeside({AnnotationsPath}, doc, mid.document)
        BY <1>1, <1>2, <3>1, <3>2, <3>3, PatchedAlone
      <3>5. HasAnnotations(mid.document)
        BY <1>1, <1>2, <3>4 DEF HasAnnotations, SameBeside
      <3>. QED  BY <2>2, <3>4, <3>5
    <2>. QED  BY <2>1, <2>2
  <1>4. new = ApplyNext(mid, put) /\ Beginning(template) \in Seq(Patch)
    <2>1. put \in Patch
      <3>1. AnnotationPath("mpaObservedPod") \in Path
        BY DEF AnnotationPath, Path, Name
      <3>. QED  BY <3>1, MaxInt64Assumption DEF Patch, Add, Values, Text
    <2>. DEFINE second == <<put>>
    <2>. HIDE DEF put
    <2>2. first \in Seq(Patch) /\ second \in Seq(Patch)
      <3>1. <<empty>> \in Seq(Patch) /\ <<>> \in Seq(Patch) /\ <<put>> \in Seq(Patch)
        <4>1. empty \in Patch /\ put \in Patch
          BY <1>2, <2>1
        <4>. QED  BY <4>1
      <3>2. first = <<empty>> \/ first = <<>>
        OBVIOUS
      <3>. HIDE DEF first
      <3>. QED  BY <3>1, <3>2
    <2>3. Beginning(template) = first \o second
      BY DEF Beginning, ObservedPodPatches, empty, put
    <2>4. Applied(mid, second) = ApplyNext(mid, put)
      BY AppliedOne
    <2>. HIDE DEF first, second
    <2>. QED  BY <2>2, <2>3, <2>4, AppliedBoth DEF mid
  <1>. HIDE DEF mid, first
  <1>. DEFINE o == AnnotationPath("mpaObservedPod")
  <1>5. /\ new.ok /\ IsDocument(new.document) /\ HasAnnotations(new.document)
        /\ SameBeside({o}, mid.document, new.document)
    BY <1>3, <1>4, AnnotationPatched
  <1>6. o[1] = 0 /\ o[2] = "mpaObservedPod"
    BY DEF AnnotationPath
  <1>. HIDE DEF o
  <1>7. ASSUME NEW p, p[1] # 0
        PROVE  /\ p \in DOMAIN new.document <=> p \in DOMAIN doc
               /\ p \in DOMAIN doc => new.document[p] = doc[p]
    <2>1. p # o /\ p # AnnotationsPath
      BY <1>2, <1>6, <1>7
    <2>. QED  BY <1>3, <1>5, <2>1 DEF SameBeside
  <1>8. ASSUME NEW p \in DOMAIN doc
        PROVE  p \in DOMAIN new.document /\ new.document[p] = doc[p]
    <2>1. p # o
      BY <1>1, <1>6
    <2>2. ~template.annotated => p # AnnotationsPath
      BY <1>1, <1>2
    <2>. QED  BY <1>3, <1>5, <2>1, <2>2 DEF SameBeside
  <1>. QED  BY <1>4, <1>5, <1>7, <1>8

(* What the patches of an answer make of a document.                       *)
Planned(doc, new, resources, target, n) ==
    /\ \A p \in DOMAIN doc : p[3] # "cpu" => p \in DOMAIN new /\ new[p] = doc[p]
    /\ \A i \in 1..n :
          /\ QuantityPath(i, "requests", "cpu") \in DOMAIN new
          /\ new[QuantityPath(i, "requests", "cpu")] = target
          /\ QuantityPath(i, "limits", "cpu") \in DOMAIN new
          /\ resources[i].resources.limits = CpuOnly(new[QuantityPath(i, "limits", "cpu")])

(* All the patches of an answer apply, give each container its plan and    *)
(* keep what is not CPU (GetPatches).                                      *)
LEMMA PatchesFacts ==
    ASSUME NEW template \in Template, NEW mpa, mpa.matched, NEW resources, NEW target,
           Len(resources) \in Nat, Len(resources) <= Len(template.containers),
           IsPlan(resources, target, Len(resources)),
           NEW result, result.ok, result.document = Document(template),
           NEW new, new = Applied(result, GetPatches(template, mpa, resources))
    PROVE  /\ new.ok /\ IsDocument(new.document)
           /\ Planned(result.document, new.document, resources, target, Len(resources))
  <1>. DEFINE n == Len(resources)
              doc == result.document
              patch == Add(AnnotationPath("MpaUpdates"), Text)
              first == Beginning(template)
              second == ContainerPatches(template, resources)
              third == IF resources # <<>> THEN <<patch>> ELSE <<>>
              one == Applied(result, first)
              two == Applied(one, second)
  <1>1. /\ first \in Seq(Patch)
        /\ one.ok /\ IsDocument(one.document) /\ HasAnnotations(one.document)
        /\ \A p : p[1] # 0 => /\ p \in DOMAIN one.document <=> p \in DOMAIN doc
                              /\ p \in DOMAIN doc => one.document[p] = doc[p]
        /\ \A p \in DOMAIN doc : p \in DOMAIN one.document /\ one.document[p] = doc[p]
    BY BeginningPatched
  <1>. HIDE DEF one, first
  <1>2. \A i \in DOMAIN template.containers :
            ContainerShape(one.document, i, template.containers[i])
    <2>1. ASSUME NEW i \in DOMAIN template.containers
          PROVE  ContainerShape(one.document, i, template.containers[i])
      <3>1. ContainerShape(doc, i, template.containers[i])
        BY DocumentFacts
      <3>2. i # 0
        BY TemplateFacts
      <3>3. \A p : p[1] = i => /\ p \in DOMAIN one.document <=> p \in DOMAIN doc
                               /\ p \in DOMAIN doc => one.document[p] = doc[p]
        BY <1>1, <3>2
      <3>. QED  BY <3>1, <3>3, ShapeStays
    <2>. QED  BY <2>1
  <1>3. Carried(one, second, resources, target, n)
    BY <1>1, <1>2, ContainersPatched
  <1>. HIDE DEF second, two
  <1>4. /\ second \in Seq(Patch) /\ two.ok /\ IsDocument(two.document)
        /\ PlanUpTo(one.document, two.document, resources, target, n)
    BY <1>3 DEF Carried, two
  <1>5. HasAnnotations(two.document)
    <2>1. AnnotationsPath[1] = 0 /\ AnnotationsPath[3] = "" /\ 0 \notin 1..n
      BY DEF AnnotationsPath
    <2>. HIDE DEF n
    <2>. QED  BY <1>1, <1>4, <2>1 DEF HasAnnotations, PlanUpTo
  <1>6. patch \in Patch
    <2>1. AnnotationPath("MpaUpdates") \in Path
      BY DEF AnnotationPath, Path, Name
    <2>. QED  BY <2>1, MaxInt64Assumption DEF Patch, Add, Values, Text
  <1>7. third \in Seq(Patch) /\ (third = <<patch>> \/ third = <<>>)
    <2>. HIDE DEF patch
    <2>. QED  BY <1>6
  <1>8. new = Applied(two, third)
    <2>1. GetPatches(template, mpa, resources) = first \o (second \o third)
      BY DEF GetPatches, ResourceUpdatesPatches, Beginning, first, second
    <2>. DEFINE rest == second \o third
    <2>. HIDE DEF third
    <2>2. rest \in Seq(Patch)
      BY <1>4, <1>7
    <2>3. Applied(one, rest) = Applied(two, third)
      BY <1>4, <1>7, AppliedBoth DEF two
    <2>. HIDE DEF rest
    <2>4. Applied(result, first \o rest) = Applied(one, rest)
      BY <1>1, <2>2, AppliedBoth DEF one
    <2>. QED  BY <2>1, <2>3, <2>4 DEF rest
  <1>. DEFINE u == AnnotationPath("MpaUpdates")
  <1>9. /\ new.ok /\ IsDocument(new.document)
        /\ SameBeside({u}, two.document, new.document)
    <2>. HIDE DEF third
    <2>1. CASE third = <<patch>>
      <3>1. new = ApplyNext(two, patch)
        BY <1>8, <2>1, AppliedOne
      <3>. QED  BY <1>4, <1>5, <3>1, AnnotationPatched
    <2>2. CASE third = <<>>
      <3>1. new = two
        BY <1>8, <2>2, AppliedNone
      <3>. QED  BY <1>4, <3>1 DEF SameBeside
    <2>. QED  BY <1>7, <2>1, <2>2
  <1>10. u[1] = 0 /\ u[2] = "MpaUpdates"
    BY DEF AnnotationPath
  <1>. HIDE DEF u, third, patch
  <1>11. ASSUME NEW p \in DOMAIN doc, p[3] # "cpu"
         PROVE  p \in DOMAIN new.document /\ new.document[p] = doc[p]
    <2>1. p # u
      BY <1>10, DocumentFacts
    <2>. QED  BY <1>1, <1>4, <1>9, <1>11, <2>1 DEF PlanUpTo, SameBeside
  <1>12. ASSUME NEW i \in 1..n
         PROVE  /\ QuantityPath(i, "requests", "cpu") \in DOMAIN new.document
                /\ new.document[QuantityPath(i, "requests", "cpu")] = target
                /\ QuantityPath(i, "limits", "cpu") \in DOMAIN new.document
                /\ resources[i].resources.limits
                      = CpuOnly(new.document[QuantityPath(i, "limits", "cpu")])
    <2>. DEFINE r == QuantityPath(i, "requests", "cpu")
                l == QuantityPath(i, "limits", "cpu")
    <2>1. r[1] = i /\ l[1] = i /\ i # 0
      BY DEF QuantityPath
    <2>2. /\ r \in DOMAIN two.document /\ two.document[r] = target
          /\ l \in DOMAIN two.document /\ resources[i].resources.limits = CpuOnly(two.document[l])
      BY <1>4 DEF PlanUpTo
    <2>. HIDE DEF r, l
    <2>3. r # u /\ l # u
      BY <1>10, <2>1
    <2>4. /\ r \in DOMAIN new.document /\ new.document[r] = two.document[r]
          /\ l \in DOMAIN new.document /\ new.document[l] = two.document[l]
      BY <1>9, <2>2, <2>3 DEF SameBeside
    <2>. QED  BY <2>2, <2>4 DEF r, l
  <1>13. Planned(doc, new.document, resources, target, n)
    BY <1>11, <1>12 DEF Planned
  <1>. QED  BY <1>9, <1>13

-----------------------------------------------------------------------------
(* The answers.                                                            *)

(* What is gathered from the items of the limit ranges.                    *)
LEMMA ItemsFacts ==
    ASSUME NEW items \in LimitItems
    PROVE  /\ Gathered(getLimitRangeItem(items), items, Len(items))
           /\ Len(items) \in Nat /\ DOMAIN items = 1..Len(items)
  <1>1. /\ items \in Seq(ToSet(items))
        /\ \A item \in ToSet(items) :
              IsResourceList(item.default) /\ IsResourceList(item.min) /\ IsResourceList(item.max)
    BY AdmissionAssumption
  <1>2. Len(items) \in Nat /\ DOMAIN items = 1..Len(items)
    BY <1>1
  <1>3. \A j \in 1..Len(items) : items[j] \in ToSet(items)
    BY <1>2 DEF ToSet
  <1>4. \A j \in 1..Len(items) : IsItem(items[j])
    BY <1>1, <1>3 DEF IsItem
  <1>. QED  BY <1>2, <1>4, MergedIsGathered

(* The list tells the quantity.                                            *)
LEMMA CpuOnlyInjective ==
    ASSUME NEW a, NEW b, CpuOnly(a) = CpuOnly(b)
    PROVE  a = b
  <1>1. CpuOnly(a)["cpu"] = a /\ CpuOnly(b)["cpu"] = b
    BY DEF CpuOnly
  <1>. QED  BY <1>1

PlanOf(mpa) == IF mpa.target = NoTarget THEN 0 ELSE mpa.target

(* The limit of the container is at least what it asks for, or there is    *)
(* none.                                                                   *)
LimitWasEnough(container, items) ==
    LET limit == MeantLimit(container, getLimitRangeItem(items).default)
    IN  limit = 0 \/ limit >= Quantity(container.requests, "cpu")

Enough(template, items, resources, target, n) ==
    \A i \in 1..n : \A limit :
        /\ resources[i].resources.limits = CpuOnly(limit)
        /\ ~resources[i].panics
        /\ LimitWasEnough(template.containers[i], items)
        => limit >= target

(* What the containers of a pod are to get, with and without a plan.       *)
LEMMA ResourcesFacts ==
    ASSUME NEW template \in Template, NEW mpa \in Mpas, NEW items \in LimitItems,
           NEW resources, resources = GetContainerResourcesForPod(template, mpa, items)
    PROVE  /\ Len(resources) \in Nat /\ Len(resources) <= Len(template.containers)
           /\ DOMAIN resources = 1..Len(resources)
           /\ mpa.target # NoTarget => Len(resources) = Len(template.containers)
           /\ IsPlan(resources, PlanOf(mpa), Len(resources))
           /\ Enough(template, items, resources, PlanOf(mpa), Len(resources))
  <1>1. Len(template.containers) \in Nat
        /\ DOMAIN template.containers = 1..Len(template.containers)
    BY TemplateFacts
  <1>2. CASE mpa.target = NoTarget
    <2>1. resources = <<>> /\ Len(resources) = 0 /\ DOMAIN resources = 1..0
      BY <1>2 DEF GetContainerResourcesForPod
    <2>2. PlanOf(mpa) = 0 /\ 0 \in 0..MaxInt64
      BY <1>2, MaxInt64Assumption DEF PlanOf
    <2>3. IsPlan(resources, PlanOf(mpa), 0)
      BY <2>2 DEF IsPlan
    <2>4. Enough(template, items, resources, PlanOf(mpa), 0)
      BY DEF Enough
    <2>. QED  BY <1>1, <1>2, <2>1, <2>3, <2>4
  <1>3. CASE mpa.target # NoTarget
    <2>. DEFINE n == Len(template.containers)
                default == getLimitRangeItem(items).default
                target == mpa.target
                given(i) == ContainerResources(template.containers[i].name,
                                template.containers[i],
                                <<[containerName |-> "*", target |-> CpuOnly(target)]>>, default)
    <2>1. resources = [i \in 1..n |-> given(i)]
      BY <1>1, <1>3 DEF GetContainerResourcesForPod
    <2>2. target \in 0..MaxInt64
      BY <1>3, AdmissionAssumption DEF Mpas
    <2>3. IsResourceList(default)
      BY ItemsFacts DEF Gathered, IsItem
    <2>. HIDE DEF given
    <2>4. Len(resources) = n /\ DOMAIN resources = 1..n /\ \A i \in 1..n : resources[i] = given(i)
      BY <1>1, <2>1
    <2>5. ASSUME NEW i \in 1..n
          PROVE  /\ resources[i].resources.requests = CpuOnly(target)
                 /\ \E limit \in 0..MaxInt64 :
                      /\ resources[i].resources.limits = CpuOnly(limit)
                      /\ ~resources[i].panics /\ LimitWasEnough(template.containers[i], items)
                            => limit >= target
      <3>. DEFINE c == template.containers[i]
      <3>1. IsResourceList(c.requests) /\ IsResourceList(c.limits)
        BY <1>1, TemplateFacts
      <3>2. resources[i] = ContainerResources(c.name, c,
                               <<[containerName |-> "*", target |-> CpuOnly(target)]>>, default)
        BY <2>4 DEF given
      <3>3. LimitWasEnough(c, items) <=> \/ MeantLimit(c, default) = 0
                                         \/ MeantLimit(c, default) >= Quantity(c.requests, "cpu")
        BY DEF LimitWasEnough
      <3>. HIDE DEF c, default, target
      <3>. QED  BY <2>2, <2>3, <3>1, <3>2, <3>3, ResourcesOfPlan DEF c
    <2>6. PlanOf(mpa) = target
      BY <1>3 DEF PlanOf
    <2>. HIDE DEF n, default, target
    <2>7. IsPlan(resources, target, n)
      BY <2>2, <2>5 DEF IsPlan
    <2>8. Enough(template, items, resources, target, n)
      <3>1. ASSUME NEW i \in 1..n, NEW limit, resources[i].resources.limits = CpuOnly(limit),
                   ~resources[i].panics, LimitWasEnough(template.containers[i], items)
            PROVE  limit >= target
        BY <2>5, <3>1, CpuOnlyInjective
      <3>. QED  BY <3>1 DEF Enough
    <2>. QED  BY <1>1, <2>4, <2>6, <2>7, <2>8 DEF n
  <1>. QED  BY <1>2, <1>3

AnswerKeeps(a, template, mpa, items) ==
    a.template = template /\ a.mpa = mpa /\ a.items = items

PatchedWell(a, template, mpa, items) ==
    \E resources :
        /\ \A i \in 1..Len(resources) : ~resources[i].panics
        /\ mpa.target # NoTarget => Len(resources) = Len(template.containers)
        /\ IsDocument(a.document)
        /\ Planned(Document(template), a.document, resources, PlanOf(mpa), Len(resources))
        /\ Enough(template, items, resources, PlanOf(mpa), Len(resources))

(* An answer leaves the pod as it is or patches it well, and is never      *)
(* rejected.                                                               *)
LEMMA AnswerFacts ==
    ASSUME NEW template \in Template, NEW mpa \in Mpas, NEW items \in LimitItems,
           NEW a, a = Answer(template, mpa, items)
    PROVE  /\ AnswerKeeps(a, template, mpa, items)
           /\ \/ a.outcome \in {"panicked", "unpatched"} /\ a.document = Document(template)
              \/ a.outcome = "patched" /\ PatchedWell(a, template, mpa, items)
  <1>. DEFINE resources == GetContainerResourcesForPod(template, mpa, items)
              patches == GetPatches(template, mpa, resources)
              asked == Document(template)
              start == [ok |-> TRUE, document |-> asked]
              result == Applied(start, patches)
              panics == \E i \in DOMAIN resources : resources[i].panics
              answered(outcome, document) ==
                  [template |-> template, mpa |-> mpa, items |-> items,
                   outcome |-> outcome, document |-> document]
  <1>1. a = IF panics THEN answered("panicked", asked)
            ELSE IF patches = <<>> THEN answered("unpatched", asked)
            ELSE IF result.ok THEN answered("patched", result.document)
            ELSE answered("rejected", asked)
    BY DEF Answer
  <1>2. \A outcome, document :
            /\ AnswerKeeps(answered(outcome, document), template, mpa, items)
            /\ answered(outcome, document).outcome = outcome
            /\ answered(outcome, document).document = document
    BY DEF AnswerKeeps
  <1>3. start.ok /\ start.document = asked
    OBVIOUS
  <1>4. patches # <<>> => mpa.matched
    BY DEF GetPatches
  <1>5. /\ Len(resources) \in Nat /\ Len(resources) <= Len(template.containers)
        /\ DOMAIN resources = 1..Len(resources)
        /\ mpa.target # NoTarget => Len(resources) = Len(template.containers)
        /\ IsPlan(resources, PlanOf(mpa), Len(resources))
        /\ Enough(template, items, resources, PlanOf(mpa), Len(resources))
    BY ResourcesFacts
  <1>. HIDE DEF answered, asked, start, resources
  <1>6. CASE panics
    BY <1>1, <1>2, <1>6 DEF asked
  <1>7. CASE ~panics /\ patches = <<>>
    BY <1>1, <1>2, <1>7 DEF asked
  <1>8. CASE ~panics /\ patches # <<>>
    <2>1. /\ result.ok /\ IsDocument(result.document)
          /\ Planned(asked, result.document, resources, PlanOf(mpa), Len(resources))
      BY <1>3, <1>4, <1>5, <1>8, PatchesFacts DEF asked
    <2>. HIDE DEF patches, result, panics
    <2>2. a = answered("patched", result.document)
      BY <1>1, <1>8, <2>1
    <2>3. /\ AnswerKeeps(a, template, mpa, items) /\ a.outcome = "patched"
          /\ a.document = result.document
      BY <1>2, <2>2
    <2>4. \A i \in 1..Len(resources) : ~resources[i].panics
      BY <1>5, <1>8 DEF panics
    <2>5. PatchedWell(a, template, mpa, items)
      BY <1>5, <2>1, <2>3, <2>4 DEF PatchedWell, asked
    <2>. QED  BY <2>3, <2>5
  <1>. HIDE DEF patches, panics
  <1>. QED  BY <1>6, <1>7, <1>8

(* The pod is one that was asked for, and what became of it is the answer  *)
(* of a replica or what the template says.                                 *)
PodIsAnswer ==
    \/ pod = NoPod
    \/ \E template \in Template :
          pod = [outcome |-> "ignored", template |-> template, document |-> Document(template)]
    \/ \E template \in Template, mpa \in Mpas, items \in LimitItems :
          pod = Answer(template, mpa, items)

(* The inductive invariant of the pod.                                     *)
LEMMA PodStaysAnswer == Spec => []PodIsAnswer
  <1>1. Init => PodIsAnswer
    BY DEF Init, PodIsAnswer
  <1>2. PodIsAnswer /\ [Next]_vars => PodIsAnswer'
    <2>. SUFFICES ASSUME PodIsAnswer, [Next]_vars PROVE PodIsAnswer'
      OBVIOUS
    <2>1. CASE UNCHANGED pod
      BY <2>1 DEF PodIsAnswer
    <2>2. ASSUME NEW template \in Template, NEW mpa \in Mpas, NEW items \in LimitItems,
                 Admit(template, mpa, items)
          PROVE  PodIsAnswer'
      BY <2>2 DEF Admit, PodIsAnswer
    <2>3. ASSUME NEW template \in Template, Ignored(template)
          PROVE  PodIsAnswer'
      BY <2>3 DEF Ignored, PodIsAnswer
    <2>4. CASE Gone
      BY <2>4 DEF Gone, PodIsAnswer
    <2>. QED  BY <2>1, <2>2, <2>3, <2>4 DEF Next, vars
  <1>. QED  BY <1>1, <1>2, PTL DEF Spec

(* What the invariants of the pod need to know of it.                      *)
LEMMA PodFacts ==
    ASSUME PodIsAnswer
    PROVE  /\ pod.outcome \in {"none", "ignored", "unpatched", "panicked", "patched"}
           /\ Answered =>
                 /\ pod.template \in Template /\ pod.mpa \in Mpas /\ pod.items \in LimitItems
                 /\ IsDocument(pod.document)
           /\ Patched => PatchedWell(pod, pod.template, pod.mpa, pod.items)
  <1>1. CASE pod = NoPod
    <2>1. pod.outcome = "none"
      BY <1>1 DEF NoPod
    <2>. QED  BY <2>1 DEF Answered, Patched
  <1>2. ASSUME NEW template \in Template,
               pod = [outcome |-> "ignored", template |-> template, document |-> Document(template)]
        PROVE  pod.outcome = "ignored"
    BY <1>2
  <1>3. ASSUME NEW template \in Template, NEW mpa \in Mpas, NEW items \in LimitItems,
               pod = Answer(template, mpa, items)
        PROVE  /\ pod.outcome \in {"unpatched", "panicked", "patched"}
               /\ pod.template \in Template /\ pod.mpa \in Mpas /\ pod.items \in LimitItems
               /\ IsDocument(pod.document)
               /\ Patched => PatchedWell(pod, pod.template, pod.mpa, pod.items)
    <2>1. /\ AnswerKeeps(pod, template, mpa, items)
          /\ \/ pod.outcome \in {"panicked", "unpatched"} /\ pod.document = Document(template)
             \/ pod.outcome = "patched" /\ PatchedWell(pod, template, mpa, items)
      BY <1>3, AnswerFacts
    <2>2. /\ pod.template = template /\ pod.mpa = mpa /\ pod.items = items
      BY <2>1 DEF AnswerKeeps
    <2>3. CASE pod.outcome \in {"panicked", "unpatched"} /\ pod.document = Document(template)
      BY <2>2, <2>3, DocumentFacts DEF Patched
    <2>4. CASE pod.outcome = "patched" /\ PatchedWell(pod, template, mpa, items)
      <3>1. IsDocument(pod.document)
        BY <2>4 DEF PatchedWell
      <3>. QED  BY <2>2, <2>4, <3>1
    <2>. QED  BY <2>1, <2>3, <2>4
  <1>. QED  BY <1>1, <1>2, <1>3 DEF PodIsAnswer, Answered, Patched

-----------------------------------------------------------------------------
(* The registration.                                                       *)

USE DEF At, GoTo

(* The steps of the replicas stay steps (WebhookRegistration).             *)
THEOREM RegistrationTyped == Spec => []RegTypeOK
<1>1. Init => RegTypeOK
  BY RegistrationAssumption DEF Init, RegInit, RegTypeOK
<1>2. RegTypeOK /\ [Next]_vars => RegTypeOK'
  <2> SUFFICES ASSUME RegTypeOK, [Next]_vars PROVE RegTypeOK'
    OBVIOUS
  <2> USE RegistrationAssumption DEF RegTypeOK
  <2>1. CASE RegNext
    <3> PICK r \in Replica : RegStep(r) \/ GetFails(r) \/ CallFails(r) \/ Crash(r)
      BY <2>1 DEF RegNext
    <3>1. CASE RegStep(r)
      BY <3>1 DEF RegStep, Start, Get, Delete, Create
    <3>2. CASE GetFails(r)
      BY <3>2 DEF GetFails, Fault
    <3>3. CASE CallFails(r)
      <4>1. registered' \in BOOLEAN /\ replica' = [replica EXCEPT ![r] = "down"]
        BY <3>3 DEF CallFails
      <4>2. faults' \in 0..MaxFaults
        BY <3>3 DEF CallFails, Fault
      <4> QED
        BY <4>1, <4>2
    <3>4. CASE Crash(r)
      BY <3>4 DEF Crash, Fault
    <3> QED
      BY <3>1, <3>2, <3>3, <3>4
  <2>2. ASSUME NEW template, NEW mpa, NEW items, Admit(template, mpa, items)
        PROVE  RegTypeOK'
    BY <2>2 DEF Admit, regVars
  <2>3. ASSUME NEW template, Ignored(template)
        PROVE  RegTypeOK'
    BY <2>3 DEF Ignored, Fault, regVars
  <2>4. CASE Gone
    BY <2>4 DEF Gone, regVars
  <2>5. CASE UNCHANGED vars
    BY <2>5 DEF vars, regVars
  <2> QED
    BY <2>1, <2>2, <2>3, <2>4, <2>5 DEF Next
<1> QED
  BY <1>1, <1>2, PTL DEF Spec

(* While the configuration is missing some replica has not finished: one   *)
(* that deletes it goes on to create it, or is started again.              *)
SomeoneToRegister == registered \/ \E r \in Replica : ~At(r, "done")

(* When all replicas have registered themselves the configuration exists,  *)
(* for any number of replicas and whatever failed on the way: no order of  *)
(* their deletions and creations leaves it deleted (WebhookRegistration).  *)
THEOREM RegisteredWhenAllDone == Spec => []RegisteredOnceDone
<1>1. Init => SomeoneToRegister
  BY RegistrationAssumption DEF Init, RegInit, SomeoneToRegister
<1>2. SomeoneToRegister /\ RegTypeOK /\ [Next]_vars => SomeoneToRegister'
  <2> SUFFICES ASSUME SomeoneToRegister, RegTypeOK, [Next]_vars PROVE SomeoneToRegister'
    OBVIOUS
  <2> USE DEF SomeoneToRegister, RegTypeOK
  <2>1. CASE RegNext
    <3> PICK r \in Replica : RegStep(r) \/ GetFails(r) \/ CallFails(r) \/ Crash(r)
      BY <2>1 DEF RegNext
    <3>1. CASE Start(r)
      BY <3>1 DEF Start
    <3>2. CASE Get(r) \/ GetFails(r)
      BY <3>2 DEF Get, GetFails
    <3>3. CASE Delete(r)
      BY <3>3 DEF Delete
    <3>4. CASE Create(r)
      BY <3>4 DEF Create
    <3>5. CASE CallFails(r) \/ Crash(r)
      BY <3>5 DEF CallFails, Crash
    <3> QED
      BY <3>1, <3>2, <3>3, <3>4, <3>5 DEF RegStep
  <2>2. CASE UNCHANGED <<registered, replica>>
    BY <2>2
  <2> QED
    BY <2>1, <2>2 DEF Next, Admit, Ignored, Gone, vars, regVars
<1>3. SomeoneToRegister => RegisteredOnceDone
  BY DEF SomeoneToRegister, RegisteredOnceDone, AllDone
<1> QED
  BY <1>1, <1>2, <1>3, RegistrationTyped, PTL DEF Spec

HIDE DEF At, GoTo

-----------------------------------------------------------------------------
(* The invariants of the pod, for every template, plan and set of limit    *)
(* ranges.                                                                 *)

(* Every quantity in a document is an int64, whatever was scaled (scale-   *)
(* QuantityProportionally), and the rest of the state has its type.        *)
THEOREM AdmissionTyped == Spec => []TypeOK
  <1>1. RegTypeOK /\ PodIsAnswer => TypeOK
    <2>. SUFFICES ASSUME RegTypeOK, PodIsAnswer PROVE TypeOK
      OBVIOUS
    <2>1. Answered => \A p \in DOMAIN pod.document : pod.document[p] \in {Object} \cup 0..MaxInt64
      BY PodFacts DEF IsDocument, Values
    <2>. QED  BY <2>1, PodFacts DEF TypeOK
  <1>. QED  BY <1>1, RegistrationTyped, PodStaysAnswer, PTL

(* No answer has a patch that the API server cannot apply after those      *)
(* before it, whatever the template leaves out (getContainerPatch,         *)
(* getResourcesPatch, GetPatches).                                         *)
THEOREM AnswersApply == Spec => []PatchesApply
  <1>1. PodIsAnswer => PatchesApply
    BY PodFacts DEF PatchesApply
  <1>. QED  BY <1>1, PodStaysAnswer, PTL

(* A patched pod has the plan's CPU as the request of every container, and *)
(* a limit, for any number of containers and any resources they came with  *)
(* (getContainersResources, getContainerPatch).                            *)
THEOREM PlanGivenToAll == Spec => []PlanInEveryContainer
  <1>1. PodIsAnswer => PlanInEveryContainer
    <2>. SUFFICES ASSUME PodIsAnswer, Patched, pod.mpa.target # NoTarget,
                         NEW i \in DOMAIN Containers
                  PROVE  /\ {QuantityPath(i, "requests", "cpu"), QuantityPath(i, "limits", "cpu")}
                               \subseteq DOMAIN pod.document
                         /\ pod.document[QuantityPath(i, "requests", "cpu")] = pod.mpa.target
      BY DEF PlanInEveryContainer
    <2>1. pod.template \in Template /\ PatchedWell(pod, pod.template, pod.mpa, pod.items)
      BY PodFacts DEF Patched, Answered
    <2>2. PICK resources :
             /\ Len(resources) = Len(pod.template.containers)
             /\ Planned(Document(pod.template), pod.document, resources, PlanOf(pod.mpa),
                        Len(resources))
      BY <2>1 DEF PatchedWell
    <2>3. i \in 1..Len(resources)
      BY <2>1, <2>2, TemplateFacts DEF Containers
    <2>. QED  BY <2>2, <2>3 DEF Planned, PlanOf
  <1>. QED  BY <1>1, PodStaysAnswer, PTL

(* The patches change nothing but CPU: memory, and the annotations there   *)
(* were, are kept, although some patches put an empty object where the pod *)
(* may have something (getContainerPatch, getResourcesPatch, GetPatches).  *)
THEOREM OnlyCpuChanges == Spec => []NothingElseChanges
  <1>1. PodIsAnswer => NothingElseChanges
    <2>1. PodIsAnswer /\ Patched => PatchedWell(pod, pod.template, pod.mpa, pod.items)
      BY PodFacts
    <2>. QED  BY <2>1 DEF NothingElseChanges, PatchedWell, Planned
  <1>. QED  BY <1>1, PodStaysAnswer, PTL

(* A limit that covered the request still covers it after the patches, for *)
(* all quantities: the scaling, which rounds down and caps, is never what  *)
(* makes the API server refuse a pod (GetProportionalResourceLimit).       *)
THEOREM LimitsKeepCovering == Spec => []LimitCoversRequest
  <1>1. PodIsAnswer => LimitCoversRequest
    <2>. DEFINE request(i) == QuantityPath(i, "requests", "cpu")
                limit(i)   == QuantityPath(i, "limits", "cpu")
    <2>1. ASSUME PodIsAnswer, Patched, pod.mpa.target # NoTarget,
                 NEW i \in DOMAIN Containers, LimitWasEnough(Containers[i], pod.items)
          PROVE  pod.document[limit(i)] >= pod.document[request(i)]
      <3>1. pod.template \in Template /\ PatchedWell(pod, pod.template, pod.mpa, pod.items)
        BY <2>1, PodFacts DEF Patched, Answered
      <3>2. PICK resources :
               /\ \A j \in 1..Len(resources) : ~resources[j].panics
               /\ Len(resources) = Len(pod.template.containers)
               /\ Planned(Document(pod.template), pod.document, resources, PlanOf(pod.mpa),
                          Len(resources))
               /\ Enough(pod.template, pod.items, resources, PlanOf(pod.mpa), Len(resources))
        BY <2>1, <3>1 DEF PatchedWell
      <3>3. i \in 1..Len(resources)
        BY <2>1, <3>1, <3>2, TemplateFacts DEF Containers
      <3>4. /\ pod.document[request(i)] = PlanOf(pod.mpa)
            /\ resources[i].resources.limits = CpuOnly(pod.document[limit(i)])
        BY <3>2, <3>3 DEF Planned
      <3>. HIDE DEF request, limit
      <3>. QED  BY <2>1, <3>2, <3>3, <3>4 DEF Enough, Containers
    <2>2. PodIsAnswer /\ Patched /\ pod.mpa.target # NoTarget =>
             \A i \in DOMAIN Containers :
                LimitWasEnough(Containers[i], pod.items) =>
                   pod.document[limit(i)] >= pod.document[request(i)]
      BY <2>1
    <2>. QED  BY <2>2 DEF LimitCoversRequest, LimitWasEnough, MeantLimit
  <1>. QED  BY <1>1, PodStaysAnswer, PTL

(* The least element is the minimum.                                       *)
LEMMA LeastIsMin ==
    ASSUME NEW S, NEW m \in S, m \in Nat, \A v \in S : v \in Nat /\ m <= v
    PROVE  Min(S) = m
  <1>. DEFINE k == Min(S)
  <1>1. k \in S /\ \A v \in S : k <= v
    BY DEF Min
  <1>. HIDE DEF k
  <1>2. k = m
    BY <1>1
  <1>. QED  BY <1>2 DEF k

(* The greatest element is the maximum.                                    *)
LEMMA GreatestIsMax ==
    ASSUME NEW S, NEW m \in S, m \in Nat, \A v \in S : v \in Nat /\ m >= v
    PROVE  Max(S) = m
  <1>. DEFINE k == Max(S)
  <1>1. k \in S /\ \A v \in S : k >= v
    BY DEF Max
  <1>. HIDE DEF k
  <1>2. k = m
    BY <1>1
  <1>. QED  BY <1>2 DEF k

(* The merged limit range has the least maximum and the greatest minimum   *)
(* of each resource, for any number of items in any order, each of which   *)
(* may speak of one resource only (getLimitRangeItem, updateResource).     *)
THEOREM RangeIsTightest == Spec => []MergedRangeIsTightest
  <1>1. PodIsAnswer => MergedRangeIsTightest
    <2>1. ASSUME NEW items \in LimitItems, NEW r \in Resource
          PROVE  LET item   == getLimitRangeItem(items)
                     max    == {i.max[r] : i \in {j \in ToSet(items) : r \in DOMAIN j.max}}
                     min    == {i.min[r] : i \in {j \in ToSet(items) : r \in DOMAIN j.min}}
                 IN  /\ max # {} => item.max[r] = Min(max)
                     /\ min # {} => item.min[r] = Max(min)
      <3>. DEFINE item == getLimitRangeItem(items)
                  n    == Len(items)
                  max  == {i.max[r] : i \in {j \in ToSet(items) : r \in DOMAIN j.max}}
                  min  == {i.min[r] : i \in {j \in ToSet(items) : r \in DOMAIN j.min}}
      <3>1. Gathered(item, items, n) /\ DOMAIN items = 1..n
        BY ItemsFacts
      <3>2. ToSet(items) = {items[j] : j \in 1..n}
        BY <3>1 DEF ToSet
      <3>. HIDE DEF item, n
      <3>3. max = Maxima(items, n, r) /\ min = Minima(items, n, r)
        BY <3>2 DEF Maxima, Minima
      <3>. HIDE DEF max, min
      <3>4. max # {} => item.max[r] = Min(max)
        <4>1. max # {} => /\ item.max[r] \in max
                          /\ \A v \in max : v \in Nat /\ item.max[r] <= v
          BY <3>1, <3>3 DEF Gathered
        <4>. QED  BY <4>1, LeastIsMin
      <3>5. min # {} => item.min[r] = Max(min)
        <4>1. min # {} => /\ item.min[r] \in min
                          /\ \A v \in min : v \in Nat /\ item.min[r] >= v
          BY <3>1, <3>3 DEF Gathered
        <4>. QED  BY <4>1, GreatestIsMax
      <3>. QED  BY <3>4, <3>5 DEF item, max, min
    <2>2. PodIsAnswer /\ Answered => pod.items \in LimitItems
      BY PodFacts
    <2>. QED  BY <2>1, <2>2 DEF MergedRangeIsTightest
  <1>. QED  BY <1>1, PodStaysAnswer, PTL

=============================================================================
