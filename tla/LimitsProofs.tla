----------------------------- MODULE LimitsProofs -----------------------------
(***************************************************************************)
(* Proofs about Limits: the limit range that getLimitRangeItem merges from *)
(* any number of items, and the request and the limit that a plan gives to *)
(* a container, for every quantity.                                        *)
(***************************************************************************)
EXTENDS Limits, Induction

-----------------------------------------------------------------------------
(* The merge, step by step.                                                *)

IsMerge(f, items, k) ==
    f = [i \in 0..k |-> IF i = 0 THEN NoItem ELSE Merged(f[i - 1], items[i])]

(* There is a function with the results of the merge up to any item.       *)
LEMMA MergeExists ==
    ASSUME NEW items, NEW n \in Nat
    PROVE  \E f : IsMerge(f, items, n)
  <1>. DEFINE T == {k \in 0..n : \E f : IsMerge(f, items, k)}
  <1>1. 0 \in T
    <2>. DEFINE g == [i \in 0..0 |-> NoItem]
    <2>1. IsMerge(g, items, 0)
      BY DEF IsMerge
    <2>. QED  BY <2>1
  <1>2. ASSUME NEW k \in 1..n, k - 1 \in T PROVE k \in T
    <2>1. PICK f : IsMerge(f, items, k - 1)
      BY <1>2
    <2>. DEFINE g == [i \in 0..k |-> IF i = k THEN Merged(f[k - 1], items[k]) ELSE f[i]]
    <2>2. \A i \in 0..k : g[i] = IF i = 0 THEN NoItem ELSE Merged(g[i - 1], items[i])
      <3>. HIDE DEF NoItem
      <3>. QED BY <2>1 DEF IsMerge
    <2>3. g = [i \in 0..k |-> IF i = 0 THEN NoItem ELSE Merged(g[i - 1], items[i])]
      <3>. HIDE DEF NoItem
      <3>1. g = [i \in 0..k |-> g[i]]
        OBVIOUS
      <3>. HIDE DEF g
      <3>. QED  BY <2>2, <3>1
    <2>4. IsMerge(g, items, k)
      <3>. HIDE DEF g
      <3>. QED  BY <2>3 DEF IsMerge
    <2>. HIDE DEF g
    <2>. QED  BY <2>4
  <1>. HIDE DEF T
  <1>3. T \in SUBSET (0..n)
    BY DEF T
  <1>4. T = 0..n
    BY <1>1, <1>2, <1>3, InductionUpTo
  <1>. QED  BY <1>4 DEF T

(* getLimitRangeItem is the last value of such a function.                 *)
LEMMA MergeUnfolds ==
    ASSUME NEW items, Len(items) \in Nat
    PROVE  \E f : IsMerge(f, items, Len(items)) /\ getLimitRangeItem(items) = f[Len(items)]
  <1>. DEFINE n == Len(items)
              m == CHOOSE f : f = [i \in 0..n |-> IF i = 0 THEN NoItem ELSE Merged(f[i - 1], items[i])]
  <1>1. getLimitRangeItem(items) = m[n]
    BY DEF getLimitRangeItem
  <1>2. IsMerge(m, items, n)
    BY MergeExists DEF IsMerge
  <1>. QED  BY <1>1, <1>2

-----------------------------------------------------------------------------
(* Only the nil list has no resource.                                      *)
LEMMA EmptyList ==
    ASSUME NEW list, IsResourceList(list)
    PROVE  list = NoList <=> DOMAIN list = {}
  BY DEF IsResourceList, NoList

Selector(f) == f \in [Nat \X Nat -> Nat] /\ \A a, b \in Nat : f[<<a, b>>] \in {a, b}

(* What the two selectors choose is one of the two quantities.             *)
LEMMA Selectors ==
    /\ Selector(chooseMinUpperBound) /\ Selector(chooseMaxLowerBound)
    /\ \A a, b \in Nat :
          /\ chooseMinUpperBound[<<a, b>>] = IF a < b THEN a ELSE b
          /\ chooseMaxLowerBound[<<a, b>>] = IF a > b THEN a ELSE b
  BY DEF Selector, chooseMinUpperBound, chooseMaxLowerBound

(* What an update makes of a resource that one of the sides has.           *)
Selected(dst, src, r, selector) ==
    IF r \notin DOMAIN src THEN dst[r]
    ELSE IF r \notin DOMAIN dst THEN src[r] ELSE selector[<<dst[r], src[r]>>]

(* One resource is updated, the others are those of the target.            *)
UpdateOnce(new, dst, src, r, selector) ==
    /\ IsResourceList(new)
    /\ DOMAIN new = DOMAIN dst \cup (DOMAIN src \cap {r})
    /\ \A q \in DOMAIN new :
          new[q] = IF q = r THEN Selected(dst, src, r, selector) ELSE dst[q]

(* One updateResource where there is something on both sides.              *)
LEMMA UpdatedOnce ==
    ASSUME NEW dst, IsResourceList(dst), NEW src, IsResourceList(src),
           NEW r \in Resource, NEW selector, Selector(selector),
           src # NoList, dst # NoList
    PROVE  UpdateOnce(updateResource(dst, src, r, selector), dst, src, r, selector)
  <1>. USE DEF UpdateOnce
  <1>1. CASE r \notin DOMAIN src
    BY <1>1 DEF updateResource, Selected
  <1>2. CASE r \in DOMAIN src
    <2>. DEFINE R == DOMAIN dst \cup {r}
                new == [q \in R |->
                          IF q # r THEN dst[q]
                          ELSE IF r \in DOMAIN dst THEN selector[<<dst[r], src[r]>>] ELSE src[r]]
    <2>1. updateResource(dst, src, r, selector) = new
      BY <1>2 DEF updateResource
    <2>2. \A q \in R : new[q] = IF q = r THEN Selected(dst, src, r, selector) ELSE dst[q]
      BY <1>2 DEF Selected
    <2>3. \A q \in R : new[q] \in 0..MaxInt64
      <3>1. src[r] \in 0..MaxInt64 /\ \A q \in DOMAIN dst : dst[q] \in 0..MaxInt64
        BY <1>2 DEF IsResourceList
      <3>2. r \in DOMAIN dst => selector[<<dst[r], src[r]>>] \in {dst[r], src[r]}
        BY <3>1, MaxInt64Assumption DEF Selector
      <3>. QED  BY <3>1, <3>2
    <2>4. R \subseteq Resource
      BY DEF IsResourceList
    <2>5. DOMAIN new = R /\ new = [q \in R |-> new[q]]
      OBVIOUS
    <2>. HIDE DEF new, R
    <2>6. IsResourceList(new)
      BY <2>3, <2>4, <2>5 DEF IsResourceList
    <2>. QED  BY <1>2, <2>1, <2>2, <2>5, <2>6 DEF R
  <1>. QED  BY <1>1, <1>2

(* Every resource is updated.                                              *)
Update(new, dst, src, selector) ==
    /\ IsResourceList(new)
    /\ DOMAIN new = DOMAIN dst \cup DOMAIN src
    /\ \A r \in DOMAIN new : new[r] = Selected(dst, src, r, selector)

(* The two updates of a merge, the CPU and then the memory, select for     *)
(* every resource.                                                         *)
LEMMA Updated ==
    ASSUME NEW dst, IsResourceList(dst), NEW src, IsResourceList(src),
           NEW selector, Selector(selector)
    PROVE  Update(updateResource(updateResource(dst, src, "cpu", selector),
                                 src, "memory", selector),
                  dst, src, selector)
  <1>. USE DEF Update
  <1>. DEFINE once == updateResource(dst, src, "cpu", selector)
              new  == updateResource(once, src, "memory", selector)
  <1>0. "cpu" \in Resource /\ "memory" \in Resource /\ "cpu" # "memory"
    BY DEF Resource
  <1>1. CASE src = NoList
    BY <1>1, EmptyList DEF updateResource, Selected
  <1>2. CASE src # NoList /\ dst = NoList
    <2>1. once = src /\ DOMAIN dst = {}
      BY <1>2, EmptyList DEF updateResource
    <2>. HIDE DEF once
    <2>2. UpdateOnce(new, src, src, "memory", selector)
      BY <1>0, <1>2, <2>1, UpdatedOnce
    <2>3. \A r \in DOMAIN src : Selected(src, src, r, selector) = src[r]
      <3>1. \A r \in DOMAIN src : src[r] \in Nat
        BY MaxInt64Assumption DEF IsResourceList
      <3>. QED  BY <3>1 DEF Selected, Selector
    <2>. HIDE DEF new
    <2>4. \A r \in DOMAIN new : new[r] = Selected(dst, src, r, selector)
      BY <2>1, <2>2, <2>3 DEF Selected, UpdateOnce
    <2>. QED  BY <2>1, <2>2, <2>4 DEF new, once, UpdateOnce
  <1>3. CASE src # NoList /\ dst # NoList
    <2>1. UpdateOnce(once, dst, src, "cpu", selector)
      BY <1>0, <1>3, UpdatedOnce
    <2>. HIDE DEF once
    <2>2. once # NoList /\ IsResourceList(once)
      BY <1>3, <2>1, EmptyList DEF UpdateOnce
    <2>3. UpdateOnce(new, once, src, "memory", selector)
      BY <1>0, <1>3, <2>2, UpdatedOnce
    <2>. HIDE DEF new
    <2>4. DOMAIN src \subseteq {"cpu", "memory"}
      BY DEF IsResourceList, Resource
    <2>5. "memory" \in DOMAIN new =>
             Selected(once, src, "memory", selector) = Selected(dst, src, "memory", selector)
      BY <1>0, <2>1, <2>3 DEF Selected, UpdateOnce
    <2>6. \A q \in DOMAIN new : new[q] = Selected(dst, src, q, selector)
      BY <1>0, <2>1, <2>3, <2>4, <2>5 DEF Selected, UpdateOnce
    <2>. QED  BY <2>1, <2>3, <2>4, <2>6 DEF new, once, UpdateOnce
  <1>. QED  BY <1>1, <1>2, <1>3

-----------------------------------------------------------------------------
IsItem(item) ==
    IsResourceList(item.default) /\ IsResourceList(item.min) /\ IsResourceList(item.max)

Maxima(items, k, r) == {items[j].max[r] : j \in {i \in 1..k : r \in DOMAIN items[i].max}}
Minima(items, k, r) == {items[j].min[r] : j \in {i \in 1..k : r \in DOMAIN items[i].min}}

(* The item has the least maximum and the greatest minimum of each         *)
(* resource among those of the first k items.                              *)
Gathered(item, items, k) ==
    /\ IsItem(item)
    /\ \A r \in Resource :
        /\ r \in DOMAIN item.max <=> Maxima(items, k, r) # {}
        /\ r \in DOMAIN item.max =>
              /\ item.max[r] \in Maxima(items, k, r)
              /\ \A v \in Maxima(items, k, r) : v \in Nat /\ item.max[r] <= v
        /\ r \in DOMAIN item.min <=> Minima(items, k, r) # {}
        /\ r \in DOMAIN item.min =>
              /\ item.min[r] \in Minima(items, k, r)
              /\ \A v \in Minima(items, k, r) : v \in Nat /\ item.min[r] >= v

(* Before the first item nothing is gathered.                              *)
LEMMA GatheredAtFirst ==
    ASSUME NEW items
    PROVE  Gathered(NoItem, items, 0)
  <1>1. IsResourceList(NoList) /\ DOMAIN NoList = {}
    BY DEF IsResourceList, NoList
  <1>2. \A r : Maxima(items, 0, r) = {} /\ Minima(items, 0, r) = {}
    BY DEF Maxima, Minima
  <1>. QED  BY <1>1, <1>2 DEF Gathered, IsItem, NoItem

(* Merging the next item keeps the least maxima and the greatest minima.   *)
LEMMA GatheredNext ==
    ASSUME NEW items, NEW k \in Nat \ {0}, IsItem(items[k]),
           NEW item, Gathered(item, items, k - 1)
    PROVE  Gathered(Merged(item, items[k]), items, k)
  <1>. DEFINE next == items[k]
              new  == Merged(item, next)
  <1>1. new.default = IF next.default # NoList THEN next.default ELSE item.default
    BY DEF Merged
  <1>2. /\ new.min = updateResource(updateResource(item.min, next.min, "cpu", chooseMaxLowerBound),
                                    next.min, "memory", chooseMaxLowerBound)
        /\ new.max = updateResource(updateResource(item.max, next.max, "cpu", chooseMinUpperBound),
                                    next.max, "memory", chooseMinUpperBound)
    BY DEF Merged
  <1>3. IsItem(next) /\ IsItem(item)
    BY DEF Gathered
  <1>. HIDE DEF new, next
  <1>4. Update(new.min, item.min, next.min, chooseMaxLowerBound)
    BY <1>2, <1>3, Updated, Selectors DEF IsItem
  <1>5. Update(new.max, item.max, next.max, chooseMinUpperBound)
    BY <1>2, <1>3, Updated, Selectors DEF IsItem
  <1>6. IsItem(new)
    BY <1>1, <1>3, <1>4, <1>5 DEF IsItem, Update
  <1>7. ASSUME NEW r \in Resource
        PROVE  /\ Maxima(items, k, r) = Maxima(items, k - 1, r) \cup
                     (IF r \in DOMAIN next.max THEN {next.max[r]} ELSE {})
               /\ Minima(items, k, r) = Minima(items, k - 1, r) \cup
                     (IF r \in DOMAIN next.min THEN {next.min[r]} ELSE {})
    BY DEF Maxima, Minima, next
  <1>8. ASSUME NEW r \in Resource
        PROVE  /\ r \in DOMAIN next.max => next.max[r] \in Nat
               /\ r \in DOMAIN next.min => next.min[r] \in Nat
               /\ r \in DOMAIN item.max => item.max[r] \in Nat
               /\ r \in DOMAIN item.min => item.min[r] \in Nat
    BY <1>3, MaxInt64Assumption DEF IsItem, IsResourceList
  <1>9. ASSUME NEW r \in Resource
        PROVE  /\ r \in DOMAIN new.max <=> Maxima(items, k, r) # {}
               /\ r \in DOMAIN new.max =>
                     /\ new.max[r] \in Maxima(items, k, r)
                     /\ \A v \in Maxima(items, k, r) : v \in Nat /\ new.max[r] <= v
    <2>1. /\ r \in DOMAIN item.max <=> Maxima(items, k - 1, r) # {}
          /\ r \in DOMAIN item.max =>
              /\ item.max[r] \in Maxima(items, k - 1, r)
              /\ \A v \in Maxima(items, k - 1, r) : v \in Nat /\ item.max[r] <= v
      BY DEF Gathered
    <2>2. r \in DOMAIN new.max <=> r \in DOMAIN item.max \/ r \in DOMAIN next.max
      BY <1>5 DEF Update
    <2>3. r \in DOMAIN new.max =>
             new.max[r] = IF r \notin DOMAIN next.max THEN item.max[r]
                          ELSE IF r \notin DOMAIN item.max THEN next.max[r]
                          ELSE IF item.max[r] < next.max[r] THEN item.max[r]
                          ELSE next.max[r]
      BY <1>5, <1>8, Selectors DEF Update, Selected
    <2>. QED  BY <1>7, <1>8, <2>1, <2>2, <2>3
  <1>10. ASSUME NEW r \in Resource
         PROVE  /\ r \in DOMAIN new.min <=> Minima(items, k, r) # {}
                /\ r \in DOMAIN new.min =>
                     /\ new.min[r] \in Minima(items, k, r)
                     /\ \A v \in Minima(items, k, r) : v \in Nat /\ new.min[r] >= v
    <2>1. /\ r \in DOMAIN item.min <=> Minima(items, k - 1, r) # {}
          /\ r \in DOMAIN item.min =>
              /\ item.min[r] \in Minima(items, k - 1, r)
              /\ \A v \in Minima(items, k - 1, r) : v \in Nat /\ item.min[r] >= v
      BY DEF Gathered
    <2>2. r \in DOMAIN new.min <=> r \in DOMAIN item.min \/ r \in DOMAIN next.min
      BY <1>4 DEF Update
    <2>3. r \in DOMAIN new.min =>
             new.min[r] = IF r \notin DOMAIN next.min THEN item.min[r]
                          ELSE IF r \notin DOMAIN item.min THEN next.min[r]
                          ELSE IF item.min[r] > next.min[r] THEN item.min[r]
                          ELSE next.min[r]
      BY <1>4, <1>8, Selectors DEF Update, Selected
    <2>. QED  BY <1>7, <1>8, <2>1, <2>2, <2>3
  <1>. QED  BY <1>6, <1>9, <1>10 DEF Gathered, new, next

(* The merged limit range is the tightest, however many items there are    *)
(* and in whatever order (getLimitRangeItem, updateResource): it speaks of *)
(* the resources that some item speaks of, and of no other.                *)
THEOREM MergedIsGathered ==
    ASSUME NEW items, Len(items) \in Nat, \A j \in 1..Len(items) : IsItem(items[j])
    PROVE  Gathered(getLimitRangeItem(items), items, Len(items))
  <1>. DEFINE n == Len(items)
  <1>1. PICK f : IsMerge(f, items, n) /\ getLimitRangeItem(items) = f[n]
    BY MergeUnfolds
  <1>. DEFINE T == {k \in 0..n : Gathered(f[k], items, k)}
  <1>2. f[0] = NoItem /\ \A k \in 1..n : f[k] = Merged(f[k - 1], items[k])
    <2>. HIDE DEF NoItem
    <2>. QED  BY <1>1 DEF IsMerge
  <1>3. 0 \in T
    BY <1>2, GatheredAtFirst
  <1>4. \A k \in 1..n : k - 1 \in T => k \in T
    BY <1>2, GatheredNext
  <1>. HIDE DEF T
  <1>5. T \in SUBSET (0..n)
    BY DEF T
  <1>6. T = 0..n
    BY <1>3, <1>4, <1>5, InductionUpTo
  <1>. QED  BY <1>1, <1>6 DEF T

-----------------------------------------------------------------------------
(* Whole division rounds down, so it keeps the order of what is scaled.    *)
LEMMA DivisionKeepsOrder ==
    ASSUME NEW a \in Nat \ {0}, NEW b \in Nat, b >= a, NEW r \in Nat
    PROVE  (b * r) \div a \in Nat /\ (b * r) \div a >= r
<1> DEFINE d == (b * r) \div a
<1>1. b * r \in Nat /\ a * r \in Nat /\ b * r >= a * r
  OBVIOUS
<1>2. d \in Nat /\ b * r < a * (d + 1)
  BY <1>1
<1>3. d + 1 <= r => a * (d + 1) <= a * r
  BY <1>2
<1> HIDE DEF d
<1>4. d >= r
  BY <1>1, <1>2, <1>3
<1> QED
  BY <1>2, <1>4 DEF d

(* A limit that covers the request covers what is recommended once it is   *)
(* scaled, and does not pass the cap, although the scaling rounds down     *)
(* (GetProportionalResourceLimit, scaleQuantityProportionally): what       *)
(* LimitCoversRequest finds in whole pods, for every quantity.             *)
THEOREM ScaledLimitCovers ==
    ASSUME NEW request \in Nat \ {0}, NEW limit \in Nat, limit >= request,
           NEW target \in 1..MaxInt64, NEW default \in Nat
    PROVE  /\ GetProportionalResourceLimit(limit, request, target, default).kind = "limit"
           /\ GetProportionalResourceLimit(limit, request, target, default).value
                 \in target..MaxInt64
<1> USE MaxInt64Assumption
<1>1. limit # 0 /\ target # 0 /\ target \in Nat
  OBVIOUS
<1>2. CASE limit = request
  BY <1>1, <1>2 DEF GetProportionalResourceLimit, Limit
<1>3. CASE limit # request
  <2>1. GetProportionalResourceLimit(limit, request, target, default)
           = scaleQuantityProportionally(limit, request, target)
    BY <1>1, <1>3 DEF GetProportionalResourceLimit
  <2>2. (limit * target) \div request \in Nat /\ (limit * target) \div request >= target
    BY <1>1, DivisionKeepsOrder
  <2> QED
    BY <2>1, <2>2 DEF scaleQuantityProportionally, Limit
<1> QED
  BY <1>2, <1>3

(* A limit the scaling gives is an int64.                                  *)
LEMMA ScaledInRange ==
    ASSUME NEW limit \in Nat, NEW request \in Nat, NEW target \in 0..MaxInt64,
           NEW default \in Nat,
           GetProportionalResourceLimit(limit, request, target, default).kind = "limit"
    PROVE  GetProportionalResourceLimit(limit, request, target, default).value \in 0..MaxInt64
<1> USE MaxInt64Assumption
<1> DEFINE meant  == IF limit = 0 THEN default ELSE limit
           result == GetProportionalResourceLimit(limit, request, target, default)
<1>1. \/ result = Limit(target)
      \/ request # 0 /\ result = scaleQuantityProportionally(meant, request, target)
  BY DEF GetProportionalResourceLimit, None, Panic, Limit
<1>2. ASSUME request # 0
      PROVE  (meant * target) \div request \in Nat
  <2>1. meant * target \in Nat
    OBVIOUS
  <2> QED
    BY <1>2, <2>1
<1>3. request # 0 => scaleQuantityProportionally(meant, request, target).value \in 0..MaxInt64
  BY <1>2 DEF scaleQuantityProportionally, Limit
<1> HIDE DEF meant, result
<1> QED
  BY <1>1, <1>3 DEF Limit, result

(* A quantity that is absent or present is in range.                       *)
LEMMA QuantityType ==
    ASSUME NEW list, IsResourceList(list), NEW r \in Resource
    PROVE  Quantity(list, r) \in 0..MaxInt64
  BY MaxInt64Assumption DEF Quantity, IsResourceList

(* The limit that is scaled: that of the container, or else the default.   *)
MeantLimit(container, default) ==
    IF Quantity(container.limits, "cpu") = 0 THEN Quantity(default, "cpu")
    ELSE Quantity(container.limits, "cpu")

(* What a plan gives to a container: its CPU as the request, and a limit   *)
(* that covers it if the old one covered the old request.                  *)
LEMMA ResourcesOfPlan ==
    ASSUME NEW c, NEW container,
           IsResourceList(container.requests), IsResourceList(container.limits),
           NEW default, IsResourceList(default), NEW target \in 0..MaxInt64,
           NEW given,
           given = ContainerResources(c, container,
                      <<[containerName |-> "*", target |-> CpuOnly(target)]>>, default)
    PROVE  /\ given.resources.requests = CpuOnly(target)
           /\ \E n \in 0..MaxInt64 :
                /\ given.resources.limits = CpuOnly(n)
                /\ ~given.panics /\ (\/ MeantLimit(container, default) = 0
                                     \/ MeantLimit(container, default)
                                           >= Quantity(container.requests, "cpu"))
                      => n >= target
<1> DEFINE recommendations == <<[containerName |-> "*", target |-> CpuOnly(target)]>>
           results == GetProportionalLimit(container.limits, container.requests,
                                           CpuOnly(target), default)
           limited == {r \in Resource : results[r].kind = "limit"}
           request == Quantity(container.requests, "cpu")
           own     == Quantity(container.limits, "cpu")
           other   == Quantity(default, "cpu")
           result  == GetProportionalResourceLimit(own, request, target, other)
<1> USE MaxInt64Assumption
<1>1. GetContainerRecommendation(c, recommendations) = {1}
  BY DEF GetContainerRecommendation
<1>2. Min({1}) = 1
  BY DEF Min
<1>3. /\ given.panics = (\E r \in Resource : results[r].kind = "panic")
      /\ given.resources.requests = CpuOnly(target)
      /\ given.resources.limits = IF limited = {} THEN CpuOnly(target)
                                  ELSE [r \in limited |-> results[r].value]
  <2>1. recommendations[Min({1})].target = CpuOnly(target)
    BY <1>2
  <2> HIDE DEF recommendations
  <2>2. given = ContainerResources(c, container, recommendations, default)
    BY DEF recommendations
  <2>3. given = [panics    |-> \E r \in Resource : results[r].kind = "panic",
                 resources |->
                    [requests |-> CpuOnly(target),
                     limits   |-> IF limited = {} THEN CpuOnly(target)
                                  ELSE [r \in limited |-> results[r].value]]]
    <3> HIDE DEF results
    <3>1. ContainerResources(c, container, recommendations, default) =
             [panics    |-> \E r \in Resource : results[r].kind = "panic",
              resources |->
                    [requests |-> CpuOnly(target),
                     limits   |-> IF limited = {} THEN CpuOnly(target)
                                  ELSE [r \in limited |-> results[r].value]]]
      BY <1>1, <2>1 DEF ContainerResources, results
    <3> QED
      BY <2>2, <3>1
  <2> DEFINE panics    == \E r \in Resource : results[r].kind = "panic"
             resources == [requests |-> CpuOnly(target),
                           limits   |-> IF limited = {} THEN CpuOnly(target)
                                        ELSE [r \in limited |-> results[r].value]]
  <2>4. given = [panics |-> panics, resources |-> resources]
    BY <2>3
  <2>5. /\ resources.requests = CpuOnly(target)
        /\ resources.limits = IF limited = {} THEN CpuOnly(target)
                              ELSE [r \in limited |-> results[r].value]
    OBVIOUS
  <2> HIDE DEF panics, resources
  <2>6. given.panics = panics /\ given.resources = resources
    <3>1. given.resources = resources
      BY <2>4
    <3>2. given.panics = panics
      BY <2>4
    <3> QED
      BY <3>1, <3>2
  <2> HIDE DEF limited, results
  <2>7. /\ given.resources.requests = CpuOnly(target)
        /\ given.resources.limits = IF limited = {} THEN CpuOnly(target)
                                    ELSE [r \in limited |-> results[r].value]
    BY <2>5, <2>6
  <2>8. given.panics = (\E r \in Resource : results[r].kind = "panic")
    BY <2>6 DEF panics
  <2> QED
    BY <2>7, <2>8
<1>4. results["memory"].kind = "none" /\ results["cpu"] = result
  <2>1. Quantity(CpuOnly(target), "memory") = 0 /\ Quantity(CpuOnly(target), "cpu") = target
    BY DEF Quantity, CpuOnly
  <2> QED
    BY <2>1 DEF GetProportionalLimit, GetProportionalResourceLimit, None, Resource
<1>5. limited = IF result.kind = "limit" THEN {"cpu"} ELSE {}
  BY <1>4 DEF Resource
<1>6. request \in 0..MaxInt64 /\ own \in 0..MaxInt64 /\ other \in 0..MaxInt64
  BY QuantityType DEF Resource
<1> DEFINE n == IF result.kind = "limit" THEN result.value ELSE target
<1> HIDE DEF result, limited
<1>7. given.resources.limits = CpuOnly(n)
  <2>1. CASE result.kind = "limit"
    BY <1>3, <1>4, <1>5, <2>1 DEF CpuOnly
  <2>2. CASE result.kind # "limit"
    BY <1>3, <1>5, <2>2
  <2> QED
    BY <2>1, <2>2
<1>8. n \in 0..MaxInt64
  BY <1>6, ScaledInRange DEF result
<1>9. ASSUME ~given.panics,
             \/ MeantLimit(container, default) = 0
             \/ MeantLimit(container, default) >= request
      PROVE  n >= target
  <2>1. result.kind # "panic"
    BY <1>3, <1>4, <1>9 DEF Resource
  <2>2. CASE result.kind # "limit"
    BY <2>2
  <2>3. CASE result.kind = "limit"
    <3> DEFINE meant == IF own = 0 THEN other ELSE own
    <3>1. meant # 0 /\ target # 0
      BY <2>3 DEF result, GetProportionalResourceLimit, None
    <3>2. meant >= request
      BY <1>9, <3>1 DEF MeantLimit
    <3>3. CASE request = 0
      BY <2>3, <3>1, <3>3, <1>6 DEF result, GetProportionalResourceLimit, Panic
    <3>4. CASE request # 0
      <4>1. result = GetProportionalResourceLimit(meant, request, target, other)
        BY <3>1 DEF result, GetProportionalResourceLimit
      <4>2. /\ meant \in Nat /\ request \in Nat \ {0} /\ target \in 1..MaxInt64
            /\ other \in Nat
        BY <1>6, <3>1, <3>4
      <4> HIDE DEF meant, request, other
      <4>3. result.value \in target..MaxInt64
        BY <3>2, <4>1, <4>2, ScaledLimitCovers
      <4> QED
        BY <2>3, <4>3
    <3> QED
      BY <3>3, <3>4
  <2> QED
    BY <2>2, <2>3
<1> HIDE DEF n
<1> QED
  BY <1>3, <1>7, <1>8, <1>9

=============================================================================
