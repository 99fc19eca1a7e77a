-------------------------------- MODULE Limits --------------------------------
(***************************************************************************)
(* The resources the webhook gives to the containers of a pod, as          *)
(* operators: limit ranges (pkg/util/limitrange/calculator.go), limits in  *)
(* proportion to requests (pkg/util/container/limit_request.go), and the   *)
(* recommendation of a container (pkg/admission/util/                      *)
(* recommendation_provider.go, pkg/util/recommendation/processor.go).      *)
(*                                                                         *)
(* A resource list is a function on some of the resources, in thousandths; *)
(* the nil list is the empty one, which the API server does not tell from  *)
(* it.  A quantity that is absent reads as zero (Cpu, Memory).             *)
(***************************************************************************)
EXTENDS Integers, Sequences, SequencesExt

CONSTANT MaxInt64   \* the cap on a scaled quantity

ASSUME MaxInt64Assumption == MaxInt64 \in Nat

Resource == {"cpu", "memory"}

NoList == [r \in {} |-> 0]

IsResourceList(list) ==
    DOMAIN list \subseteq Resource /\ list \in [DOMAIN list -> 0..MaxInt64]

CpuOnly(n) == [r \in {"cpu"} |-> n]

Quantity(list, r) == IF r \in DOMAIN list THEN list[r] ELSE 0

-----------------------------------------------------------------------------
(* Limit ranges.                                                           *)

chooseMinUpperBound == [ab \in Nat \X Nat |-> IF ab[1] < ab[2] THEN ab[1] ELSE ab[2]]
chooseMaxLowerBound == [ab \in Nat \X Nat |-> IF ab[1] > ab[2] THEN ab[1] ELSE ab[2]]

updateResource(dst, src, r, selector) ==
    IF src = NoList THEN dst
    ELSE IF dst = NoList THEN src
    ELSE IF r \notin DOMAIN src THEN dst
    ELSE [q \in DOMAIN dst \cup {r} |->
            IF q # r THEN dst[q]
            ELSE IF r \in DOMAIN dst THEN selector[<<dst[r], src[r]>>] ELSE src[r]]

(* A variant with a bug: the second update is of the CPU again.            *)
MergedCpuTwice(target, item) ==
    [default |-> IF item.default # NoList THEN item.default ELSE target.default,
     min     |-> updateResource(target.min, item.min, "cpu", chooseMaxLowerBound),
     max     |-> updateResource(target.max, item.max, "cpu", chooseMinUpperBound)]

(* One item of one LimitRange merged into what has been gathered.          *)
Merged(target, item) ==
    LET min == updateResource(target.min, item.min, "cpu", chooseMaxLowerBound)
        max == updateResource(target.max, item.max, "cpu", chooseMinUpperBound)
    IN  [default |-> IF item.default # NoList THEN item.default ELSE target.default,
         min     |-> updateResource(min, item.min, "memory", chooseMaxLowerBound),
         max     |-> updateResource(max, item.max, "memory", chooseMinUpperBound)]

NoItem == [default |-> NoList, min |-> NoList, max |-> NoList]

(* `items` are the items of all LimitRanges of the namespace that are      *)
(* about containers, in the arbitrary order of the lister.                 *)
getLimitRangeItem(items) ==
    LET merged[i \in 0..Len(items)] ==
            IF i = 0 THEN NoItem ELSE Merged(merged[i - 1], items[i])
    IN  merged[Len(items)]

-----------------------------------------------------------------------------
(* Limits in proportion to requests.                                       *)

None == [kind |-> "none", value |-> 0]
Limit(value) == [kind |-> "limit", value |-> value]

(* Dividing by the big.Int zero panics.                                    *)
Panic == [kind |-> "panic", value |-> 0]

(* A variant with a bug: the product is not checked.                       *)
ScaledUncapped(scaling, base, baseScaled) ==
    Limit((scaling * baseScaled) \div base)

scaleQuantityProportionally(scaling, base, baseScaled) ==
    LET scaled == (scaling * baseScaled) \div base IN
    Limit(IF scaled <= MaxInt64 THEN scaled ELSE MaxInt64)

(* A variant with a bug: request and recommendation are swapped.           *)
ProportionInverted(originalLimit, originalRequest, recommendedRequest, defaultLimit) ==
    LET limit == IF originalLimit = 0 THEN defaultLimit ELSE originalLimit IN
    IF limit = 0 \/ recommendedRequest = 0 THEN None
    ELSE IF originalRequest = 0 THEN Panic
    ELSE scaleQuantityProportionally(limit, recommendedRequest, originalRequest)

(* An unset request is meant to make the limit equal to the                *)
(* recommendation, but what is tested is the limit, which is set by then.  *)
GetProportionalResourceLimit(originalLimit, originalRequest, recommendedRequest, defaultLimit) ==
    LET limit == IF originalLimit = 0 THEN defaultLimit ELSE originalLimit IN
    IF limit = 0 \/ recommendedRequest = 0 THEN None
    ELSE IF limit = originalRequest THEN Limit(recommendedRequest)
    ELSE IF originalRequest = 0 THEN Panic
    ELSE scaleQuantityProportionally(limit, originalRequest, recommendedRequest)

GetProportionalLimit(limits, requests, recommended, default) ==
    [r \in Resource |->
        GetProportionalResourceLimit(Quantity(limits, r), Quantity(requests, r),
                                     Quantity(recommended, r), Quantity(default, r))]

-----------------------------------------------------------------------------
(* The recommendation of a container.                                      *)

(* A variant with a bug: the entry for every container is overlooked.      *)
OwnRecommendation(c, recommendations) ==
    {i \in DOMAIN recommendations : recommendations[i].containerName = c}

(* The entries for the container or for every container: the first counts. *)
GetContainerRecommendation(c, recommendations) ==
    {i \in DOMAIN recommendations : recommendations[i].containerName \in {c, "*"}}

NoResources == [requests |-> NoList, limits |-> NoList]

(* Without any limit of its own the container gets its requests as limits. *)
ContainerResources(c, original, recommendations, default) ==
    LET entries == GetContainerRecommendation(c, recommendations)
        target  == recommendations[Min(entries)].target
        results == GetProportionalLimit(original.limits, original.requests, target, default)
        limited == {r \in Resource : results[r].kind = "limit"}
    IN  IF entries = {} THEN [panics |-> FALSE, resources |-> NoResources]
        ELSE [panics    |-> \E r \in Resource : results[r].kind = "panic",
              resources |->
                [requests |-> target,
                 limits   |-> IF limited = {} THEN target
                              ELSE [r \in limited |-> results[r].value]]]

=============================================================================
