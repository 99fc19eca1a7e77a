# Verification of the multidimensional pod autoscaler

The autoscaler changes the number of pods of a workload and the CPU request of
each pod together.  This directory holds TLA+ models of its control logic,
TLC configurations that check them on small instances, and TLAPS proofs of
the safety properties for instances of any size.

## The system

Three processes share nothing but objects in the API server.

| component | code | state | operations |
|---|---|---|---|
| Recommender | `pkg/recommender/logic`, `main.go` | none between ticks; an MPA informer and a pod informer | `MainProcedure` at each tick: list, match pods, calculate, write the plan and a condition into the MPA |
| Calculator | `pkg/recommender/recommendation` | none | score of a plan, search for the best, comparison with the plan in the status |
| Metrics client | `pkg/recommender/metrics` | none | requests per second of the pods, or an error |
| Recommendation processor | `pkg/util/recommendation` | none | `AdjustRecommendation` (returns its argument), the recommendation of a container |
| Updater | `pkg/updater/logic`, `main.go` | none between ticks; informers | `MainProcedure` at each tick: filter MPAs, match pods, scale the target, evict pods |
| Evictor | `pkg/updater/eviction`, `pkg/updater/util/api.go` | per pass: pod to controller, counters per controller | `NewPodEvictor`, `Evictable`, `Evict` |
| Eviction priority | `pkg/updater/priority` | none | returns its argument |
| Admission webhook | `pkg/admission` | none; an MPA informer | `Serve`, `GetPatches`, `CalculatePatches`: the plan's request goes into each created pod |
| Container limits, limit ranges | `pkg/util/container`, `pkg/util/limitrange` | an informer | limits in proportion to requests, the merge of several ranges |
| MPA lookup | `pkg/util/mpa` | none | update mode, latest condition, the MPA that controls a pod |
| Target selector fetcher | `pkg/target` | informers | label selector of a target |
| Webhook registration, certificates | `pkg/admission/config` | the webhook configuration | delete and create at start |
| API types | `pkg/apis/autoscaling/v1` | the MPA | |
| Generated client code, metrics, scripts, manifests | `pkg/client`, `pkg/util/metrics`, `hack`, `deploy`, `examples` | | |

The recommender writes `status.recommendationResource` and appends a condition,
`RecommendationProvided` or `RecommendationSkipped`.  The updater acts on an MPA
in Auto mode whose latest condition is `RecommendationProvided`: it scales the
target and evicts pods.  The workload's controller creates the replacements,
and the webhook patches each one at creation with the plan, whatever the
latest condition.  Each of the three draws up a list of MPAs by rules of its own
and gives a pod to the strongest MPA of its list that selects it.

### What is hard

* **Counters against pods.** A pass decides by counters taken once from a
  snapshot.  They have to stay right through Pending pods, refusals, lost answers
  and several controllers, and must never allow a controller to lose more pods
  than its budget.
* **Two clocks and a mailbox of one.** Recommender and updater tick on their own;
  the condition is a message that the next tick overwrites, seen or not.  A missed or
  failed reaction is made up for only while the condition still stands.
* **Three lists.** Recommender, updater and webhook have to agree on which MPA a
  pod belongs to although they list different ones, in any order, at different
  times, and the selector of one may not be had for a moment.
* **Old reads.** Informers lag, the listed MPA is written back as a whole, pods
  are evicted by name after having been judged by their listed state, and a pod
  without a metric yet counts as one without load.
* **Patches.** They are applied in order and fail together; each needs a parent
  that the template may lack, and an empty parent put over a full one takes
  everything away.
* **Replicas that register.** Each deletes the one webhook configuration and
  creates it again, and any error is fatal.
* **Map order.** The penalty of a plan is looked up by ranging over a Go map.
* **Edges.** Overload, no load, plans of no pods, division by zero, caps at int64.
* **Failure.** Each call may fail, each process may restart at any step, the
  webhook may be down while a pod is created.

`PROJECT.json` lists these hazards one by one, at the line where each bites,
with the properties that would catch it.

## Modules

| module | models | notes |
|---|---|---|
| `Evictor` | `evictor.go`, the replica count in `updater/util/api.go` | operators with the names of the code; an evictor is a record of its two maps |
| `DisruptionBudget` | nothing in the code | what a pass promises the owner of a controller |
| `EvictionPass` | the loop of `MainProcedure` from `NewPodEvictor` on | the API server accepts, refuses, or accepts and loses the answer; the process may die |
| `Calculator` | `calculator.go` | every score the code may get, as integers |
| `Recommendation` | the recommender's decision, tick by tick | one MPA, a load that moves |
| `StatusDecisions` | nothing in the code | what the recommender promises the readers of a status: one step per decision |
| `ControlLoop` | recommender, updater and webhook around one MPA with a StatefulSet | extends `Evictor` and `Calculator` |
| `Matching` | `target/fetch.go`, the order of MPAs in `util/mpa/api.go` | operators |
| `SharedPods` | the three procedures over several MPAs that select the same pods | extends `Matching`, instantiates `Evictor` |
| `Limits` | `util/limitrange`, `util/container`, the recommendation of a container | operators |
| `Registration` | `admission/config/webhook_config.go` | replicas that share one configuration |
| `Admission` | the JSON patches of a pod, and what the API server makes of them, while replicas register | extends `Limits` and `Registration` |
| `MCEvictionPass`, `MCControlLoop`, `MCSharedPods`, `MCAdmission` | | constants for TLC (`Recommendation` needs none) |
| `Induction` | | induction over `0..n` |
| `EvictorProofs` | | lemmas about counting pods and about the evictor's maps |
| `EvictionProofs`, `ControlLoopProofs`, `RecommendationProofs`, `SharedPodsProofs`, `LimitsProofs`, `AdmissionProofs` | | theorems about the modules they are named after |

**Evictor.** `podControllerMap` and `controllerStatesMap` are the two maps of the
struct.  `Registered` is the loop body up to its three `continue`s.  The store of
the informers is a function from controllers to replicas, 0 standing for every
case in which `GetControllerReplicaCount` returns an error.  "Other" is every kind
without an informer and also the zero owner reference, which
`GetPodManagedControllerRef` returns for a pod without a controller.  The pod
lister selects pods that have a node and have not ended, so a listed pod is
Pending or counts as running.

**EvictionPass.** One variable per thing the pass knows (`pods`, `store`, `ev`,
`queue`) and ghost sets for what happened in the cluster (`evicted`, `lost`,
`refused`).  `Tick` takes any snapshot and any store.  Each turn of the loop is
one action.  `Evict` calls `Evictable` again; nothing happens between the two
calls, so they are one.

**Calculator.** The weights 0.6 and 0.4, the normalisation and the penalties are
scaled to integers.  Of the queueing model only this is used: the service score
is at most `100 * rho^2 / (1 - rho)`, so a threshold above it is never reached;
below, it may be.  Where the penalty is looked up, every threshold that may be
reached may be the one found.  This admits a few scores the code cannot get (at
7 requests per second, for example) and misses none.

**ControlLoop.** The recommender's procedure is two steps (list and calculate;
write), the updater's one step to list, one to scale and build the evictor, and
one per pod.  Between any two of them the other processes, the StatefulSet
controller, the kubelet, the user and the load may act, and a pod may die by itself.
The processes tick independently: each may tick any number of times between two ticks
of the other.  Pods are ordinals, as
the names of a StatefulSet's pods are reused: an eviction takes whatever pod has
the name by then.  `older` is the version of the MPA at the last tick of either
process, which an informer may still hold; `current` says whether the version
listed by the recommender is still the server's, which is what the conflict check
of the server compares.  A listing of the pods (`Listings`) is not older than that
of the MPA, and a Pending pod is in it only if it has got a node.  What the
recommender measures (`Measured`) is the load or any smaller one, since a pod
without a metric yet counts for none.  `guarded` is a history variable, which no
guard reads: the pods of a target that has been at rest (no pass, all its pods there
and running).  A scale-down drops all of them, and a pod that dies by itself is
dropped alone; the next rest guards them again.

**Matching.** A selector is the set of the label sets it matches.  `Fetch` is
modelled to the end: a CronJob's selector is taken from the labels of its
template, the other kinds with an informer from their spec, and every other kind
from the scale subresource, one REST mapping after the other, the first that
answers deciding.  `KeepStronger` is one turn of the loop of
`GetControllingMpaForPod`.

**SharedPods.** Each procedure is a record: `look` is its loop over its list of
MPAs, stepped through in any order (`todo`, `seen`, and the MPA kept for each pod
so far), `served` the MPAs whose turn in the second loop is over.  A plan is only
known by the MPA it belongs to; numbers and loads are the subject of
`ControlLoop`.  `fresh` is the conflict check, MPA by MPA.  The loop over a list
reads nothing but the list, so other steps are interleaved before and after it
only (`Looping`).

**Limits.** A resource list is a function on some of the resources; the nil list is
the empty one.  The merge of limit ranges keeps the behaviour of
`updateResource`, which takes over the whole list of the first item.  A division
by zero is a value of its own, `Panic`.

**Registration, Admission.** A replica is at the step it will do next, and every
error sends it to "down".  A pod's document is a function from paths to values.
A path is a place, a field and an entry, `""` where it ends before: `<<0, "team", "">>`
is an annotation, `<<2, "limits", "cpu">>` a quantity of the second container.
`CanApply` and `ApplyPatch` are what the API server does with one patch, `Applied`
with all of them, and `Answer` is the handler from the pod it gets to the pod the
API server stores.  A request goes through only if the configuration exists and a
process runs; if not, or if the call fails, the pod is created from its template, as
`failurePolicy` is `Ignore`.  A panic is a failed call, for net/http recovers it.
The plan is any of those the recommender may have left: none, one, or the zero plan
of overload.

Operators introduced as "a variant with a bug" are never used by a
specification.  They are the mutations that show that each property can fail:
`PROJECT.json` pairs them with the definition they replace.

## Runs

Passing:

| run | instance | what it shows |
|---|---|---|
| `EvictionPass.cfg` | 5 pods, a ReplicaSet, a Job and an unknown kind, up to 5 configured replicas, one lost answer; pods symmetric | counters exact, budget held, no idle pass, nothing evicted that is not replaced, refinement of `DisruptionBudget` |
| `Recommendation.cfg` | loads 0, 3, 6, 11, 100, 880, 930, 1000; expected response time 0 (unset in a policy) or 300 ms (the default) | every decision leaves a plan that can carry the load; a plan just provided is replaced only for the reasons named |
| `ControlLoop.cfg` | loads 3 and 6, two ordinals, one edit, one move of the load, one fault | mode switches are never undone, never scaled to zero, of a target that was at rest at most one pod is down at a time over all passes together, refinement of `StatusDecisions` |
| `ControlLoopLive.cfg` | load 6, two ordinals, one edit, two faults | the updater comes to rest if the recommender goes on; a plan that stays announced is scaled to |
| `SharedPods.cfg` | four MPAs, two pods of two ReplicaSets, one edit, one fault; the metrics of one MPA always fail | at each point of each loop a pod is with the strongest MPA seen; an MPA shadowed by stronger ones never acts; an MPA whose metrics fail starves no other |
| `Admission.cfg` | pods of two containers, annotated or not, with thirty combinations of resources; four lists of limit ranges; plans of 0, 250 and 1000; a cap of 5000; two replicas, one fault | the patches apply, put the plan into every container and take nothing else away; limits cover requests; limit ranges merge to the tightest whatever their order; registration ends with the configuration there |

Violated, each one a disagreement between a line of the repository and its code:

| run | property | what happens |
|---|---|---|
| `MinReplicasHonoured.cfg` | `-min-replicas` is honoured | the factory drops the flag |
| `AtLeastPodNumMin.cfg` | a plan has at least one pod | in overload a plan of no pods is applied |
| `ReplacedOnlyByBetter.cfg` | a plan is replaced only by a better one | two equal plans replace each other at a constant load, as the penalties are drawn |
| `RolloutCompletes.cfg` | in Auto mode the plan reaches the running pods, at least those of a rollout in which one pod has it | the condition is withdrawn after one pass, and the other pod keeps its old request |
| `OlderHasPriority.cfg` | of two MPAs that select a pod the older one has priority | the updater lists only MPAs whose latest condition is "provided", and evicts the pod for the younger one |
| `UnspecifiedRequest.cfg` | without a CPU request the limit becomes the recommendation | `limit_request.go:107` tests the limit where the request is meant, line 136 divides by zero, and the pod stays without the plan |

**Bounds.** The pass treats controllers separately and its rules compare
`running`, `evicted` and `configured`; with five pods and up to five replicas
each of the comparisons is met from below, at equality and from above, with
Pending and running pods mixed and split over several controllers.  The
loads of `Recommendation` are: none; one that the smallest pod carries; the
capacity of the smallest pod; one just below a capacity, where penalties are
ambiguous; the middle of the range; the last at which some plan is sure to
score; two above.

At the loads of `ControlLoop` no plan has more than two pods, so no outcome of the
calculator is cut off: the assumption `PlansFit` says so, and TLC evaluates it.  At 3
the plan has one pod, at 6 one or two, so that the target is scaled up and down, on the
load as it is and on a smaller one for want of metrics.  With two pods an eviction too
many is seen at once: both are down.  One fault is enough for any single call to fail, any
process to restart and any pod to die at any step; `AnnouncedIsScaled` is given two, so
that a scaling can fail twice.

The MPAs of `SharedPods` are one of each case: two with the same target created
at different times, one that selects both pods through a scale subresource with
two REST mappings and is as old as the first, so that the name decides, and one
in another namespace, older than all.  Two pods are enough for two groups, for
an MPA that controls one of the pods it selects only, and for one that controls
none.  The templates of `Admission` cover the shapes of CPU resources that the API
server lets through (it fills in a request where only a limit is given): none, a
request, request equal to limit, request below limit, a request of zero with a
limit.  With the cap at 5000 the largest scaled limit is cut and the others are
not.  Two replicas are enough for each to be anywhere in its steps while the
other deletes or creates.

**Fairness.** `UpdaterFairSpec`, the specification of `ControlLoopLive.cfg`, has weak
fairness of the updater's ticker (`time.Tick` keeps firing), of the next step of its
procedure, and of the StatefulSet controller.  The kubelet need not start a pod, as it
cannot if the image cannot be pulled.  Nothing is assumed of user, load and faults, and nothing of the recommender either: it may have stopped.
`UpdaterComesToRest` is claimed of a recommender that goes on, and
`RecommenderFairness` is its antecedent: a procedure that has begun finishes, and the
ticker, which waits for nothing, also fires if the pods are gone for a moment again
and again when it could (strong fairness of `Recommend`).  No order of the ticks is
assumed, and calls may fail and the listed objects be old.

A plan that is provided and withdrawn between two ticks of the updater is lost: the
recommender may tick twice in a row, and then the target is not scaled.  That is why
`AnnouncedIsScaled` speaks of a plan that stays announced.  There it also covers
failures: a scaling that fails is made up for by the next pass, while the condition
stands.  It does not say that the updater rests then; it goes on evicting one pod per
pass.  The instance has no load at which the plan flickers (7 and most above): there
the updater never comes to rest, as `ReplacedOnlyByBetter.cfg` shows.

`FairSpec` adds both tickers and the kubelet, and is what `RolloutCompletes` is refuted under.  That run
sets `Prompt`: a procedure and what it causes in the cluster are over before the next
tick, and nothing read is old.  A tick then waits for the other procedure, while a
ticker waits for nothing, hence strong fairness of both.  The rollout stops even
then, with no failure and no race.

In `SharedPods`: a loop over a list ends (`WF(Loop)`), and the recommender's ticker
keeps firing and its procedure goes on.  The latter is strong fairness of
`~Looping /\ RcmStep`, because in the model a loop of another process holds up
the recommender for a few steps again and again; in the code it holds up nothing,
so the recommender's steps do happen.  In `Registration`: a process that runs goes
on, and the kubelet starts one that has ended (`restartPolicy` of a Deployment).

**Deadlock** is checked in all passing runs.

## Proofs

The theorems hold for every value of the constants that satisfies the named
assumptions.

**`EvictionProofs`**: every finite set of pods, any controllers of any kinds, any
flags and bounds (`ConstantsAssumption`, `BoundsAssumption`).

* `Typed`, `Counted`, `BudgetNeverExceeded`, `AlwaysReplaced`,
  `NoIdlePass`: the invariants of `EvictionPass.cfg`;
* `PassKeepsBudget`: `EvictionPass` implements `DisruptionBudget` under the mapping
  at the end of `EvictionPass`.

The inductive invariant is `TypeOK /\ HandledOnce /\ CounterExact /\ BudgetHeld`.
`BudgetHeld` is about pods and `Evictable` decides on counters, so it is not
inductive alone: a step that evicts needs `CounterExact` to turn
`running - evicted` into a number of pods, and that one needs `HandledOnce`, for
counting a pod twice would break the equation with the cardinality of a set
(`HandledOnce`, in `EvictionProofs`: what is still queued has not been asked for).
`NoIdlePass` needs a second invariant, `WorkRemains`, in which the queue counts as
work to come.  The facts about cardinalities that the steps rest on are lemmas in
`EvictorProofs`.  For the refinement the counters drop out again: an eviction maps
to `Disrupt` because the guard of the code, by the invariant, implies the guard of
the budget.

**`RecommendationProofs`**: every set of loads and response times
(`LoadsAssumption`).

* `TypeCorrect`;
* `DecidedServes` (`DecidedPlanServes`): fifteen pods of the largest size carry any
  load below overload and always keep some score, so a plan wins, and whatever
  wins has a score, which only a plan that serves the load can have;
* `PlansSettle` (`PlanIsSettled`): needs `ProvidedWon`, that a plan just provided was
  a winner at the load that still stands.  Two winners that have one score each
  have the same score, and then the comparison that ends `Calculate` keeps the old
  plan.

**`ControlLoopProofs`**: any number of ordinals, any loads, edits and faults, either
value of `Prompt` (`ControlLoopAssumption`, `ConstantsAssumption`, and `PlansFit`,
that `MaxPods` is large enough for the loads).

* `TypeCorrect`, `EditsSurvive` (`NoEditUndone`);
* `OneDownAtATime` (`OneAtATime`): any number of pods and passes;
* `DecisionsAreAtomic` (`DecisionsAtomic`): `ControlLoop` implements `StatusDecisions`,
  with the MPA in the API server as the status;
* `NeverToZero` (`NeverScaledToZero`), under the further assumption `PlansFound` that
  the calculator finds a plan for each load: in overload it does not, as
  `AtLeastPodNumMin.cfg` shows.

The inductive invariant `Inv` has one conjunct for each group of variables.  A
procedure in progress is described by the record it holds: what the recommender
is about to write is a copy of an MPA, the server's if it is `current`, and a plan
that fits; what the updater holds is a plan, a listing and, once it evicts, counters
for the controllers of the pods it may evict.

`GuardInv` is what makes `OneAtATime` inductive, which is about pods, while a pass
knows a listing and counters.  As long as there are guarded pods, the listing of a
pass in progress was taken after the target came to rest and the replicas have not
fallen since: all listed pods are within `0..(replicas - 1)`, and no more of them count
as running than are configured, whichever number the store holds.  The allowance
is zero, so a pod that had started is evicted only if running and configured are
equal, and then every guarded pod was listed as started (`StateGuards`).  Until the
pass has counted an eviction all of those are up, so the one evicted is the only
one down.  A pod that was listed as not started is evicted without being counted,
whatever has its name by then; but at most one of the guarded pods was
(`OneNotStarted`), and if one was, fewer are running than configured and no other pod
is evicted.  A next pass starts from a listing for which the same holds by
`OneAtATime` itself (`GuardUpdate`), so the claim carries over from pass to pass.

`DecisionInv` adds that what is about to be written was calculated on the listed
plan in Auto mode; with `current` this makes the write a decision on the status
that is there, which is the step of `StatusDecisions`.
`NeverToZero` adds that no copy of the MPA anywhere, listed, lagging or about to be
written, holds the zero plan.

**`SharedPodsProofs`**: any MPAs, pods, labels, stores and answers
(`MatchingAssumption`, `SharedPodsAssumption`, and `NamesUnique`, that two MPAs of one
namespace differ in name).

* `ControllingIsUnique`: among the MPAs that select a pod at most one is stronger
  than all others, since `strongerMpa` is a strict total order within a namespace;
* `TypeCorrect` and `ControllingStaysStrongest` (`ControllingIsStrongest`), from an
  invariant that describes the loops of all three procedures; one turn of the loop
  (`ConsideredKeeps`) needs transitivity where the new MPA replaces the one kept;
* `ShadowedStaysIdle` (`ShadowedNeverActs`).  The invariant `ShadowInv` adds to the
  former that, before a mode is edited, the recommender lists every MPA with a
  selector, that it has left no trace of a shadowed one (no plan, no scaling, no
  patch), and that the updater and the webhook list MPAs with a plan only.  A call
  that fails takes only an MPA off a list whose target is in no informer's store,
  so the stronger MPA, whose target is in one, is there at the end of the
  recommender's loop (`ShadowedControlsNone`); without a plan the weaker one is on no
  other list.

**`LimitsProofs`**: any quantities up to the cap (`MaxInt64Assumption`), any number of
items.

* `MergedIsGathered`: what `getLimitRangeItem` returns has the least maximum and the
  greatest minimum of each resource, by induction over the items;
* `ScaledLimitCovers`: division that rounds down keeps the order of limit and
  request, and so does the cap, if the recommendation itself is within it.

**`AdmissionProofs`**: any number of replicas and faults (`RegistrationAssumption`, at
least one replica), any templates, limit ranges and plans whose quantities are
within the cap (`AdmissionAssumption`).

* `RegisteredWhenAllDone` (`RegisteredOnceDone`), from `SomeoneToRegister`: while the
  configuration is missing some replica has not finished.  The one that deletes it
  is not finished after that step;
* `AdmissionTyped` (`TypeOK`), `AnswersApply` (`PatchesApply`), `PlanGivenToAll`
  (`PlanInEveryContainer`), `OnlyCpuChanges` (`NothingElseChanges`),
  `LimitsKeepCovering` (`LimitCoversRequest`), `RangeIsTightest`
  (`MergedRangeIsTightest`).

The inductive invariant of the pod, `PodIsAnswer`, says that it is the answer to some
template, plan and limit ranges; the work is in `AnswerFacts`, about one answer.  A
list of patches is applied patch by patch, and two lists one after the other
(`AppliedBoth`).  A patch of a path below which there is nothing changes that path
only (`PatchedAlone`); that this is so for each patch of an answer is what
`ContainerShape` says of a document: a field is there if the container has the list,
and otherwise there is nothing below it.  The patches of one container leave the
shape of the others alone (`ShapeStays`), so the induction over the containers
(`ContainersPatched`) can go on from any document they have reached.

Induction over data is done without an operator as a parameter: `InductionUpTo` in
`Induction` takes the set of the numbers for which the claim holds.  Each recursive
function of the model (the merge of items, the application of patches, the patches
of the containers) has a lemma that it exists and one that unfolds it.

Only model-checked: all liveness (`UpdaterComesToRest`, `AnnouncedIsScaled`,
`EveryControllerServed`, `RegistrationEnds`), since liveness under fairness is out of
reach of the prover.  Every other property of the passing runs is the statement of a
theorem.

## Not modelled

* What follows the early return of `AdjustRecommendation` (`processor.go:63`) is
  unreachable: the policies of containers (`ContainerScalingMode`, `ControlledMode`,
  `MinAllowed`, `MaxAllowed`), the fit to limit ranges, `GetBoundaryRequest`, the
  rounding modes, `GetPodLimitRangeItem`.  A policy that says otherwise is therefore
  without effect.
* What is called from nowhere, or from that code only: `UpdateMpaStatusIfNeeded`, `patchMpa`,
  `GetContainerResourcePolicy` and `GetContainerControlledMode` of `util/mpa`, the
  parser of annotations; the condition `NoPodsMatched` (`types.go:192`), which is
  never set; `recommender.go:101-104`, since a group has at least one pod.
* In Off mode the algorithm does not go on, although `types.go:70` says so: all
  components leave the MPA alone, which is a guard each and no run of its own.
* Init containers, which the webhook does not patch; the API server's own checks
  (LimitRange, quantities) and its lag in seeing a new webhook configuration.
* The history of conditions, which grows by one at each tick: nothing but its last
  element is read.
* A call that hangs for ever, which is the process at rest; retries inside client
  libraries; the discovery cache, which only changes which call fails.
* The M/M/c formulas in floating point: bounded instead (see `Calculator`).
* The translation of metric items into requests per second.
* A panic on an owner reference without `Controller` (`updater/util/api.go:83`): owner
  references are abstracted to the controller they name.
* Generated code, Prometheus metrics, flags, certificates, manifests, scripts.

## State of the plan

All parts planned are written: `Evictor`, `EvictionPass` and `DisruptionBudget`;
`Calculator` and `Recommendation`; `ControlLoop` and `StatusDecisions` as the composition for one MPA;
`Matching` and `SharedPods` as the one for several; `Limits`, `Registration` and
`Admission`; and the proofs of each.  Every safety property that the passing runs
check is proved; what is open is liveness, which the provers cannot do.
