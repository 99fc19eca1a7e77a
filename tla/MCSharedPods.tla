----------------------------- MODULE MCSharedPods -----------------------------
(* SharedPods for TLC.  Two pods, one of each of two workloads.  `web`     *)
(* and `web2` have the same Deployment for their target, `api` an object   *)
(* of a kind the fetcher has no informer for, whose selector takes in both *)
(* pods; `far` selects both, too, but in another namespace.                *)
EXTENDS SharedPods

CONSTANTS web, web2, api, far, podW, podA, rsW, rsA

MCMpa == {web, web2, api, far}
MCPod == {podW, podA}
MCLabel == {"web", "api"}
MCMpaNamespace == [m \in MCMpa |-> IF m = far THEN "ns2" ELSE "ns1"]
MCPodNamespace == [p \in MCPod |-> "ns1"]
MCLabelsOf == [p \in MCPod |-> IF p = podW THEN "web" ELSE "api"]

(* `api` and `web` are of the same second.                                 *)
MCCreatedAt == [m \in MCMpa |-> CASE m = far -> 0 [] m = web2 -> 2 [] OTHER -> 1]
MCOlder == [m \in MCMpa |-> CASE m = far -> 0 [] m = web2 -> 3 [] m = api -> 2 [] m = web -> 1]
MCNameRank == [m \in MCMpa |-> CASE m = web -> 1 [] m = web2 -> 0 [] m = api -> 2 [] m = far -> 3]

MCTargetRef ==
    [m \in MCMpa |->
        CASE m = api -> [apiVersion |-> "argoproj.io", kind |-> "Rollout", name |-> "api"]
          [] m = far -> [apiVersion |-> "batch", kind |-> "CronJob", name |-> "far"]
          [] OTHER   -> [apiVersion |-> "apps", kind |-> "Deployment", name |-> "web"]]

MCObjects ==
    LET web_key == [kind |-> "Deployment", namespace |-> "ns1", name |-> "web"]
        far_key == [kind |-> "CronJob", namespace |-> "ns2", name |-> "far"]
    IN  [k \in {web_key, far_key} |->
            IF k = web_key THEN [selector |-> {{"web"}}, template |-> {{"web"}}]
            ELSE [selector |-> {}, template |-> {{"web", "api"}}]]

(* The kind is served in two groups; the first does not know the object.   *)
MCAnswers ==
    [m \in MCMpa |->
        IF m = api
        THEN <<[outcome |-> "error"], [outcome |-> "selector", selector |-> {"web", "api"}]>>
        ELSE <<>>]

MCController == {rsW, rsA}
MCKindOf == [c \in MCController |-> "ReplicaSet"]
MCOwnerOf == [p \in MCPod |-> IF p = podW THEN rsW ELSE rsA]
MCBroken == {web}
MCNoneBroken == {}

=============================================================================
