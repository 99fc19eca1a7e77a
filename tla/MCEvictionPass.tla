---------------------------- MODULE MCEvictionPass ----------------------------
(* EvictionPass for TLC: a ReplicaSet or StatefulSet, a Job and a kind     *)
(* without an informer.                                                    *)
EXTENDS EvictionPass, TLC

CONSTANTS rs, job, other

MCController == {rs, job, other}
MCKindOf ==
    [c \in MCController |->
        CASE c = rs -> "ReplicaSet" [] c = job -> "Job" [] c = other -> "Other"]

(* The names of the pods play no part.                                     *)
PodSymmetry == Permutations(Pod)

=============================================================================
