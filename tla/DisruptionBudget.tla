--------------------------- MODULE DisruptionBudget ---------------------------
(***************************************************************************)
(* What one pass of the updater promises the owner of a controller: of the *)
(* pods that were up when the pass began, never so many are disrupted that *)
(* fewer than the floor of their owner stay up.                            *)
(***************************************************************************)
EXTENDS Integers, FiniteSets

VARIABLES
    active,   \* a pass is under way
    up,       \* the pods seen up at its beginning and not disrupted since
    owner,    \* the owner of each of them
    floor     \* how many pods of each owner have to stay up

vars == <<active, up, owner, floor>>

UpOf(o) == {p \in up : owner[p] = o}

Init == ~active

(* Between passes pods come and go as they like.                           *)
Between == ~active /\ active' \in BOOLEAN

Disrupt(p) ==
    /\ active
    /\ p \in up
    /\ Cardinality(UpOf(owner[p])) > floor[owner[p]]
    /\ up' = up \ {p}
    /\ UNCHANGED <<active, owner, floor>>

End == active /\ ~active'

Next == Between \/ End \/ \E p \in up : Disrupt(p)

Spec == Init /\ [][Next]_vars

=============================================================================
