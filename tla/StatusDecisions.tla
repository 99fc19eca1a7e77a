---------------------------- MODULE StatusDecisions ----------------------------
(***************************************************************************)
(* What the recommender promises whoever reads the status of an MPA: it    *)
(* changes as if listing, calculating and writing were one step.  A plan   *)
(* appears at once with the condition that announces it, is one that a     *)
(* calculation finds for the status it replaces, and appears only while    *)
(* the MPA is in Auto mode.                                                *)
(***************************************************************************)
CONSTANT Decisions   \* [rec, out] : what a calculation on the plan rec comes to

VARIABLE status      \* of the MPA: mode, rec, latest condition

Init == status.mode = "Auto" /\ status.condition = "None"

(* The user switches the mode and nothing else.                            *)
Switch == \E mode \in {"Auto", "Off"} : status' = [status EXCEPT !.mode = mode]

Provide(d) ==
    /\ status.mode = "Auto"
    /\ d.rec = status.rec /\ d.out.action = "apply"
    /\ status' = [status EXCEPT !.rec = d.out.plan, !.condition = "RecommendationProvided"]

Skip ==
    /\ status.mode = "Auto"
    /\ status' = [status EXCEPT !.condition = "RecommendationSkipped"]

Next == Switch \/ Skip \/ \E d \in Decisions : Provide(d)

Spec == Init /\ [][Next]_status

=============================================================================
