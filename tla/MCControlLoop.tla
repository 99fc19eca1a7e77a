----------------------------- MODULE MCControlLoop -----------------------------
(* ControlLoop for TLC.  At 3 requests per second the plan is one pod of   *)
(* 250m; at 6 it is one of 500m or two of 250m, whichever the search comes *)
(* to first; at 9 it is one or the other each time, as the lookup of the   *)
(* penalty has it.  None of these loads leads to more than two pods.       *)
EXTENDS ControlLoop

MCController == {"set"}
MCKindOf == [c \in MCController |-> "StatefulSet"]
MCPod == 0..(MaxPods - 1)

=============================================================================
