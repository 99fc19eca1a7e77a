----------------------------- MODULE Registration -----------------------------
(***************************************************************************)
(* How replicas of the webhook register themselves with the API server     *)
(* (WebhookRegistration in pkg/admission/config/webhook_config.go): each   *)
(* waits, looks for the one configuration they all share, deletes it if it *)
(* is there, and creates it.  Any error ends the process, which the        *)
(* kubelet starts again.  The server itself answers from the start.        *)
(***************************************************************************)
EXTENDS Naturals

CONSTANTS
    Replica,     \* replicas of the webhook, as in a rolling update
    MaxFaults    \* bound: failed calls and crashes

ASSUME RegistrationAssumption == Replica # {} /\ MaxFaults \in Nat

VARIABLES
    registered,  \* does the configuration exist
    replica,     \* the step of each process: "down", "get", "delete", "create", "done"
    faults

regVars == <<registered, replica, faults>>

RegInit ==
    /\ registered \in BOOLEAN
    /\ replica \in [Replica -> {"down", "get"}]
    /\ faults = 0

Fault == faults < MaxFaults /\ faults' = faults + 1

At(r, step) == replica[r] = step
GoTo(r, step) == replica' = [replica EXCEPT ![r] = step]

Start(r) ==
    /\ At(r, "down") /\ GoTo(r, "get")
    /\ UNCHANGED <<registered, faults>>

(* A variant with a bug: an old configuration is not deleted.              *)
GetOnly(r) ==
    /\ At(r, "get") /\ GoTo(r, "create")
    /\ UNCHANGED <<registered, faults>>

Get(r) ==
    /\ At(r, "get")
    /\ GoTo(r, IF registered THEN "delete" ELSE "create")
    /\ UNCHANGED <<registered, faults>>

(* Any error of Get is taken for "not found".                              *)
GetFails(r) ==
    /\ At(r, "get") /\ GoTo(r, "create")
    /\ Fault
    /\ UNCHANGED registered

(* A variant with a bug: having deleted the configuration, it returns.     *)
DeleteReturns(r) ==
    /\ At(r, "delete")
    /\ registered' = FALSE
    /\ GoTo(r, IF registered THEN "done" ELSE "down")
    /\ UNCHANGED faults

(* Another replica may have deleted it first, which is fatal.              *)
Delete(r) ==
    /\ At(r, "delete")
    /\ registered' = FALSE
    /\ GoTo(r, IF registered THEN "create" ELSE "down")
    /\ UNCHANGED faults

(* Another replica may have created it first, which is fatal, too.         *)
Create(r) ==
    /\ At(r, "create")
    /\ registered' = TRUE
    /\ GoTo(r, IF registered THEN "down" ELSE "done")
    /\ UNCHANGED faults

(* A call fails, with or without effect, and klog.Fatal ends the process.  *)
CallFails(r) ==
    /\ \/ At(r, "delete") /\ registered' \in {registered, FALSE}
       \/ At(r, "create") /\ registered' \in {registered, TRUE}
    /\ GoTo(r, "down")
    /\ Fault

Crash(r) ==
    /\ ~At(r, "down") /\ GoTo(r, "down")
    /\ Fault
    /\ UNCHANGED registered

RegStep(r) == Start(r) \/ Get(r) \/ Delete(r) \/ Create(r)

RegNext == \E r \in Replica : RegStep(r) \/ GetFails(r) \/ CallFails(r) \/ Crash(r)

(* The kubelet starts a process again, and one that runs goes on.          *)
RegFairness == \A r \in Replica : WF_regVars(RegStep(r))

AllDone == \A r \in Replica : At(r, "done")

(* Some process is there to answer a request.                              *)
Serving == \E r \in Replica : ~At(r, "down")

RegTypeOK ==
    /\ registered \in BOOLEAN
    /\ replica \in [Replica -> {"down", "get", "delete", "create", "done"}]
    /\ faults \in 0..MaxFaults

=============================================================================
