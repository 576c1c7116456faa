--------------------------- MODULE StatusMapping ---------------------------
(***************************************************************************)
(* How HostedCluster and NodePool conditions become a DCM status and a     *)
(* message: internal/service/status and the extract* functions of          *)
(* internal/monitoring/reconcile.go.  Pure operators, no state.            *)
(*                                                                         *)
(* A watched object is [deleting, conditions]: whether deletionTimestamp   *)
(* is set and the items of status.conditions in their order, each one a    *)
(* record [type, status, message] or Malformed (an item that is no map).   *)
(* An object without status or without conditions has <<>>.                *)
(***************************************************************************)
EXTENDS Integers, Sequences, FiniteSetsExt

CONSTANTS
    Malformed,  \* an item of status.conditions that is no map
    NoText      \* the empty string, where a message is expected

NoStatus == ""      \* the Go zero value: "not seen" or "excluded"

StatusPriority ==
    [READY |-> 1, PENDING |-> 2, PROVISIONING |-> 3, UNAVAILABLE |-> 4,
     FAILED |-> 5, DELETING |-> 6, DELETED |-> 7]

ClusterStatus == DOMAIN StatusPriority

\* What the two mappers can return.
HCStatus == {"READY", "PENDING", "PROVISIONING", "UNAVAILABLE", "FAILED", "DELETING"}
NPStatus == {"READY", "PENDING", "PROVISIONING", "UNAVAILABLE"}

(***************************************************************************)
(* Conditions: what extractConditions keeps of the list, each one at its   *)
(* place in it.  The code scans them in that order and decides on the      *)
(* first one with a wanted type.                                           *)
(***************************************************************************)
extractConditions(obj) ==
    Restrict(obj.conditions, {i \in DOMAIN obj.conditions : obj.conditions[i] # Malformed})

\* Where the conditions of the wanted types are.
OfType(conds, types) == {i \in DOMAIN conds : conds[i].type \in types}

FirstHasStatus(conds, type, status) ==
    LET found == OfType(conds, {type})
    IN  found # {} /\ conds[Min(found)].status = status

conditionIsTrue(conds, type)  == FirstHasStatus(conds, type, "True")
conditionIsFalse(conds, type) == FirstHasStatus(conds, type, "False")

\* Mutant of MapConditionsToStatus: Available=True hides Degraded=True.
AvailableBeforeDegraded(conds, deleting) ==
    IF deleting THEN "DELETING"
    ELSE IF conditionIsTrue(conds, "Available") THEN "READY"
    ELSE IF conditionIsTrue(conds, "Degraded") THEN "FAILED"
    ELSE IF conditionIsTrue(conds, "Progressing") THEN "PROVISIONING"
    ELSE IF conditionIsFalse(conds, "Available") /\ conditionIsFalse(conds, "Progressing")
         THEN "UNAVAILABLE"
    ELSE "PENDING"

MapConditionsToStatus(conds, deleting) ==
    IF deleting THEN "DELETING"
    ELSE IF conditionIsTrue(conds, "Degraded") THEN "FAILED"
    ELSE IF conditionIsTrue(conds, "Available") THEN "READY"
    ELSE IF conditionIsTrue(conds, "Progressing") THEN "PROVISIONING"
    ELSE IF conditionIsFalse(conds, "Available") /\ conditionIsFalse(conds, "Progressing")
         THEN "UNAVAILABLE"
    ELSE "PENDING"

\* Mutant of MapNodePoolConditionsToStatus: the first condition decides.
FirstNodePoolConditionDecides(conds) ==
    LET first == conds[Min(DOMAIN conds)]
    IN  IF DOMAIN conds = {} THEN NoStatus
        ELSE IF first.type # "Ready"
             THEN IF first.status = "True" THEN "PROVISIONING" ELSE "PENDING"
        ELSE IF first.status = "False" THEN "UNAVAILABLE"
        ELSE IF first.status = "True" THEN "READY"
        ELSE "PENDING"

\* NoStatus stands for the pair ("", false): no conditions, excluded.
MapNodePoolConditionsToStatus(conds) ==
    IF DOMAIN conds = {} THEN NoStatus
    ELSE IF conditionIsTrue(conds, "UpdatingVersion") \/ conditionIsTrue(conds, "UpdatingConfig")
         THEN "PROVISIONING"
    ELSE IF conditionIsFalse(conds, "Ready") THEN "UNAVAILABLE"
    ELSE IF conditionIsTrue(conds, "Ready") THEN "READY"
    ELSE "PENDING"

(***************************************************************************)
(* Messages.  A message is its prefix and the condition text it carries.   *)
(***************************************************************************)
NoMessage == [prefix |-> "", text |-> NoText]

FirstMessage(conds, types, prefix) ==
    LET found == OfType(conds, types)
    IN  IF found = {} THEN NoMessage
        ELSE [prefix |-> prefix, text |-> conds[Min(found)].message]

extractHostedClusterMessage(conds, status) ==
    CASE status = "FAILED"      -> FirstMessage(conds, {"Degraded"}, "")
      [] status = "UNAVAILABLE" -> FirstMessage(conds, {"Available"}, "")
      [] OTHER                  -> NoMessage

extractNodePoolMessage(conds, status) ==
    CASE status = "UNAVAILABLE"  -> FirstMessage(conds, {"Ready"}, "NodePool: ")
      [] status = "PROVISIONING" ->
            FirstMessage(conds, {"UpdatingVersion", "UpdatingConfig"}, "NodePool: ")
      [] OTHER                   -> NoMessage

(***************************************************************************)
(* Composite of a HostedCluster status and a NodePool status (NoStatus for *)
(* the nil pointer), and the message of whichever drives it.               *)
(***************************************************************************)
NodePoolIsWorse(hcStatus, npStatus) ==
    /\ npStatus # NoStatus
    /\ StatusPriority[npStatus] > StatusPriority[hcStatus]

ComputeCompositeStatus(hcStatus, npStatus) ==
    IF NodePoolIsWorse(hcStatus, npStatus) THEN npStatus ELSE hcStatus

\* Mutant of compositeMessage: the NodePool wins a tie.
NodePoolMessageOnTie(inst) ==
    IF /\ inst.npStatus # NoStatus
       /\ StatusPriority[inst.npStatus] >= StatusPriority[inst.hcStatus]
    THEN inst.npMsg ELSE inst.hcMsg

compositeMessage(inst) ==
    IF NodePoolIsWorse(inst.hcStatus, inst.npStatus) THEN inst.npMsg ELSE inst.hcMsg

-----------------------------------------------------------------------------
\* Kubernetes keys the list of conditions by type, so that no type occurs twice.
DistinctTypes(conds) ==
    \A i, j \in DOMAIN conds : conds[i].type = conds[j].type => i = j
=============================================================================
