--------------------------- MODULE ConditionPair ---------------------------
(***************************************************************************)
(* What StatusMapping makes of a HostedCluster and a NodePool with any     *)
(* conditions in any order: a behaviour appends one condition after        *)
(* another to the two lists.                                               *)
(***************************************************************************)
EXTENDS StatusMapping

CONSTANTS
    HCConditions,   \* the items that a HostedCluster's list may have
    NPConditions,   \* the items that a NodePool's list may have
    MaxConditions   \* bound: how many items both lists have together

VARIABLES hostedCluster, nodePool

pairVars == <<hostedCluster, nodePool>>

PairInit ==
    /\ hostedCluster \in [deleting : BOOLEAN, conditions : {<<>>}]
    /\ nodePool = [deleting |-> FALSE, conditions |-> <<>>]

Room == Len(hostedCluster.conditions) + Len(nodePool.conditions) < MaxConditions

AddHCCondition ==
    /\ Room
    /\ \E c \in HCConditions :
          hostedCluster' = [hostedCluster EXCEPT !.conditions = Append(@, c)]
    /\ UNCHANGED nodePool

AddNPCondition ==
    /\ Room
    /\ \E c \in NPConditions : nodePool' = [nodePool EXCEPT !.conditions = Append(@, c)]
    /\ UNCHANGED hostedCluster

PairNext == AddHCCondition \/ AddNPCondition

PairSpec == PairInit /\ [][PairNext]_pairVars

-----------------------------------------------------------------------------
hcConds == extractConditions(hostedCluster)
npConds == extractConditions(nodePool)
hcNow   == MapConditionsToStatus(hcConds, hostedCluster.deleting)
npNow   == MapNodePoolConditionsToStatus(npConds)

\* The state reconcileResource would hold for the pair.
Inst == [hcStatus |-> hcNow, npStatus |-> npNow,
         hcMsg |-> extractHostedClusterMessage(hcConds, hcNow),
         npMsg |-> extractNodePoolMessage(npConds, npNow)]

\* The same conditions in any other order.
Reorderings(conds) ==
    {[i \in DOMAIN conds |-> conds[p[i]]] : p \in Bijection(DOMAIN conds, DOMAIN conds)}

(***************************************************************************)
(* OrderIrrelevant: Kubernetes keeps conditions as a list keyed by type    *)
(* whose order means nothing.  While no type occurs twice, both mappers    *)
(* give the same status for every other order of the list.                 *)
(***************************************************************************)
OrderIrrelevant ==
    /\ DistinctTypes(hcConds) =>
          \A conds \in Reorderings(hcConds) :
              MapConditionsToStatus(conds, hostedCluster.deleting) = hcNow
    /\ DistinctTypes(npConds) =>
          \A conds \in Reorderings(npConds) : MapNodePoolConditionsToStatus(conds) = npNow

(***************************************************************************)
(* MessageFollowsDriver: compositeMessage and ComputeCompositeStatus are   *)
(* separate code that must pick the same resource: a message that is not   *)
(* empty comes from a condition of the resource whose status is published, *)
(* and a NodePool's text only appears under a status the HostedCluster     *)
(* does not itself have.                                                   *)
(***************************************************************************)
MessageFollowsDriver ==
    LET m == compositeMessage(Inst)
        c == ComputeCompositeStatus(hcNow, npNow)
        texts(conds) == {conds[i].message : i \in DOMAIN conds}
    IN  m # NoMessage =>
            IF m.prefix = "" THEN c = hcNow /\ m.text \in texts(hcConds)
            ELSE c = npNow /\ c # hcNow /\ m.text \in texts(npConds)

\* The rows of the table of REQ-ACM-160 in their order of precedence.
Table ==
    LET Has(type, status) == FirstHasStatus(hcConds, type, status)
    IN << [status |-> "DELETING",     match |-> hostedCluster.deleting],
          [status |-> "FAILED",       match |-> Has("Degraded", "True")],
          [status |-> "READY",        match |-> Has("Available", "True") /\ Has("Progressing", "False")],
          [status |-> "PROVISIONING", match |-> Has("Progressing", "True") /\ Has("Available", "False")],
          [status |-> "UNAVAILABLE",  match |-> Has("Available", "False") /\ Has("Progressing", "False")],
          [status |-> "PENDING",      match |-> Has("Progressing", "Unknown")] >>

(***************************************************************************)
(* TableDecides: REQ-ACM-160.  The first row of the status mapping table   *)
(* that matches the HostedCluster decides its status, except that the      *)
(* chain of conditions in MapConditionsToStatus takes Available=True alone *)
(* for READY, where the table has no row or a later one.                   *)
(***************************************************************************)
TableDecides ==
    \A row \in DOMAIN Table :
        /\ Table[row].match /\ \A i \in 1..(row - 1) : ~Table[i].match
        /\ conditionIsTrue(hcConds, "Available") => conditionIsFalse(hcConds, "Progressing")
        => hcNow = Table[row].status
=============================================================================
