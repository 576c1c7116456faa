----------------------------- MODULE ClusterOps -----------------------------
(***************************************************************************)
(* POST and DELETE of /clusters: internal/handler, the dispatcher and the  *)
(* shared flows CreateCluster and DeleteCluster of internal/cluster.       *)
(*                                                                         *)
(* The service keeps no state and takes no lock: requests run concurrently *)
(* and every Kubernetes call of a request is one step.  Kubernetes is      *)
(* external: an object is known by its name (HostedCluster and NodePool of *)
(* a cluster have the same one), Create fails if the name is taken, Delete *)
(* sets deletionTimestamp on whatever object has the name, and the object  *)
(* disappears when its finalizer is done.  A request's context expires     *)
(* with its deadline; from then on its calls fail without being sent.      *)
(***************************************************************************)
EXTENDS Naturals

CONSTANTS
    Requests,       \* the requests of a behaviour
    InstanceIDs,    \* values for ?id= and for the path parameter
    Names,          \* values for metadata.name
    None,           \* no object, no name
    MaxFaults       \* bound: how many calls may fail while the context is live

ASSUME NoneAssumption == None \notin Names \cup InstanceIDs \cup Requests

ASSUME BoundsAssumption == MaxFaults \in Nat

VARIABLES
    hcs,    \* external: the HostedCluster of each name, or None
    nps,    \* external: the NodePool of each name, or None
    req,    \* the requests
    faults

vars == <<hcs, nps, req, faults>>

(***************************************************************************)
(* What can be wrong with a create request, in the order in which the code *)
(* finds out, and the reply it gets.                                       *)
(***************************************************************************)
ValidationFlaws == {"id", "body"}           \* the handler
PlatformFlaws   == {"platform"}             \* the dispatcher
InfraEnvFlaws   == {"infra_env"}            \* the bare metal service
BaseDomainFlaws == {"base_domain"}          \* CreateCluster
VersionFlaws    == {"version", "image"}     \* not in the matrix, no ClusterImageSet

Flaws ==
    ValidationFlaws \cup PlatformFlaws \cup InfraEnvFlaws \cup BaseDomainFlaws \cup VersionFlaws

FlawReply(flaw) == IF flaw \in PlatformFlaws \cup VersionFlaws THEN 422 ELSE 400

Replies == {0, 201, 204, 400, 404, 409, 422, 500}     \* 0: no reply yet

Object == [id : InstanceIDs, by : Requests, deleting : BOOLEAN]

ASSUME ObjectAssumption == None \notin Object

Request ==
    [pc : {"new", "prepare", "check", "createHC", "createNP", "rollback",
           "find", "listNP", "deleteNP", "deleteHC", "done"},
     op : {"none", "create", "delete"},
     id : InstanceIDs \cup {None}, name : Names \cup {None},
     pools : SUBSET Names,                  \* NodePools listed and not yet deleted
     target : Requests \cup {None},         \* history: who created what find returned
     expired : BOOLEAN,
     unsure : BOOLEAN,                      \* history: a write may have been applied unseen
     reply : Replies]

NewRequest ==
    [pc |-> "new", op |-> "none", id |-> None, name |-> None, pools |-> {},
     target |-> None, expired |-> FALSE, unsure |-> FALSE, reply |-> 0]

TypeOK ==
    /\ hcs \in [Names -> Object \cup {None}]
    /\ nps \in [Names -> Object \cup {None}]
    /\ req \in [Requests -> Request]
    /\ faults \in 0..MaxFaults

Init ==
    /\ hcs = [n \in Names |-> None]
    /\ nps = [n \in Names |-> None]
    /\ req = [p \in Requests |-> NewRequest]
    /\ faults = 0

-----------------------------------------------------------------------------
At(p, pc) == req[p].pc = pc

Live(p) == ~req[p].expired

\* A call fails: the context has expired, or the API server or the network fails it.
Fails(p) ==
    IF req[p].expired THEN UNCHANGED faults
    ELSE faults < MaxFaults /\ faults' = faults + 1

Goto(p, pc) == req' = [req EXCEPT ![p].pc = pc]

Reply(p, code) == req' = [req EXCEPT ![p].pc = "done", ![p].reply = code]

\* As Reply(p, 500), after a write of whose outcome p may be unsure.
ReplyUnsure(p, unsure) ==
    req' = [req EXCEPT ![p].pc = "done", ![p].reply = 500, ![p].unsure = unsure]

Named(objects, id) == {n \in Names : objects[n] # None /\ objects[n].id = id}

\* A Delete by name; whether NotFound is an error is up to the caller.
MarkDeleting(objects, n) ==
    IF objects[n] = None THEN objects ELSE [objects EXCEPT ![n].deleting = TRUE]

\* The answer to a Delete is lost, or it was not sent.
MaybeDeleted(p, objects, n) ==
    IF Live(p) THEN {objects, MarkDeleting(objects, n)} ELSE {objects}

NewObject(p) == [id |-> req[p].id, by |-> p, deleting |-> FALSE]

-----------------------------------------------------------------------------
(* Arrival, deadline, and the HyperShift operator.                         *)

BeginCreate(p, id, n) ==
    /\ At(p, "new")
    /\ req' = [req EXCEPT ![p] = [NewRequest EXCEPT !.pc = "prepare", !.op = "create",
                                                    !.id = id, !.name = n]]
    /\ UNCHANGED <<hcs, nps, faults>>

BeginDelete(p, id) ==
    /\ At(p, "new")
    /\ req' = [req EXCEPT ![p] = [NewRequest EXCEPT !.pc = "find", !.op = "delete", !.id = id]]
    /\ UNCHANGED <<hcs, nps, faults>>

Expire(p) ==
    /\ ~At(p, "new") /\ ~At(p, "done") /\ Live(p)
    /\ req' = [req EXCEPT ![p].expired = TRUE]
    /\ UNCHANGED <<hcs, nps, faults>>

\* The finalizer of a HostedCluster also takes the NodePools of the cluster away.
FinalizeHostedCluster(n) ==
    /\ hcs[n] # None /\ hcs[n].deleting
    /\ hcs' = [hcs EXCEPT ![n] = None]
    /\ nps' = [nps EXCEPT ![n] = None]
    /\ UNCHANGED <<req, faults>>

FinalizeNodePool(n) ==
    /\ nps[n] # None /\ nps[n].deleting
    /\ nps' = [nps EXCEPT ![n] = None]
    /\ UNCHANGED <<hcs, req, faults>>

-----------------------------------------------------------------------------
(* POST.                                                                   *)

\* Validation, platform, base domain and release image: what the request asks for is
\* refused.  Only that no ClusterImageSet has the version takes a call to find out.
Refuse(p, flaw) ==
    /\ At(p, "prepare")
    /\ flaw = "image" => Live(p)
    /\ Reply(p, FlawReply(flaw))
    /\ UNCHANGED <<hcs, nps, faults>>

Prepare(p) ==
    /\ At(p, "prepare")
    /\ Live(p)
    /\ Goto(p, "check")
    /\ UNCHANGED <<hcs, nps, faults>>

\* A List fails: of the ClusterImageSets, or in findByInstanceID or deleteNodePools.
ListFails(p) ==
    /\ req[p].pc \in {"prepare", "check", "find", "listNP"}
    /\ Fails(p)
    /\ Reply(p, 500)
    /\ UNCHANGED <<hcs, nps>>

CheckDuplicate(p) ==
    /\ At(p, "check") /\ Live(p)
    /\ IF Named(hcs, req[p].id) # {} THEN Reply(p, 409) ELSE Goto(p, "createHC")
    /\ UNCHANGED <<hcs, nps, faults>>

CreateHostedCluster(p) ==
    /\ At(p, "createHC") /\ Live(p)
    /\ hcs[req[p].name] = None
    /\ hcs' = [hcs EXCEPT ![req[p].name] = NewObject(p)]
    /\ Goto(p, "createNP")
    /\ UNCHANGED <<nps, faults>>

\* Mutant of NameTaken: a failed HostedCluster creation is rolled back too.
NameTakenRollsBack(p) ==
    /\ At(p, "createHC") /\ Live(p)
    /\ hcs[req[p].name] # None
    /\ Goto(p, "rollback")
    /\ UNCHANGED <<hcs, nps, faults>>

NameTaken(p) ==
    /\ At(p, "createHC") /\ Live(p)
    /\ hcs[req[p].name] # None
    /\ Reply(p, 409)
    /\ UNCHANGED <<hcs, nps, faults>>

\* The answer to a Create is lost: it may have been applied.
MaybeApplied(p, objects) ==
    IF Live(p) /\ objects[req[p].name] = None
    THEN {objects, [objects EXCEPT ![req[p].name] = NewObject(p)]}
    ELSE {objects}

CreateHostedClusterFails(p) ==
    /\ At(p, "createHC")
    /\ Fails(p)
    /\ hcs' \in MaybeApplied(p, hcs)
    /\ ReplyUnsure(p, Live(p))
    /\ UNCHANGED nps

CreateNodePool(p) ==
    /\ At(p, "createNP") /\ Live(p)
    /\ nps[req[p].name] = None
    /\ nps' = [nps EXCEPT ![req[p].name] = NewObject(p)]
    /\ Reply(p, 201)
    /\ UNCHANGED <<hcs, faults>>

\* Mutant of CreateNodePoolFails: no rollback.
CreateNodePoolGivesUp(p) ==
    /\ At(p, "createNP")
    /\ \/ Live(p) /\ nps[req[p].name] # None /\ UNCHANGED <<nps, faults>>
       \/ Fails(p) /\ nps' \in MaybeApplied(p, nps)
    /\ Reply(p, 500)
    /\ UNCHANGED hcs

\* Any error, AlreadyExists included.
CreateNodePoolFails(p) ==
    /\ At(p, "createNP")
    /\ \/ Live(p) /\ nps[req[p].name] # None /\ UNCHANGED <<nps, faults>>
       \/ Fails(p) /\ nps' \in MaybeApplied(p, nps)
    /\ Goto(p, "rollback")
    /\ UNCHANGED hcs

\* Delete of the HostedCluster by name; NotFound is an error here.
Rollback(p) ==
    /\ At(p, "rollback") /\ Live(p)
    /\ hcs' = MarkDeleting(hcs, req[p].name)
    /\ Reply(p, 500)
    /\ UNCHANGED <<nps, faults>>

RollbackFails(p) ==
    /\ At(p, "rollback")
    /\ Fails(p)
    /\ ReplyUnsure(p, TRUE)
    /\ hcs' \in MaybeDeleted(p, hcs, req[p].name)
    /\ UNCHANGED nps

-----------------------------------------------------------------------------
(* DELETE.                                                                 *)

FindNothing(p) ==
    /\ At(p, "find") /\ Live(p)
    /\ Named(hcs, req[p].id) = {}
    /\ Reply(p, 404)
    /\ UNCHANGED <<hcs, nps, faults>>

\* hcList.Items[0]; which one is first is left open.
Find(p, n) ==
    /\ At(p, "find") /\ Live(p)
    /\ n \in Named(hcs, req[p].id)
    /\ req' = [req EXCEPT ![p].pc = "listNP", ![p].name = n, ![p].target = hcs[n].by]
    /\ UNCHANGED <<hcs, nps, faults>>

ListNodePools(p) ==
    /\ At(p, "listNP") /\ Live(p)
    /\ req' = [req EXCEPT ![p].pc = "deleteNP", ![p].pools = Named(nps, req[p].id)]
    /\ UNCHANGED <<hcs, nps, faults>>

\* One round of the loop; NotFound is success.
DeleteNodePool(p, n) ==
    /\ At(p, "deleteNP") /\ Live(p)
    /\ n \in req[p].pools
    /\ nps' = MarkDeleting(nps, n)
    /\ req' = [req EXCEPT ![p].pools = @ \ {n}]
    /\ UNCHANGED <<hcs, faults>>

NodePoolsDeleted(p) ==
    /\ At(p, "deleteNP")
    /\ req[p].pools = {}
    /\ Goto(p, "deleteHC")
    /\ UNCHANGED <<hcs, nps, faults>>

DeleteNodePoolFails(p) ==
    /\ At(p, "deleteNP")
    /\ Fails(p)
    /\ \E n \in req[p].pools : nps' \in MaybeDeleted(p, nps, n)
    /\ Reply(p, 500)
    /\ UNCHANGED hcs

\* Mutant of DeleteHostedCluster: only the NodePools are deleted.
DeleteHostedClusterSkipped(p) ==
    /\ At(p, "deleteHC") /\ Live(p)
    /\ Reply(p, 204)
    /\ UNCHANGED <<hcs, nps, faults>>

DeleteHostedCluster(p) ==
    /\ At(p, "deleteHC") /\ Live(p)
    /\ hcs[req[p].name] # None
    /\ hcs' = MarkDeleting(hcs, req[p].name)
    /\ Reply(p, 204)
    /\ UNCHANGED <<nps, faults>>

\* Any error, NotFound included.
DeleteHostedClusterFails(p) ==
    /\ At(p, "deleteHC")
    /\ \/ Live(p) /\ hcs[req[p].name] = None /\ UNCHANGED <<hcs, faults>>
       \/ Fails(p) /\ hcs' \in MaybeDeleted(p, hcs, req[p].name)
    /\ Reply(p, 500)
    /\ UNCHANGED nps

-----------------------------------------------------------------------------
Create(p) ==
    \/ (\E flaw \in Flaws : Refuse(p, flaw)) \/ Prepare(p) \/ CheckDuplicate(p)
    \/ CreateHostedCluster(p) \/ NameTaken(p) \/ CreateHostedClusterFails(p)
    \/ CreateNodePool(p) \/ CreateNodePoolFails(p)
    \/ Rollback(p) \/ RollbackFails(p)

Delete(p) ==
    \/ FindNothing(p) \/ (\E n \in Names : Find(p, n)) \/ ListNodePools(p)
    \/ (\E n \in Names : DeleteNodePool(p, n)) \/ NodePoolsDeleted(p) \/ DeleteNodePoolFails(p)
    \/ DeleteHostedCluster(p) \/ DeleteHostedClusterFails(p)

\* Every request has its reply.
Quiescent == (\A p \in Requests : At(p, "done")) /\ UNCHANGED vars

Next ==
    \/ \E p \in Requests, id \in InstanceIDs, n \in Names : BeginCreate(p, id, n)
    \/ \E p \in Requests, id \in InstanceIDs : BeginDelete(p, id)
    \/ \E p \in Requests : Expire(p) \/ Create(p) \/ Delete(p) \/ ListFails(p)
    \/ \E n \in Names : FinalizeHostedCluster(n) \/ FinalizeNodePool(n)
    \/ Quiescent

SafetySpec == Init /\ [][Next]_vars

-----------------------------------------------------------------------------
Creates(q) == req[q].op = "create"
Deletes(q) == req[q].op = "delete"

(***************************************************************************)
(* FailedCreateLeavesNothing: a create that answered with an error, all    *)
(* of whose writes are accounted for, has left no HostedCluster of its own *)
(* behind that is not on its way out, whatever else went on.               *)
(***************************************************************************)
FailedCreateLeavesNothing ==
    \A p \in Requests, n \in Names :
        /\ At(p, "done") /\ req[p].reply \notin {201, 204} /\ ~req[p].unsure
        /\ hcs[n] # None /\ hcs[n].by = p
        => hcs[n].deleting

(***************************************************************************)
(* CreatedStays: a cluster whose creation was answered with 201 is there,  *)
(* HostedCluster and NodePool, unless a delete request came for the id of  *)
(* a create of that name, be it this one or an earlier or competing one    *)
(* (deletes go by name).  A competing create of the same name or the same  *)
(* id, with its rollback, takes nothing away from it.                      *)
(***************************************************************************)
CreatedStays ==
    \A p \in Requests :
        LET n == req[p].name IN
        /\ req[p].reply = 201
        /\ \A q, r \in Requests : Deletes(q) /\ Creates(r) /\ req[r].name = n
                                    => req[q].id # req[r].id
        => /\ hcs[n] # None /\ hcs[n].by = p /\ ~hcs[n].deleting
           /\ nps[n] # None /\ nps[n].by = p /\ ~nps[n].deleting

(***************************************************************************)
(* DeletedIsGone: after a 204, and after a 500 to which no failed call and *)
(* no deadline contributed, the very HostedCluster that the request found  *)
(* is being deleted or gone.  The delete goes by name, several calls after *)
(* the lookup, and meanwhile the name may have changed hands: REQ-API-340  *)
(* wants 404 where the HostedCluster is gone, the code answers 500.        *)
(***************************************************************************)
DeletedIsGone ==
    \A q \in Requests, n \in Names :
        /\ req[q].reply = 204 \/ (req[q].reply = 500 /\ Live(q) /\ faults = 0)
        /\ hcs[n] # None /\ hcs[n].by = req[q].target
        => hcs[n].deleting

=============================================================================
