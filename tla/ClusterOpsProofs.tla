-------------------------- MODULE ClusterOpsProofs --------------------------
(***************************************************************************)
(* What a reply says of the cluster, for any number of requests, names,    *)
(* instance ids and failed calls.                                          *)
(*                                                                         *)
(* Writes go by name, so the argument has to tie the objects to requests:  *)
(* a HostedCluster has the name and the id of the create that made it, and *)
(* that create is past its Create call (Made), so no request makes two; a  *)
(* delete request goes for the name of the create that made what it found  *)
(* (Targeted); a request that has replied takes no further step (Replied); *)
(* and one under way has the name and id its calls need (Parsed).          *)
(***************************************************************************)
EXTENDS ClusterOps, TLAPS

PastCreate(c) == Creates(c) /\ req[c].pc \in {"createNP", "rollback", "done"}

Made ==
    \A n \in Names : hcs[n] # None =>
        /\ PastCreate(hcs[n].by)
        /\ req[hcs[n].by].name = n
        /\ req[hcs[n].by].id = hcs[n].id

Targeted ==
    \A q \in Requests : req[q].target # None =>
        /\ PastCreate(req[q].target)
        /\ req[q].name = req[req[q].target].name

Replied == \A q \in Requests : req[q].reply # 0 => At(q, "done")

Parsed(p) ==
    /\ req[p].pc \in {"prepare", "check", "createHC", "createNP", "rollback"} =>
         /\ Creates(p) /\ req[p].target = None
         /\ req[p].name \in Names /\ req[p].id \in InstanceIDs
    /\ req[p].pc \in {"listNP", "deleteNP", "deleteHC"} =>
         req[p].name \in Names /\ req[p].target \in Requests

IInv ==
    /\ TypeOK /\ (\A p \in Requests : Parsed(p)) /\ Made /\ Targeted /\ Replied
    /\ FailedCreateLeavesNothing /\ DeletedIsGone

(***************************************************************************)
(* A failed call is counted within the bound, unless the context expired.  *)
(***************************************************************************)
LEMMA FailsCounted ==
  ASSUME TypeOK, NEW p \in Requests, Fails(p)
  PROVE  faults' \in 0..MaxFaults /\ (Live(p) => faults' # 0) /\ (faults' = 0 => faults = 0)
  BY BoundsAssumption DEF TypeOK, Fails, Live

(***************************************************************************)
(* A Delete by name keeps the map of objects well typed, and changes       *)
(* nothing but deletionTimestamp of the object of that name.               *)
(***************************************************************************)
LEMMA MarkDeletingKeeps ==
  ASSUME NEW objects \in [Names -> Object \cup {None}], NEW n \in Names
  PROVE  /\ MarkDeleting(objects, n) \in [Names -> Object \cup {None}]
         /\ \A m \in Names :
              /\ MarkDeleting(objects, n)[m] = None <=> objects[m] = None
              /\ objects[m] # None =>
                   /\ MarkDeleting(objects, n)[m].by = objects[m].by
                   /\ MarkDeleting(objects, n)[m].id = objects[m].id
                   /\ objects[m].deleting => MarkDeleting(objects, n)[m].deleting
         /\ objects[n] # None => MarkDeleting(objects, n)[n].deleting
  <1>1. CASE objects[n] = None
    BY <1>1 DEF MarkDeleting
  <1>2. CASE objects[n] # None
    <2> DEFINE marked == [objects[n] EXCEPT !.deleting = TRUE]
    <2>1. objects[n] \in Object
      BY <1>2
    <2>2. /\ marked \in Object /\ marked # None
          /\ marked.by = objects[n].by /\ marked.id = objects[n].id /\ marked.deleting
      BY <2>1, ObjectAssumption DEF Object
    <2>3. MarkDeleting(objects, n) = [objects EXCEPT ![n] = marked]
      BY <1>2 DEF MarkDeleting
    <2> HIDE DEF marked
    <2> QED BY <1>2, <2>1, <2>2, <2>3
  <1> QED BY <1>1, <1>2

(***************************************************************************)
(* What Goto, Reply and ReplyUnsure do to the requests: the others stay    *)
(* as they are, and so does what p is about.                               *)
(***************************************************************************)
PCs == {"new", "prepare", "check", "createHC", "createNP", "rollback",
        "find", "listNP", "deleteNP", "deleteHC", "done"}

Only(p) ==
    /\ req' \in [Requests -> Request]
    /\ \A q \in Requests : q # p => req'[q] = req[q]

Same(p) ==
    /\ req'[p].op = req[p].op /\ req'[p].id = req[p].id /\ req'[p].name = req[p].name
    /\ req'[p].target = req[p].target /\ req'[p].expired = req[p].expired

\* Goto changes the place of p and nothing else.
LEMMA GotoEffect ==
  ASSUME TypeOK, NEW p \in Requests, NEW pc \in PCs, Goto(p, pc)
  PROVE  Only(p) /\ Same(p) /\ req'[p].pc = pc /\ req'[p].reply = req[p].reply
  <1>1. req[p] \in Request
    BY DEF TypeOK
  <1>2. [req[p] EXCEPT !.pc = pc] \in Request
    BY <1>1 DEF Request, PCs
  <1>3. /\ req' \in [Requests -> Request]
        /\ \A q \in Requests : q # p => req'[q] = req[q]
        /\ req'[p] = [req[p] EXCEPT !.pc = pc]
    BY <1>1, <1>2 DEF TypeOK, Goto
  <1> QED BY <1>1, <1>3 DEF Only, Same, Request

\* Reply ends p with the given code.
LEMMA ReplyEffect ==
  ASSUME TypeOK, NEW p \in Requests, NEW code \in Replies, Reply(p, code)
  PROVE  Only(p) /\ Same(p) /\ req'[p].pc = "done" /\ req'[p].reply = code
  <1>1. req[p] \in Request
    BY DEF TypeOK
  <1>2. [req[p] EXCEPT !.pc = "done", !.reply = code] \in Request
    BY <1>1 DEF Request
  <1>3. /\ req' \in [Requests -> Request]
        /\ \A q \in Requests : q # p => req'[q] = req[q]
        /\ req'[p] = [req[p] EXCEPT !.pc = "done", !.reply = code]
    BY <1>1, <1>2 DEF TypeOK, Reply
  <1> QED BY <1>1, <1>3 DEF Only, Same, Request

\* ReplyUnsure ends p with 500 and records whether p is unsure.
LEMMA ReplyUnsureEffect ==
  ASSUME TypeOK, NEW p \in Requests, NEW u \in BOOLEAN, ReplyUnsure(p, u)
  PROVE  /\ Only(p) /\ Same(p) /\ req'[p].pc = "done" /\ req'[p].reply = 500
         /\ req'[p].unsure = u
  <1>1. req[p] \in Request /\ 500 \in Replies
    BY DEF TypeOK, Replies
  <1>2. ASSUME NEW code \in Replies
        PROVE  [req[p] EXCEPT !.pc = "done", !.reply = code, !.unsure = u] \in Request
    BY <1>1 DEF Request
  <1>3. [req[p] EXCEPT !.pc = "done", !.reply = 500, !.unsure = u] \in Request
    BY <1>1, <1>2
  <1>4. /\ req' \in [Requests -> Request]
        /\ \A q \in Requests : q # p => req'[q] = req[q]
        /\ req'[p] = [req[p] EXCEPT !.pc = "done", !.reply = 500, !.unsure = u]
    BY <1>1, <1>3 DEF TypeOK, ReplyUnsure
  <1> QED BY <1>1, <1>4 DEF Only, Same, Request

(***************************************************************************)
(* The frame of most steps: no HostedCluster appears and none is taken off *)
(* deletion (Shrinks); one request moves, and neither what it created nor  *)
(* what it found changes (Moves).                                          *)
(***************************************************************************)
Shrinks ==
    /\ hcs' \in [Names -> Object \cup {None}]
    /\ \A n \in Names : hcs'[n] # None =>
         /\ hcs[n] # None /\ hcs'[n].by = hcs[n].by /\ hcs'[n].id = hcs[n].id
         /\ hcs[n].deleting => hcs'[n].deleting

Moves(p) ==
    /\ Only(p)
    /\ PastCreate(p) =>
         PastCreate(p)' /\ req'[p].name = req[p].name /\ req'[p].id = req[p].id
    /\ req'[p].target # None =>
         req'[p].target = req[p].target /\ req'[p].name = req[p].name
    /\ req'[p].reply # 0 => req'[p].pc = "done"
    /\ Parsed(p)'

\* The two properties for the request that moves.
FailureIsClean(p) ==
    At(p, "done")' /\ req'[p].reply \notin {201, 204} /\ ~req'[p].unsure =>
        \A n \in Names : hcs'[n] # None /\ hcs'[n].by = p => hcs'[n].deleting

DeletionIsDone(p) ==
    req'[p].reply = 204 \/ (req'[p].reply = 500 /\ Live(p)' /\ faults' = 0) =>
        \A n \in Names : hcs'[n] # None /\ hcs'[n].by = req'[p].target => hcs'[n].deleting

\* A step within the frame keeps the invariant if it keeps the two properties for
\* the request that moves.
LEMMA Frame ==
  ASSUME IInv, NEW p \in Requests, Shrinks, Moves(p), FailureIsClean(p), DeletionIsDone(p),
         nps' \in [Names -> Object \cup {None}],
         faults' \in 0..MaxFaults, faults' = 0 => faults = 0
  PROVE  IInv'
  <1>1. TypeOK'
    BY DEF Shrinks, Moves, Only, TypeOK
  <1>2. \A c \in Requests : PastCreate(c) =>
          PastCreate(c)' /\ req'[c].name = req[c].name /\ req'[c].id = req[c].id
    BY DEF Moves, Only, PastCreate, Creates
  <1>3. \A n \in Names : hcs[n] # None => hcs[n].by \in Requests
    BY DEF IInv, TypeOK, Object
  <1>4. Made'
    BY <1>2, <1>3 DEF IInv, Made, Shrinks, PastCreate, Creates
  <1>5. \A q \in Requests : req[q].target # None => req[q].target \in Requests
    BY DEF IInv, TypeOK, Request
  <1>6. \A q \in Requests : req'[q].target # None =>
          req'[q].target = req[q].target /\ req'[q].name = req[q].name
    BY DEF Moves, Only
  <1>7. Targeted'
    BY <1>2, <1>5, <1>6 DEF IInv, Targeted, PastCreate, Creates
  <1>a. \A q \in Requests : Parsed(q)'
    BY DEF IInv, Moves, Only, Parsed, Creates
  <1>8. Replied'
    BY DEF IInv, Replied, Moves, Only, At
  <1>9. FailedCreateLeavesNothing'
    BY DEF IInv, FailedCreateLeavesNothing, FailureIsClean, Shrinks, Moves, Only, At
  <1>10. DeletedIsGone'
    BY DEF IInv, DeletedIsGone, DeletionIsDone, Shrinks, Moves, Only, Live
  <1> QED BY <1>1, <1>4, <1>7, <1>a, <1>8, <1>9, <1>10 DEF IInv

(***************************************************************************)
(* A request that is not past its Create call has made no HostedCluster.   *)
(***************************************************************************)
LEMMA NothingMadeYet ==
  ASSUME IInv, NEW p \in Requests, ~PastCreate(p)
  PROVE  \A n \in Names : hcs[n] # None => hcs[n].by # p
  BY DEF IInv, Made

\* Leaving the HostedClusters alone is within the frame.
LEMMA SameHostedClusters == ASSUME IInv, hcs' = hcs PROVE Shrinks
  BY DEF IInv, TypeOK, Shrinks

\* So is a Delete of a HostedCluster by name, which has it deleted.
LEMMA MarkShrinks ==
  ASSUME IInv, NEW n \in Names, hcs' = MarkDeleting(hcs, n)
  PROVE  Shrinks /\ (hcs'[n] # None => hcs'[n].deleting)
  BY MarkDeletingKeeps DEF IInv, TypeOK, Shrinks

(***************************************************************************)
(* A step to another call, and a step to a reply, that leave the           *)
(* HostedClusters alone.                                                   *)
(***************************************************************************)
LEMMA MovesOn ==
  ASSUME IInv, NEW p \in Requests, Moves(p), req'[p].pc # "done", hcs' = hcs,
         nps' \in [Names -> Object \cup {None}],
         faults' \in 0..MaxFaults, faults' = 0 => faults = 0
  PROVE  IInv'
  <1>1. FailureIsClean(p)
    BY DEF FailureIsClean, At
  <1>2. DeletionIsDone(p)
    BY DEF DeletionIsDone, Moves
  <1> QED BY <1>1, <1>2, Frame, SameHostedClusters

\* A refusal or failure of a request that made nothing.
LEMMA Answers ==
  ASSUME IInv, NEW p \in Requests, NEW code \in Replies, Reply(p, code), code # 0,
         ~PastCreate(p), code # 204, code = 500 /\ Live(p) => faults' # 0,
         hcs' = hcs,
         nps' \in [Names -> Object \cup {None}],
         faults' \in 0..MaxFaults, faults' = 0 => faults = 0
  PROVE  IInv'
  <1>1. Only(p) /\ Same(p) /\ req'[p].pc = "done" /\ req'[p].reply = code
    BY ReplyEffect DEF IInv
  <1>3. Moves(p)
    BY <1>1 DEF Moves, Same, Parsed
  <1>4. FailureIsClean(p)
    BY NothingMadeYet DEF FailureIsClean
  <1>5. DeletionIsDone(p)
    BY <1>1 DEF DeletionIsDone, Live, Same
  <1> QED BY <1>3, <1>4, <1>5, Frame, SameHostedClusters

\* The initial record of a request.
LEMMA NewRequestType ==
  NewRequest \in Request /\ NewRequest.target = None /\ NewRequest.reply = 0
  <1>1. 0 \in Replies
    BY DEF Replies
  <1> QED BY <1>1 DEF NewRequest, Request

(***************************************************************************)
(* Init establishes the invariant.                                         *)
(***************************************************************************)
LEMMA InitIInv == Init => IInv
  <1> SUFFICES ASSUME Init PROVE IInv
    OBVIOUS
  <1>1. NewRequest \in Request
    BY NewRequestType
  <1>2. TypeOK
    BY <1>1, BoundsAssumption DEF Init, TypeOK
  <1>3. \A p \in Requests : req[p] = NewRequest
    BY DEF Init
  <1> QED
    BY <1>2, <1>3 DEF Init, NewRequest, IInv, Parsed, Made, Targeted, Replied,
                      FailedCreateLeavesNothing, DeletedIsGone

(***************************************************************************)
(* Arrival and deadline.                                                   *)
(***************************************************************************)
LEMMA BeginKeeps ==
  ASSUME IInv, NEW p \in Requests, NEW id \in InstanceIDs,
         BeginDelete(p, id) \/ \E n \in Names : BeginCreate(p, id, n)
  PROVE  IInv'
  <1> USE DEF IInv, TypeOK
  <1>1. /\ At(p, "new") /\ UNCHANGED <<hcs, nps, faults>>
        /\ \E r \in Request :
             /\ req' = [req EXCEPT ![p] = r]
             /\ r.target = None /\ r.reply = 0
             /\ \/ r.pc = "find"
                \/ r.pc = "prepare" /\ r.op = "create" /\ r.id \in InstanceIDs /\ r.name \in Names
    <2>1. CASE BeginDelete(p, id)
      <3> DEFINE r == [NewRequest EXCEPT !.pc = "find", !.op = "delete", !.id = id]
      <3>1. r \in Request /\ r.target = None /\ r.reply = 0 /\ r.pc = "find"
        BY NewRequestType DEF Request
      <3> QED BY <2>1, <3>1 DEF BeginDelete
    <2>2. ASSUME NEW n \in Names, BeginCreate(p, id, n) PROVE <1>1!:
      <3> DEFINE r == [NewRequest EXCEPT !.pc = "prepare", !.op = "create", !.id = id, !.name = n]
      <3>1. /\ r \in Request /\ r.target = None /\ r.reply = 0
            /\ r.pc = "prepare" /\ r.op = "create" /\ r.id \in InstanceIDs /\ r.name \in Names
        BY NewRequestType DEF Request
      <3> QED BY <2>2, <3>1 DEF BeginCreate
    <2> QED BY <2>1, <2>2
  <1>2. Moves(p)
    BY <1>1 DEF Moves, Only, PastCreate, At, Parsed, Creates
  <1>3. ~At(p, "done")' /\ req'[p].reply = 0
    BY <1>1 DEF At
  <1> QED
    BY <1>1, <1>2, <1>3, Frame, SameHostedClusters DEF FailureIsClean, DeletionIsDone

\* The deadline of a request only makes its later calls fail.
LEMMA ExpireKeeps == ASSUME IInv, NEW p \in Requests, Expire(p) PROVE IInv'
  <1> DEFINE r == [req[p] EXCEPT !.expired = TRUE]
  <1>1. req[p] \in Request
    BY DEF IInv, TypeOK
  <1>2. r \in Request
    BY <1>1 DEF Request
  <1>3. req' = [req EXCEPT ![p] = r] /\ ~At(p, "done")
    BY DEF Expire
  <1>4. Moves(p) /\ ~At(p, "done")' /\ req'[p].reply = 0
    BY <1>1, <1>2, <1>3 DEF IInv, TypeOK, Moves, Only, PastCreate, Creates, At, Parsed, Replied, Request
  <1>5. hcs' = hcs /\ nps' \in [Names -> Object \cup {None}] /\ faults' = faults
    BY DEF Expire, IInv, TypeOK
  <1> QED
    BY <1>4, <1>5, MovesOn DEF At, IInv, TypeOK

(***************************************************************************)
(* POST up to the creation of the HostedCluster.                           *)
(***************************************************************************)
LEMMA Unchanged ==
  ASSUME IInv
  PROVE  /\ nps' = nps => nps' \in [Names -> Object \cup {None}]
         /\ faults' = faults => faults' \in 0..MaxFaults /\ (faults' = 0 => faults = 0)
  BY DEF IInv, TypeOK

\* A step to the next call of the same operation is within the frame.
LEMMA GotoMoves ==
  ASSUME IInv, NEW p \in Requests, NEW pc \in PCs \ {"new", "done"}, Goto(p, pc),
         ~At(p, "done"), PastCreate(p) => pc = "rollback",
         pc \in {"prepare", "check", "createHC", "createNP", "rollback"} =>
            req[p].pc \in {"prepare", "check", "createHC", "createNP", "rollback"},
         pc \in {"listNP", "deleteNP", "deleteHC"} => req[p].pc \in {"listNP", "deleteNP", "deleteHC"}
  PROVE  Moves(p) /\ req'[p].pc # "done"
  <1>1. Only(p) /\ Same(p) /\ req'[p].pc = pc /\ req'[p].reply = req[p].reply
    BY GotoEffect DEF IInv
  <1>3. req[p].reply = 0
    BY DEF IInv, Replied
  <1>4. Parsed(p)'
    BY <1>1 DEF IInv, Parsed, Creates, Same
  <1> QED
    BY <1>1, <1>3, <1>4 DEF Moves, Same, PastCreate, Creates

\* Refusals, the duplicate check, a taken name and failed Lists: the request has
\* made nothing yet.
LEMMA CreateBeginsKeeps ==
  ASSUME IInv, NEW p \in Requests,
         \/ \E flaw \in Flaws : Refuse(p, flaw)
         \/ Prepare(p) \/ CheckDuplicate(p) \/ NameTaken(p) \/ ListFails(p)
  PROVE  IInv'
  <1> USE DEF At, PastCreate
  <1>1. CASE \E flaw \in Flaws : Refuse(p, flaw)
    <2>1. PICK flaw \in Flaws : Refuse(p, flaw)
      BY <1>1
    <2>2. FlawReply(flaw) \in Replies /\ FlawReply(flaw) \notin {0, 204, 500}
      BY DEF FlawReply, Replies
    <2> QED BY <2>1, <2>2, Answers, Unchanged DEF Refuse
  <1>2. CASE Prepare(p)
    BY <1>2, GotoMoves, MovesOn, Unchanged DEF Prepare, PCs
  <1>3. CASE CheckDuplicate(p)
    <2>1. CASE Reply(p, 409)
      BY <1>3, <2>1, Answers, Unchanged DEF CheckDuplicate, Replies
    <2>2. CASE Goto(p, "createHC")
      BY <1>3, <2>2, GotoMoves, MovesOn, Unchanged DEF CheckDuplicate, PCs
    <2> QED BY <1>3, <2>1, <2>2 DEF CheckDuplicate
  <1>4. CASE NameTaken(p)
    BY <1>4, Answers, Unchanged DEF NameTaken, Replies
  <1>5. CASE ListFails(p)
    <2>1. TypeOK
      BY DEF IInv
    <2> QED BY <1>5, <2>1, FailsCounted, Answers, Unchanged DEF ListFails, Replies
  <1> QED BY <1>1, <1>2, <1>3, <1>4, <1>5

(***************************************************************************)
(* The HostedCluster is created: it is the first of its request, so no     *)
(* delete request has found it and no reply speaks of it yet.              *)
(***************************************************************************)
LEMMA NewObjectType ==
  ASSUME IInv, NEW p \in Requests, req[p].pc \in {"createHC", "createNP"}
  PROVE  /\ NewObject(p) \in Object /\ NewObject(p) # None
         /\ NewObject(p).by = p /\ NewObject(p).id = req[p].id /\ req[p].name \in Names
  <1>1. req[p].id \in InstanceIDs /\ req[p].name \in Names
    BY DEF IInv, Parsed
  <1>2. NewObject(p) \in Object
    BY <1>1 DEF NewObject, Object
  <1> QED BY <1>1, <1>2, ObjectAssumption DEF NewObject

\* The object appears on the hub, its answer received (createNP) or lost (done,
\* unsure).
LEMMA HostedClusterMade ==
  ASSUME IInv, NEW p \in Requests, At(p, "createHC"),
         hcs' = [hcs EXCEPT ![req[p].name] = NewObject(p)],
         Only(p), Same(p), req'[p].pc \in {"createNP", "done"},
         req'[p].pc = "createNP" => req'[p].reply = 0,
         req'[p].pc = "done" => req'[p].reply = 500 /\ req'[p].unsure /\ faults' # 0,
         nps' = nps, faults' \in 0..MaxFaults, faults' = 0 => faults = 0
  PROVE  IInv'
  <1>1. /\ NewObject(p) \in Object /\ NewObject(p) # None
        /\ NewObject(p).by = p /\ NewObject(p).id = req[p].id /\ req[p].name \in Names
    BY NewObjectType DEF At
  <1>2. ~PastCreate(p) /\ Creates(p) /\ req[p].id \in InstanceIDs /\ req[p].target = None
    BY DEF IInv, Parsed, PastCreate, At
  <1> USE DEF Only, Same
  <1>3. TypeOK'
    BY <1>1 DEF IInv, TypeOK
  <1>4. /\ hcs'[req[p].name] = NewObject(p)
        /\ \A n \in Names : n # req[p].name => hcs'[n] = hcs[n]
    BY <1>1 DEF IInv, TypeOK
  <1>5. \A c \in Requests : PastCreate(c) => c # p /\ PastCreate(c)' /\ req'[c] = req[c]
    BY <1>2 DEF PastCreate, Creates
  <1>6. PastCreate(p)'
    BY <1>2 DEF PastCreate, Creates
  <1>7. \A n \in Names : hcs[n] # None => hcs[n].by \in Requests /\ hcs[n].by # p
    BY <1>2, NothingMadeYet DEF IInv, TypeOK, Object
  <1>8. Made'
    BY <1>1, <1>4, <1>5, <1>6, <1>7 DEF IInv, Made, PastCreate, Creates
  <1>9. \A q \in Requests : req'[q].target = req[q].target /\ req'[q].name = req[q].name
    OBVIOUS
  <1>10. \A q \in Requests : req[q].target # None =>
           req[q].target \in Requests /\ PastCreate(req[q].target) /\ req[q].target # p
    BY <1>2 DEF IInv, TypeOK, Request, Targeted
  <1>11. Targeted'
    BY <1>5, <1>9, <1>10 DEF IInv, Targeted, PastCreate, Creates
  <1>12. \A q \in Requests : Parsed(q)'
    BY <1>1, <1>2 DEF IInv, Parsed, Creates
  <1>13. Replied'
    BY DEF IInv, Replied, At
  <1>14. FailedCreateLeavesNothing'
    BY <1>1, <1>4, <1>7 DEF IInv, FailedCreateLeavesNothing, At
  <1>15. p # None
    BY NoneAssumption
  <1>16. ASSUME NEW q \in Requests, NEW n \in Names,
                (req[q].reply = 204 \/ (req[q].reply = 500 /\ Live(q) /\ faults = 0))',
                hcs'[n] # None, hcs'[n].by = req'[q].target
         PROVE  hcs'[n].deleting
    <2>1. n # req[p].name
      BY <1>1, <1>4, <1>9, <1>10, <1>15, <1>16
    <2>2. hcs'[n] = hcs[n] /\ hcs[n].by = req[q].target
      BY <2>1, <1>4, <1>9, <1>16
    <2>3. q # p
      BY <1>16
    <2> QED BY <2>2, <2>3, <1>16 DEF IInv, DeletedIsGone, Live
  <1>17. DeletedIsGone'
    BY <1>16 DEF DeletedIsGone
  <1> QED
    BY <1>3, <1>8, <1>11, <1>12, <1>13, <1>14, <1>17 DEF IInv

\* Create of the HostedCluster, answered, failed, or applied with the answer lost.
LEMMA CreateHostedClusterKeeps ==
  ASSUME IInv, NEW p \in Requests, CreateHostedCluster(p) \/ CreateHostedClusterFails(p)
  PROVE  IInv'
  <1>0. TypeOK /\ At(p, "createHC") /\ ~PastCreate(p)
    BY DEF IInv, CreateHostedCluster, CreateHostedClusterFails, PastCreate, At
  <1>1. CASE CreateHostedCluster(p)
    <2>1. Only(p) /\ Same(p) /\ req'[p].pc = "createNP" /\ req'[p].reply = req[p].reply
      BY <1>0, <1>1, GotoEffect DEF CreateHostedCluster, PCs
    <2>2. req[p].reply = 0
      BY <1>0 DEF IInv, Replied, At
    <2> QED
      BY <1>0, <1>1, <2>1, <2>2, HostedClusterMade, Unchanged DEF CreateHostedCluster
  <1>2. CASE CreateHostedClusterFails(p)
    <2>1. Live(p) \in BOOLEAN
      BY DEF Live
    <2>2. /\ Only(p) /\ Same(p) /\ req'[p].pc = "done" /\ req'[p].reply = 500
          /\ req'[p].unsure = Live(p)
      BY <1>0, <1>2, <2>1, ReplyUnsureEffect DEF CreateHostedClusterFails
    <2>3. faults' \in 0..MaxFaults /\ (Live(p) => faults' # 0) /\ (faults' = 0 => faults = 0)
      BY <1>0, <1>2, FailsCounted DEF CreateHostedClusterFails
    <2>4. nps' = nps
      BY <1>2 DEF CreateHostedClusterFails
    <2>5. CASE Live(p) /\ hcs' = [hcs EXCEPT ![req[p].name] = NewObject(p)]
      BY <1>0, <2>2, <2>3, <2>4, <2>5, HostedClusterMade
    <2>6. CASE hcs' = hcs
      <3>1. Moves(p)
        BY <1>0, <2>2 DEF Moves, Same, Parsed
      <3>2. FailureIsClean(p)
        BY <1>0, <2>6, NothingMadeYet DEF FailureIsClean
      <3>3. DeletionIsDone(p)
        BY <2>2, <2>3 DEF DeletionIsDone, Live, Same
      <3> QED BY <2>3, <2>4, <2>6, <3>1, <3>2, <3>3, Frame, SameHostedClusters, Unchanged
    <2> QED BY <1>2, <2>5, <2>6 DEF CreateHostedClusterFails, MaybeApplied
  <1> QED BY <1>1, <1>2

(***************************************************************************)
(* The rest of POST: the HostedCluster stays with a 201, and is deleted    *)
(* by its name when the NodePool could not be created.                     *)
(***************************************************************************)
LEMMA MaybeAppliedType ==
  ASSUME IInv, NEW p \in Requests, At(p, "createNP"), nps' \in MaybeApplied(p, nps)
  PROVE  nps' \in [Names -> Object \cup {None}]
  BY NewObjectType DEF At, IInv, TypeOK, MaybeApplied

\* A NodePool that is created ends the request with 201, every error leads to the
\* rollback.
LEMMA CreateNodePoolKeeps ==
  ASSUME IInv, NEW p \in Requests, CreateNodePool(p) \/ CreateNodePoolFails(p)
  PROVE  IInv'
  <1> USE DEF At
  <1>0. TypeOK /\ req[p] \in Request /\ req[p].pc = "createNP"
    BY DEF IInv, TypeOK, CreateNodePool, CreateNodePoolFails
  <1>1. CASE CreateNodePool(p)
    <2>1. 201 \in Replies /\ Reply(p, 201)
      BY <1>1 DEF CreateNodePool, Replies
    <2>2. Only(p) /\ Same(p) /\ req'[p].pc = "done" /\ req'[p].reply = 201
      BY <1>0, <2>1, ReplyEffect
    <2>3. Moves(p)
      BY <2>2 DEF Moves, Same, Parsed, PastCreate, Creates
    <2>4. FailureIsClean(p) /\ DeletionIsDone(p)
      BY <2>2 DEF FailureIsClean, DeletionIsDone
    <2>5. nps' \in [Names -> Object \cup {None}]
      BY <1>0, <1>1, NewObjectType DEF CreateNodePool, TypeOK
    <2>6. hcs' = hcs /\ faults' = faults
      BY <1>1 DEF CreateNodePool
    <2> QED BY <2>3, <2>4, <2>5, <2>6, Frame, SameHostedClusters, Unchanged
  <1>2. CASE CreateNodePoolFails(p)
    <2>1. Moves(p) /\ req'[p].pc # "done"
      BY <1>0, <1>2, GotoMoves DEF CreateNodePoolFails, PCs
    <2>2. hcs' = hcs
      BY <1>2 DEF CreateNodePoolFails
    <2>3. CASE UNCHANGED <<nps, faults>>
      BY <2>1, <2>2, <2>3, MovesOn, Unchanged
    <2>4. CASE Fails(p) /\ nps' \in MaybeApplied(p, nps)
      BY <1>0, <2>1, <2>2, <2>4, MovesOn, FailsCounted, MaybeAppliedType
    <2> QED BY <1>2, <2>3, <2>4 DEF CreateNodePoolFails
  <1> QED BY <1>1, <1>2

\* A Delete whose answer is lost is within the frame, applied or not.
LEMMA MaybeDeletedShrinks ==
  ASSUME IInv, NEW p \in Requests, NEW n \in Names, hcs' \in MaybeDeleted(p, hcs, n)
  PROVE  Shrinks
  BY MarkShrinks, SameHostedClusters DEF MaybeDeleted

\* A rollback that fails leaves the request unsure.
LEMMA RollbackUnsure ==
  ASSUME IInv, NEW p \in Requests, RollbackFails(p)
  PROVE  Only(p) /\ Same(p) /\ req'[p].pc = "done" /\ req'[p].reply = 500 /\ req'[p].unsure
  <1>1. TypeOK
    BY DEF IInv
  <1>2. PICK u \in BOOLEAN : (u = TRUE) /\ ReplyUnsure(p, u)
    BY DEF RollbackFails
  <1>3. ReplyUnsure(p, u)
    BY <1>2
  <1>4. /\ Only(p) /\ Same(p) /\ req'[p].pc = "done" /\ req'[p].reply = 500
        /\ req'[p].unsure = u
    BY <1>1, <1>3, ReplyUnsureEffect
  <1> QED BY <1>2, <1>4

\* The rollback deletes the HostedCluster by the name under which this request made
\* its only one; if it fails the request is unsure.
LEMMA RollbackKeeps ==
  ASSUME IInv, NEW p \in Requests, Rollback(p) \/ RollbackFails(p)
  PROVE  IInv'
  <1> USE DEF At
  <1>0. TypeOK /\ req[p] \in Request /\ req[p].pc = "rollback"
    BY DEF IInv, TypeOK, Rollback, RollbackFails
  <1>a. req[p].name \in Names /\ nps' \in [Names -> Object \cup {None}]
    BY <1>0, Unchanged DEF IInv, Parsed, Rollback, RollbackFails
  <1>b. Only(p) /\ Same(p) /\ req'[p].pc = "done" /\ req'[p].reply = 500
    <2>1. 500 \in Replies
      BY DEF Replies
    <2>2. CASE Rollback(p)
      BY <1>0, <2>1, <2>2, ReplyEffect DEF Rollback
    <2>3. CASE RollbackFails(p)
      BY <2>3, RollbackUnsure
    <2> QED BY <2>2, <2>3
  <1>c. Moves(p)
    BY <1>b DEF Moves, Same, Parsed, PastCreate, Creates
  <1>d. \A n \in Names : hcs[n] # None /\ hcs[n].by = p => n = req[p].name
    BY DEF IInv, Made
  <1>e. \A n \in Names : hcs[n] # None => hcs[n].by # req[p].target
    BY <1>0, <1>a, NoneAssumption DEF IInv, TypeOK, Object, Parsed
  <1>1. CASE Rollback(p)
    <2>1. Shrinks /\ (hcs'[req[p].name] # None => hcs'[req[p].name].deleting)
      BY <1>1, <1>a, MarkShrinks DEF Rollback
    <2>2. FailureIsClean(p)
      BY <2>1, <1>d DEF FailureIsClean, Shrinks
    <2>3. DeletionIsDone(p)
      BY <2>1, <1>b, <1>e DEF DeletionIsDone, Shrinks, Same
    <2>4. faults' = faults
      BY <1>1 DEF Rollback
    <2> QED BY <1>a, <1>c, <2>1, <2>2, <2>3, <2>4, Frame, Unchanged
  <1>2. CASE RollbackFails(p)
    <2>1. Shrinks
      BY <1>2, <1>a, MaybeDeletedShrinks DEF RollbackFails
    <2>2. FailureIsClean(p)
      BY <1>2, RollbackUnsure DEF FailureIsClean
    <2>3. DeletionIsDone(p)
      BY <2>1, <1>b, <1>e DEF DeletionIsDone, Shrinks, Same
    <2>4. Fails(p)
      BY <1>2 DEF RollbackFails
    <2> QED BY <1>0, <1>a, <1>c, <2>1, <2>2, <2>3, <2>4, Frame, FailsCounted
  <1> QED BY <1>1, <1>2

(***************************************************************************)
(* DELETE: the lookup ties the request to the create that made what it     *)
(* found, and the HostedCluster of that create can only have this name.    *)
(***************************************************************************)
LEMMA FindKeeps == ASSUME IInv, NEW p \in Requests, NEW n \in Names, Find(p, n) PROVE IInv'
  <1> DEFINE c == hcs[n].by
  <1> DEFINE r == [req[p] EXCEPT !.pc = "listNP", !.name = n, !.target = c]
  <1>1. At(p, "find") /\ hcs[n] # None /\ UNCHANGED <<hcs, nps, faults>>
    BY DEF Find, Named
  <1>2. req[p] \in Request /\ c \in Requests /\ TypeOK
    BY <1>1 DEF IInv, TypeOK, Object
  <1>3. /\ r \in Request
        /\ r.pc = "listNP" /\ r.name = n /\ r.target = c /\ r.reply = req[p].reply
    BY <1>2 DEF Request
  <1>4. req' = [req EXCEPT ![p] = r]
    BY DEF Find
  <1>5. PastCreate(c) /\ req[c].name = n /\ c # p /\ ~PastCreate(p)
    BY <1>1 DEF IInv, Made, PastCreate, At
  <1>6. req[p].reply = 0
    BY <1>1 DEF IInv, Replied, At
  <1> HIDE DEF r, c
  <1>7. Only(p) /\ req'[p] = r
    BY <1>2, <1>3, <1>4 DEF Only, TypeOK
  <1>8. TypeOK'
    BY <1>1, <1>2, <1>7 DEF TypeOK, Only
  <1>9. \A d \in Requests : PastCreate(d) => d # p /\ PastCreate(d)' /\ req'[d] = req[d]
    BY <1>5, <1>7 DEF PastCreate, Creates, Only
  <1>10. \A m \in Names : hcs[m] # None => hcs[m].by \in Requests
    BY <1>2 DEF TypeOK, Object
  <1>11. Made'
    BY <1>1, <1>9, <1>10 DEF IInv, Made
  <1>12. \A q \in Requests : req[q].target # None => req[q].target \in Requests
    BY <1>2 DEF TypeOK, Request
  <1>13. Targeted'
    BY <1>2, <1>3, <1>5, <1>7, <1>9, <1>12 DEF IInv, Targeted, Only
  <1>14. (\A q \in Requests : Parsed(q)') /\ Replied'
    BY <1>2, <1>3, <1>6, <1>7 DEF IInv, Parsed, Creates, Replied, At, Only
  <1>15. FailedCreateLeavesNothing'
    BY <1>1, <1>3, <1>7 DEF IInv, FailedCreateLeavesNothing, At, Only
  <1>16. DeletedIsGone'
    BY <1>1, <1>3, <1>6, <1>7 DEF IInv, DeletedIsGone, Live, Only
  <1> QED BY <1>8, <1>11, <1>13, <1>14, <1>15, <1>16 DEF IInv

\* The loop over the NodePools touches no HostedCluster.
LEMMA PoolsKeep ==
  ASSUME IInv, NEW p \in Requests,
         ListNodePools(p) \/ NodePoolsDeleted(p) \/ \E n \in Names : DeleteNodePool(p, n)
  PROVE  IInv'
  <1>0. req[p] \in Request /\ TypeOK /\ ~PastCreate(p)
    BY DEF IInv, TypeOK, ListNodePools, NodePoolsDeleted, DeleteNodePool, PastCreate, At
  <1>1. CASE NodePoolsDeleted(p)
    BY <1>0, <1>1, GotoMoves, MovesOn, Unchanged DEF NodePoolsDeleted, PCs, At
  <1>2. ASSUME NEW r \in Request, req' = [req EXCEPT ![p] = r], r.pc = "deleteNP",
               req[p].pc \in {"listNP", "deleteNP"},
               r.name = req[p].name, r.target = req[p].target, r.reply = req[p].reply,
               hcs' = hcs, nps' \in [Names -> Object \cup {None}], faults' = faults
        PROVE  IInv'
    <2>1. Only(p) /\ req'[p] = r
      BY <1>0, <1>2 DEF Only, TypeOK
    <2>2. req[p].reply = 0
      BY <1>2 DEF IInv, Replied, At
    <2>3. Parsed(p)'
      BY <1>2, <2>1 DEF IInv, Parsed
    <2>4. Moves(p) /\ req'[p].pc # "done"
      BY <1>0, <1>2, <2>1, <2>2, <2>3 DEF Moves
    <2> QED BY <1>2, <2>4, MovesOn, Unchanged
  <1>3. CASE ListNodePools(p)
    <2> DEFINE r == [req[p] EXCEPT !.pc = "deleteNP", !.pools = Named(nps, req[p].id)]
    <2>1. Named(nps, req[p].id) \in SUBSET Names
      BY DEF Named
    <2>2. /\ r \in Request /\ r.pc = "deleteNP"
          /\ r.name = req[p].name /\ r.target = req[p].target /\ r.reply = req[p].reply
      BY <1>0, <2>1 DEF Request
    <2>3. /\ req' = [req EXCEPT ![p] = r] /\ req[p].pc = "listNP"
          /\ hcs' = hcs /\ nps' = nps /\ faults' = faults
      BY <1>3 DEF ListNodePools, At
    <2> HIDE DEF r
    <2> QED BY <2>2, <2>3, <1>2, Unchanged
  <1>4. ASSUME NEW n \in Names, DeleteNodePool(p, n) PROVE IInv'
    <2> DEFINE r == [req[p] EXCEPT !.pools = req[p].pools \ {n}]
    <2>1. req[p].pc = "deleteNP" /\ req' = [req EXCEPT ![p] = r]
      BY <1>4 DEF DeleteNodePool, At
    <2>2. /\ r \in Request /\ r.pc = req[p].pc
          /\ r.name = req[p].name /\ r.target = req[p].target /\ r.reply = req[p].reply
      BY <1>0 DEF Request
    <2>3. nps' \in [Names -> Object \cup {None}] /\ hcs' = hcs /\ faults' = faults
      BY <1>0, <1>4, MarkDeletingKeeps DEF DeleteNodePool, TypeOK
    <2> HIDE DEF r
    <2> QED BY <2>1, <2>2, <2>3, <1>2
  <1> QED BY <1>1, <1>3, <1>4

\* A lookup that finds nothing, and a NodePool that cannot be deleted.
LEMMA DeleteFailsKeeps ==
  ASSUME IInv, NEW p \in Requests, FindNothing(p) \/ DeleteNodePoolFails(p)
  PROVE  IInv'
  <1>1. CASE FindNothing(p)
    BY <1>1, Answers, Unchanged DEF FindNothing, Replies, At, PastCreate
  <1>2. CASE DeleteNodePoolFails(p)
    <2>1. TypeOK /\ 500 \in Replies /\ ~PastCreate(p)
      BY <1>2 DEF IInv, Replies, DeleteNodePoolFails, At, PastCreate
    <2>2. PICK n \in req[p].pools : nps' \in MaybeDeleted(p, nps, n)
      BY <1>2 DEF DeleteNodePoolFails
    <2>3. n \in Names
      BY <2>1 DEF TypeOK, Request
    <2>4. nps' \in [Names -> Object \cup {None}]
      BY <2>1, <2>2, <2>3, MarkDeletingKeeps DEF MaybeDeleted, TypeOK
    <2> QED BY <1>2, <2>1, <2>4, FailsCounted, Answers DEF DeleteNodePoolFails
  <1> QED BY <1>1, <1>2

\* The Delete by name: the target's HostedCluster has this name or is gone, so that
\* one is deleted whoever owns the name now.
LEMMA DeleteHostedClusterKeeps ==
  ASSUME IInv, NEW p \in Requests, DeleteHostedCluster(p) \/ DeleteHostedClusterFails(p)
  PROVE  IInv'
  <1>0. /\ TypeOK /\ At(p, "deleteHC") /\ ~PastCreate(p) /\ nps' = nps
        /\ {204, 500} \subseteq Replies
    BY DEF IInv, DeleteHostedCluster, DeleteHostedClusterFails, At, PastCreate, Replies
  <1>1. PICK code \in {204, 500} : Reply(p, code) /\ (DeleteHostedClusterFails(p) => code = 500)
    BY DEF DeleteHostedCluster, DeleteHostedClusterFails
  <1>2. Only(p) /\ Same(p) /\ req'[p].pc = "done" /\ req'[p].reply = code
    BY <1>0, <1>1, ReplyEffect
  <1>3. Moves(p)
    BY <1>0, <1>1, <1>2 DEF Moves, Same, Parsed
  <1>4. req[p].name \in Names
    BY <1>0 DEF IInv, Parsed, At
  <1>a. req[p].target # None
    BY <1>0, NoneAssumption DEF IInv, Parsed, At
  <1>b. req[req[p].target].name = req[p].name
    BY <1>a DEF IInv, Targeted
  <1>5. \A n \in Names : hcs[n] # None /\ hcs[n].by = req[p].target => n = req[p].name
    BY <1>b DEF IInv, Made
  <1>6. Shrinks => FailureIsClean(p)
    BY <1>0, NothingMadeYet DEF Shrinks, FailureIsClean
  <1>7. CASE DeleteHostedCluster(p)
    <2>1. Shrinks /\ (hcs'[req[p].name] # None => hcs'[req[p].name].deleting)
      BY <1>7, <1>4, MarkShrinks DEF DeleteHostedCluster
    <2>2. DeletionIsDone(p)
      BY <2>1, <1>2, <1>5 DEF DeletionIsDone, Shrinks, Same
    <2>3. faults' = faults
      BY <1>7 DEF DeleteHostedCluster
    <2> QED BY <1>0, <1>3, <1>6, <2>1, <2>2, <2>3, Frame, Unchanged
  <1>8. CASE DeleteHostedClusterFails(p) /\ hcs[req[p].name] = None /\ UNCHANGED <<hcs, faults>>
    <2>1. DeletionIsDone(p)
      BY <1>2, <1>5, <1>8 DEF DeletionIsDone, Same
    <2> QED BY <1>0, <1>3, <1>6, <1>8, <2>1, Frame, SameHostedClusters, Unchanged
  <1>9. CASE DeleteHostedClusterFails(p) /\ Fails(p) /\ hcs' \in MaybeDeleted(p, hcs, req[p].name)
    <2>1. Shrinks
      BY <1>4, <1>9, MaybeDeletedShrinks
    <2>2. faults' \in 0..MaxFaults /\ (Live(p) => faults' # 0) /\ (faults' = 0 => faults = 0)
      BY <1>0, <1>9, FailsCounted
    <2>3. DeletionIsDone(p)
      BY <1>1, <1>2, <1>9, <2>2 DEF DeletionIsDone, Live, Same
    <2> QED BY <1>0, <1>3, <1>6, <2>1, <2>2, <2>3, Frame, Unchanged
  <1> QED BY <1>7, <1>8, <1>9 DEF DeleteHostedClusterFails

(***************************************************************************)
(* Steps that leave the requests alone: the operator, and stuttering.      *)
(***************************************************************************)
LEMMA OthersKeep ==
  ASSUME IInv, req' = req, faults' = faults, Shrinks, nps' \in [Names -> Object \cup {None}]
  PROVE  IInv'
  <1>1. TypeOK' /\ Targeted' /\ Replied' /\ \A p \in Requests : Parsed(p)'
    BY DEF IInv, TypeOK, Shrinks, Targeted, Replied, Parsed, PastCreate, Creates, At
  <1>2. Made'
    BY DEF IInv, Made, Shrinks, PastCreate, Creates
  <1>3. FailedCreateLeavesNothing' /\ DeletedIsGone'
    BY DEF IInv, FailedCreateLeavesNothing, DeletedIsGone, Shrinks, At, Live
  <1> QED BY <1>1, <1>2, <1>3 DEF IInv

\* The operator takes objects away.
LEMMA FinalizeKeeps ==
  ASSUME IInv, NEW n \in Names, FinalizeHostedCluster(n) \/ FinalizeNodePool(n)
  PROVE  IInv'
  <1>1. nps' \in [Names -> Object \cup {None}] /\ req' = req /\ faults' = faults
    BY DEF IInv, TypeOK, FinalizeHostedCluster, FinalizeNodePool
  <1>2. Shrinks
    BY DEF IInv, TypeOK, FinalizeHostedCluster, FinalizeNodePool, Shrinks
  <1> QED BY <1>1, <1>2, OthersKeep

\* Every step keeps the invariant.
LEMMA NextIInv == IInv /\ [Next]_vars => IInv'
  <1> SUFFICES ASSUME IInv, [Next]_vars PROVE IInv'
    OBVIOUS
  <1>1. CASE UNCHANGED vars
    <2>1. req' = req /\ faults' = faults /\ hcs' = hcs /\ nps' = nps
      BY <1>1 DEF vars
    <2> QED BY <2>1, OthersKeep, SameHostedClusters, Unchanged
  <1>2. ASSUME NEW p \in Requests, Create(p) PROVE IInv'
    BY <1>2, CreateBeginsKeeps, CreateHostedClusterKeeps, CreateNodePoolKeeps, RollbackKeeps
       DEF Create
  <1>3. ASSUME NEW p \in Requests, Delete(p) PROVE IInv'
    BY <1>3, FindKeeps, PoolsKeep, DeleteFailsKeeps, DeleteHostedClusterKeeps DEF Delete
  <1>4. ASSUME NEW p \in Requests, Expire(p) \/ ListFails(p) PROVE IInv'
    BY <1>4, ExpireKeeps, CreateBeginsKeeps
  <1> QED
    BY <1>1, <1>2, <1>3, <1>4, BeginKeeps, FinalizeKeeps DEF Next, Quiescent

(***************************************************************************)
(* The invariant holds in every reachable state.                           *)
(***************************************************************************)
THEOREM Invariance == SafetySpec => []IInv
  BY InitIInv, NextIInv, PTL DEF SafetySpec

(***************************************************************************)
(* Requests and objects are well typed: every object carries the id of a   *)
(* request, also through lost answers, rollbacks and finalizers.           *)
(***************************************************************************)
THEOREM TypeCorrect == SafetySpec => []TypeOK
  <1>1. IInv => TypeOK
    BY DEF IInv
  <1> QED BY <1>1, Invariance, PTL

(***************************************************************************)
(* CreateCluster's rollback: a create that reports an error, all of whose  *)
(* writes are accounted for, has left no HostedCluster of its own behind.  *)
(***************************************************************************)
THEOREM FailuresAreClean == SafetySpec => []FailedCreateLeavesNothing
  <1>1. IInv => FailedCreateLeavesNothing
    BY DEF IInv
  <1> QED BY <1>1, Invariance, PTL

(***************************************************************************)
(* DeleteCluster: what the lookup by id found is gone after a 204,         *)
(* although the deletion goes by name and the name may have changed hands. *)
(***************************************************************************)
THEOREM DeletionsHappen == SafetySpec => []DeletedIsGone
  <1>1. IInv => DeletedIsGone
    BY DEF IInv
  <1> QED BY <1>1, Invariance, PTL
-----------------------------------------------------------------------------
(***************************************************************************)
(* CreatedStays.  A request holds its name from the creation of its        *)
(* HostedCluster to the end of a rollback, and for good after a 201.  As   *)
(* long as no delete request came for the id of a create of that name, the *)
(* object there is its own (Held), so that no two hold one name: the next  *)
(* create finds it taken, and a rollback deletes what is its own.  What a  *)
(* delete request goes for, HostedCluster or NodePool, is claimed by a     *)
(* create of that name and of its id (Known), and NodePools, too, have the *)
(* name and the id of the create that made them (PoolsMade).               *)
(***************************************************************************)
Undisturbed(n) ==
    \A q, r \in Requests : Deletes(q) /\ Creates(r) /\ req[r].name = n => req[q].id # req[r].id

Holds(p) == req[p].pc \in {"createNP", "rollback"} \/ req[p].reply = 201

OwnObject(objects, p) ==
    LET n == req[p].name IN objects[n] # None /\ objects[n].by = p /\ ~objects[n].deleting

Held(p) ==
    Holds(p) /\ Undisturbed(req[p].name) =>
        OwnObject(hcs, p) /\ (req[p].reply = 201 => OwnObject(nps, p))

Claimed(q, n) == \E r \in Requests : Creates(r) /\ req[r].name = n /\ req[r].id = req[q].id

Known(p) ==
    /\ At(p, "new") => req[p].op = "none"
    /\ req[p].pc \in {"find", "listNP", "deleteNP", "deleteHC"} => Deletes(p)
    /\ req[p].pc \in {"listNP", "deleteNP", "deleteHC"} => Claimed(p, req[p].name)
    /\ At(p, "deleteNP") => \A n \in req[p].pools : Claimed(p, n)
    /\ req[p].reply = 201 => Creates(p) /\ req[p].name \in Names

PoolsMade ==
    \A n \in Names : nps[n] # None =>
        Creates(nps[n].by) /\ req[nps[n].by].name = n /\ req[nps[n].by].id = nps[n].id

StayInv == PoolsMade /\ \A p \in Requests : Known(p) /\ Held(p)

(***************************************************************************)
(* What a create or a delete request asks for never changes.               *)
(***************************************************************************)
Remembers(q) ==
    /\ Creates(q) => Creates(q)' /\ req'[q].name = req[q].name /\ req'[q].id = req[q].id
    /\ Deletes(q) => Deletes(q)' /\ req'[q].id = req[q].id

\* So a claim lasts, and a name that is undisturbed has always been.
LEMMA ClaimsLast ==
  ASSUME \A q \in Requests : Remembers(q)
  PROVE  /\ \A q \in Requests, n \in Names : Claimed(q, n) /\ req'[q].id = req[q].id => Claimed(q, n)'
         /\ \A n \in Names : Undisturbed(n)' => Undisturbed(n)
  BY DEF Remembers, Claimed, Undisturbed

\* A delete request disturbs what it has a claim to.
LEMMA ClaimDisturbs ==
  ASSUME NEW q \in Requests, NEW n \in Names, Deletes(q), Claimed(q, n)
  PROVE  ~Undisturbed(n)
  BY DEF Claimed, Undisturbed

\* No NodePool appears but one that p creates under its name.
PoolsFrom(p) ==
    \A n \in Names : nps'[n] # None =>
        \/ nps[n] # None /\ nps'[n].by = nps[n].by /\ nps'[n].id = nps[n].id
        \/ n = req[p].name /\ nps'[n] = NewObject(p) /\ Creates(p)

\* Who holds an undisturbed name keeps what is there.
Spared(q) ==
    Holds(q) /\ Undisturbed(req[q].name) =>
        /\ hcs'[req[q].name] = hcs[req[q].name]
        /\ req[q].reply = 201 => nps'[req[q].name] = nps[req[q].name]

(***************************************************************************)
(* A step of p keeps StayInv if p does, and spares the other holders.      *)
(***************************************************************************)
LEMMA StayFrame ==
  ASSUME IInv, StayInv, NEW p \in Requests, Only(p), Remembers(p), Known(p)', Held(p)',
         PoolsFrom(p), \A q \in Requests \ {p} : Spared(q)
  PROVE  StayInv'
  <1>1. \A q \in Requests : Remembers(q)
    BY DEF Remembers, Only, Creates, Deletes
  <1>2. \A n \in Names : nps[n] # None => nps[n].by \in Requests
    BY DEF IInv, TypeOK, Object
  <1>3. PoolsMade'
    <2> SUFFICES ASSUME NEW n \in Names, nps'[n] # None
                 PROVE  LET c == nps'[n].by
                        IN  req'[c].op = "create" /\ req'[c].name = n /\ req'[c].id = nps'[n].id
      BY DEF PoolsMade, Creates
    <2>1. CASE nps[n] # None /\ nps'[n].by = nps[n].by /\ nps'[n].id = nps[n].id
      BY <1>1, <1>2, <2>1 DEF StayInv, PoolsMade, Remembers, Creates
    <2>2. CASE n = req[p].name /\ nps'[n] = NewObject(p) /\ Creates(p)
      <3>1. nps'[n].by = p /\ nps'[n].id = req[p].id
        BY <2>2 DEF NewObject
      <3> QED BY <1>1, <2>2, <3>1 DEF Remembers, Creates
    <2> QED BY <2>1, <2>2 DEF PoolsFrom
  <1>4. ASSUME NEW q \in Requests, q # p PROVE Known(q)'
    <2>1. Known(q) /\ req'[q] = req[q] /\ req[q].pools \subseteq Names
      BY <1>4 DEF StayInv, Only, IInv, TypeOK, Request
    <2>2. req[q].pc \in {"listNP", "deleteNP", "deleteHC"} => req[q].name \in Names
      BY DEF IInv, Parsed
    <2>3. \A n \in Names : Claimed(q, n) => Claimed(q, n)'
      BY <1>1, <2>1, ClaimsLast
    <2> QED BY <2>1, <2>2, <2>3 DEF Known, At, Creates, Deletes
  <1>5. ASSUME NEW q \in Requests, q # p PROVE Held(q)'
    <2>1. Held(q) /\ Spared(q) /\ req'[q] = req[q]
      BY <1>4, <1>5 DEF StayInv, Only
    <2>2. Holds(q) => req[q].name \in Names
      BY DEF IInv, Parsed, StayInv, Known, Holds
    <2>3. Holds(q)' /\ Undisturbed(req[q].name)' => Holds(q) /\ Undisturbed(req[q].name)
      <3>1. Holds(q)' <=> Holds(q)
        BY <2>1 DEF Holds
      <3>2. Undisturbed(req[q].name)' <=> \A r, s \in Requests :
              Deletes(r)' /\ Creates(s)' /\ req'[s].name = req[q].name => req'[r].id # req'[s].id
        BY <2>1 DEF Undisturbed
      <3>3. Undisturbed(req[q].name)' => Undisturbed(req[q].name)
        BY <1>1, <3>2 DEF Undisturbed, Remembers
      <3> QED BY <3>1, <3>3
    <2>4. Holds(q) /\ Undisturbed(req[q].name) =>
            OwnObject(hcs, q)' /\ (req'[q].reply = 201 => OwnObject(nps, q)')
      BY <2>1 DEF Held, Spared, OwnObject
    <2> QED BY <2>3, <2>4 DEF Held
  <1> QED BY <1>3, <1>4, <1>5 DEF StayInv

\* Every write to a NodePool is of this kind or leaves its maker alone.
LEMMA MarkedPools ==
  ASSUME IInv, NEW p \in Requests, NEW n \in Names, nps' \in {nps, MarkDeleting(nps, n)}
  PROVE  PoolsFrom(p) /\ \A m \in Names : m # n => nps'[m] = nps[m]
  <1>1. nps \in [Names -> Object \cup {None}]
    BY DEF IInv, TypeOK
  <1>2. MarkDeleting(nps, n) = nps \/ \A m \in Names : m # n => MarkDeleting(nps, n)[m] = nps[m]
    BY <1>1 DEF MarkDeleting
  <1> QED BY <1>1, <1>2, MarkDeletingKeeps DEF PoolsFrom

\* A step that leaves HostedClusters and NodePools alone spares everybody.
LEMMA NothingWritten ==
  ASSUME hcs' = hcs, nps' = nps, NEW p \in Requests
  PROVE  PoolsFrom(p) /\ \A q \in Requests : Spared(q)
  BY DEF PoolsFrom, Spared

(***************************************************************************)
(* Arrival and deadline.                                                   *)
(***************************************************************************)
LEMMA BeginStays ==
  ASSUME IInv, StayInv, NEW p \in Requests, NEW id \in InstanceIDs,
         BeginDelete(p, id) \/ \E n \in Names : BeginCreate(p, id, n)
  PROVE  StayInv'
  <1>1. \E r \in Request :
          /\ req' = [req EXCEPT ![p] = r] /\ r.reply = 0
          /\ r.pc = "prepare" \/ (r.pc = "find" /\ r.op = "delete")
    <2>1. CASE BeginDelete(p, id)
      <3> DEFINE r == [NewRequest EXCEPT !.pc = "find", !.op = "delete", !.id = id]
      <3>1. r \in Request /\ r.reply = 0 /\ r.pc = "find" /\ r.op = "delete"
        BY NewRequestType DEF Request
      <3> QED BY <2>1, <3>1 DEF BeginDelete
    <2>2. ASSUME NEW n \in Names, BeginCreate(p, id, n) PROVE <1>1!:
      <3> DEFINE r == [NewRequest EXCEPT !.pc = "prepare", !.op = "create", !.id = id, !.name = n]
      <3>1. r \in Request /\ r.reply = 0 /\ r.pc = "prepare"
        BY NewRequestType DEF Request
      <3> QED BY <2>2, <3>1 DEF BeginCreate
    <2> QED BY <2>1, <2>2
  <1>a. PICK r \in Request :
          /\ req' = [req EXCEPT ![p] = r] /\ r.reply = 0
          /\ r.pc = "prepare" \/ (r.pc = "find" /\ r.op = "delete")
    BY <1>1
  <1>2. hcs' = hcs /\ nps' = nps /\ At(p, "new")
    BY DEF BeginDelete, BeginCreate
  <1>3. Only(p) /\ req'[p] = r
    BY <1>a DEF IInv, TypeOK, Only
  <1>4. Remembers(p)
    BY <1>2 DEF StayInv, Known, Remembers, Creates, Deletes
  <1>5. Known(p)' /\ Held(p)'
    BY <1>a, <1>3 DEF Known, Held, Holds, At, Deletes
  <1> QED BY <1>2, <1>3, <1>4, <1>5, NothingWritten, StayFrame

\* A deadline changes neither what is asked for nor what is held.
LEMMA ExpireStays == ASSUME IInv, StayInv, NEW p \in Requests, Expire(p) PROVE StayInv'
  <1>1. req[p] \in Request /\ hcs' = hcs /\ nps' = nps
    BY DEF IInv, TypeOK, Expire
  <1>2. /\ Only(p) /\ req'[p].op = req[p].op /\ req'[p].id = req[p].id /\ req'[p].name = req[p].name
        /\ req'[p].pc = req[p].pc /\ req'[p].pools = req[p].pools /\ req'[p].reply = req[p].reply
    BY <1>1 DEF IInv, TypeOK, Expire, Only, Request
  <1>3. \A q \in Requests : Creates(q)' = Creates(q) /\ req'[q].name = req[q].name /\ req'[q].id = req[q].id
    BY <1>2 DEF Creates, Only
  <1>4. Remembers(p) /\ Known(p)'
    BY <1>2, <1>3 DEF StayInv, Known, Remembers, Creates, Deletes, At, Claimed
  <1>5. \A q \in Requests : Deletes(q)' = Deletes(q)
    BY <1>2 DEF Deletes, Only
  <1>6. Held(p)'
    BY <1>1, <1>2, <1>3, <1>5 DEF StayInv, Held, Holds, Undisturbed, OwnObject
  <1> QED BY <1>1, <1>2, <1>4, <1>6, NothingWritten, StayFrame

(***************************************************************************)
(* A step by which p neither comes to hold its name nor goes on with a     *)
(* deletion.                                                               *)
(***************************************************************************)
LEMMA StepsAside ==
  ASSUME IInv, StayInv, NEW p \in Requests, Only(p), Same(p),
         req'[p].pc \in {"check", "createHC", "done"}, req'[p].reply # 201,
         PoolsFrom(p), \A q \in Requests \ {p} : Spared(q)
  PROVE  StayInv'
  <1>1. Remembers(p)
    BY DEF Same, Remembers, Creates, Deletes
  <1>2. Known(p)' /\ Held(p)'
    BY DEF Known, Held, Holds, At
  <1> QED BY <1>1, <1>2, StayFrame

\* Refusals, the first steps of POST, failed Lists and a lookup that finds nothing.
LEMMA AsideStays ==
  ASSUME IInv, StayInv, NEW p \in Requests,
         \/ \E flaw \in Flaws : Refuse(p, flaw)
         \/ Prepare(p) \/ CheckDuplicate(p) \/ NameTaken(p) \/ ListFails(p) \/ FindNothing(p)
  PROVE  StayInv'
  <1>1. hcs' = hcs /\ nps' = nps
    BY DEF Refuse, Prepare, CheckDuplicate, NameTaken, ListFails, FindNothing
  <1>2. TypeOK /\ (~At(p, "done") => req[p].reply = 0)
    BY DEF IInv, Replied
  <1>3. ASSUME NEW pc \in {"check", "createHC"}, Goto(p, pc), ~At(p, "done") PROVE StayInv'
    <2>1. Only(p) /\ Same(p) /\ req'[p].pc = pc /\ req'[p].reply = 0
      BY <1>2, <1>3, GotoEffect DEF PCs
    <2> QED BY <1>1, <2>1, NothingWritten, StepsAside
  <1>4. ASSUME NEW code \in Replies \ {201}, Reply(p, code) PROVE StayInv'
    <2>1. Only(p) /\ Same(p) /\ req'[p].pc = "done" /\ req'[p].reply = code
      BY <1>2, <1>4, ReplyEffect
    <2> QED BY <1>1, <1>4, <2>1, NothingWritten, StepsAside
  <1>5. {400, 404, 409, 422, 500} \subseteq Replies \ {201}
    BY DEF Replies
  <1>6. CASE \E flaw \in Flaws : Refuse(p, flaw)
    BY <1>4, <1>5, <1>6 DEF Refuse, FlawReply
  <1>7. CASE Prepare(p) \/ CheckDuplicate(p)
    BY <1>3, <1>4, <1>5, <1>7 DEF Prepare, CheckDuplicate, At
  <1>8. CASE NameTaken(p) \/ ListFails(p) \/ FindNothing(p)
    BY <1>4, <1>5, <1>8 DEF NameTaken, ListFails, FindNothing
  <1> QED BY <1>6, <1>7, <1>8

(***************************************************************************)
(* Who holds an undisturbed name is spared by whatever happens to objects  *)
(* of another name, or appears where there was none.                       *)
(***************************************************************************)
LEMMA HoldersSpared ==
  ASSUME IInv, StayInv, NEW q \in Requests,
         Holds(q) /\ Undisturbed(req[q].name) =>
            /\ OwnObject(hcs, q) => hcs'[req[q].name] = hcs[req[q].name]
            /\ OwnObject(nps, q) => nps'[req[q].name] = nps[req[q].name]
  PROVE  Spared(q)
  BY DEF StayInv, Held, Spared

\* A new object takes nothing away.
LEMMA NewObjectSpares ==
  ASSUME IInv, StayInv, NEW p \in Requests, req[p].name \in Names,
         \/ hcs[req[p].name] = None /\ hcs' = [hcs EXCEPT ![req[p].name] = NewObject(p)] /\ nps' = nps
         \/ nps[req[p].name] = None /\ nps' = [nps EXCEPT ![req[p].name] = NewObject(p)] /\ hcs' = hcs
         \/ hcs' = hcs /\ nps' = nps,
         Creates(p)
  PROVE  PoolsFrom(p) /\ \A q \in Requests : Spared(q)
  <1>1. \A n \in Names \ {req[p].name} : hcs'[n] = hcs[n] /\ nps'[n] = nps[n]
    BY DEF IInv, TypeOK
  <1>2. PoolsFrom(p)
    BY <1>1 DEF PoolsFrom, IInv, TypeOK
  <1>3. ASSUME NEW q \in Requests PROVE Spared(q)
    <2>1. Holds(q) => req[q].name \in Names
      BY DEF IInv, Parsed, StayInv, Known, Holds
    <2> QED BY <1>1, <2>1, HoldersSpared DEF OwnObject
  <1> QED BY <1>2, <1>3

(***************************************************************************)
(* POST.  What a 201 promises was there before it: the HostedCluster since *)
(* its creation, the NodePool with the 201 itself.                         *)
(***************************************************************************)
LEMMA CreateHostedClusterStays ==
  ASSUME IInv, StayInv, NEW p \in Requests, CreateHostedCluster(p) \/ CreateHostedClusterFails(p)
  PROVE  StayInv'
  <1>1. /\ TypeOK /\ Creates(p) /\ req[p].name \in Names /\ req[p].reply = 0
        /\ NewObject(p) # None /\ NewObject(p).by = p /\ ~NewObject(p).deleting
    BY NewObjectType DEF IInv, Parsed, Replied, CreateHostedCluster, CreateHostedClusterFails, At, NewObject
  <1>2. CASE CreateHostedCluster(p)
    <2>1. Only(p) /\ Same(p) /\ req'[p].pc = "createNP" /\ req'[p].reply = 0
      BY <1>1, <1>2, GotoEffect DEF CreateHostedCluster, PCs
    <2>2. PoolsFrom(p) /\ \A q \in Requests : Spared(q)
      BY <1>1, <1>2, NewObjectSpares DEF CreateHostedCluster
    <2>3. hcs'[req[p].name] = NewObject(p)
      BY <1>1, <1>2 DEF CreateHostedCluster, TypeOK
    <2>4. Remembers(p)
      BY <2>1 DEF Same, Remembers, Creates, Deletes
    <2>5. Known(p)' /\ Held(p)'
      BY <1>1, <2>1, <2>3 DEF Known, Held, Holds, At, OwnObject, Same
    <2> QED BY <2>1, <2>2, <2>4, <2>5, StayFrame
  <1>3. CASE CreateHostedClusterFails(p)
    <2>1. Live(p) \in BOOLEAN /\ nps' = nps
      BY <1>3 DEF Live, CreateHostedClusterFails
    <2>2. Only(p) /\ Same(p) /\ req'[p].pc = "done" /\ req'[p].reply = 500
      BY <1>1, <1>3, <2>1, ReplyUnsureEffect DEF CreateHostedClusterFails
    <2>3. PoolsFrom(p) /\ \A q \in Requests : Spared(q)
      BY <1>1, <1>3, <2>1, NewObjectSpares DEF CreateHostedClusterFails, MaybeApplied
    <2> QED BY <2>2, <2>3, StepsAside
  <1> QED BY <1>2, <1>3

\* The NodePool appears, or the rollback is due.
LEMMA CreateNodePoolStays ==
  ASSUME IInv, StayInv, NEW p \in Requests, CreateNodePool(p) \/ CreateNodePoolFails(p)
  PROVE  StayInv'
  <1>1. /\ TypeOK /\ Creates(p) /\ req[p].name \in Names /\ req[p].reply = 0 /\ hcs' = hcs
        /\ NewObject(p) # None /\ NewObject(p).by = p /\ ~NewObject(p).deleting
    BY NewObjectType DEF IInv, Parsed, Replied, CreateNodePool, CreateNodePoolFails, At, NewObject
  <1>2. Held(p) /\ Holds(p) /\ ~At(p, "done")
    BY DEF StayInv, Holds, CreateNodePool, CreateNodePoolFails, At
  <1>3. ASSUME Only(p), Same(p) PROVE Remembers(p) /\ (Undisturbed(req[p].name)' => Undisturbed(req[p].name))
    <2>1. \A q \in Requests : Remembers(q) /\ req'[q].name = req[q].name
      BY <1>3 DEF Only, Same, Remembers, Creates, Deletes
    <2> QED BY <2>1 DEF Undisturbed, Remembers
  <1>4. CASE CreateNodePool(p)
    <2>1. 201 \in Replies
      BY DEF Replies
    <2>2. Only(p) /\ Same(p) /\ req'[p].pc = "done" /\ req'[p].reply = 201
      BY <1>1, <1>4, <2>1, ReplyEffect DEF CreateNodePool
    <2>3. PoolsFrom(p) /\ \A q \in Requests : Spared(q)
      BY <1>1, <1>4, NewObjectSpares DEF CreateNodePool
    <2>4. nps'[req[p].name] = NewObject(p)
      BY <1>1, <1>4 DEF CreateNodePool, TypeOK
    <2>5. Known(p)'
      BY <1>1, <2>2 DEF Known, At, Same, Creates
    <2>6. Held(p)'
      BY <1>1, <1>2, <1>3, <2>2, <2>4 DEF Held, OwnObject, Same
    <2> QED BY <1>3, <2>2, <2>3, <2>5, <2>6, StayFrame
  <1>5. CASE CreateNodePoolFails(p)
    <2>1. Only(p) /\ Same(p) /\ req'[p].pc = "rollback" /\ req'[p].reply = 0
      BY <1>1, <1>5, GotoEffect DEF CreateNodePoolFails, PCs
    <2>2. PoolsFrom(p) /\ \A q \in Requests : Spared(q)
      BY <1>1, <1>5, NewObjectSpares DEF CreateNodePoolFails, MaybeApplied
    <2>3. Known(p)'
      BY <2>1 DEF Known, At
    <2>4. Held(p)'
      BY <1>1, <1>2, <1>3, <2>1 DEF Held, OwnObject, Same
    <2> QED BY <1>3, <2>1, <2>2, <2>3, <2>4, StayFrame
  <1> QED BY <1>4, <1>5

\* A rollback deletes what its request holds, and nobody else holds that name.
LEMMA RollbackStays ==
  ASSUME IInv, StayInv, NEW p \in Requests, Rollback(p) \/ RollbackFails(p)
  PROVE  StayInv'
  <1>1. TypeOK /\ req[p].name \in Names /\ nps' = nps /\ Holds(p) /\ Held(p)
    BY DEF IInv, Parsed, Rollback, RollbackFails, At, StayInv, Holds
  <1>2. Only(p) /\ Same(p) /\ req'[p].pc = "done" /\ req'[p].reply = 500
    <2>1. 500 \in Replies
      BY DEF Replies
    <2>2. CASE Rollback(p)
      BY <1>1, <2>1, <2>2, ReplyEffect DEF Rollback
    <2> QED BY <2>2, RollbackUnsure
  <1>3. hcs' \in {hcs, MarkDeleting(hcs, req[p].name)}
    BY DEF Rollback, RollbackFails, MaybeDeleted
  <1>4. \A n \in Names \ {req[p].name} : hcs'[n] = hcs[n]
    BY <1>1, <1>3 DEF MarkDeleting, TypeOK
  <1>5. ASSUME NEW q \in Requests \ {p} PROVE Spared(q)
    <2>1. Holds(q) => req[q].name \in Names
      BY DEF IInv, Parsed, StayInv, Known, Holds
    <2>2. Holds(q) /\ Undisturbed(req[q].name) => req[q].name # req[p].name
      BY <1>1 DEF Held, OwnObject, StayInv
    <2> QED BY <1>1, <1>4, <2>1, <2>2, HoldersSpared
  <1>6. PoolsFrom(p)
    BY <1>1 DEF PoolsFrom
  <1> QED BY <1>2, <1>5, <1>6, StepsAside

(***************************************************************************)
(* DELETE.  A deletion goes on with names that it has a claim to.          *)
(***************************************************************************)
LEMMA DeletionGoesOn ==
  ASSUME IInv, StayInv, NEW p \in Requests, Only(p), Deletes(p), ~Creates(p),
         req'[p].op = req[p].op, req'[p].id = req[p].id, req'[p].reply = 0,
         req'[p].pc \in {"listNP", "deleteNP", "deleteHC"},
         Claimed(p, req'[p].name),
         At(p, "deleteNP")' => \A n \in req'[p].pools : Claimed(p, n),
         PoolsFrom(p), \A q \in Requests \ {p} : Spared(q)
  PROVE  StayInv'
  <1>1. Remembers(p)
    BY DEF Remembers, Creates, Deletes
  <1>2. \A q \in Requests : Remembers(q)
    BY <1>1 DEF Remembers, Only, Creates, Deletes
  <1>3. ASSUME NEW n, Claimed(p, n)
        PROVE  \E r \in Requests : req'[r].op = "create" /\ req'[r].name = n /\ req'[r].id = req'[p].id
    BY <1>2, <1>3 DEF Claimed, Remembers, Creates
  <1>4. Known(p)'
    BY <1>3 DEF Known, At, Claimed, Creates, Deletes
  <1>5. Held(p)'
    BY DEF Held, Holds
  <1> QED BY <1>1, <1>4, <1>5, StayFrame

\* What is found by the id, HostedCluster or NodePool, gives the claim.
LEMMA FindStays == ASSUME IInv, StayInv, NEW p \in Requests, NEW n \in Names, Find(p, n) PROVE StayInv'
  <1> DEFINE c == hcs[n].by
             r == [req[p] EXCEPT !.pc = "listNP", !.name = n, !.target = c]
  <1>1. /\ At(p, "find") /\ hcs[n] # None /\ hcs[n].id = req[p].id
        /\ hcs' = hcs /\ nps' = nps
    BY DEF Find, Named
  <1>2. req[p] \in Request /\ c \in Requests /\ req[p].reply = 0
    BY <1>1 DEF IInv, TypeOK, Object, Replied, At
  <1>3. /\ r \in Request /\ r.pc = "listNP" /\ r.name = n /\ r.reply = 0
        /\ r.op = req[p].op /\ r.id = req[p].id
    BY <1>2 DEF Request
  <1>4. Only(p) /\ req'[p] = r
    BY <1>2, <1>3 DEF Only, Find, IInv, TypeOK
  <1>5. Claimed(p, n)
    BY <1>1, <1>2 DEF IInv, Made, PastCreate, Claimed
  <1>6. Deletes(p) /\ ~Creates(p)
    BY <1>1 DEF StayInv, Known, Deletes, Creates, At
  <1> HIDE DEF r
  <1> QED BY <1>1, <1>3, <1>4, <1>5, <1>6, NothingWritten, DeletionGoesOn DEF At

\* The NodePools are listed by the id as well, and deleted one by one.
LEMMA PoolsStay ==
  ASSUME IInv, StayInv, NEW p \in Requests,
         ListNodePools(p) \/ NodePoolsDeleted(p) \/ \E n \in Names : DeleteNodePool(p, n)
  PROVE  StayInv'
  <1>1. /\ TypeOK /\ req[p] \in Request /\ req[p].pc \in {"listNP", "deleteNP"} /\ hcs' = hcs
    BY DEF IInv, TypeOK, ListNodePools, NodePoolsDeleted, DeleteNodePool, At
  <1>2. /\ req[p].reply = 0 /\ Deletes(p) /\ ~Creates(p) /\ Claimed(p, req[p].name)
        /\ req[p].pc = "deleteNP" => \A n \in req[p].pools : Claimed(p, n)
    BY <1>1 DEF IInv, Replied, StayInv, Known, Deletes, Creates, At
  <1>3. CASE ListNodePools(p)
    <2> DEFINE r == [req[p] EXCEPT !.pc = "deleteNP", !.pools = Named(nps, req[p].id)]
    <2>1. Named(nps, req[p].id) \in SUBSET Names
      BY DEF Named
    <2>2. /\ r \in Request /\ r.pc = "deleteNP" /\ r.pools = Named(nps, req[p].id) /\ r.reply = 0
          /\ r.name = req[p].name /\ r.op = req[p].op /\ r.id = req[p].id
      BY <1>1, <1>2, <2>1 DEF Request
    <2>3. Only(p) /\ req'[p] = r
      BY <1>1, <1>3, <2>2 DEF Only, ListNodePools, TypeOK
    <2>4. \A n \in Names : nps[n] # None => nps[n].by \in Requests
      BY <1>1 DEF TypeOK, Object
    <2>5. \A n \in Named(nps, req[p].id) : Claimed(p, n)
      BY <2>4 DEF Named, Claimed, StayInv, PoolsMade
    <2>6. nps' = nps
      BY <1>3 DEF ListNodePools
    <2> HIDE DEF r
    <2> QED BY <1>1, <1>2, <2>2, <2>3, <2>5, <2>6, NothingWritten, DeletionGoesOn
  <1>4. CASE NodePoolsDeleted(p)
    <2>1. Only(p) /\ Same(p) /\ req'[p].pc = "deleteHC" /\ req'[p].reply = 0
      BY <1>1, <1>2, <1>4, GotoEffect DEF NodePoolsDeleted, PCs
    <2>2. nps' = nps
      BY <1>4 DEF NodePoolsDeleted
    <2> QED BY <1>1, <1>2, <2>1, <2>2, NothingWritten, DeletionGoesOn DEF Same, At
  <1>5. ASSUME NEW n \in Names, DeleteNodePool(p, n) PROVE StayInv'
    <2> DEFINE r == [req[p] EXCEPT !.pools = req[p].pools \ {n}]
    <2>1. /\ req' = [req EXCEPT ![p] = r] /\ n \in req[p].pools /\ req[p].pc = "deleteNP"
          /\ nps' = MarkDeleting(nps, n)
      BY <1>5 DEF DeleteNodePool, At
    <2>2. /\ r \in Request /\ r.pc = "deleteNP" /\ r.pools \subseteq req[p].pools /\ r.reply = 0
          /\ r.name = req[p].name /\ r.op = req[p].op /\ r.id = req[p].id
      BY <1>1, <1>2, <2>1 DEF Request
    <2>3. Only(p) /\ req'[p] = r
      BY <1>1, <2>1, <2>2 DEF Only, TypeOK
    <2>4. PoolsFrom(p) /\ \A m \in Names : m # n => nps'[m] = nps[m]
      BY <2>1, MarkedPools
    <2>5. ~Undisturbed(n)
      BY <1>2, <2>1, ClaimDisturbs
    <2>6. ASSUME NEW q \in Requests PROVE Spared(q)
      <3>1. Holds(q) => req[q].name \in Names
        BY DEF IInv, Parsed, StayInv, Known, Holds
      <3> QED BY <1>1, <2>4, <2>5, <3>1 DEF Spared
    <2> HIDE DEF r
    <2> QED BY <1>2, <2>1, <2>2, <2>3, <2>4, <2>6, DeletionGoesOn
  <1> QED BY <1>3, <1>4, <1>5

\* The last steps of a deletion hit only what it has a claim to.
LEMMA DeletionEndsStays ==
  ASSUME IInv, StayInv, NEW p \in Requests,
         DeleteNodePoolFails(p) \/ DeleteHostedCluster(p) \/ DeleteHostedClusterFails(p)
  PROVE  StayInv'
  <1>1. /\ TypeOK /\ req[p].pc \in {"deleteNP", "deleteHC"} /\ {204, 500} \subseteq Replies
        /\ req[p].name \in Names /\ req[p].pools \subseteq Names
    BY DEF IInv, Parsed, TypeOK, Request, Replies, DeleteNodePoolFails, DeleteHostedCluster, DeleteHostedClusterFails, At
  <1>2. /\ Deletes(p) /\ Claimed(p, req[p].name)
        /\ req[p].pc = "deleteNP" => \A n \in req[p].pools : Claimed(p, n)
    BY <1>1 DEF StayInv, Known, At
  <1>3. PICK code \in {204, 500} : Reply(p, code)
    BY DEF DeleteNodePoolFails, DeleteHostedCluster, DeleteHostedClusterFails
  <1>4. Only(p) /\ Same(p) /\ req'[p].pc = "done" /\ req'[p].reply # 201
    BY <1>1, <1>3, ReplyEffect
  <1>5. PICK n \in Names :
          /\ Claimed(p, n)
          /\ \/ hcs' \in {hcs, MarkDeleting(hcs, n)} /\ nps' = nps
             \/ nps' \in {nps, MarkDeleting(nps, n)} /\ hcs' = hcs
    <2>1. CASE DeleteNodePoolFails(p)
      <3>1. PICK m \in req[p].pools : nps' \in {nps, MarkDeleting(nps, m)}
        BY <2>1 DEF DeleteNodePoolFails, MaybeDeleted
      <3> QED BY <1>1, <1>2, <2>1, <3>1 DEF DeleteNodePoolFails, At
    <2>2. CASE DeleteHostedCluster(p) \/ DeleteHostedClusterFails(p)
      BY <1>1, <1>2, <2>2 DEF DeleteHostedCluster, DeleteHostedClusterFails, MaybeDeleted
    <2> QED BY <2>1, <2>2
  <1>6. ~Undisturbed(n)
    BY <1>2, <1>5, ClaimDisturbs
  <1>7. PoolsFrom(p) /\ \A m \in Names : m # n => nps'[m] = nps[m] /\ hcs'[m] = hcs[m]
    <2>1. MarkDeleting(hcs, n) = hcs \/ \A m \in Names : m # n => MarkDeleting(hcs, n)[m] = hcs[m]
      BY <1>1 DEF TypeOK, MarkDeleting
    <2>2. nps' \in {nps, MarkDeleting(nps, n)}
      BY <1>5
    <2> QED BY <1>5, <2>1, <2>2, MarkedPools
  <1>8. ASSUME NEW q \in Requests PROVE Spared(q)
    <2>1. Holds(q) => req[q].name \in Names
      BY DEF IInv, Parsed, StayInv, Known, Holds
    <2> QED BY <1>6, <1>7, <2>1 DEF Spared
  <1> QED BY <1>4, <1>7, <1>8, StepsAside

\* The operator only takes away what is being deleted, and nothing that is held is.
LEMMA OthersStay ==
  ASSUME IInv, StayInv, req' = req,
         \/ hcs' = hcs /\ nps' = nps
         \/ \E n \in Names : FinalizeHostedCluster(n) \/ FinalizeNodePool(n)
  PROVE  StayInv'
  <1>1. \A n \in Names :
          /\ hcs'[n] = hcs[n] \/ (hcs[n] # None /\ hcs[n].deleting)
          /\ \/ nps'[n] = nps[n]
             \/ nps'[n] = None /\ nps[n] # None /\ nps[n].deleting
             \/ nps'[n] = None /\ hcs[n] # None /\ hcs[n].deleting
    BY DEF FinalizeHostedCluster, FinalizeNodePool, IInv, TypeOK
  <1>2. PoolsMade' /\ \A p \in Requests : Known(p)'
    BY <1>1 DEF StayInv, PoolsMade, Known, Claimed, At, Creates, Deletes
  <1>3. ASSUME NEW p \in Requests PROVE Held(p)'
    <2>1. Holds(p) => req[p].name \in Names
      BY DEF IInv, Parsed, StayInv, Known, Holds
    <2>2. (Holds(p)' <=> Holds(p)) /\ (Undisturbed(req[p].name)' <=> Undisturbed(req[p].name))
      BY DEF Holds, Undisturbed, Creates, Deletes
    <2>3. Holds(p) /\ Undisturbed(req[p].name) =>
            OwnObject(hcs, p)' /\ (req[p].reply = 201 => OwnObject(nps, p)')
      BY <1>1, <2>1 DEF StayInv, Held, OwnObject
    <2> QED BY <2>2, <2>3 DEF Held
  <1> QED BY <1>2, <1>3 DEF StayInv

\* Init and every step keep StayInv.
LEMMA InitStayInv == Init => StayInv
  <1> SUFFICES ASSUME Init PROVE StayInv
    OBVIOUS
  <1>1. \A p \in Requests : req[p] = NewRequest
    BY DEF Init
  <1> QED BY <1>1 DEF Init, NewRequest, StayInv, PoolsMade, Known, Held, Holds, At

LEMMA NextStayInv == IInv /\ StayInv /\ [Next]_vars => StayInv'
  <1> SUFFICES ASSUME IInv, StayInv, [Next]_vars PROVE StayInv'
    OBVIOUS
  <1>1. CASE UNCHANGED vars
    BY <1>1, OthersStay DEF vars
  <1>2. ASSUME NEW p \in Requests, Create(p) PROVE StayInv'
    BY <1>2, AsideStays, CreateHostedClusterStays, CreateNodePoolStays, RollbackStays DEF Create
  <1>3. ASSUME NEW p \in Requests, Delete(p) PROVE StayInv'
    BY <1>3, AsideStays, FindStays, PoolsStay, DeletionEndsStays DEF Delete
  <1>4. ASSUME NEW p \in Requests, Expire(p) \/ ListFails(p) PROVE StayInv'
    BY <1>4, ExpireStays, AsideStays
  <1>5. ASSUME NEW n \in Names, FinalizeHostedCluster(n) \/ FinalizeNodePool(n) PROVE StayInv'
    <2>1. req' = req
      BY <1>5 DEF FinalizeHostedCluster, FinalizeNodePool
    <2> QED BY <1>5, <2>1, OthersStay
  <1> QED
    BY <1>1, <1>2, <1>3, <1>4, <1>5, BeginStays DEF Next, Quiescent

(***************************************************************************)
(* CreateCluster's duplicate check, name check and rollback against        *)
(* competing requests: what was answered with 201 is there, HostedCluster  *)
(* and NodePool, unless a delete request came for any id under which some  *)
(* create ever used its name: deletes look up by id and delete by name.    *)
(***************************************************************************)
THEOREM CreationsStay == SafetySpec => []CreatedStays
  <1>1. StayInv => CreatedStays
    BY DEF StayInv, Held, Holds, OwnObject, Undisturbed, CreatedStays
  <1>2. SafetySpec => []StayInv
    BY Invariance, InitStayInv, NextStayInv, PTL DEF SafetySpec
  <1> QED BY <1>1, <1>2, PTL
=============================================================================
