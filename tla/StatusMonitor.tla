--------------------------- MODULE StatusMonitor ---------------------------
(***************************************************************************)
(* The status monitor of internal/monitoring: two informers call their     *)
(* handlers, the handlers keep one instanceState per DCM instance and      *)
(* submit a StatusEvent to the debouncer when the composite status         *)
(* changes, and the debouncer's callbacks publish with retries.            *)
(*                                                                         *)
(* Each informer delivers from one goroutine, so a handler ("hc", "np") is *)
(* at work on one object at a time, but the two run side by side.  A       *)
(* handler holds state.mu while it computes the event and has released it  *)
(* when it calls debouncer.Submit: these are two steps here.  A resource   *)
(* changes in the same step as its handler sees it: the handlers look only *)
(* at the object they are given, so a delivery that lags is a later change.*)
(*                                                                         *)
(* Left out: logging, and seenHC/seenNP, which only choose a log line.     *)
(***************************************************************************)
EXTENDS StatusMapping

CONSTANTS
    InstanceIDs,    \* values of the dcm-instance-id label
    HostedClusters, \* names of the watched HostedClusters
    NodePools,      \* names of the watched NodePools
    InstanceOf,     \* the label of each of them, NoID where it is missing
    NoID,
    HCObjects,      \* the contents a HostedCluster may have
    NPObjects,      \* the contents a NodePool may have
    Absent,         \* the resource does not exist
    NoEvent,        \* nil: nothing to submit, nothing published yet
    Timers, NoTimer,
    RetryMax,       \* cfg.PublishRetryMax
    MaxChanges,     \* bound: how often resources may change
    MaxFailures     \* bound: how often Publish may fail

Resources == HostedClusters \cup NodePools

ASSUME ResourcesAssumption ==
    /\ HostedClusters \cap NodePools = {}
    /\ InstanceOf \in [Resources -> InstanceIDs \cup {NoID}]
    /\ NoID \notin InstanceIDs
    /\ Absent \notin HCObjects \cup NPObjects

ASSUME BoundsAssumption == RetryMax \in Nat /\ MaxChanges \in Nat /\ MaxFailures \in Nat

ASSUME TimersAssumption == NoTimer \notin Timers

Handlers == {"hc", "np"}

HCStatusOf(o) == MapConditionsToStatus(extractConditions(o), o.deleting)
NPStatusOf(o) == MapNodePoolConditionsToStatus(extractConditions(o))
HCMsgOf(o) == extractHostedClusterMessage(extractConditions(o), HCStatusOf(o))
NPMsgOf(o) == extractNodePoolMessage(extractConditions(o), NPStatusOf(o))

Messages ==
    {NoMessage} \cup {HCMsgOf(o) : o \in HCObjects} \cup {NPMsgOf(o) : o \in NPObjects}

StatusEvent(id, status, message) == [id |-> id, status |-> status, message |-> message]

StatusEvents == [id : InstanceIDs, status : ClusterStatus, message : Messages]

ASSUME NoEventAssumption == NoEvent \notin StatusEvents

VARIABLES
    store,      \* the watched resources, as last seen by the informers
    inst,       \* state.instances; the zero record stands for a missing entry
    handler,    \* the event a handler has computed and not yet submitted
    timers, timer, stopped, stopCall, newest,   \* the debouncer
    publish,    \* publishWithRetry of each publishing timer
    delivered,  \* the last event of each instance on the NATS subject
    ctxDone,    \* ctx is cancelled
    phase,      \* whether Start has returned
    latest,     \* history: where the last computed event of an instance is
    changes, failures

D == INSTANCE Debouncer WITH Keys <- InstanceIDs, Events <- StatusEvents

debouncerVars == <<timers, timer, stopped, stopCall, newest>>
boundVars == <<changes, failures>>
vars == <<store, inst, handler, debouncerVars, publish, delivered, ctxDone, phase, latest, boundVars>>

(***************************************************************************)
(* instanceState, and the map entry that getOrCreate makes.                *)
(***************************************************************************)
InstanceState ==
    [hcStatus : HCStatus \cup {NoStatus}, npStatus : NPStatus \cup {NoStatus},
     hcMsg : Messages, npMsg : Messages, lastPublished : ClusterStatus \cup {NoStatus}]

NewInstance ==
    [hcStatus |-> NoStatus, npStatus |-> NoStatus,
     hcMsg |-> NoMessage, npMsg |-> NoMessage, lastPublished |-> NoStatus]

FirstAttempt == [attempt |-> 0, waiting |-> FALSE]

(***************************************************************************)
(* Where the event last computed for an instance is: held by a handler, in *)
(* a timer (armed, fired or publishing), on the bus, or lost and why.      *)
(***************************************************************************)
Nowhere     == [at |-> "nowhere"]
InHandler(rt) == [at |-> "handler", by |-> rt]
InTimer(t)  == [at |-> "timer", by |-> t]
OnBus       == [at |-> "bus"]
Lost(cause) == [at |-> "lost", cause |-> cause]

LossCauses == {"reordered", "overtaken", "dropped", "shutdown"}

Places ==
    {Nowhere, OnBus} \cup {InHandler(rt) : rt \in Handlers} \cup {InTimer(t) : t \in Timers}
    \cup {Lost(c) : c \in LossCauses}

TypeOK ==
    /\ \A r \in HostedClusters : store[r] \in HCObjects \cup {Absent}
    /\ \A r \in NodePools : store[r] \in NPObjects \cup {Absent}
    /\ inst \in [InstanceIDs -> InstanceState]
    /\ handler \in [Handlers -> StatusEvents \cup {NoEvent}]
    /\ D!TypeOK
    /\ publish \in [Timers -> [attempt : 0..RetryMax, waiting : BOOLEAN]]
    /\ delivered \in [InstanceIDs -> StatusEvents \cup {NoEvent}]
    /\ ctxDone \in BOOLEAN
    /\ phase \in {"running", "returned"}
    /\ latest \in [InstanceIDs -> Places]
    /\ changes \in 0..MaxChanges
    /\ failures \in 0..MaxFailures

Init ==
    /\ store = [r \in Resources |-> Absent]
    /\ inst = [id \in InstanceIDs |-> NewInstance]
    /\ handler = [rt \in Handlers |-> NoEvent]
    /\ D!Init
    /\ publish = [t \in Timers |-> FirstAttempt]
    /\ delivered = [id \in InstanceIDs |-> NoEvent]
    /\ ctxDone = FALSE
    /\ phase = "running"
    /\ latest = [id \in InstanceIDs |-> Nowhere]
    /\ changes = 0
    /\ failures = 0

-----------------------------------------------------------------------------
(***************************************************************************)
(* The handlers under state.mu: the new instanceState and the event.       *)
(***************************************************************************)
Quietly(i) == [inst |-> i, event |-> NoEvent]

Composite(i) == ComputeCompositeStatus(i.hcStatus, i.npStatus)

\* The tail of reconcileResource: publish the composite unless it is the last one.
PublishComposite(id, i) ==
    IF i.lastPublished = Composite(i) THEN Quietly(i)
    ELSE [inst  |-> [i EXCEPT !.lastPublished = Composite(i)],
          event |-> StatusEvent(id, Composite(i), compositeMessage(i))]

\* Mutant of reconcileHostedCluster: compares with the published status.
reconcileAgainstPublished(id, i, o) ==
    IF i.lastPublished = HCStatusOf(o) THEN Quietly(i)
    ELSE PublishComposite(id, [i EXCEPT !.hcMsg = HCMsgOf(o), !.hcStatus = HCStatusOf(o)])

reconcileHostedCluster(id, i, o) ==
    IF i.hcStatus = HCStatusOf(o) THEN Quietly(i)
    ELSE PublishComposite(id, [i EXCEPT !.hcMsg = HCMsgOf(o), !.hcStatus = HCStatusOf(o)])

\* Mutant of reconcileNodePool: npMsg is taken after the comparison of statuses.
reconcileKeepingMessage(id, i, o) ==
    LET moved == [i EXCEPT !.npMsg = NPMsgOf(o), !.npStatus = NPStatusOf(o)]
    IN  IF NPStatusOf(o) \in {NoStatus, i.npStatus} THEN Quietly(i)
        ELSE IF i.hcStatus = NoStatus THEN Quietly(moved)
        ELSE PublishComposite(id, moved)

reconcileNodePool(id, i, o) ==
    LET noted == [i EXCEPT !.npMsg = NPMsgOf(o)]
        moved == [noted EXCEPT !.npStatus = NPStatusOf(o)]
    IN  IF NPStatusOf(o) = NoStatus THEN Quietly(i)
        ELSE IF i.npStatus = NPStatusOf(o) THEN Quietly(noted)
        ELSE IF i.hcStatus = NoStatus THEN Quietly(moved)
        ELSE PublishComposite(id, moved)

\* Mutant of handleDeleteHostedCluster: the instance stays in the map.
handleDeleteKeepingState(id, i) ==
    [inst |-> i, event |-> StatusEvent(id, "DELETED", NoMessage)]

handleDeleteHostedCluster(id, i) ==
    [inst |-> NewInstance, event |-> StatusEvent(id, "DELETED", NoMessage)]

\* Mutant of handleDeleteNodePool: npStatus is not cleared.
handleDeleteKeepingStatus(id, i) ==
    IF i.hcStatus = NoStatus \/ i.lastPublished = i.hcStatus THEN Quietly(i)
    ELSE [inst  |-> [i EXCEPT !.lastPublished = i.hcStatus],
          event |-> StatusEvent(id, i.hcStatus, i.hcMsg)]

handleDeleteNodePool(id, i) ==
    LET alone == [i EXCEPT !.npStatus = NoStatus, !.npMsg = NoMessage]
    IN  IF i.hcStatus = NoStatus THEN Quietly(i)
        ELSE IF i.lastPublished = i.hcStatus THEN Quietly(alone)
        ELSE [inst  |-> [alone EXCEPT !.lastPublished = i.hcStatus],
              event |-> StatusEvent(id, i.hcStatus, i.hcMsg)]

(***************************************************************************)
(* The handler of one informer takes a notification and leaves state.mu.   *)
(***************************************************************************)
Ready(rt) == phase = "running" /\ handler[rt] = NoEvent

Handle(rt, id, result) ==
    /\ inst' = [inst EXCEPT ![id] = result.inst]
    /\ handler' = [handler EXCEPT ![rt] = result.event]
    /\ latest' = IF result.event = NoEvent THEN latest
                 ELSE [latest EXCEPT ![id] = InHandler(rt)]
    /\ UNCHANGED <<debouncerVars, publish, delivered, ctxDone, phase, failures>>

Change(r, o) ==
    /\ store[r] # o
    /\ changes < MaxChanges
    /\ changes' = changes + 1
    /\ store' = [store EXCEPT ![r] = o]

\* AddFunc and UpdateFunc after a change; without one, the periodic resync.
Notify(r, o) == Change(r, o) \/ (store[r] = o /\ UNCHANGED <<store, changes>>)

NotifyHostedCluster(r, o) ==
    /\ InstanceOf[r] # NoID
    /\ Ready("hc")
    /\ Notify(r, o)
    /\ Handle("hc", InstanceOf[r], reconcileHostedCluster(InstanceOf[r], inst[InstanceOf[r]], o))

NotifyNodePool(r, o) ==
    /\ InstanceOf[r] # NoID
    /\ Ready("np")
    /\ Notify(r, o)
    /\ Handle("np", InstanceOf[r], reconcileNodePool(InstanceOf[r], inst[InstanceOf[r]], o))

DeleteHostedCluster(r) ==
    /\ InstanceOf[r] # NoID
    /\ Ready("hc")
    /\ Change(r, Absent)
    /\ Handle("hc", InstanceOf[r], handleDeleteHostedCluster(InstanceOf[r], inst[InstanceOf[r]]))

DeleteNodePool(r) ==
    /\ InstanceOf[r] # NoID
    /\ Ready("np")
    /\ Change(r, Absent)
    /\ Handle("np", InstanceOf[r], handleDeleteNodePool(InstanceOf[r], inst[InstanceOf[r]]))

\* Every handler returns early on a resource without the label.
SkipUnlabelled(r, o) ==
    /\ InstanceOf[r] = NoID
    /\ Ready(IF r \in HostedClusters THEN "hc" ELSE "np")
    /\ Change(r, o)
    /\ UNCHANGED <<inst, handler, debouncerVars, publish, delivered, ctxDone, phase, latest, failures>>

-----------------------------------------------------------------------------
(***************************************************************************)
(* The handler submits, outside state.mu.                                  *)
(***************************************************************************)

\* The last computed event of an instance is lost when its timer is freed unpublished.
Discard(cause) ==
    [id \in InstanceIDs |->
        IF \E t \in Timers : latest[id] = InTimer(t) /\ timer'[t] = D!Free
        THEN Lost(cause) ELSE latest[id]]

SubmitAccepted(rt, t) ==
    LET e == handler[rt] IN
    /\ e # NoEvent
    /\ D!Accept(e.id, e, t)
    /\ handler' = [handler EXCEPT ![rt] = NoEvent]
    /\ latest' = [Discard("reordered") EXCEPT ![e.id] = IF latest[e.id] = InHandler(rt) THEN InTimer(t) ELSE @]
    /\ UNCHANGED <<store, inst, publish, delivered, ctxDone, phase, boundVars>>

SubmitIgnored(rt) ==
    LET e == handler[rt] IN
    /\ e # NoEvent
    /\ D!SubmitAfterStop
    /\ handler' = [handler EXCEPT ![rt] = NoEvent]
    /\ latest' = [latest EXCEPT ![e.id] = IF @ = InHandler(rt) THEN Lost("shutdown") ELSE @]
    /\ UNCHANGED <<store, inst, publish, delivered, ctxDone, phase, boundVars>>

Fire(t) ==
    /\ D!Fire(t)
    /\ UNCHANGED <<store, inst, handler, publish, delivered, ctxDone, phase, latest, boundVars>>

Callback(t) ==
    /\ D!Callback(t)
    /\ latest' = Discard("shutdown")
    /\ UNCHANGED <<store, inst, handler, publish, delivered, ctxDone, phase, boundVars>>

(***************************************************************************)
(* publishWithRetry, run by the callback of timer t.                       *)
(***************************************************************************)
Attempting(t) == timer[t].state = "publishing" /\ ~publish[t].waiting

PublishSucceeds(t) ==
    LET e == timer[t].event IN
    /\ Attempting(t)
    /\ D!PublishReturns(t)
    /\ publish' = [publish EXCEPT ![t] = FirstAttempt]
    /\ delivered' = [delivered EXCEPT ![e.id] = e]
    /\ latest' = [latest EXCEPT ![e.id] =
                    IF @ = InTimer(t) THEN OnBus
                    ELSE IF @ = OnBus THEN Lost("overtaken") ELSE @]
    /\ UNCHANGED <<store, inst, handler, ctxDone, phase, boundVars>>

Fail(t) ==
    /\ Attempting(t)
    /\ failures < MaxFailures
    /\ failures' = failures + 1
    /\ UNCHANGED <<store, inst, handler, delivered, ctxDone, phase, changes>>

PublishFails(t) ==
    /\ Fail(t)
    /\ publish[t].attempt < RetryMax
    /\ publish' = [publish EXCEPT ![t].waiting = TRUE]
    /\ UNCHANGED <<debouncerVars, latest>>

\* "dropping event after retry exhaustion"
PublishDrops(t) ==
    /\ Fail(t)
    /\ publish[t].attempt = RetryMax
    /\ D!PublishReturns(t)
    /\ publish' = [publish EXCEPT ![t] = FirstAttempt]
    /\ latest' = Discard("dropped")

\* Mutant of BackoffElapses: the timer of the backoff never fires.
BackoffHangs(t) ==
    /\ publish[t].waiting
    /\ UNCHANGED vars

\* The select: the backoff elapses, or ctx is done.
BackoffElapses(t) ==
    /\ publish[t].waiting
    /\ publish' = [publish EXCEPT ![t] = [attempt |-> @.attempt + 1, waiting |-> FALSE]]
    /\ UNCHANGED <<store, inst, handler, debouncerVars, delivered, ctxDone, phase, latest, boundVars>>

BackoffCancelled(t) ==
    /\ publish[t].waiting
    /\ ctxDone
    /\ D!PublishReturns(t)
    /\ publish' = [publish EXCEPT ![t] = FirstAttempt]
    /\ latest' = Discard("shutdown")
    /\ UNCHANGED <<store, inst, handler, delivered, ctxDone, phase, boundVars>>

-----------------------------------------------------------------------------
(***************************************************************************)
(* Shutdown: ctx is cancelled, Start leaves <-ctx.Done() and runs its      *)
(* defers, debouncer.Stop and then factory.Shutdown, which waits for the   *)
(* informers' goroutines and so for the handlers.                          *)
(***************************************************************************)
Cancel ==
    /\ ~ctxDone
    /\ ctxDone' = TRUE
    /\ UNCHANGED <<store, inst, handler, debouncerVars, publish, delivered, phase, latest, boundVars>>

StopDebouncer ==
    /\ ctxDone
    /\ D!Stop
    /\ latest' = Discard("shutdown")
    /\ UNCHANGED <<store, inst, handler, publish, delivered, ctxDone, phase, boundVars>>

StopReturns ==
    /\ D!StopReturns
    /\ UNCHANGED <<store, inst, handler, publish, delivered, ctxDone, phase, latest, boundVars>>

StartReturns ==
    /\ phase = "running"
    /\ stopCall = "returned"
    /\ \A rt \in Handlers : handler[rt] = NoEvent
    /\ phase' = "returned"
    /\ UNCHANGED <<store, inst, handler, debouncerVars, publish, delivered, ctxDone, latest, boundVars>>

\* A process that has shut the monitor down stays as it is.
Returned == phase = "returned" /\ UNCHANGED vars

Submit(rt) == SubmitIgnored(rt) \/ \E t \in Timers : SubmitAccepted(rt, t)

Publish(t) == PublishSucceeds(t) \/ PublishFails(t) \/ PublishDrops(t)

Backoff(t) == BackoffElapses(t) \/ BackoffCancelled(t)

Shutdown == StopDebouncer \/ StopReturns \/ StartReturns

Next ==
    \/ \E r \in HostedClusters : DeleteHostedCluster(r) \/ \E o \in HCObjects : NotifyHostedCluster(r, o)
    \/ \E r \in NodePools : DeleteNodePool(r) \/ \E o \in NPObjects : NotifyNodePool(r, o)
    \/ \E r \in Resources :
          \E o \in (IF r \in HostedClusters THEN HCObjects ELSE NPObjects) \cup {Absent} :
             SkipUnlabelled(r, o)
    \/ \E rt \in Handlers : Submit(rt)
    \/ \E t \in Timers : Fire(t) \/ Callback(t) \/ Publish(t) \/ Backoff(t)
    \/ Cancel
    \/ Shutdown
    \/ Returned

SafetySpec == Init /\ [][Next]_vars

(***************************************************************************)
(* A handler goes on to Submit, timers fire and get the mutex, a Publish   *)
(* call and a backoff end, and the deferred calls of Start run.  The       *)
(* informers resync every labelled resource again and again while the      *)
(* monitor runs.  Resources need not change and nobody need cancel.        *)
(***************************************************************************)
Resync(r) ==
    \/ r \in HostedClusters /\ store[r] # Absent /\ NotifyHostedCluster(r, store[r])
    \/ r \in NodePools /\ store[r] # Absent /\ NotifyNodePool(r, store[r])

Fairness ==
    /\ \A rt \in Handlers : WF_vars(Submit(rt))
    /\ \A t \in Timers : WF_vars(Fire(t)) /\ WF_vars(Callback(t)) /\ WF_vars(Publish(t)) /\ WF_vars(Backoff(t))
    /\ \A r \in Resources : WF_vars(Resync(r))
    /\ WF_vars(Shutdown)

Spec == SafetySpec /\ Fairness

-----------------------------------------------------------------------------
HostedClustersOf(id) == {r \in HostedClusters : InstanceOf[r] = id}
NodePoolsOf(id)      == {r \in NodePools : InstanceOf[r] = id}

\* The status the handlers mean the consumers to have.
Intended(id) == IF inst[id].hcStatus = NoStatus THEN "DELETED" ELSE inst[id].lastPublished

(***************************************************************************)
(* LastPublishedIsComposite: between handlers, lastPublished is exactly    *)
(* the composite of the two statuses on record, through every early return *)
(* of reconcileResource and both delete handlers, so the comparison with   *)
(* lastPublished suppresses an event only when nothing has changed.        *)
(***************************************************************************)
LastPublishedIsComposite ==
    \A id \in InstanceIDs :
        inst[id].lastPublished =
            IF inst[id].hcStatus = NoStatus THEN NoStatus ELSE Composite(inst[id])

(***************************************************************************)
(* ViewIsCurrent: the record of an instance that one HostedCluster and one *)
(* NodePool claim agrees with the resources: the HostedCluster's status is *)
(* on record as soon as it is seen and gone once it is deleted, and a      *)
(* NodePool status on record is not an older one of a NodePool that has    *)
(* conditions (NoStatus: forgotten when the HostedCluster was deleted).    *)
(***************************************************************************)
ViewIsCurrent ==
    \A id \in InstanceIDs :
        /\ \A h \in HostedClusters : HostedClustersOf(id) = {h} =>
              inst[id].hcStatus = IF store[h] = Absent THEN NoStatus ELSE HCStatusOf(store[h])
        /\ \A n \in NodePools :
              /\ NodePoolsOf(id) = {n}
              /\ store[n] # Absent /\ NPStatusOf(store[n]) # NoStatus
              => inst[id].npStatus \in {NoStatus, NPStatusOf(store[n])}

(***************************************************************************)
(* LatestIsAccountedFor: the event last computed for an instance is where  *)
(* the history says, with the status the handlers intend, and on the bus   *)
(* no older event has replaced it.  It goes missing only by the causes in  *)
(* LossCauses: a submission out of order, a publication overtaken by an    *)
(* older one, exhausted retries, or shutdown.                              *)
(***************************************************************************)
LatestIsAccountedFor ==
    \A id \in InstanceIDs :
        /\ latest[id] = Nowhere => inst[id].lastPublished = NoStatus
        /\ \A rt \in Handlers : latest[id] = InHandler(rt) =>
              handler[rt] # NoEvent /\ handler[rt].id = id /\ handler[rt].status = Intended(id)
        /\ \A t \in Timers : latest[id] = InTimer(t) =>
              timer[t] # D!Free /\ timer[t].key = id /\ timer[t].event.status = Intended(id)
        /\ latest[id] = OnBus => delivered[id] # NoEvent /\ delivered[id].status = Intended(id)
        /\ latest[id] = Lost("shutdown") => ctxDone
        /\ latest[id] = Lost("dropped") => failures > RetryMax

AtRest == (\A rt \in Handlers : handler[rt] = NoEvent) /\ (\A t \in Timers : timer[t] = D!Free)

(***************************************************************************)
(* QuietMonitorAgrees: with nothing in flight and the last event not lost, *)
(* the last event on the bus for an instance has the worst-of status of    *)
(* its HostedCluster and NodePool as they are now (DELETED if the          *)
(* HostedCluster is gone), provided the NodePool status on record is the   *)
(* NodePool's.                                                             *)
(***************************************************************************)
QuietMonitorAgrees ==
    \A id \in InstanceIDs, h \in HostedClusters, n \in NodePools :
        /\ AtRest
        /\ HostedClustersOf(id) = {h} /\ NodePoolsOf(id) = {n}
        /\ latest[id].at \notin {"nowhere", "lost"}
        /\ inst[id].npStatus = IF store[n] = Absent THEN NoStatus ELSE NPStatusOf(store[n])
        => /\ delivered[id] # NoEvent
           /\ delivered[id].status =
                IF store[h] = Absent THEN "DELETED"
                ELSE ComputeCompositeStatus(HCStatusOf(store[h]), inst[id].npStatus)

(***************************************************************************)
(* MessageIsCurrent: a computed event carries the message that the driving *)
(* resource's conditions give now.  reconcileResource refreshes npMsg on   *)
(* every NodePool event but hcMsg only when the HostedCluster's status     *)
(* changes, so hcMsg may be out of date while another status is published; *)
(* it must not be when it is used.                                         *)
(***************************************************************************)
MessageIsCurrent ==
    [][\A id \in InstanceIDs, h \in HostedClusters, n \in NodePools, rt \in Handlers :
        /\ HostedClustersOf(id) = {h} /\ NodePoolsOf(id) = {n}
        /\ handler[rt] = NoEvent /\ handler'[rt] # NoEvent
        /\ handler'[rt].id = id /\ store'[h] # Absent
        /\ inst'[id].npStatus # NoStatus => store'[n] # Absent /\ inst'[id].npStatus = NPStatusOf(store'[n])
        => handler'[rt].message =
            IF NodePoolIsWorse(HCStatusOf(store'[h]), inst'[id].npStatus)
            THEN NPMsgOf(store'[n]) ELSE HCMsgOf(store'[h])]_vars

(***************************************************************************)
(* EventsSettle: once resources stop changing, every computed event ends   *)
(* up on the bus or among the losses.                                      *)
(***************************************************************************)
EventsSettle ==
    \A id \in InstanceIDs :
        latest[id].at \in {"handler", "timer"} ~> latest[id].at \in {"bus", "lost"}

(***************************************************************************)
(* ShutdownCompletes: after a cancellation Start returns, whatever is in   *)
(* flight.                                                                 *)
(***************************************************************************)
ShutdownCompletes == ctxDone ~> phase = "returned"

-----------------------------------------------------------------------------
(* What the documents promise and the code does not keep.                  *)

(***************************************************************************)
(* DroppedIsRecovered: TD-006, "Dropped events are recoverable via         *)
(* periodic resync".  After a drop, the consumers get the intended status. *)
(***************************************************************************)
DroppedIsRecovered ==
    \A id \in InstanceIDs :
        latest[id] = Lost("dropped") ~>
            ctxDone \/ (delivered[id] # NoEvent /\ delivered[id].status = Intended(id))
=============================================================================
