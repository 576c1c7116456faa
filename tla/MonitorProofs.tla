---------------------------- MODULE MonitorProofs ----------------------------
(***************************************************************************)
(* Proofs about the status monitor, with crashes (MonitorRestart) and      *)
(* without, for any instances, resources, contents, timers and bounds:     *)
(* the record of an instance is consistent and current, and the event last *)
(* computed for an instance is accounted for.                              *)
(***************************************************************************)
EXTENDS MonitorRestart, TLAPS

(***************************************************************************)
(* One record: lastPublished is the composite of what is on record, and    *)
(* the status that the consumers are meant to have.                        *)
(***************************************************************************)
Consistent(i) ==
    i.lastPublished = IF i.hcStatus = NoStatus THEN NoStatus ELSE Composite(i)

IntendedBy(i) == IF i.hcStatus = NoStatus THEN "DELETED" ELSE i.lastPublished

(***************************************************************************)
(* What a handler may make of the record i of instance id: it says so when *)
(* and only when the intended status is another one than before.           *)
(***************************************************************************)
SoundResult(id, i, result) ==
    /\ result.inst \in InstanceState /\ Consistent(result.inst)
    /\ result.event \in StatusEvents \cup {NoEvent}
    /\ result.event = NoEvent =>
        /\ result.inst.lastPublished = i.lastPublished
        /\ IntendedBy(result.inst) = IntendedBy(i)
    /\ result.event # NoEvent =>
        /\ result.event.id = id /\ result.event.status = IntendedBy(result.inst)

-----------------------------------------------------------------------------
(***************************************************************************)
(* The statuses that the mappers return can all be published.              *)
(***************************************************************************)
LEMMA StatusFacts ==
    /\ HCStatus \subseteq ClusterStatus /\ NPStatus \subseteq ClusterStatus
    /\ "DELETED" \in ClusterStatus /\ NoStatus \notin ClusterStatus
BY DEF HCStatus, NPStatus, ClusterStatus, StatusPriority, NoStatus

\* A HostedCluster always has a status.
LEMMA HostedClusterFacts ==
    ASSUME NEW o \in HCObjects
    PROVE  HCStatusOf(o) \in HCStatus /\ HCMsgOf(o) \in Messages
BY DEF HCStatusOf, MapConditionsToStatus, HCStatus, Messages

\* A NodePool has a status, or none where its conditions say nothing.
LEMMA NodePoolFacts ==
    ASSUME NEW o \in NPObjects
    PROVE  NPStatusOf(o) \in NPStatus \cup {NoStatus} /\ NPMsgOf(o) \in Messages
BY DEF NPStatusOf, MapNodePoolConditionsToStatus, NPStatus, Messages

(***************************************************************************)
(* The composite of a seen HostedCluster is one of the two statuses.       *)
(***************************************************************************)
LEMMA CompositeFacts ==
    ASSUME NEW i \in InstanceState, i.hcStatus # NoStatus
    PROVE  Composite(i) \in ClusterStatus /\ compositeMessage(i) \in Messages
<1>1. i.hcStatus \in HCStatus /\ i.npStatus \in NPStatus \cup {NoStatus}
      /\ i.hcMsg \in Messages /\ i.npMsg \in Messages
  BY DEF InstanceState
<1>2. Composite(i) \in {i.hcStatus, i.npStatus} /\ (Composite(i) = i.npStatus => i.npStatus # NoStatus \/ i.hcStatus = i.npStatus)
  BY DEF Composite, ComputeCompositeStatus, NodePoolIsWorse
<1>3. compositeMessage(i) \in {i.hcMsg, i.npMsg}
  BY DEF compositeMessage
<1> QED
  BY <1>1, <1>2, <1>3, StatusFacts

(***************************************************************************)
(* The tail of reconcileResource, from a record i with the new statuses    *)
(* of one, old, in which lastPublished was right.                          *)
(***************************************************************************)
LEMMA PublishSound ==
    ASSUME NEW id \in InstanceIDs, NEW old \in InstanceState, Consistent(old),
           NEW i \in InstanceState, i.hcStatus # NoStatus, i.lastPublished = old.lastPublished
    PROVE  SoundResult(id, old, PublishComposite(id, i))
<1>1. Composite(i) \in ClusterStatus /\ compositeMessage(i) \in Messages
  BY CompositeFacts
<1>2. CASE i.lastPublished = Composite(i)
  <2>1. old.hcStatus # NoStatus
    BY <1>1, <1>2, StatusFacts DEF Consistent
  <2>2. PublishComposite(id, i) = Quietly(i)
    BY <1>2 DEF PublishComposite
  <2> QED
    BY <1>2, <2>1, <2>2 DEF Quietly, SoundResult, Consistent, IntendedBy
<1>3. CASE i.lastPublished # Composite(i)
  <2> DEFINE next == [i EXCEPT !.lastPublished = Composite(i)]
             event == StatusEvent(id, Composite(i), compositeMessage(i))
  <2>1. PublishComposite(id, i) = [inst |-> next, event |-> event]
    BY <1>3 DEF PublishComposite
  <2>2. next \in InstanceState
    BY <1>1 DEF InstanceState
  <2>3. event \in StatusEvents /\ event # NoEvent /\ event.id = id /\ event.status = Composite(i)
    BY <1>1, NoEventAssumption DEF StatusEvents, StatusEvent
  <2>4. /\ next.hcStatus = i.hcStatus /\ next.npStatus = i.npStatus
        /\ next.lastPublished = Composite(i)
    BY DEF InstanceState
  <2> HIDE DEF next, event
  <2>5. Composite(next) = Composite(i)
    BY <2>4 DEF Composite
  <2>6. Consistent(next) /\ IntendedBy(next) = Composite(i)
    BY <2>4, <2>5 DEF Consistent, IntendedBy
  <2>7. PublishComposite(id, i).inst = next /\ PublishComposite(id, i).event = event
    BY <2>1
  <2> QED
    BY <2>2, <2>3, <2>6, <2>7 DEF SoundResult
<1> QED
  BY <1>2, <1>3

(***************************************************************************)
(* The four handlers, and what each leaves on record.                      *)
(***************************************************************************)
LEMMA QuietSound ==
    ASSUME NEW id, NEW old \in InstanceState, Consistent(old), NEW i \in InstanceState,
           i.lastPublished = old.lastPublished, i.hcStatus = old.hcStatus,
           i.npStatus = old.npStatus \/ i.hcStatus = NoStatus
    PROVE  SoundResult(id, old, Quietly(i))
<1>1. Consistent(i) /\ IntendedBy(i) = IntendedBy(old)
  BY DEF Consistent, IntendedBy, Composite
<1>2. Quietly(i).inst = i /\ Quietly(i).event = NoEvent
  BY DEF Quietly
<1> QED
  BY <1>1, <1>2 DEF SoundResult

\* reconcileResource for a HostedCluster records its status and keeps the NodePool's.
LEMMA HostedClusterSound ==
    ASSUME NEW id \in InstanceIDs, NEW i \in InstanceState, Consistent(i), NEW o \in HCObjects
    PROVE  /\ SoundResult(id, i, reconcileHostedCluster(id, i, o))
           /\ reconcileHostedCluster(id, i, o).inst.hcStatus = HCStatusOf(o)
           /\ reconcileHostedCluster(id, i, o).inst.npStatus = i.npStatus
<1> DEFINE moved == [i EXCEPT !.hcMsg = HCMsgOf(o), !.hcStatus = HCStatusOf(o)]
<1>1. CASE i.hcStatus = HCStatusOf(o)
  <2>1. reconcileHostedCluster(id, i, o) = Quietly(i)
    BY <1>1 DEF reconcileHostedCluster
  <2> QED
    BY <1>1, <2>1, QuietSound DEF Quietly
<1>2. CASE i.hcStatus # HCStatusOf(o)
  <2>1. reconcileHostedCluster(id, i, o) = PublishComposite(id, moved)
    BY <1>2 DEF reconcileHostedCluster
  <2>2. /\ moved \in InstanceState /\ moved.hcStatus = HCStatusOf(o) /\ moved.hcStatus # NoStatus
        /\ moved.lastPublished = i.lastPublished /\ moved.npStatus = i.npStatus
    BY HostedClusterFacts, StatusFacts DEF InstanceState
  <2> HIDE DEF moved
  <2>3. PublishComposite(id, moved).inst.hcStatus = moved.hcStatus
        /\ PublishComposite(id, moved).inst.npStatus = moved.npStatus
    BY <2>2 DEF PublishComposite, Quietly, InstanceState
  <2> QED
    BY <2>1, <2>2, <2>3, PublishSound
<1> QED
  BY <1>1, <1>2

\* reconcileResource for a NodePool records its status, if it has one.
LEMMA NodePoolSound ==
    ASSUME NEW id \in InstanceIDs, NEW i \in InstanceState, Consistent(i), NEW o \in NPObjects
    PROVE  /\ SoundResult(id, i, reconcileNodePool(id, i, o))
           /\ reconcileNodePool(id, i, o).inst.hcStatus = i.hcStatus
           /\ reconcileNodePool(id, i, o).inst.npStatus =
                IF NPStatusOf(o) = NoStatus THEN i.npStatus ELSE NPStatusOf(o)
<1> DEFINE noted == [i EXCEPT !.npMsg = NPMsgOf(o)]
           moved == [noted EXCEPT !.npStatus = NPStatusOf(o)]
<1>1. /\ noted \in InstanceState /\ noted.hcStatus = i.hcStatus /\ noted.npStatus = i.npStatus
      /\ noted.lastPublished = i.lastPublished
  BY NodePoolFacts DEF InstanceState
<1>2. /\ moved \in InstanceState /\ moved.hcStatus = i.hcStatus
      /\ moved.npStatus = NPStatusOf(o) /\ moved.lastPublished = i.lastPublished
  BY NodePoolFacts DEF InstanceState
<1>3. reconcileNodePool(id, i, o) =
        IF NPStatusOf(o) = NoStatus THEN Quietly(i)
        ELSE IF i.npStatus = NPStatusOf(o) THEN Quietly(noted)
        ELSE IF i.hcStatus = NoStatus THEN Quietly(moved)
        ELSE PublishComposite(id, moved)
  BY DEF reconcileNodePool
<1> HIDE DEF noted, moved
<1>4. CASE NPStatusOf(o) = NoStatus
  BY <1>3, <1>4, QuietSound DEF Quietly
<1>5. CASE NPStatusOf(o) # NoStatus /\ i.npStatus = NPStatusOf(o)
  BY <1>1, <1>3, <1>5, QuietSound DEF Quietly
<1>6. CASE NPStatusOf(o) # NoStatus /\ i.npStatus # NPStatusOf(o) /\ i.hcStatus = NoStatus
  BY <1>2, <1>3, <1>6, QuietSound DEF Quietly
<1>7. CASE NPStatusOf(o) # NoStatus /\ i.npStatus # NPStatusOf(o) /\ i.hcStatus # NoStatus
  <2>1. PublishComposite(id, moved).inst.hcStatus = moved.hcStatus
        /\ PublishComposite(id, moved).inst.npStatus = moved.npStatus
    BY <1>2 DEF PublishComposite, Quietly, InstanceState
  <2> QED
    BY <1>2, <1>3, <1>7, <2>1, PublishSound
<1> QED
  BY <1>4, <1>5, <1>6, <1>7

\* The deletion of a HostedCluster forgets the instance.
LEMMA DeleteHostedClusterSound ==
    ASSUME NEW id \in InstanceIDs, NEW i \in InstanceState
    PROVE  /\ SoundResult(id, i, handleDeleteHostedCluster(id, i))
           /\ handleDeleteHostedCluster(id, i).inst = NewInstance
<1>1. NewInstance \in InstanceState /\ Consistent(NewInstance)
      /\ IntendedBy(NewInstance) = "DELETED"
  BY DEF NewInstance, InstanceState, Messages, Consistent, IntendedBy
<1>2. /\ StatusEvent(id, "DELETED", NoMessage) \in StatusEvents
      /\ StatusEvent(id, "DELETED", NoMessage).id = id
      /\ StatusEvent(id, "DELETED", NoMessage).status = "DELETED"
  BY StatusFacts DEF StatusEvent, StatusEvents, Messages
<1>3. /\ handleDeleteHostedCluster(id, i).inst = NewInstance
      /\ handleDeleteHostedCluster(id, i).event = StatusEvent(id, "DELETED", NoMessage)
  BY DEF handleDeleteHostedCluster
<1> QED
  BY <1>1, <1>2, <1>3, NoEventAssumption DEF SoundResult

\* The deletion of a NodePool leaves the HostedCluster's status on record.
LEMMA DeleteNodePoolSound ==
    ASSUME NEW id \in InstanceIDs, NEW i \in InstanceState, Consistent(i)
    PROVE  /\ SoundResult(id, i, handleDeleteNodePool(id, i))
           /\ handleDeleteNodePool(id, i).inst.hcStatus = i.hcStatus
<1> DEFINE alone == [i EXCEPT !.npStatus = NoStatus, !.npMsg = NoMessage]
           settled == [alone EXCEPT !.lastPublished = i.hcStatus]
           event == StatusEvent(id, i.hcStatus, i.hcMsg)
<1>1. CASE i.hcStatus = NoStatus
  BY <1>1, QuietSound DEF handleDeleteNodePool, Quietly
<1>2. CASE i.hcStatus # NoStatus
  <2>1. i.hcStatus \in ClusterStatus /\ i.hcMsg \in Messages
    BY <1>2, StatusFacts DEF InstanceState
  <2>2. /\ alone \in InstanceState /\ alone.hcStatus = i.hcStatus
        /\ alone.npStatus = NoStatus /\ alone.lastPublished = i.lastPublished
    BY DEF InstanceState, Messages
  <2>3. /\ settled \in InstanceState /\ settled.hcStatus = i.hcStatus
        /\ settled.npStatus = NoStatus /\ settled.lastPublished = i.hcStatus
    BY <2>1 DEF InstanceState, Messages
  <2>4. event \in StatusEvents /\ event # NoEvent /\ event.id = id /\ event.status = i.hcStatus
    BY <2>1, NoEventAssumption DEF StatusEvent, StatusEvents
  <2>5. handleDeleteNodePool(id, i) =
          IF i.lastPublished = i.hcStatus THEN Quietly(alone)
          ELSE [inst |-> settled, event |-> event]
    BY <1>2 DEF handleDeleteNodePool
  <2> HIDE DEF alone, settled, event
  <2>6. Composite(alone) = i.hcStatus /\ Composite(settled) = i.hcStatus
    BY <2>2, <2>3 DEF Composite, ComputeCompositeStatus, NodePoolIsWorse
  <2>7. CASE i.lastPublished = i.hcStatus
    <3>1. Consistent(alone) /\ IntendedBy(alone) = IntendedBy(i)
      BY <1>2, <2>2, <2>6, <2>7 DEF Consistent, IntendedBy
    <3>2. handleDeleteNodePool(id, i).inst = alone /\ handleDeleteNodePool(id, i).event = NoEvent
      BY <2>5, <2>7 DEF Quietly
    <3> QED
      BY <2>2, <3>1, <3>2 DEF SoundResult
  <2>8. CASE i.lastPublished # i.hcStatus
    <3>1. Consistent(settled) /\ IntendedBy(settled) = i.hcStatus
      BY <1>2, <2>3, <2>6 DEF Consistent, IntendedBy
    <3>2. handleDeleteNodePool(id, i).inst = settled /\ handleDeleteNodePool(id, i).event = event
      BY <2>5, <2>8
    <3> QED
      BY <2>3, <2>4, <3>1, <3>2 DEF SoundResult
  <2> QED
    BY <2>7, <2>8
<1> QED
  BY <1>1, <1>2

-----------------------------------------------------------------------------
(***************************************************************************)
(* The parts of the inductive invariant.                                   *)
(***************************************************************************)
Recorded == inst \in [InstanceIDs -> InstanceState] /\ LastPublishedIsComposite

Stored ==
    /\ store = [r \in Resources |-> store[r]]
    /\ \A r \in HostedClusters : store[r] \in HCObjects \cup {Absent}
    /\ \A r \in NodePools : store[r] \in NPObjects \cup {Absent}
    /\ changes \in 0..MaxChanges /\ phase \in {"running", "returned"}

\* The debouncer is stopped by a cancellation, and a timer's event is of its key.
TimersKeyed ==
    /\ D!TypeOK
    /\ \A t \in Timers : timer[t] # D!Free => timer[t].event.id = timer[t].key
    /\ ctxDone \in BOOLEAN /\ (stopped => ctxDone)

\* Every attempt but the first comes of a failure.
AttemptsCounted ==
    /\ publish \in [Timers -> [attempt : 0..RetryMax, waiting : BOOLEAN]]
    /\ failures \in 0..MaxFailures
    /\ \A t \in Timers :
        /\ publish[t].attempt <= failures
        /\ publish[t].waiting => publish[t].attempt < RetryMax /\ publish[t].attempt < failures

EventsTyped ==
    /\ handler \in [Handlers -> StatusEvents \cup {NoEvent}]
    /\ delivered \in [InstanceIDs -> StatusEvents \cup {NoEvent}]

Tracked == latest \in [InstanceIDs -> Places] /\ LatestIsAccountedFor

IInv == Recorded /\ Stored /\ TimersKeyed /\ AttemptsCounted /\ EventsTyped /\ Tracked /\ ViewIsCurrent

(***************************************************************************)
(* The places are different from each other.                               *)
(***************************************************************************)
LEMMA PlaceFacts ==
    /\ \A t, u : InTimer(t) = InTimer(u) => t = u
    /\ \A rt, qt : InHandler(rt) = InHandler(qt) => rt = qt
    /\ \A c, d : Lost(c) = Lost(d) => c = d
    /\ \A t, rt, c :
        /\ InTimer(t) \notin {InHandler(rt), Lost(c), OnBus, Nowhere}
        /\ InHandler(rt) \notin {Lost(c), OnBus, Nowhere}
        /\ Lost(c) \notin {OnBus, Nowhere}
    /\ OnBus # Nowhere
<1>1. /\ \A t : InTimer(t).at = "timer" /\ InTimer(t).by = t
      /\ \A rt : InHandler(rt).at = "handler" /\ InHandler(rt).by = rt
      /\ \A c : Lost(c).at = "lost" /\ Lost(c).cause = c
      /\ OnBus.at = "bus" /\ Nowhere.at = "nowhere"
  BY DEF InTimer, InHandler, Lost, OnBus, Nowhere
<1>2. /\ \A t, u : InTimer(t) = InTimer(u) => t = u
      /\ \A rt, qt : InHandler(rt) = InHandler(qt) => rt = qt
      /\ \A c, d : Lost(c) = Lost(d) => c = d
  BY <1>1
<1>3. \A t, rt, c : InTimer(t) \notin {InHandler(rt), Lost(c), OnBus, Nowhere}
  BY <1>1
<1>4. \A rt, c : InHandler(rt) \notin {Lost(c), OnBus, Nowhere}
  BY <1>1
<1>5. \A c : Lost(c) \notin {OnBus, Nowhere}
  BY <1>1
<1>6. OnBus # Nowhere
  BY <1>1
<1> QED
  BY <1>2, <1>3, <1>4, <1>5, <1>6

(***************************************************************************)
(* What a step that computes no event may do to the last event of an       *)
(* instance.                                                               *)
(***************************************************************************)
StaysPut(id) ==
    /\ latest'[id] = latest[id]
    /\ \A rt \in Handlers : latest[id] = InHandler(rt) => handler'[rt] = handler[rt]
    /\ \A t \in Timers : latest[id] = InTimer(t) =>
        timer'[t] # D!Free /\ timer'[t].key = timer[t].key /\ timer'[t].event = timer[t].event
    /\ latest[id] = OnBus => delivered'[id] = delivered[id]

GetsLost(id) ==
    \E cause \in LossCauses :
        /\ latest'[id] = Lost(cause)
        /\ cause = "shutdown" => ctxDone'
        /\ cause = "dropped" => failures' > RetryMax

GetsTimer(id) ==
    \E t \in Timers :
        /\ latest'[id] = InTimer(t)
        /\ timer'[t] # D!Free /\ timer'[t].key = id /\ timer'[t].event.status = Intended(id)

GetsOut(id) ==
    latest'[id] = OnBus /\ delivered'[id] # NoEvent /\ delivered'[id].status = Intended(id)

\* Steps of those four kinds keep every last event accounted for.
LEMMA StepTracks ==
    ASSUME Tracked, inst' = inst, ctxDone => ctxDone',
           failures \in Int, failures' \in Int, failures <= failures',
           latest' = [id \in InstanceIDs |-> latest'[id]],
           \A id \in InstanceIDs : StaysPut(id) \/ GetsLost(id) \/ GetsTimer(id) \/ GetsOut(id)
    PROVE  Tracked'
<1> DEFINE Accounted(id) ==
      /\ latest[id] = Nowhere => inst[id].lastPublished = NoStatus
      /\ \A rt \in Handlers : latest[id] = InHandler(rt) =>
            handler[rt] # NoEvent /\ handler[rt].id = id /\ handler[rt].status = Intended(id)
      /\ \A t \in Timers : latest[id] = InTimer(t) =>
            timer[t] # D!Free /\ timer[t].key = id /\ timer[t].event.status = Intended(id)
      /\ latest[id] = OnBus => delivered[id] # NoEvent /\ delivered[id].status = Intended(id)
      /\ latest[id] = Lost("shutdown") => ctxDone
      /\ latest[id] = Lost("dropped") => failures > RetryMax
<1>1. ASSUME NEW id \in InstanceIDs
      PROVE  latest'[id] \in Places /\ Accounted(id)'
  <2>1. Accounted(id) /\ latest[id] \in Places
    BY DEF Tracked, LatestIsAccountedFor
  <2>2. Intended(id)' = Intended(id) /\ inst'[id] = inst[id]
    BY DEF Intended
  <2>3. CASE StaysPut(id)
    BY <2>1, <2>2, <2>3, BoundsAssumption DEF StaysPut
  <2>4. CASE GetsLost(id)
    BY <2>2, <2>4, PlaceFacts DEF GetsLost, Places
  <2>5. CASE GetsTimer(id)
    BY <2>2, <2>5, PlaceFacts DEF GetsTimer, Places
  <2>6. CASE GetsOut(id)
    BY <2>2, <2>6, PlaceFacts DEF GetsOut, Places
  <2> QED
    BY <1>1, <2>3, <2>4, <2>5, <2>6
<1> QED
  BY <1>1 DEF Tracked, LatestIsAccountedFor

(***************************************************************************)
(* A handler leaves state.mu with a sound result: the record is right, and *)
(* the event last computed for every instance is still accounted for.      *)
(***************************************************************************)
LEMMA HandleKeeps ==
    ASSUME Recorded, TimersKeyed, AttemptsCounted, EventsTyped, Tracked,
           NEW rt \in Handlers, NEW id \in InstanceIDs, NEW result,
           SoundResult(id, inst[id], result), Ready(rt), Handle(rt, id, result)
    PROVE  Recorded' /\ TimersKeyed' /\ AttemptsCounted' /\ EventsTyped' /\ Tracked'
<1>1. /\ inst' = [inst EXCEPT ![id] = result.inst]
      /\ handler' = [handler EXCEPT ![rt] = result.event]
      /\ latest' = IF result.event = NoEvent THEN latest ELSE [latest EXCEPT ![id] = InHandler(rt)]
      /\ UNCHANGED <<timers, timer, stopped, stopCall, newest, publish, delivered, ctxDone, phase, failures>>
  BY DEF Handle, debouncerVars
<1>2. /\ result.inst \in InstanceState /\ Consistent(result.inst)
      /\ result.event \in StatusEvents \cup {NoEvent}
      /\ result.event = NoEvent =>
           /\ result.inst.lastPublished = inst[id].lastPublished
           /\ IntendedBy(result.inst) = IntendedBy(inst[id])
      /\ result.event # NoEvent =>
           result.event.id = id /\ result.event.status = IntendedBy(result.inst)
  BY DEF SoundResult
<1>3. \A k \in InstanceIDs : inst'[k] = IF k = id THEN result.inst ELSE inst[k]
  BY <1>1 DEF Recorded
<1>4. Recorded'
  <2>1. inst' \in [InstanceIDs -> InstanceState]
    BY <1>1, <1>2 DEF Recorded
  <2>2. \A k \in InstanceIDs : Consistent(inst'[k])
    BY <1>2, <1>3 DEF Recorded, LastPublishedIsComposite, Consistent
  <2> QED
    BY <2>1, <2>2 DEF Recorded, LastPublishedIsComposite, Consistent
<1>5. TimersKeyed' /\ AttemptsCounted'
  BY <1>1 DEF TimersKeyed, AttemptsCounted, D!TypeOK
<1>6. EventsTyped'
  BY <1>1, <1>2 DEF EventsTyped
<1>7. handler[rt] = NoEvent /\ \A qt \in Handlers : handler'[qt] = IF qt = rt THEN result.event ELSE handler[qt]
  BY <1>1 DEF Ready, EventsTyped
<1>8. \A k \in InstanceIDs : Intended(k) = IntendedBy(inst[k]) /\ Intended(k)' = IntendedBy(inst'[k])
  BY DEF Intended, IntendedBy
<1>9. \A k \in InstanceIDs :
        latest'[k] = IF k = id /\ result.event # NoEvent THEN InHandler(rt) ELSE latest[k]
  BY <1>1 DEF Tracked
<1>10. latest' \in [InstanceIDs -> Places]
  BY <1>1 DEF Tracked, Places
<1>11. ASSUME NEW k \in InstanceIDs, ~ (k = id /\ result.event # NoEvent)
       PROVE  /\ latest'[k] = latest[k] /\ latest[k] # InHandler(rt)
              /\ inst'[k].lastPublished = inst[k].lastPublished /\ Intended(k)' = Intended(k)
  BY <1>2, <1>3, <1>7, <1>8, <1>9, <1>11 DEF Tracked, LatestIsAccountedFor
<1>12. LatestIsAccountedFor'
  <2> SUFFICES ASSUME NEW k \in InstanceIDs
               PROVE  (/\ latest[k] = Nowhere => inst[k].lastPublished = NoStatus
                       /\ \A qt \in Handlers : latest[k] = InHandler(qt) =>
                            handler[qt] # NoEvent /\ handler[qt].id = k /\ handler[qt].status = Intended(k)
                       /\ \A t \in Timers : latest[k] = InTimer(t) =>
                            timer[t] # D!Free /\ timer[t].key = k /\ timer[t].event.status = Intended(k)
                       /\ latest[k] = OnBus => delivered[k] # NoEvent /\ delivered[k].status = Intended(k)
                       /\ latest[k] = Lost("shutdown") => ctxDone
                       /\ latest[k] = Lost("dropped") => failures > RetryMax)'
    BY DEF LatestIsAccountedFor
  <2>1. CASE k = id /\ result.event # NoEvent
    BY <1>2, <1>3, <1>7, <1>8, <1>9, <2>1, PlaceFacts
  <2>2. CASE ~ (k = id /\ result.event # NoEvent)
    BY <1>1, <1>7, <1>11, <2>2 DEF Tracked, LatestIsAccountedFor
  <2> QED
    BY <2>1, <2>2
<1> QED
  BY <1>4, <1>5, <1>6, <1>10, <1>12 DEF Tracked

-----------------------------------------------------------------------------
(***************************************************************************)
(* The record agrees with the resources: what a step of a handler on the   *)
(* resource r with contents o has to leave on record.                      *)
(***************************************************************************)
LEMMA HostedClusterView ==
    ASSUME Stored, Recorded, ViewIsCurrent, NEW r \in HostedClusters, InstanceOf[r] # NoID,
           NEW o \in HCObjects \cup {Absent}, store' = [store EXCEPT ![r] = o],
           NEW i, inst' = [inst EXCEPT ![InstanceOf[r]] = i],
           i.hcStatus = IF o = Absent THEN NoStatus ELSE HCStatusOf(o),
           i.npStatus \in {NoStatus, inst[InstanceOf[r]].npStatus}
    PROVE  ViewIsCurrent'
<1>1. InstanceOf[r] \in InstanceIDs /\ r \in Resources /\ r \notin NodePools
  BY ResourcesAssumption DEF Resources
<1>2. \A q \in Resources : store'[q] = IF q = r THEN o ELSE store[q]
  BY <1>1 DEF Stored
<1>3. \A id \in InstanceIDs : inst'[id] = IF id = InstanceOf[r] THEN i ELSE inst[id]
  BY DEF Recorded
<1>4. ASSUME NEW id \in InstanceIDs, NEW h \in HostedClusters, HostedClustersOf(id) = {h}
      PROVE  inst'[id].hcStatus = IF store'[h] = Absent THEN NoStatus ELSE HCStatusOf(store'[h])
  <2>1. h \in Resources /\ InstanceOf[h] = id /\ (InstanceOf[r] = id => r = h)
    BY <1>4 DEF HostedClustersOf, Resources
  <2>2. CASE r = h
    BY <1>2, <1>3, <2>1, <2>2
  <2>3. CASE r # h
    BY <1>2, <1>3, <1>4, <2>1, <2>3 DEF ViewIsCurrent
  <2> QED
    BY <2>2, <2>3
<1>5. ASSUME NEW id \in InstanceIDs, NEW n \in NodePools, NodePoolsOf(id) = {n},
             store'[n] # Absent, NPStatusOf(store'[n]) # NoStatus
      PROVE  inst'[id].npStatus \in {NoStatus, NPStatusOf(store'[n])}
  <2>1. n \in Resources /\ n # r
    BY <1>1 DEF Resources
  <2> QED
    BY <1>2, <1>3, <1>5, <2>1 DEF ViewIsCurrent
<1> QED
  BY <1>4, <1>5 DEF ViewIsCurrent, HostedClustersOf, NodePoolsOf

\* The same for a NodePool.
LEMMA NodePoolView ==
    ASSUME Stored, Recorded, ViewIsCurrent, NEW r \in NodePools, InstanceOf[r] # NoID,
           NEW o \in NPObjects \cup {Absent}, store' = [store EXCEPT ![r] = o],
           NEW i, inst' = [inst EXCEPT ![InstanceOf[r]] = i],
           i.hcStatus = inst[InstanceOf[r]].hcStatus,
           o # Absent /\ NPStatusOf(o) # NoStatus => i.npStatus = NPStatusOf(o)
    PROVE  ViewIsCurrent'
<1>1. InstanceOf[r] \in InstanceIDs /\ r \in Resources /\ r \notin HostedClusters
  BY ResourcesAssumption DEF Resources
<1>2. \A q \in Resources : store'[q] = IF q = r THEN o ELSE store[q]
  BY <1>1 DEF Stored
<1>3. \A id \in InstanceIDs : inst'[id] = IF id = InstanceOf[r] THEN i ELSE inst[id]
  BY DEF Recorded
<1>4. ASSUME NEW id \in InstanceIDs, NEW h \in HostedClusters, HostedClustersOf(id) = {h}
      PROVE  inst'[id].hcStatus = IF store'[h] = Absent THEN NoStatus ELSE HCStatusOf(store'[h])
  <2>1. h \in Resources /\ h # r
    BY <1>1 DEF Resources
  <2>2. inst'[id].hcStatus = inst[id].hcStatus
    BY <1>3
  <2> QED
    BY <1>2, <1>4, <2>1, <2>2 DEF ViewIsCurrent
<1>5. ASSUME NEW id \in InstanceIDs, NEW n \in NodePools, NodePoolsOf(id) = {n},
             store'[n] # Absent, NPStatusOf(store'[n]) # NoStatus
      PROVE  inst'[id].npStatus \in {NoStatus, NPStatusOf(store'[n])}
  <2>1. n \in Resources /\ InstanceOf[n] = id /\ (InstanceOf[r] = id => r = n)
    BY <1>5 DEF NodePoolsOf, Resources
  <2>2. CASE r = n
    BY <1>2, <1>3, <1>5, <2>1, <2>2
  <2>3. CASE r # n
    BY <1>2, <1>3, <1>5, <2>1, <2>3 DEF ViewIsCurrent
  <2> QED
    BY <2>2, <2>3
<1> QED
  BY <1>4, <1>5 DEF ViewIsCurrent, HostedClustersOf, NodePoolsOf

-----------------------------------------------------------------------------
(***************************************************************************)
(* A notification of either informer keeps the whole invariant, whether it *)
(* comes of a change, of a resync or of the list after a restart.          *)
(***************************************************************************)
LEMMA StoreTyped ==
    ASSUME Stored, NEW r \in Resources, NEW o,
           r \in HostedClusters => o \in HCObjects \cup {Absent},
           r \in NodePools => o \in NPObjects \cup {Absent},
           store' = [store EXCEPT ![r] = o], changes' \in 0..MaxChanges, phase' = phase
    PROVE  Stored'
BY DEF Stored, Resources

\* A HostedCluster comes in with contents o.
LEMMA HostedClusterNotified ==
    ASSUME IInv, NEW r \in HostedClusters, InstanceOf[r] # NoID, Ready("hc"), NEW o \in HCObjects,
           store' = [store EXCEPT ![r] = o], changes' \in 0..MaxChanges,
           Handle("hc", InstanceOf[r], reconcileHostedCluster(InstanceOf[r], inst[InstanceOf[r]], o))
    PROVE  IInv'
<1> DEFINE id == InstanceOf[r]
           result == reconcileHostedCluster(id, inst[id], o)
<1>1. Recorded /\ Stored /\ TimersKeyed /\ AttemptsCounted /\ EventsTyped /\ Tracked /\ ViewIsCurrent
  BY DEF IInv
<1>2. id \in InstanceIDs /\ r \in Resources /\ r \notin NodePools /\ o # Absent /\ "hc" \in Handlers
  BY ResourcesAssumption DEF Resources, Handlers
<1>3. inst[id] \in InstanceState /\ Consistent(inst[id])
  BY <1>1, <1>2 DEF Recorded, LastPublishedIsComposite, Consistent
<1>4. /\ SoundResult(id, inst[id], result) /\ result.inst.hcStatus = HCStatusOf(o)
      /\ result.inst.npStatus = inst[id].npStatus
  BY <1>2, <1>3, HostedClusterSound
<1>5. inst' = [inst EXCEPT ![id] = result.inst] /\ phase' = phase /\ Handle("hc", id, result)
  BY DEF Handle
<1> HIDE DEF result
<1>6. Recorded' /\ TimersKeyed' /\ AttemptsCounted' /\ EventsTyped' /\ Tracked'
  BY <1>1, <1>2, <1>4, <1>5, HandleKeeps
<1>7. Stored'
  BY <1>1, <1>2, <1>5, StoreTyped
<1>8. ViewIsCurrent'
  BY <1>1, <1>2, <1>4, <1>5, HostedClusterView
<1> QED
  BY <1>6, <1>7, <1>8 DEF IInv

\* A NodePool comes in with contents o.
LEMMA NodePoolNotified ==
    ASSUME IInv, NEW r \in NodePools, InstanceOf[r] # NoID, Ready("np"), NEW o \in NPObjects,
           store' = [store EXCEPT ![r] = o], changes' \in 0..MaxChanges,
           Handle("np", InstanceOf[r], reconcileNodePool(InstanceOf[r], inst[InstanceOf[r]], o))
    PROVE  IInv'
<1> DEFINE id == InstanceOf[r]
           result == reconcileNodePool(id, inst[id], o)
<1>1. Recorded /\ Stored /\ TimersKeyed /\ AttemptsCounted /\ EventsTyped /\ Tracked /\ ViewIsCurrent
  BY DEF IInv
<1>2. id \in InstanceIDs /\ r \in Resources /\ r \notin HostedClusters /\ "np" \in Handlers
  BY ResourcesAssumption DEF Resources, Handlers
<1>3. inst[id] \in InstanceState /\ Consistent(inst[id])
  BY <1>1, <1>2 DEF Recorded, LastPublishedIsComposite, Consistent
<1>4. /\ SoundResult(id, inst[id], result) /\ result.inst.hcStatus = inst[id].hcStatus
      /\ NPStatusOf(o) # NoStatus => result.inst.npStatus = NPStatusOf(o)
  BY <1>2, <1>3, NodePoolSound
<1>5. inst' = [inst EXCEPT ![id] = result.inst] /\ phase' = phase /\ Handle("np", id, result)
  BY DEF Handle
<1> HIDE DEF result
<1>6. Recorded' /\ TimersKeyed' /\ AttemptsCounted' /\ EventsTyped' /\ Tracked'
  BY <1>1, <1>2, <1>4, <1>5, HandleKeeps
<1>7. Stored'
  BY <1>1, <1>2, <1>5, StoreTyped
<1>8. ViewIsCurrent'
  BY <1>1, <1>2, <1>4, <1>5, NodePoolView
<1> QED
  BY <1>6, <1>7, <1>8 DEF IInv

\* A change and a resync both leave the contents o in the store.
LEMMA NotifyEffect ==
    ASSUME Stored, NEW r \in Resources, NEW o, Change(r, o) \/ Notify(r, o)
    PROVE  store' = [store EXCEPT ![r] = o] /\ changes' \in 0..MaxChanges
<1>1. CASE Change(r, o)
  BY <1>1, BoundsAssumption DEF Change, Stored
<1>2. CASE store[r] = o /\ UNCHANGED <<store, changes>>
  BY <1>2 DEF Stored
<1> QED
  BY <1>1, <1>2 DEF Notify

\* Additions, updates and resyncs keep the invariant.
LEMMA NotifyKeepsIInv ==
    ASSUME IInv,
           \/ \E r \in HostedClusters, o \in HCObjects : NotifyHostedCluster(r, o)
           \/ \E r \in NodePools, o \in NPObjects : NotifyNodePool(r, o)
    PROVE  IInv'
<1>1. Stored
  BY DEF IInv
<1>2. ASSUME NEW r \in HostedClusters, NEW o \in HCObjects, NotifyHostedCluster(r, o)
      PROVE  IInv'
  <2>1. r \in Resources
    BY DEF Resources
  <2>2. store' = [store EXCEPT ![r] = o] /\ changes' \in 0..MaxChanges
    BY <1>1, <1>2, <2>1, NotifyEffect DEF NotifyHostedCluster
  <2> QED
    BY <1>2, <2>2, HostedClusterNotified DEF NotifyHostedCluster
<1>3. ASSUME NEW r \in NodePools, NEW o \in NPObjects, NotifyNodePool(r, o)
      PROVE  IInv'
  <2>1. r \in Resources
    BY DEF Resources
  <2>2. store' = [store EXCEPT ![r] = o] /\ changes' \in 0..MaxChanges
    BY <1>1, <1>3, <2>1, NotifyEffect DEF NotifyNodePool
  <2> QED
    BY <1>3, <2>2, NodePoolNotified DEF NotifyNodePool
<1> QED
  BY <1>2, <1>3

\* Deletions keep the invariant.
LEMMA DeleteKeepsIInv ==
    ASSUME IInv,
           \/ \E r \in HostedClusters : DeleteHostedCluster(r)
           \/ \E r \in NodePools : DeleteNodePool(r)
    PROVE  IInv'
<1>1. Recorded /\ Stored /\ TimersKeyed /\ AttemptsCounted /\ EventsTyped /\ Tracked /\ ViewIsCurrent
  BY DEF IInv
<1>2. ASSUME NEW r \in HostedClusters, DeleteHostedCluster(r)
      PROVE  IInv'
  <2> DEFINE id == InstanceOf[r]
             result == handleDeleteHostedCluster(id, inst[id])
  <2>1. /\ id \in InstanceIDs /\ r \in Resources /\ r \notin NodePools /\ "hc" \in Handlers
        /\ id # NoID /\ Ready("hc") /\ Change(r, Absent) /\ Handle("hc", id, result)
    BY <1>2, ResourcesAssumption DEF Resources, Handlers, DeleteHostedCluster
  <2>2. store' = [store EXCEPT ![r] = Absent] /\ changes' \in 0..MaxChanges
    BY <1>1, <2>1, NotifyEffect
  <2>3. SoundResult(id, inst[id], result) /\ result.inst = NewInstance
    BY <1>1, <2>1, DeleteHostedClusterSound DEF Recorded
  <2>4. inst' = [inst EXCEPT ![id] = result.inst] /\ phase' = phase
    BY <2>1 DEF Handle
  <2> HIDE DEF result
  <2>5. Recorded' /\ TimersKeyed' /\ AttemptsCounted' /\ EventsTyped' /\ Tracked'
    BY <1>1, <2>1, <2>3, HandleKeeps
  <2>6. Stored'
    BY <1>1, <2>1, <2>2, <2>4, StoreTyped
  <2>7. result.inst.hcStatus = NoStatus /\ result.inst.npStatus = NoStatus
    BY <2>3 DEF NewInstance
  <2>8. ViewIsCurrent'
    BY <1>1, <2>1, <2>2, <2>4, <2>7, HostedClusterView
  <2> QED
    BY <2>5, <2>6, <2>8 DEF IInv
<1>3. ASSUME NEW r \in NodePools, DeleteNodePool(r)
      PROVE  IInv'
  <2> DEFINE id == InstanceOf[r]
             result == handleDeleteNodePool(id, inst[id])
  <2>1. /\ id \in InstanceIDs /\ r \in Resources /\ r \notin HostedClusters /\ "np" \in Handlers
        /\ id # NoID /\ Ready("np") /\ Change(r, Absent) /\ Handle("np", id, result)
    BY <1>3, ResourcesAssumption DEF Resources, Handlers, DeleteNodePool
  <2>2. store' = [store EXCEPT ![r] = Absent] /\ changes' \in 0..MaxChanges
    BY <1>1, <2>1, NotifyEffect
  <2>3. inst[id] \in InstanceState /\ Consistent(inst[id])
    BY <1>1, <2>1 DEF Recorded, LastPublishedIsComposite, Consistent
  <2>4. SoundResult(id, inst[id], result) /\ result.inst.hcStatus = inst[id].hcStatus
    BY <2>1, <2>3, DeleteNodePoolSound
  <2>5. inst' = [inst EXCEPT ![id] = result.inst] /\ phase' = phase
    BY <2>1 DEF Handle
  <2> HIDE DEF result
  <2>6. Recorded' /\ TimersKeyed' /\ AttemptsCounted' /\ EventsTyped' /\ Tracked'
    BY <1>1, <2>1, <2>4, HandleKeeps
  <2>7. Stored'
    BY <1>1, <2>1, <2>2, <2>5, StoreTyped
  <2>8. ViewIsCurrent'
    BY <1>1, <2>1, <2>2, <2>4, <2>5, NodePoolView
  <2> QED
    BY <2>6, <2>7, <2>8 DEF IInv
<1> QED
  BY <1>2, <1>3

\* A resource without the label is in no one's view.
LEMMA SkipKeepsIInv ==
    ASSUME IInv, NEW r \in Resources,
           NEW o \in (IF r \in HostedClusters THEN HCObjects ELSE NPObjects) \cup {Absent},
           SkipUnlabelled(r, o)
    PROVE  IInv'
<1>1. Recorded /\ Stored /\ TimersKeyed /\ AttemptsCounted /\ EventsTyped /\ Tracked /\ ViewIsCurrent
  BY DEF IInv
<1>2. /\ InstanceOf[r] = NoID
      /\ UNCHANGED <<inst, handler, timers, timer, stopped, stopCall, newest, publish, delivered,
                     ctxDone, phase, latest, failures>>
  BY DEF SkipUnlabelled, debouncerVars
<1>3. store' = [store EXCEPT ![r] = o] /\ changes' \in 0..MaxChanges
  BY <1>1, NotifyEffect DEF SkipUnlabelled
<1>4. Stored'
  BY <1>1, <1>2, <1>3, ResourcesAssumption, StoreTyped DEF Resources
<1>5. \A q \in Resources : InstanceOf[q] \in InstanceIDs => store'[q] = store[q]
  BY <1>1, <1>2, <1>3, ResourcesAssumption DEF Stored
<1>6. ViewIsCurrent'
  <2>1. \A id \in InstanceIDs : HostedClustersOf(id) \subseteq Resources /\ NodePoolsOf(id) \subseteq Resources
        /\ \A q \in HostedClustersOf(id) \cup NodePoolsOf(id) : InstanceOf[q] = id
    BY DEF HostedClustersOf, NodePoolsOf, Resources
  <2>2. \A id \in InstanceIDs : \A q \in HostedClustersOf(id) \cup NodePoolsOf(id) : store'[q] = store[q]
    BY <1>5, <2>1
  <2>3. ASSUME NEW id \in InstanceIDs, NEW h \in HostedClusters, HostedClustersOf(id) = {h}
        PROVE  inst'[id].hcStatus = IF store'[h] = Absent THEN NoStatus ELSE HCStatusOf(store'[h])
    BY <1>1, <1>2, <2>2, <2>3 DEF ViewIsCurrent
  <2>4. ASSUME NEW id \in InstanceIDs, NEW n \in NodePools, NodePoolsOf(id) = {n},
               store'[n] # Absent, NPStatusOf(store'[n]) # NoStatus
        PROVE  inst'[id].npStatus \in {NoStatus, NPStatusOf(store'[n])}
    BY <1>1, <1>2, <2>2, <2>4 DEF ViewIsCurrent
  <2> QED
    BY <2>3, <2>4 DEF ViewIsCurrent, HostedClustersOf, NodePoolsOf
<1>7. Recorded' /\ TimersKeyed' /\ AttemptsCounted' /\ EventsTyped'
  BY <1>1, <1>2 DEF Recorded, LastPublishedIsComposite, Composite, TimersKeyed, D!TypeOK,
                    AttemptsCounted, EventsTyped
<1>8. Tracked'
  BY <1>1, <1>2 DEF Tracked, LatestIsAccountedFor, Intended
<1> QED
  BY <1>4, <1>6, <1>7, <1>8 DEF IInv

-----------------------------------------------------------------------------
(***************************************************************************)
(* The steps that see no resource: the record and the view are as before.  *)
(***************************************************************************)
LEMMA BehindTheHandlers ==
    ASSUME IInv, UNCHANGED <<store, inst, changes>>, phase' \in {"running", "returned"},
           TimersKeyed', AttemptsCounted', EventsTyped', Tracked'
    PROVE  IInv'
<1>1. Recorded /\ Stored /\ ViewIsCurrent
  BY DEF IInv
<1>2. Recorded' /\ Stored'
  BY <1>1 DEF Recorded, LastPublishedIsComposite, Composite, Stored
<1>3. ViewIsCurrent'
  BY <1>1 DEF ViewIsCurrent, HostedClustersOf, NodePoolsOf
<1> QED
  BY <1>2, <1>3 DEF IInv

(***************************************************************************)
(* What the debouncer's steps do to the timers: one may be armed, fired,   *)
(* handed over or freed; another one may be freed, nothing else.           *)
(***************************************************************************)
KeptOrFreed(t) ==
    timer'[t] = D!Free \/ (timer[t] # D!Free /\ timer'[t] # D!Free
                            /\ timer'[t].key = timer[t].key /\ timer'[t].event = timer[t].event)

\* debouncer.Submit arms a timer and may free the one tracked before.
LEMMA AcceptEffect ==
    ASSUME TimersKeyed, NEW e \in StatusEvents, NEW t \in Timers, D!Accept(e.id, e, t), ctxDone' = ctxDone
    PROVE  /\ TimersKeyed' /\ timer[t] = D!Free
           /\ timer'[t] # D!Free /\ timer'[t].key = e.id /\ timer'[t].event = e
           /\ \A u \in Timers \ {t} : KeptOrFreed(u)
<1>1. e.id \in InstanceIDs
  BY DEF StatusEvents
<1>2. /\ timer[t] = D!Free
      /\ timer' = [D!StopTimers({timers[e.id]}) EXCEPT ![t] = D!Armed(e.id, e)]
      /\ timers' = [timers EXCEPT ![e.id] = t] /\ newest' = [newest EXCEPT ![e.id] = t]
      /\ stopped' = stopped /\ stopCall' = stopCall
  BY DEF D!Accept
<1>3. \A u \in Timers : timer'[u] = IF u = t THEN D!Armed(e.id, e)
                                   ELSE IF u \in {timers[e.id]} /\ timer[u].state = "armed" THEN D!Free
                                   ELSE timer[u]
  BY <1>2 DEF D!StopTimers
<1>4. /\ D!Armed(e.id, e) \in D!LiveTimer /\ D!Armed(e.id, e).key = e.id
      /\ D!Armed(e.id, e).event = e /\ D!Armed(e.id, e) # D!Free
  BY <1>1 DEF D!Armed, D!LiveTimer, D!Free
<1>5. timer' \in [Timers -> {D!Free} \cup D!LiveTimer]
  BY <1>2, <1>4 DEF TimersKeyed, D!TypeOK, D!StopTimers
<1>6. D!TypeOK'
  BY <1>1, <1>2, <1>5 DEF TimersKeyed, D!TypeOK
<1>7. \A u \in Timers \ {t} : KeptOrFreed(u)
  BY <1>3 DEF KeptOrFreed
<1>8. \A u \in Timers : timer'[u] # D!Free => timer'[u].event.id = timer'[u].key
  BY <1>3, <1>4 DEF TimersKeyed
<1> QED
  BY <1>2, <1>3, <1>4, <1>6, <1>7, <1>8 DEF TimersKeyed

(***************************************************************************)
(* A timer t that fires, hands over, or ends; Stop frees those not fired.  *)
(***************************************************************************)
LEMMA TimerEffect ==
    ASSUME TimersKeyed, NEW t \in Timers, ctxDone' = ctxDone,
           D!Fire(t) \/ D!Callback(t) \/ D!PublishReturns(t)
    PROVE  /\ TimersKeyed' /\ \A u \in Timers : KeptOrFreed(u) \/ timer[u] = D!Free
           /\ \A u \in Timers \ {t} : timer'[u] = timer[u]
           /\ stopped' = stopped
           /\ D!Fire(t) => timer'[t] # D!Free
           /\ D!Callback(t) /\ timer'[t] = D!Free => stopped
           /\ D!PublishReturns(t) => timer'[t] = D!Free
           /\ timer[t] # D!Free /\ timer[t] \in D!LiveTimer
<1>1. timer[t] \in D!LiveTimer /\ timer[t] # D!Free
  BY DEF TimersKeyed, D!TypeOK, D!Fire, D!Callback, D!CallbackStopped, D!CallbackPublishes,
         D!PublishReturns, D!Free
<1>2. PICK next \in {D!Free} \cup D!LiveTimer :
        /\ timer' = [timer EXCEPT ![t] = next]
        /\ next # D!Free => next.key = timer[t].key /\ next.event = timer[t].event
        /\ D!Fire(t) => next # D!Free
        /\ D!Callback(t) /\ next = D!Free => stopped
        /\ D!PublishReturns(t) => next = D!Free
  <2> DEFINE moved(state) == [timer[t] EXCEPT !.state = state]
  <2>1. /\ moved("fired") \in D!LiveTimer /\ moved("publishing") \in D!LiveTimer
        /\ moved("fired") # D!Free /\ moved("publishing") # D!Free
        /\ moved("fired").key = timer[t].key /\ moved("fired").event = timer[t].event
        /\ moved("publishing").key = timer[t].key /\ moved("publishing").event = timer[t].event
    BY <1>1 DEF D!LiveTimer, D!Free
  <2>2. CASE D!Fire(t)
    <3>1. timer' = [timer EXCEPT ![t] = moved("fired")] /\ timer[t].state = "armed"
      BY <2>2 DEF D!Fire, TimersKeyed, D!TypeOK
    <3>2. ~ D!Callback(t) /\ ~ D!PublishReturns(t)
      BY <3>1 DEF D!Callback, D!CallbackStopped, D!CallbackPublishes, D!PublishReturns
    <3> QED
      BY <2>1, <3>1, <3>2
  <2>3. CASE D!CallbackPublishes(t)
    <3>1. timer' = [timer EXCEPT ![t] = moved("publishing")] /\ timer[t].state = "fired"
      BY <2>3 DEF D!CallbackPublishes, TimersKeyed, D!TypeOK
    <3>2. ~ D!Fire(t) /\ ~ D!PublishReturns(t)
      BY <3>1 DEF D!Fire, D!PublishReturns
    <3> QED
      BY <2>1, <3>1, <3>2
  <2>4. CASE D!CallbackStopped(t)
    <3>1. timer' = [timer EXCEPT ![t] = D!Free] /\ timer[t].state = "fired" /\ stopped
      BY <2>4 DEF D!CallbackStopped
    <3>2. ~ D!Fire(t)
      BY <3>1 DEF D!Fire
    <3> QED
      BY <3>1, <3>2
  <2>5. CASE D!PublishReturns(t)
    <3>1. timer' = [timer EXCEPT ![t] = D!Free] /\ timer[t].state = "publishing"
      BY <2>5 DEF D!PublishReturns
    <3>2. ~ D!Fire(t) /\ ~ D!Callback(t)
      BY <3>1 DEF D!Fire, D!Callback, D!CallbackStopped, D!CallbackPublishes
    <3> QED
      BY <3>1, <3>2
  <2> QED
    BY <2>2, <2>3, <2>4, <2>5 DEF D!Callback
<1>3. \A u \in Timers : timer'[u] = IF u = t THEN next ELSE timer[u]
  BY <1>2 DEF TimersKeyed, D!TypeOK
<1>4. /\ stopped' = stopped /\ stopCall' = stopCall
      /\ timers' \in [InstanceIDs -> Timers \cup {NoTimer}]
      /\ newest' \in [InstanceIDs -> Timers \cup {NoTimer}]
  BY <1>1 DEF TimersKeyed, D!TypeOK, D!Fire, D!Callback, D!CallbackStopped, D!CallbackPublishes,
              D!PublishReturns, D!LiveTimer
<1>5. D!TypeOK'
  BY <1>2, <1>4 DEF TimersKeyed, D!TypeOK
<1>6. TimersKeyed'
  BY <1>1, <1>2, <1>3, <1>4, <1>5 DEF TimersKeyed
<1>7. \A u \in Timers : KeptOrFreed(u) \/ timer[u] = D!Free
  BY <1>1, <1>2, <1>3 DEF KeptOrFreed
<1> QED
  BY <1>1, <1>2, <1>3, <1>4, <1>6, <1>7

(***************************************************************************)
(* A step that frees timers loses what they held, and nothing else.        *)
(***************************************************************************)
LEMMA DiscardTracks ==
    ASSUME Tracked, NEW cause \in LossCauses, latest' = Discard(cause),
           UNCHANGED <<inst, handler, delivered, ctxDone>>,
           failures \in Int, failures' \in Int, failures <= failures',
           \A t \in Timers : KeptOrFreed(t) \/ timer[t] = D!Free,
           cause = "shutdown" => ctxDone \/ \A t \in Timers : timer'[t] = D!Free => timer[t] = D!Free,
           cause = "dropped" => failures' > RetryMax
    PROVE  Tracked'
<1>1. \A id \in InstanceIDs :
        latest'[id] = IF \E t \in Timers : latest[id] = InTimer(t) /\ timer'[t] = D!Free
                      THEN Lost(cause) ELSE latest[id]
  BY DEF Discard
<1>2. ASSUME NEW id \in InstanceIDs
      PROVE  StaysPut(id) \/ GetsLost(id)
  <2>1. \A t \in Timers : latest[id] = InTimer(t) => timer[t] # D!Free
    BY <1>2 DEF Tracked, LatestIsAccountedFor
  <2>2. CASE \E t \in Timers : latest[id] = InTimer(t) /\ timer'[t] = D!Free
    <3>1. cause = "shutdown" => ctxDone
      BY <2>1, <2>2
    <3> QED
      BY <1>1, <1>2, <2>2, <3>1 DEF GetsLost
  <2>3. CASE ~ \E t \in Timers : latest[id] = InTimer(t) /\ timer'[t] = D!Free
    BY <1>1, <1>2, <2>1, <2>3 DEF StaysPut, KeptOrFreed
  <2> QED
    BY <2>2, <2>3
<1>3. latest' = [id \in InstanceIDs |-> latest'[id]]
  BY DEF Discard
<1> QED
  BY <1>2, <1>3, StepTracks

(***************************************************************************)
(* A handler submits.                                                      *)
(***************************************************************************)
LEMMA SubmitKeepsIInv ==
    ASSUME IInv, NEW rt \in Handlers, Submit(rt)
    PROVE  IInv'
<1> DEFINE e == handler[rt]
<1>1. Stored /\ TimersKeyed /\ AttemptsCounted /\ EventsTyped /\ Tracked
  BY DEF IInv
<1>2. /\ e \in StatusEvents /\ e # NoEvent /\ e.id \in InstanceIDs
      /\ handler' = [handler EXCEPT ![rt] = NoEvent]
      /\ UNCHANGED <<store, inst, publish, delivered, ctxDone, phase, changes, failures>>
  BY <1>1 DEF Submit, SubmitAccepted, SubmitIgnored, EventsTyped, StatusEvents, boundVars
<1>3. AttemptsCounted' /\ EventsTyped' /\ phase' \in {"running", "returned"}
  BY <1>1, <1>2 DEF AttemptsCounted, EventsTyped, Stored
<1>4. failures \in Int /\ failures' \in Int /\ failures <= failures'
  BY <1>1, <1>2, BoundsAssumption DEF AttemptsCounted
<1>5. \A qt \in Handlers \ {rt} : handler'[qt] = handler[qt]
  BY <1>1, <1>2 DEF EventsTyped
<1>6. \A id \in InstanceIDs : latest[id] = InHandler(rt) => id = e.id /\ e.status = Intended(id)
  BY <1>1 DEF Tracked, LatestIsAccountedFor
<1>7. ASSUME NEW t \in Timers, SubmitAccepted(rt, t)
      PROVE  IInv'
  <2>1. /\ D!Accept(e.id, e, t)
        /\ latest' = [Discard("reordered") EXCEPT
              ![e.id] = IF latest[e.id] = InHandler(rt) THEN InTimer(t) ELSE @]
    BY <1>7 DEF SubmitAccepted
  <2>2. /\ TimersKeyed' /\ timer[t] = D!Free
        /\ timer'[t] # D!Free /\ timer'[t].key = e.id /\ timer'[t].event = e
        /\ \A u \in Timers \ {t} : KeptOrFreed(u)
    BY <1>1, <1>2, <2>1, AcceptEffect
  <2>3. latest' = [id \in InstanceIDs |-> latest'[id]]
    BY <2>1 DEF Discard
  <2>4. \A id \in InstanceIDs :
          latest'[id] = IF id = e.id /\ latest[id] = InHandler(rt) THEN InTimer(t)
                        ELSE IF \E u \in Timers : latest[id] = InTimer(u) /\ timer'[u] = D!Free
                        THEN Lost("reordered") ELSE latest[id]
    BY <1>2, <2>1 DEF Discard
  <2>5. ASSUME NEW id \in InstanceIDs
        PROVE  StaysPut(id) \/ GetsLost(id) \/ GetsTimer(id)
    <3>1. CASE latest[id] = InHandler(rt)
      BY <1>6, <2>2, <2>4, <3>1 DEF GetsTimer
    <3>2. CASE latest[id] # InHandler(rt) /\ \E u \in Timers : latest[id] = InTimer(u) /\ timer'[u] = D!Free
      BY <2>4, <3>2 DEF GetsLost, LossCauses
    <3>3. CASE latest[id] # InHandler(rt) /\ ~ \E u \in Timers : latest[id] = InTimer(u) /\ timer'[u] = D!Free
      <4>1. \A u \in Timers : latest[id] = InTimer(u) => timer[u] # D!Free
        BY <1>1 DEF Tracked, LatestIsAccountedFor
      <4>2. \A u \in Timers : latest[id] = InTimer(u) => u # t /\ timer'[u] # D!Free
        BY <2>2, <3>3, <4>1
      <4> QED
        BY <1>2, <1>5, <2>2, <2>4, <3>3, <4>2 DEF StaysPut, KeptOrFreed
    <3> QED
      BY <3>1, <3>2, <3>3
  <2>6. Tracked'
    BY <1>1, <1>2, <1>4, <2>3, <2>5, StepTracks
  <2> QED
    BY <1>2, <1>3, <2>2, <2>6, BehindTheHandlers
<1>8. CASE SubmitIgnored(rt)
  <2>1. /\ stopped /\ UNCHANGED <<timers, timer, stopped, stopCall, newest>>
        /\ latest' = [latest EXCEPT ![e.id] = IF @ = InHandler(rt) THEN Lost("shutdown") ELSE @]
    BY <1>8 DEF SubmitIgnored, D!SubmitAfterStop, D!vars
  <2>2. TimersKeyed' /\ ctxDone
    BY <1>1, <1>2, <2>1 DEF TimersKeyed, D!TypeOK
  <2>3. latest' = [id \in InstanceIDs |-> latest'[id]]
    BY <1>1, <2>1 DEF Tracked
  <2>4. ASSUME NEW id \in InstanceIDs
        PROVE  StaysPut(id) \/ GetsLost(id)
    <3>1. CASE latest[id] = InHandler(rt)
      <4>1. latest'[id] = Lost("shutdown")
        BY <1>1, <1>2, <1>6, <2>1, <3>1 DEF Tracked
      <4> QED
        BY <1>2, <2>2, <4>1 DEF GetsLost, LossCauses
    <3>2. CASE latest[id] # InHandler(rt)
      <4>1. latest'[id] = latest[id]
        BY <1>1, <2>1, <3>2 DEF Tracked
      <4>2. \A u \in Timers : latest[id] = InTimer(u) => timer[u] # D!Free
        BY <1>1 DEF Tracked, LatestIsAccountedFor
      <4> QED
        BY <1>2, <1>5, <2>1, <3>2, <4>1, <4>2 DEF StaysPut
    <3> QED
      BY <3>1, <3>2
  <2>5. Tracked'
    BY <1>1, <1>2, <1>4, <2>3, <2>4, StepTracks
  <2> QED
    BY <1>2, <1>3, <2>2, <2>5, BehindTheHandlers
<1> QED
  BY <1>7, <1>8 DEF Submit

(***************************************************************************)
(* A timer fires, or its callback gets the mutex: a callback that finds    *)
(* the debouncer stopped loses its event to the shutdown.                  *)
(***************************************************************************)
LEMMA TimerKeepsIInv ==
    ASSUME IInv, NEW t \in Timers, Fire(t) \/ Callback(t)
    PROVE  IInv'
<1>1. Stored /\ TimersKeyed /\ AttemptsCounted /\ EventsTyped /\ Tracked
  BY DEF IInv
<1>2. /\ D!Fire(t) \/ D!Callback(t)
      /\ UNCHANGED <<store, inst, handler, publish, delivered, ctxDone, phase, changes, failures>>
  BY DEF Fire, Callback, boundVars
<1>3. /\ TimersKeyed' /\ \A u \in Timers : KeptOrFreed(u) \/ timer[u] = D!Free
      /\ \A u \in Timers \ {t} : timer'[u] = timer[u]
      /\ D!Fire(t) => timer'[t] # D!Free
      /\ D!Callback(t) /\ timer'[t] = D!Free => stopped
      /\ timer[t] # D!Free
  BY <1>1, <1>2, TimerEffect
<1>4. AttemptsCounted' /\ EventsTyped' /\ phase' \in {"running", "returned"}
  BY <1>1, <1>2 DEF AttemptsCounted, EventsTyped, Stored
<1>5. failures \in Int /\ failures' \in Int /\ failures <= failures'
  BY <1>1, <1>2, BoundsAssumption DEF AttemptsCounted
<1>6. CASE Fire(t)
  <2>1. D!Fire(t) /\ latest' = latest
    BY <1>6 DEF Fire
  <2>2. \A u \in Timers : timer[u] # D!Free => timer'[u] # D!Free
    BY <1>3, <2>1
  <2>3. \A id \in InstanceIDs, u \in Timers : latest[id] = InTimer(u) => timer[u] # D!Free
    BY <1>1 DEF Tracked, LatestIsAccountedFor
  <2>4. \A id \in InstanceIDs : StaysPut(id)
    BY <1>2, <1>3, <2>1, <2>2, <2>3 DEF StaysPut, KeptOrFreed
  <2>5. latest' = [id \in InstanceIDs |-> latest'[id]]
    BY <1>1, <2>1 DEF Tracked
  <2>6. Tracked'
    BY <1>1, <1>2, <1>5, <2>4, <2>5, StepTracks
  <2> QED
    BY <1>2, <1>3, <1>4, <2>6, BehindTheHandlers
<1>7. CASE Callback(t)
  <2>1. D!Callback(t) /\ latest' = Discard("shutdown")
    BY <1>7 DEF Callback
  <2>2. timer'[t] = D!Free => ctxDone
    BY <1>1, <1>3, <2>1 DEF TimersKeyed
  <2>3. ctxDone \/ \A u \in Timers : timer'[u] = D!Free => timer[u] = D!Free
    BY <1>3, <2>2
  <2>4. Tracked'
    BY <1>1, <1>2, <1>3, <1>5, <2>1, <2>3, DiscardTracks DEF LossCauses
  <2> QED
    BY <1>2, <1>3, <1>4, <2>4, BehindTheHandlers
<1> QED
  BY <1>6, <1>7

(***************************************************************************)
(* Publish succeeds: the event is on the bus, and if it is not the last    *)
(* one of its instance it has replaced what was there.                     *)
(***************************************************************************)
LEMMA PublishSucceedsKeepsIInv ==
    ASSUME IInv, NEW t \in Timers, PublishSucceeds(t)
    PROVE  IInv'
<1> DEFINE e == timer[t].event
<1>1. Stored /\ TimersKeyed /\ AttemptsCounted /\ EventsTyped /\ Tracked
  BY DEF IInv
<1>2. /\ D!PublishReturns(t)
      /\ publish' = [publish EXCEPT ![t] = FirstAttempt]
      /\ delivered' = [delivered EXCEPT ![e.id] = e]
      /\ latest' = [latest EXCEPT ![e.id] =
            IF @ = InTimer(t) THEN OnBus ELSE IF @ = OnBus THEN Lost("overtaken") ELSE @]
      /\ UNCHANGED <<store, inst, handler, ctxDone, phase, changes, failures>>
  BY DEF PublishSucceeds, boundVars
<1>3. /\ TimersKeyed' /\ \A u \in Timers \ {t} : timer'[u] = timer[u]
      /\ timer[t] # D!Free /\ timer[t] \in D!LiveTimer
  BY <1>1, <1>2, TimerEffect
<1>4. /\ e \in StatusEvents /\ e # NoEvent /\ e.id \in InstanceIDs /\ e.id = timer[t].key
  BY <1>1, <1>3, NoEventAssumption DEF TimersKeyed, D!LiveTimer, StatusEvents
<1>5. failures \in Int /\ failures' \in Int /\ failures <= failures' /\ RetryMax \in Nat
  BY <1>1, <1>2, BoundsAssumption DEF AttemptsCounted
<1>6. AttemptsCounted' /\ EventsTyped' /\ phase' \in {"running", "returned"}
  BY <1>1, <1>2, <1>4, <1>5 DEF AttemptsCounted, EventsTyped, Stored, FirstAttempt
<1>7. ASSUME NEW id \in InstanceIDs
      PROVE  StaysPut(id) \/ GetsLost(id) \/ GetsOut(id)
  <2>1. /\ \A u \in Timers : latest[id] = InTimer(u) =>
              timer[u] # D!Free /\ timer[u].key = id /\ timer[u].event.status = Intended(id)
    BY <1>1 DEF Tracked, LatestIsAccountedFor
  <2>2. /\ latest'[id] = IF id # e.id THEN latest[id]
                         ELSE IF latest[id] = InTimer(t) THEN OnBus
                         ELSE IF latest[id] = OnBus THEN Lost("overtaken") ELSE latest[id]
        /\ delivered'[id] = IF id = e.id THEN e ELSE delivered[id]
    BY <1>1, <1>2, <1>4 DEF Tracked, EventsTyped
  <2>3. CASE latest[id] = InTimer(t)
    BY <1>4, <2>1, <2>2, <2>3 DEF GetsOut
  <2>4. CASE latest[id] = OnBus /\ id = e.id
    <3>1. latest[id] # InTimer(t)
      BY <2>4, PlaceFacts
    <3>2. latest'[id] = Lost("overtaken")
      BY <2>2, <2>4, <3>1
    <3> QED
      BY <3>2 DEF GetsLost, LossCauses
  <2>5. CASE latest[id] # InTimer(t) /\ ~ (latest[id] = OnBus /\ id = e.id)
    BY <1>2, <1>3, <2>1, <2>2, <2>5 DEF StaysPut
  <2> QED
    BY <2>3, <2>4, <2>5
<1>8. latest' = [id \in InstanceIDs |-> latest'[id]]
  BY <1>1, <1>2 DEF Tracked
<1>9. Tracked'
  BY <1>1, <1>2, <1>5, <1>7, <1>8, StepTracks
<1> QED
  BY <1>2, <1>3, <1>6, <1>9, BehindTheHandlers

(***************************************************************************)
(* A failed attempt is counted; the last one drops the event.              *)
(***************************************************************************)
LEMMA PublishFailsKeepsIInv ==
    ASSUME IInv, NEW t \in Timers, PublishFails(t) \/ PublishDrops(t)
    PROVE  IInv'
<1>1. Stored /\ TimersKeyed /\ AttemptsCounted /\ EventsTyped /\ Tracked
  BY DEF IInv
<1>2. /\ failures < MaxFailures /\ failures' = failures + 1 /\ ~ publish[t].waiting
      /\ UNCHANGED <<store, inst, handler, delivered, ctxDone, phase, changes>>
  BY DEF PublishFails, PublishDrops, Fail, Attempting
<1>3. /\ failures \in Nat /\ failures' \in 0..MaxFailures /\ failures <= failures' /\ RetryMax \in Nat
      /\ \A u \in Timers : publish[u].attempt \in Nat
  BY <1>1, <1>2, BoundsAssumption DEF AttemptsCounted
<1>4. EventsTyped' /\ phase' \in {"running", "returned"}
  BY <1>1, <1>2 DEF EventsTyped, Stored
<1>5. CASE PublishFails(t)
  <2>1. /\ publish[t].attempt < RetryMax /\ publish' = [publish EXCEPT ![t].waiting = TRUE]
        /\ UNCHANGED <<timers, timer, stopped, stopCall, newest, latest>>
    BY <1>5 DEF PublishFails, debouncerVars
  <2>2. \A u \in Timers : publish'[u] = IF u = t THEN [publish[t] EXCEPT !.waiting = TRUE] ELSE publish[u]
    BY <1>1, <2>1 DEF AttemptsCounted
  <2>3. AttemptsCounted'
    <3>1. [publish[t] EXCEPT !.waiting = TRUE] \in [attempt : 0..RetryMax, waiting : BOOLEAN]
      BY <1>1 DEF AttemptsCounted
    <3>2. publish' \in [Timers -> [attempt : 0..RetryMax, waiting : BOOLEAN]]
      BY <1>1, <2>1, <3>1 DEF AttemptsCounted
    <3>3. /\ \A u \in Timers : publish'[u].attempt = publish[u].attempt
          /\ \A u \in Timers : u # t => publish'[u].waiting = publish[u].waiting
      BY <1>1, <2>2 DEF AttemptsCounted
    <3>4. \A u \in Timers : publish[u].attempt < failures'
      <4>1. \A u \in Timers : publish[u].attempt <= failures
        BY <1>1 DEF AttemptsCounted
      <4>2. failures' = failures + 1
        BY <1>2
      <4> QED
        BY <1>3, <4>1, <4>2
    <3>5. \A u \in Timers : publish'[u].waiting => publish'[u].attempt < RetryMax
      BY <1>1, <2>1, <3>3 DEF AttemptsCounted
    <3>6. ASSUME NEW u \in Timers
          PROVE  publish'[u].attempt <= failures' /\ (publish'[u].waiting => publish'[u].attempt < failures')
      <4>1. publish'[u].attempt = publish[u].attempt
        BY <3>3
      <4>2. publish[u].attempt <= failures' /\ publish[u].attempt < failures'
        BY <1>3, <3>4, BoundsAssumption
      <4> QED
        BY <4>1, <4>2
    <3> QED
      BY <1>3, <3>2, <3>5, <3>6 DEF AttemptsCounted
  <2>4. TimersKeyed'
    BY <1>1, <1>2, <2>1 DEF TimersKeyed, D!TypeOK
  <2>5. \A id \in InstanceIDs, u \in Timers : latest[id] = InTimer(u) => timer[u] # D!Free
    BY <1>1 DEF Tracked, LatestIsAccountedFor
  <2>6. \A id \in InstanceIDs : StaysPut(id)
    BY <1>2, <2>1, <2>5 DEF StaysPut
  <2>7. latest' = [id \in InstanceIDs |-> latest'[id]]
    BY <1>1, <2>1 DEF Tracked
  <2>8. Tracked'
    BY <1>1, <1>2, <1>3, <2>6, <2>7, StepTracks
  <2> QED
    BY <1>2, <1>4, <2>3, <2>4, <2>8, BehindTheHandlers
<1>6. CASE PublishDrops(t)
  <2>1. /\ D!PublishReturns(t) /\ publish[t].attempt = RetryMax
        /\ publish' = [publish EXCEPT ![t] = FirstAttempt] /\ latest' = Discard("dropped")
    BY <1>6 DEF PublishDrops
  <2>2. TimersKeyed' /\ \A u \in Timers : KeptOrFreed(u) \/ timer[u] = D!Free
    BY <1>1, <1>2, <2>1, TimerEffect
  <2>3. AttemptsCounted'
    BY <1>1, <1>3, <2>1 DEF AttemptsCounted, FirstAttempt
  <2>4. failures' > RetryMax
    BY <1>1, <1>2, <1>3, <2>1 DEF AttemptsCounted
  <2>5. Tracked'
    BY <1>1, <1>2, <1>3, <2>1, <2>2, <2>4, DiscardTracks DEF LossCauses
  <2> QED
    BY <1>2, <1>4, <2>2, <2>3, <2>5, BehindTheHandlers
<1> QED
  BY <1>5, <1>6

(***************************************************************************)
(* The backoff after a failed attempt elapses, or is cut short by the      *)
(* cancellation, which loses the event to the shutdown.                    *)
(***************************************************************************)
LEMMA BackoffKeepsIInv ==
    ASSUME IInv, NEW t \in Timers, Backoff(t)
    PROVE  IInv'
<1>1. Stored /\ TimersKeyed /\ AttemptsCounted /\ EventsTyped /\ Tracked
  BY DEF IInv
<1>2. /\ publish[t].waiting
      /\ UNCHANGED <<store, inst, handler, delivered, ctxDone, phase, changes, failures>>
  BY DEF Backoff, BackoffElapses, BackoffCancelled, boundVars
<1>3. EventsTyped' /\ phase' \in {"running", "returned"}
  BY <1>1, <1>2 DEF EventsTyped, Stored
<1>4. failures \in Int /\ failures' \in Int /\ failures <= failures' /\ RetryMax \in Nat
  BY <1>1, <1>2, BoundsAssumption DEF AttemptsCounted
<1>5. CASE BackoffElapses(t)
  <2> DEFINE next == [attempt |-> publish[t].attempt + 1, waiting |-> FALSE]
  <2>1. /\ publish' = [publish EXCEPT ![t] = next]
        /\ UNCHANGED <<timers, timer, stopped, stopCall, newest, latest>>
    BY <1>1, <1>5 DEF BackoffElapses, debouncerVars, AttemptsCounted
  <2>2. /\ publish[t].attempt \in Nat /\ publish[t].attempt < RetryMax /\ publish[t].attempt < failures
    BY <1>1, <1>2, <1>4 DEF AttemptsCounted
  <2>3. /\ next \in [attempt : 0..RetryMax, waiting : BOOLEAN]
        /\ next.attempt <= failures /\ ~ next.waiting
    BY <1>4, <2>2
  <2> HIDE DEF next
  <2>4. AttemptsCounted'
    BY <1>1, <1>2, <2>1, <2>3 DEF AttemptsCounted
  <2>5. TimersKeyed'
    BY <1>1, <1>2, <2>1 DEF TimersKeyed, D!TypeOK
  <2>6. \A id \in InstanceIDs, u \in Timers : latest[id] = InTimer(u) => timer[u] # D!Free
    BY <1>1 DEF Tracked, LatestIsAccountedFor
  <2>7. \A id \in InstanceIDs : StaysPut(id)
    BY <1>2, <2>1, <2>6 DEF StaysPut
  <2>8. latest' = [id \in InstanceIDs |-> latest'[id]]
    BY <1>1, <2>1 DEF Tracked
  <2>9. Tracked'
    BY <1>1, <1>2, <1>4, <2>7, <2>8, StepTracks
  <2> QED
    BY <1>2, <1>3, <2>4, <2>5, <2>9, BehindTheHandlers
<1>6. CASE BackoffCancelled(t)
  <2>1. /\ ctxDone /\ D!PublishReturns(t)
        /\ publish' = [publish EXCEPT ![t] = FirstAttempt] /\ latest' = Discard("shutdown")
    BY <1>6 DEF BackoffCancelled
  <2>2. TimersKeyed' /\ \A u \in Timers : KeptOrFreed(u) \/ timer[u] = D!Free
    BY <1>1, <1>2, <2>1, TimerEffect
  <2>3. AttemptsCounted'
    BY <1>1, <1>2, <1>4, <2>1 DEF AttemptsCounted, FirstAttempt
  <2>4. Tracked'
    BY <1>1, <1>2, <1>4, <2>1, <2>2, DiscardTracks DEF LossCauses
  <2> QED
    BY <1>2, <1>3, <2>2, <2>3, <2>4, BehindTheHandlers
<1> QED
  BY <1>5, <1>6 DEF Backoff

(***************************************************************************)
(* A step that leaves the handlers, the timers and the bus as they are     *)
(* leaves the last event of every instance where it is.                    *)
(***************************************************************************)
LEMMA IdleTracks ==
    ASSUME Tracked, UNCHANGED <<inst, handler, timer, delivered, latest, failures>>, ctxDone => ctxDone'
    PROVE  Tracked'
BY DEF Tracked, LatestIsAccountedFor, Intended

(***************************************************************************)
(* The shutdown: debouncer.Stop frees the timers that have not fired, all  *)
(* of them after the cancellation.                                         *)
(***************************************************************************)
LEMMA ShutdownKeepsIInv ==
    ASSUME IInv, Cancel \/ Shutdown
    PROVE  IInv'
<1>1. Stored /\ TimersKeyed /\ AttemptsCounted /\ EventsTyped /\ Tracked
  BY DEF IInv
<1>2. UNCHANGED <<store, inst, handler, publish, delivered, changes, failures>>
  BY DEF Cancel, Shutdown, StopDebouncer, StopReturns, StartReturns, boundVars
<1>3. AttemptsCounted' /\ EventsTyped'
  BY <1>1, <1>2 DEF AttemptsCounted, EventsTyped
<1>4. phase' \in {"running", "returned"} /\ ctxDone' \in BOOLEAN /\ (ctxDone => ctxDone')
  BY <1>1 DEF Stored, TimersKeyed, Cancel, Shutdown, StopDebouncer, StopReturns, StartReturns
<1>5. CASE StopDebouncer
  <2>1. /\ ctxDone /\ ctxDone' = ctxDone /\ latest' = Discard("shutdown")
        /\ timer' = D!StopTimers({timers[k] : k \in InstanceIDs})
        /\ timers' = [k \in InstanceIDs |-> NoTimer]
        /\ stopped' = TRUE /\ stopCall' = "waiting" /\ newest' = newest
    BY <1>5 DEF StopDebouncer, D!Stop
  <2>2. \A u \in Timers : timer'[u] = D!Free \/ timer'[u] = timer[u]
    BY <2>1 DEF D!StopTimers
  <2>3. timer' = [u \in Timers |-> timer'[u]]
    BY <2>1 DEF D!StopTimers
  <2>4. timer' \in [Timers -> {D!Free} \cup D!LiveTimer]
    BY <1>1, <2>2, <2>3 DEF TimersKeyed, D!TypeOK
  <2>5. TimersKeyed'
    BY <1>1, <2>1, <2>2, <2>4 DEF TimersKeyed, D!TypeOK
  <2>6. \A u \in Timers : KeptOrFreed(u) \/ timer[u] = D!Free
    BY <2>2 DEF KeptOrFreed
  <2>7. failures \in Int /\ failures' \in Int /\ failures <= failures'
    BY <1>1, <1>2, BoundsAssumption DEF AttemptsCounted
  <2>8. Tracked'
    BY <1>1, <1>2, <2>1, <2>6, <2>7, DiscardTracks DEF LossCauses
  <2> QED
    BY <1>2, <1>3, <1>4, <2>5, <2>8, BehindTheHandlers
<1>6. CASE Cancel \/ StopReturns \/ StartReturns
  <2>1. /\ UNCHANGED <<timers, timer, stopped, newest, latest>>
        /\ stopCall' \in {"none", "waiting", "returned"}
    BY <1>1, <1>6 DEF Cancel, StopReturns, StartReturns, D!StopReturns, debouncerVars, TimersKeyed, D!TypeOK
  <2>2. TimersKeyed'
    BY <1>1, <1>4, <2>1 DEF TimersKeyed, D!TypeOK
  <2>3. Tracked'
    BY <1>1, <1>2, <1>4, <2>1, IdleTracks
  <2> QED
    BY <1>2, <1>3, <1>4, <2>2, <2>3, BehindTheHandlers
<1> QED
  BY <1>5, <1>6 DEF Shutdown

-----------------------------------------------------------------------------
(***************************************************************************)
(* The invariant holds at the start and through every step.                *)
(***************************************************************************)
LEMMA InitIInv == Init => IInv
<1> SUFFICES ASSUME Init PROVE IInv
  OBVIOUS
<1>1. NewInstance \in InstanceState /\ NewInstance.hcStatus = NoStatus
      /\ NewInstance.npStatus = NoStatus /\ NewInstance.lastPublished = NoStatus
  BY DEF NewInstance, InstanceState, Messages
<1>2. Recorded
  BY <1>1 DEF Init, Recorded, LastPublishedIsComposite
<1>3. Stored
  BY BoundsAssumption DEF Init, Stored, Resources
<1>4. TimersKeyed
  BY DEF Init, D!Init, D!TypeOK, TimersKeyed
<1>5. AttemptsCounted
  BY BoundsAssumption DEF Init, AttemptsCounted, FirstAttempt
<1>6. EventsTyped
  BY DEF Init, EventsTyped
<1>7. Tracked
  <2>1. \A id \in InstanceIDs : latest[id] = Nowhere /\ inst[id].lastPublished = NoStatus
    BY <1>1 DEF Init
  <2>2. latest \in [InstanceIDs -> Places]
    BY DEF Init, Places
  <2> QED
    BY <2>1, <2>2, PlaceFacts DEF Tracked, LatestIsAccountedFor
<1>8. ViewIsCurrent
  BY <1>1 DEF Init, ViewIsCurrent, Resources
<1> QED
  BY <1>2, <1>3, <1>4, <1>5, <1>6, <1>7, <1>8 DEF IInv

\* Every step of the monitor keeps the invariant.
LEMMA NextIInv == IInv /\ [Next]_vars => IInv'
<1> SUFFICES ASSUME IInv, [Next]_vars PROVE IInv'
  OBVIOUS
<1>1. CASE \E r \in HostedClusters : DeleteHostedCluster(r) \/ \E o \in HCObjects : NotifyHostedCluster(r, o)
  BY <1>1, DeleteKeepsIInv, NotifyKeepsIInv
<1>2. CASE \E r \in NodePools : DeleteNodePool(r) \/ \E o \in NPObjects : NotifyNodePool(r, o)
  BY <1>2, DeleteKeepsIInv, NotifyKeepsIInv
<1>3. CASE \E r \in Resources :
             \E o \in (IF r \in HostedClusters THEN HCObjects ELSE NPObjects) \cup {Absent} :
                SkipUnlabelled(r, o)
  BY <1>3, SkipKeepsIInv
<1>4. CASE \E rt \in Handlers : Submit(rt)
  BY <1>4, SubmitKeepsIInv
<1>5. CASE \E t \in Timers : Fire(t) \/ Callback(t) \/ Publish(t) \/ Backoff(t)
  BY <1>5, TimerKeepsIInv, PublishSucceedsKeepsIInv, PublishFailsKeepsIInv, BackoffKeepsIInv DEF Publish
<1>6. CASE Cancel \/ Shutdown
  BY <1>6, ShutdownKeepsIInv
<1>7. CASE UNCHANGED vars
  <2>1. Recorded /\ Stored /\ TimersKeyed /\ AttemptsCounted /\ EventsTyped /\ Tracked
    BY DEF IInv
  <2>2. UNCHANGED <<store, inst, handler, timers, timer, stopped, stopCall, newest, publish,
                    delivered, ctxDone, phase, latest, changes, failures>>
    BY <1>7 DEF vars, debouncerVars, boundVars
  <2>3. TimersKeyed' /\ AttemptsCounted' /\ EventsTyped' /\ phase' \in {"running", "returned"}
    BY <2>1, <2>2 DEF TimersKeyed, D!TypeOK, AttemptsCounted, EventsTyped, Stored
  <2>4. Tracked'
    BY <2>1, <2>2, IdleTracks
  <2> QED
    BY <2>2, <2>3, <2>4, BehindTheHandlers
<1> QED
  BY <1>1, <1>2, <1>3, <1>4, <1>5, <1>6, <1>7 DEF Next, Returned

-----------------------------------------------------------------------------
(***************************************************************************)
(* With crashes: what the informers have seen of a resource is what it is, *)
(* or they have seen nothing of it yet.                                    *)
(***************************************************************************)
HubSeen ==
    /\ hub = [r \in Resources |-> hub[r]]
    /\ \A r \in HostedClusters : hub[r] \in HCObjects \cup {Absent}
    /\ \A r \in NodePools : hub[r] \in NPObjects \cup {Absent}
    /\ \A r \in Resources : InstanceOf[r] # NoID => store[r] \in {hub[r], Absent}

RInv == IInv /\ HubSeen

(***************************************************************************)
(* A step of the monitor changes the hub where it changes the store.       *)
(***************************************************************************)
LEMMA MonitorStepKeepsRInv ==
    ASSUME RInv, MonitorStep
    PROVE  RInv'
<1>1. IInv'
  BY NextIInv DEF RInv, MonitorStep
<1>2. \A r \in Resources : hub'[r] = IF store'[r] # store[r] THEN store'[r] ELSE hub[r]
  BY DEF MonitorStep
<1>3. hub' = [r \in Resources |-> hub'[r]]
  BY DEF MonitorStep
<1>4. /\ \A r \in HostedClusters : r \in Resources /\ store'[r] \in HCObjects \cup {Absent}
      /\ \A r \in NodePools : r \in Resources /\ store'[r] \in NPObjects \cup {Absent}
  BY <1>1 DEF IInv, Stored, Resources
<1>5. HubSeen'
  BY <1>2, <1>3, <1>4 DEF RInv, HubSeen
<1> QED
  BY <1>1, <1>5 DEF RInv

(***************************************************************************)
(* A resource that is not listed yet is unknown to the monitor, so that    *)
(* its listing is a notification like any other.                           *)
(***************************************************************************)
LEMMA RelistKeepsRInv ==
    ASSUME RInv,
           \/ \E r \in HostedClusters : RelistHostedCluster(r)
           \/ \E r \in NodePools : RelistNodePool(r)
    PROVE  RInv'
<1>1. IInv /\ Stored /\ HubSeen
  BY DEF RInv, IInv
<1>2. ASSUME NEW r \in Resources, ~Listed(r), store' = [store EXCEPT ![r] = hub[r]], hub' = hub
      PROVE  HubSeen' /\ InstanceOf[r] # NoID /\ hub[r] # Absent
  <2>1. \A q \in Resources : store'[q] = IF q = r THEN hub[r] ELSE store[q]
    BY <1>1, <1>2 DEF Stored
  <2> QED
    BY <1>1, <1>2, <2>1 DEF HubSeen, Listed
<1>3. changes \in 0..MaxChanges
  BY <1>1 DEF Stored
<1>4. ASSUME NEW r \in HostedClusters, RelistHostedCluster(r)
      PROVE  RInv'
  <2>1. /\ r \in Resources /\ ~Listed(r) /\ Ready("hc") /\ hub' = hub /\ changes' = changes
        /\ store' = [store EXCEPT ![r] = hub[r]]
        /\ Handle("hc", InstanceOf[r], reconcileHostedCluster(InstanceOf[r], inst[InstanceOf[r]], hub[r]))
    BY <1>4 DEF RelistHostedCluster, Resources
  <2>2. HubSeen' /\ InstanceOf[r] # NoID /\ hub[r] \in HCObjects
    BY <1>1, <1>2, <2>1 DEF HubSeen
  <2>3. IInv'
    BY <1>1, <1>3, <2>1, <2>2, HostedClusterNotified
  <2> QED
    BY <2>2, <2>3 DEF RInv
<1>5. ASSUME NEW r \in NodePools, RelistNodePool(r)
      PROVE  RInv'
  <2>1. /\ r \in Resources /\ ~Listed(r) /\ Ready("np") /\ hub' = hub /\ changes' = changes
        /\ store' = [store EXCEPT ![r] = hub[r]]
        /\ Handle("np", InstanceOf[r], reconcileNodePool(InstanceOf[r], inst[InstanceOf[r]], hub[r]))
    BY <1>5 DEF RelistNodePool, Resources
  <2>2. HubSeen' /\ InstanceOf[r] # NoID /\ hub[r] \in NPObjects
    BY <1>1, <1>2, <2>1 DEF HubSeen
  <2>3. IInv'
    BY <1>1, <1>3, <2>1, <2>2, NodePoolNotified
  <2> QED
    BY <2>2, <2>3 DEF RInv
<1> QED
  BY <1>4, <1>5

(***************************************************************************)
(* What the informers have not listed may change unseen.                   *)
(***************************************************************************)
LEMMA UnseenKeepsRInv ==
    ASSUME RInv,
           NEW r \in Resources, NEW o,
           r \in HostedClusters => o \in HCObjects \cup {Absent},
           r \in NodePools => o \in NPObjects \cup {Absent},
           ChangeUnseen(r, o)
    PROVE  RInv'
<1>1. IInv /\ Stored /\ TimersKeyed /\ AttemptsCounted /\ EventsTyped /\ Tracked /\ Recorded /\ ViewIsCurrent /\ HubSeen
  BY DEF RInv, IInv
<1>2. /\ ~Listed(r) /\ hub' = [hub EXCEPT ![r] = o]
      /\ changes < MaxChanges /\ changes' = changes + 1
      /\ UNCHANGED <<store, inst, handler, timers, timer, stopped, stopCall, newest, publish,
                     delivered, ctxDone, phase, latest, failures>>
  BY DEF ChangeUnseen, debouncerVars
<1>3. Stored'
  BY <1>1, <1>2, BoundsAssumption DEF Stored
<1>4. TimersKeyed' /\ AttemptsCounted' /\ EventsTyped' /\ Recorded'
  BY <1>1, <1>2 DEF TimersKeyed, D!TypeOK, AttemptsCounted, EventsTyped, Recorded, LastPublishedIsComposite, Composite
<1>5. Tracked'
  BY <1>1, <1>2, IdleTracks
<1>6. ViewIsCurrent'
  BY <1>1, <1>2 DEF ViewIsCurrent, HostedClustersOf, NodePoolsOf
<1>7. HubSeen'
  <2>1. store[r] = Absent
    BY <1>1, <1>2 DEF HubSeen, Listed
  <2>2. \A q \in Resources : hub'[q] = IF q = r THEN o ELSE hub[q]
    BY <1>1, <1>2 DEF HubSeen
  <2>3. hub' = [q \in Resources |-> hub'[q]]
    BY <1>1, <1>2 DEF HubSeen
  <2> QED
    BY <1>1, <1>2, <2>1, <2>2, <2>3 DEF HubSeen, Resources
<1> QED
  BY <1>3, <1>4, <1>5, <1>6, <1>7 DEF RInv, IInv

(***************************************************************************)
(* A new process knows nothing and its debouncer is a new one; the events  *)
(* on the bus are what it finds.                                           *)
(***************************************************************************)
LEMMA CrashKeepsRInv ==
    ASSUME RInv, CrashAndRestart
    PROVE  RInv'
<1>1. Stored /\ AttemptsCounted /\ EventsTyped /\ HubSeen
  BY DEF RInv, IInv
<1>2. /\ store' = [r \in Resources |-> IF InstanceOf[r] = NoID THEN store[r] ELSE Absent]
      /\ inst' = [id \in InstanceIDs |-> NewInstance]
      /\ handler' = [rt \in Handlers |-> NoEvent]
      /\ timers' = [id \in InstanceIDs |-> NoTimer] /\ timer' = [t \in Timers |-> D!Free]
      /\ stopped' = FALSE /\ stopCall' = "none" /\ newest' = [id \in InstanceIDs |-> NoTimer]
      /\ publish' = [t \in Timers |-> FirstAttempt]
      /\ ctxDone' = FALSE /\ phase' = "running"
      /\ latest' = [id \in InstanceIDs |-> Nowhere]
      /\ UNCHANGED <<hub, delivered, changes, failures>>
  BY DEF CrashAndRestart, NewDebouncer, boundVars
<1>3. NewInstance \in InstanceState /\ NewInstance.hcStatus = NoStatus
      /\ NewInstance.npStatus = NoStatus /\ NewInstance.lastPublished = NoStatus
  BY DEF NewInstance, InstanceState, Messages
<1>4. Recorded'
  BY <1>2, <1>3 DEF Recorded, LastPublishedIsComposite
<1>5. Stored' /\ HubSeen'
  BY <1>1, <1>2 DEF Stored, HubSeen, Resources
<1>6. TimersKeyed'
  BY <1>2 DEF D!TypeOK, TimersKeyed
<1>7. AttemptsCounted' /\ EventsTyped'
  BY <1>1, <1>2, BoundsAssumption DEF AttemptsCounted, EventsTyped, FirstAttempt
<1>8. Tracked'
  <2>1. \A id \in InstanceIDs : latest'[id] = Nowhere /\ inst'[id].lastPublished = NoStatus
    BY <1>2, <1>3
  <2>2. latest' \in [InstanceIDs -> Places]
    BY <1>2 DEF Places
  <2> QED
    BY <2>1, <2>2, PlaceFacts DEF Tracked, LatestIsAccountedFor
<1>9. ViewIsCurrent'
  <2>1. \A r \in Resources : InstanceOf[r] # NoID => store'[r] = Absent
    BY <1>2
  <2>2. \A id \in InstanceIDs : inst'[id].hcStatus = NoStatus /\ inst'[id].npStatus = NoStatus
    BY <1>2, <1>3
  <2>3. \A id \in InstanceIDs, h \in HostedClusters : HostedClustersOf(id) = {h} => store'[h] = Absent
    BY <2>1, ResourcesAssumption DEF HostedClustersOf, Resources
  <2> QED
    BY <2>2, <2>3 DEF ViewIsCurrent, HostedClustersOf, NodePoolsOf
<1> QED
  BY <1>4, <1>5, <1>6, <1>7, <1>8, <1>9 DEF RInv, IInv

(***************************************************************************)
(* RInv is an invariant of the monitor with crashes.                       *)
(***************************************************************************)
LEMMA RestartInvariant == RestartSpec => []RInv
<1>1. RestartInit => RInv
  <2> SUFFICES ASSUME RestartInit PROVE RInv
    OBVIOUS
  <2>1. IInv /\ Stored /\ hub = store
    BY InitIInv DEF RestartInit, IInv
  <2> QED
    BY <2>1 DEF RInv, HubSeen, Stored
<1>2. RInv /\ [RestartNext]_restartVars => RInv'
  <2> SUFFICES ASSUME RInv, [RestartNext]_restartVars PROVE RInv'
    OBVIOUS
  <2>1. CASE MonitorStep
    BY <2>1, MonitorStepKeepsRInv
  <2>2. CASE \E r \in HostedClusters : RelistHostedCluster(r) \/ \E o \in HCObjects \cup {Absent} : ChangeUnseen(r, o)
    BY <2>2, RelistKeepsRInv, UnseenKeepsRInv, ResourcesAssumption DEF Resources
  <2>3. CASE \E r \in NodePools : RelistNodePool(r) \/ \E o \in NPObjects \cup {Absent} : ChangeUnseen(r, o)
    BY <2>3, RelistKeepsRInv, UnseenKeepsRInv, ResourcesAssumption DEF Resources
  <2>4. CASE CrashAndRestart
    BY <2>4, CrashKeepsRInv
  <2>5. CASE UNCHANGED restartVars
    <3>1. UNCHANGED vars /\ UNCHANGED hub /\ store' = store
      BY <2>5 DEF restartVars, vars
    <3>2. IInv'
      BY <3>1, NextIInv DEF RInv
    <3> QED
      BY <3>1, <3>2 DEF RInv, HubSeen
  <2> QED
    BY <2>1, <2>2, <2>3, <2>4, <2>5 DEF RestartNext
<1> QED
  BY <1>1, <1>2, PTL DEF RestartSpec

-----------------------------------------------------------------------------
(***************************************************************************)
(* The record of an instance is consistent, across crashes: the comparison *)
(* with lastPublished suppresses an event only when nothing has changed.   *)
(***************************************************************************)
THEOREM RecordConsistent == RestartSpec => []LastPublishedIsComposite
<1>1. RInv => LastPublishedIsComposite
  BY DEF RInv, IInv, Recorded
<1> QED
  BY <1>1, RestartInvariant, PTL

(***************************************************************************)
(* The record of an instance agrees with the resources that the informers  *)
(* have listed, across crashes.                                            *)
(***************************************************************************)
THEOREM ViewCurrent == RestartSpec => []ViewIsCurrent
<1>1. RInv => ViewIsCurrent
  BY DEF RInv, IInv
<1> QED
  BY <1>1, RestartInvariant, PTL

(***************************************************************************)
(* The event last computed for an instance is where the history says, or   *)
(* lost to one of the four causes, for any number of HostedClusters and    *)
(* NodePools that claim the same instance.                                 *)
(***************************************************************************)
THEOREM LatestAccounted == Spec => []LatestIsAccountedFor
<1>1. IInv => LatestIsAccountedFor
  BY DEF IInv, Tracked
<1>2. SafetySpec => []IInv
  BY InitIInv, NextIInv, PTL DEF SafetySpec
<1> QED
  BY <1>1, <1>2, PTL DEF Spec

(***************************************************************************)
(* So it is across crashes, for the events of the process that runs.       *)
(***************************************************************************)
THEOREM RestartAccounted == RestartSpec => []LatestIsAccountedFor
<1>1. RInv => LatestIsAccountedFor
  BY DEF RInv, IInv, Tracked
<1> QED
  BY <1>1, RestartInvariant, PTL

(***************************************************************************)
(* The variables of the monitor keep their types, across crashes.          *)
(***************************************************************************)
THEOREM TypeCorrect == RestartSpec => []TypeOK
<1>1. RInv => TypeOK
  BY DEF RInv, IInv, Recorded, Stored, TimersKeyed, AttemptsCounted, EventsTyped, Tracked, TypeOK
<1> QED
  BY <1>1, RestartInvariant, PTL

(***************************************************************************)
(* With nothing in flight the bus agrees with the resources, whatever the  *)
(* order in which the two informers and the timers have run.               *)
(***************************************************************************)
LEMMA AtRestOnBus ==
    ASSUME IInv, AtRest, NEW id \in InstanceIDs, latest[id].at # "lost"
    PROVE  /\ latest[id] = Nowhere \/ latest[id] = OnBus
           /\ latest[id] = OnBus => delivered[id] # NoEvent /\ delivered[id].status = Intended(id)
           /\ latest[id] = Nowhere => inst[id].lastPublished = NoStatus
<1>1. Tracked
  BY DEF IInv
<1>2. latest[id] \in Places
  BY <1>1 DEF Tracked
<1>3. \A c \in LossCauses : latest[id] # Lost(c)
  BY DEF Lost
<1>4. \A rt \in Handlers : latest[id] # InHandler(rt)
  BY <1>1 DEF Tracked, LatestIsAccountedFor, AtRest
<1>5. \A t \in Timers : latest[id] # InTimer(t)
  BY <1>1 DEF Tracked, LatestIsAccountedFor, AtRest
<1>6. latest[id] = Nowhere \/ latest[id] = OnBus
  BY <1>2, <1>3, <1>4, <1>5 DEF Places
<1> QED
  BY <1>1, <1>6 DEF Tracked, LatestIsAccountedFor

(***************************************************************************)
(* QuietMonitorAgrees of the run: the last event on the bus is the worst   *)
(* of the two statuses as they are now, or DELETED.                        *)
(***************************************************************************)
THEOREM QuietAgreement == Spec => []QuietMonitorAgrees
<1>1. IInv => QuietMonitorAgrees
  <2> SUFFICES ASSUME IInv, NEW id \in InstanceIDs, NEW h \in HostedClusters, NEW n \in NodePools,
                      AtRest, HostedClustersOf(id) = {h}, latest[id].at \notin {"nowhere", "lost"}
               PROVE  /\ delivered[id] # NoEvent
                      /\ delivered[id].status = IF store[h] = Absent THEN "DELETED"
                            ELSE ComputeCompositeStatus(HCStatusOf(store[h]), inst[id].npStatus)
    BY DEF QuietMonitorAgrees
  <2>1. Recorded /\ Stored /\ ViewIsCurrent
    BY DEF IInv
  <2>2. latest[id] # Nowhere
    BY DEF Nowhere
  <2>3. delivered[id] # NoEvent /\ delivered[id].status = Intended(id)
    BY <2>2, AtRestOnBus
  <2>4. inst[id].hcStatus = IF store[h] = Absent THEN NoStatus ELSE HCStatusOf(store[h])
    BY <2>1 DEF ViewIsCurrent
  <2>5. store[h] # Absent => HCStatusOf(store[h]) # NoStatus
    BY <2>1, HostedClusterFacts, StatusFacts DEF Stored
  <2>6. inst[id].hcStatus # NoStatus =>
          inst[id].lastPublished = ComputeCompositeStatus(inst[id].hcStatus, inst[id].npStatus)
    BY <2>1 DEF Recorded, LastPublishedIsComposite, Composite
  <2> QED
    BY <2>3, <2>4, <2>5, <2>6 DEF Intended
<1>2. SafetySpec => []IInv
  BY InitIInv, NextIInv, PTL DEF SafetySpec
<1> QED
  BY <1>1, <1>2, PTL DEF Spec

-----------------------------------------------------------------------------
(***************************************************************************)
(* What a new process owes the consumers.  An instance of which it has     *)
(* computed no event has none on the way.                                  *)
(***************************************************************************)
Silent(id) ==
    /\ \A rt \in Handlers : handler[rt] # NoEvent => handler[rt].id # id
    /\ \A t \in Timers : timer[t] # D!Free => timer[t].key # id

Unheard == \A id \in InstanceIDs : latest[id] = Nowhere => Silent(id)

\* Then what is on the bus is right, or the deletion was missed, or it will be listed.
Settled(id, h) ==
    \/ delivered[id] = NoEvent \/ delivered[id].status = "DELETED"
    \/ id \in missed
    \/ hub[h] # Absent /\ store[h] = Absent

Owed ==
    \A id \in InstanceIDs, h \in HostedClusters :
        HostedClustersOf(id) = {h} /\ latest[id] = Nowhere => Settled(id, h)

CInv == RInv /\ Unheard /\ Owed

(***************************************************************************)
(* A handler that computes an event makes it the last one of its instance. *)
(***************************************************************************)
StaysSilent(id) ==
    latest'[id] = Nowhere =>
        /\ latest[id] = Nowhere
        /\ Silent(id) => Silent(id)' /\ delivered'[id] = delivered[id]

\* A handler says nothing of another instance than its own.
LEMMA HandleSilent ==
    ASSUME Tracked, EventsTyped, NEW rt \in Handlers, NEW k \in InstanceIDs, NEW result,
           result.event = NoEvent \/ result.event.id = k, Handle(rt, k, result)
    PROVE  \A id \in InstanceIDs : StaysSilent(id)
<1>1. /\ handler' = [handler EXCEPT ![rt] = result.event]
      /\ latest' = IF result.event = NoEvent THEN latest ELSE [latest EXCEPT ![k] = InHandler(rt)]
      /\ timer' = timer /\ delivered' = delivered
  BY DEF Handle, debouncerVars
<1>2. \A qt \in Handlers : handler'[qt] = IF qt = rt THEN result.event ELSE handler[qt]
  BY <1>1 DEF EventsTyped
<1>3. \A id \in InstanceIDs :
        latest'[id] = IF id = k /\ result.event # NoEvent THEN InHandler(rt) ELSE latest[id]
  BY <1>1 DEF Tracked
<1>4. InHandler(rt) # Nowhere
  BY PlaceFacts
<1> QED
  BY <1>1, <1>2, <1>3, <1>4 DEF StaysSilent, Silent

(***************************************************************************)
(* The event that a handler computes is of the instance it handles.        *)
(***************************************************************************)
LEMMA HandlersSpeakFor ==
    ASSUME NEW id, NEW i, NEW o
    PROVE  /\ LET e == reconcileHostedCluster(id, i, o).event IN e = NoEvent \/ e.id = id
           /\ LET e == reconcileNodePool(id, i, o).event IN e = NoEvent \/ e.id = id
           /\ LET e == handleDeleteHostedCluster(id, i).event IN e = NoEvent \/ e.id = id
           /\ LET e == handleDeleteNodePool(id, i).event IN e = NoEvent \/ e.id = id
<1>1. \A s, m : StatusEvent(id, s, m).id = id
  BY DEF StatusEvent
<1>2. \A j : Quietly(j).event = NoEvent
  BY DEF Quietly
<1>3. \A j : PublishComposite(id, j).event = NoEvent \/ PublishComposite(id, j).event.id = id
  BY <1>1, <1>2 DEF PublishComposite
<1>4. LET e == reconcileHostedCluster(id, i, o).event IN e = NoEvent \/ e.id = id
  BY <1>2, <1>3 DEF reconcileHostedCluster
<1>5. LET e == reconcileNodePool(id, i, o).event IN e = NoEvent \/ e.id = id
  BY <1>2, <1>3 DEF reconcileNodePool
<1>6. LET e == handleDeleteHostedCluster(id, i).event IN e = NoEvent \/ e.id = id
  BY <1>1 DEF handleDeleteHostedCluster
<1>7. LET e == handleDeleteNodePool(id, i).event IN e = NoEvent \/ e.id = id
  BY <1>1, <1>2 DEF handleDeleteNodePool
<1> QED
  BY <1>4, <1>5, <1>6, <1>7

(***************************************************************************)
(* No timer begins to carry an event, and no handler to hold one.          *)
(***************************************************************************)
LEMMA CarriersSilent ==
    ASSUME NEW id,
           \A rt \in Handlers : handler'[rt] \in {handler[rt], NoEvent},
           \A t \in Timers : timer'[t] # D!Free => timer[t] # D!Free /\ timer'[t].key = timer[t].key,
           Silent(id)
    PROVE  Silent(id)'
BY DEF Silent

\* Losing an event is no way back to where none was computed.
LEMMA DiscardSilent ==
    ASSUME NEW cause, latest' = Discard(cause), NEW id \in InstanceIDs, latest'[id] = Nowhere
    PROVE  latest[id] = Nowhere
BY PlaceFacts DEF Discard

(***************************************************************************)
(* Submissions and the steps of the debouncer speak of no other instance   *)
(* than the one whose event they carry.                                    *)
(***************************************************************************)
LEMMA SubmitSilent ==
    ASSUME IInv, NEW rt \in Handlers, Submit(rt), NEW id \in InstanceIDs
    PROVE  StaysSilent(id)
<1> DEFINE e == handler[rt]
<1>1. TimersKeyed /\ EventsTyped /\ Tracked
  BY DEF IInv
<1>2. /\ e \in StatusEvents /\ e # NoEvent /\ e.id \in InstanceIDs
      /\ handler' = [handler EXCEPT ![rt] = NoEvent] /\ delivered' = delivered /\ ctxDone' = ctxDone
  BY <1>1 DEF Submit, SubmitAccepted, SubmitIgnored, EventsTyped, StatusEvents, boundVars
<1>3. \A qt \in Handlers : handler'[qt] \in {handler[qt], NoEvent}
  BY <1>1, <1>2 DEF EventsTyped
<1>4. Silent(id) => id # e.id
  BY <1>2 DEF Silent
<1>5. ASSUME NEW t \in Timers, SubmitAccepted(rt, t)
      PROVE  StaysSilent(id)
  <2>1. /\ D!Accept(e.id, e, t)
        /\ latest' = [Discard("reordered") EXCEPT
              ![e.id] = IF latest[e.id] = InHandler(rt) THEN InTimer(t) ELSE @]
    BY <1>5 DEF SubmitAccepted
  <2>2. timer'[t].key = e.id /\ \A u \in Timers \ {t} : KeptOrFreed(u)
    BY <1>1, <1>2, <2>1, AcceptEffect
  <2>3. latest'[id] = Nowhere => latest[id] = Nowhere
    BY <2>1, PlaceFacts DEF Discard
  <2>4. Silent(id) => Silent(id)'
    BY <1>3, <1>4, <2>2 DEF Silent, KeptOrFreed
  <2> QED
    BY <1>2, <2>3, <2>4 DEF StaysSilent
<1>6. CASE SubmitIgnored(rt)
  <2>1. /\ timer' = timer
        /\ latest' = [latest EXCEPT ![e.id] = IF @ = InHandler(rt) THEN Lost("shutdown") ELSE @]
    BY <1>6 DEF SubmitIgnored, D!SubmitAfterStop, D!vars
  <2>2. latest'[id] = Nowhere => latest[id] = Nowhere
    BY <1>1, <2>1, PlaceFacts DEF Tracked
  <2>3. Silent(id) => Silent(id)'
    BY <1>3, <2>1 DEF Silent
  <2> QED
    BY <1>2, <2>2, <2>3 DEF StaysSilent
<1> QED
  BY <1>5, <1>6 DEF Submit

\* The timers and their callbacks speak of no other instance either.
LEMMA DebouncerSilent ==
    ASSUME IInv, NEW t \in Timers, Fire(t) \/ Callback(t) \/ Publish(t) \/ Backoff(t),
           NEW id \in InstanceIDs
    PROVE  StaysSilent(id)
<1>1. TimersKeyed /\ EventsTyped /\ Tracked
  BY DEF IInv
<1>2. ASSUME D!Fire(t) \/ D!Callback(t) \/ D!PublishReturns(t), ctxDone' = ctxDone, handler' = handler
      PROVE  /\ Silent(id) => Silent(id)'
             /\ timer[t] # D!Free /\ timer[t].event.id = timer[t].key
  <2>1. /\ \A u \in Timers : KeptOrFreed(u) \/ timer[u] = D!Free
        /\ \A u \in Timers \ {t} : timer'[u] = timer[u]
        /\ timer[t] # D!Free
    BY <1>1, <1>2, TimerEffect
  <2>2. \A u \in Timers : timer'[u] # D!Free => timer[u] # D!Free /\ timer'[u].key = timer[u].key
    BY <2>1 DEF KeptOrFreed
  <2> QED
    BY <1>1, <1>2, <2>1, <2>2, CarriersSilent DEF TimersKeyed
<1>3. CASE Fire(t)
  BY <1>2, <1>3 DEF Fire, StaysSilent
<1>4. CASE Callback(t)
  BY <1>2, <1>4, DiscardSilent DEF Callback, StaysSilent
<1>5. CASE PublishSucceeds(t)
  <2> DEFINE e == timer[t].event
  <2>1. /\ D!PublishReturns(t) /\ ctxDone' = ctxDone /\ handler' = handler
        /\ delivered' = [delivered EXCEPT ![e.id] = e]
        /\ latest' = [latest EXCEPT ![e.id] =
              IF @ = InTimer(t) THEN OnBus ELSE IF @ = OnBus THEN Lost("overtaken") ELSE @]
    BY <1>5 DEF PublishSucceeds
  <2>2. /\ Silent(id) => Silent(id)'
        /\ timer[t] # D!Free /\ e.id = timer[t].key
    BY <1>2, <2>1
  <2>3. latest'[id] = Nowhere => latest[id] = Nowhere
    BY <1>1, <2>1, PlaceFacts DEF Tracked
  <2>4. Silent(id) => delivered'[id] = delivered[id]
    BY <1>1, <2>1, <2>2 DEF Silent, EventsTyped
  <2> QED
    BY <2>2, <2>3, <2>4 DEF StaysSilent
<1>6. CASE PublishFails(t)
  BY <1>6 DEF PublishFails, Fail, debouncerVars, StaysSilent, Silent
<1>7. CASE PublishDrops(t)
  BY <1>2, <1>7, DiscardSilent DEF PublishDrops, Fail, StaysSilent
<1>8. CASE BackoffElapses(t)
  BY <1>8 DEF BackoffElapses, debouncerVars, StaysSilent, Silent
<1>9. CASE BackoffCancelled(t)
  BY <1>2, <1>9, DiscardSilent DEF BackoffCancelled, StaysSilent
<1> QED
  BY <1>3, <1>4, <1>5, <1>6, <1>7, <1>8, <1>9 DEF Publish, Backoff

\* Nor does the shutdown.
LEMMA ShutdownSilent ==
    ASSUME IInv, Cancel \/ Shutdown, NEW id \in InstanceIDs
    PROVE  StaysSilent(id)
<1>1. CASE StopDebouncer
  <2>1. /\ latest' = Discard("shutdown") /\ handler' = handler /\ delivered' = delivered
        /\ timer' = D!StopTimers({timers[k] : k \in InstanceIDs})
    BY <1>1 DEF StopDebouncer, D!Stop
  <2>2. \A u \in Timers : timer'[u] # D!Free => timer[u] # D!Free /\ timer'[u].key = timer[u].key
    BY <2>1 DEF D!StopTimers
  <2>3. Silent(id) => Silent(id)'
    BY <2>1, <2>2, CarriersSilent
  <2> QED
    BY <2>1, <2>3, DiscardSilent DEF StaysSilent
<1>2. CASE Cancel \/ StopReturns \/ StartReturns
  BY <1>2 DEF Cancel, StopReturns, StartReturns, D!StopReturns, debouncerVars, StaysSilent, Silent
<1> QED
  BY <1>1, <1>2 DEF Shutdown

(***************************************************************************)
(* Every step of the monitor keeps an unheard instance unheard.            *)
(***************************************************************************)
LEMMA NextSilent ==
    ASSUME IInv, Next, NEW id \in InstanceIDs
    PROVE  StaysSilent(id)
<1>1. Tracked /\ EventsTyped /\ "hc" \in Handlers /\ "np" \in Handlers
  BY DEF IInv, Handlers
<1>2. \A r \in Resources : InstanceOf[r] # NoID => InstanceOf[r] \in InstanceIDs
  BY ResourcesAssumption
<1>3. ASSUME NEW r \in HostedClusters, DeleteHostedCluster(r) \/ \E o \in HCObjects : NotifyHostedCluster(r, o)
      PROVE  StaysSilent(id)
  BY <1>1, <1>2, <1>3, HandleSilent, HandlersSpeakFor
     DEF DeleteHostedCluster, NotifyHostedCluster, Resources
<1>4. ASSUME NEW r \in NodePools, DeleteNodePool(r) \/ \E o \in NPObjects : NotifyNodePool(r, o)
      PROVE  StaysSilent(id)
  BY <1>1, <1>2, <1>4, HandleSilent, HandlersSpeakFor
     DEF DeleteNodePool, NotifyNodePool, Resources
<1>5. ASSUME NEW r \in Resources, NEW o, SkipUnlabelled(r, o)
      PROVE  StaysSilent(id)
  BY <1>5 DEF SkipUnlabelled, debouncerVars, StaysSilent, Silent
<1>6. CASE \E rt \in Handlers : Submit(rt)
  BY <1>6, SubmitSilent
<1>7. CASE \E t \in Timers : Fire(t) \/ Callback(t) \/ Publish(t) \/ Backoff(t)
  BY <1>7, DebouncerSilent
<1>8. CASE Cancel \/ Shutdown
  BY <1>8, ShutdownSilent
<1>9. CASE Returned
  BY <1>9 DEF Returned, vars, debouncerVars, StaysSilent, Silent
<1> QED
  BY <1>3, <1>4, <1>5, <1>6, <1>7, <1>8, <1>9 DEF Next

(***************************************************************************)
(* A HostedCluster that a process has seen has been spoken of.             *)
(***************************************************************************)
Heard ==
    \A id \in InstanceIDs, h \in HostedClusters :
        HostedClustersOf(id) = {h} /\ latest[id] = Nowhere => store[h] = Absent

\* An instance whose HostedCluster is on record has a last published status.
LEMMA SeenIsHeard == IInv => Heard
<1> SUFFICES ASSUME IInv, NEW id \in InstanceIDs, NEW h \in HostedClusters,
                    HostedClustersOf(id) = {h}, latest[id] = Nowhere
             PROVE  store[h] = Absent
  BY DEF Heard
<1>1. Recorded /\ Stored /\ Tracked /\ ViewIsCurrent
  BY DEF IInv
<1>2. inst[id].lastPublished = NoStatus
  BY <1>1 DEF Tracked, LatestIsAccountedFor
<1>3. CASE inst[id].hcStatus # NoStatus
  <2>1. inst[id].lastPublished = Composite(inst[id]) /\ inst[id] \in InstanceState
    BY <1>1, <1>3 DEF Recorded, LastPublishedIsComposite
  <2> QED
    BY <1>2, <1>3, <2>1, CompositeFacts, StatusFacts
<1>4. CASE inst[id].hcStatus = NoStatus
  BY <1>1, <1>4, HostedClusterFacts, StatusFacts DEF ViewIsCurrent, Stored
<1> QED
  BY <1>3, <1>4

\* The same after a step.
LEMMA SeenIsHeardNext == IInv' => Heard'
BY SeenIsHeard, PTL

(***************************************************************************)
(* What is owed stays owed or is paid, in a step that hears of nothing by  *)
(* stealth: a deletion is missed no more once the HostedCluster is seen.   *)
(***************************************************************************)
LEMMA OwedKept ==
    ASSUME CInv, RInv',
           \A id \in InstanceIDs, h \in HostedClusters :
               HostedClustersOf(id) = {h} /\ store'[h] = Absent /\ id \in missed => id \in missed',
           \A id \in InstanceIDs : StaysSilent(id),
           \A h \in HostedClusters : ~Listed(h) /\ store'[h] = Absent => hub'[h] = hub[h]
    PROVE  CInv'
<1>1. Unheard'
  BY DEF CInv, Unheard, StaysSilent
<1>2. ASSUME NEW id \in InstanceIDs, NEW h \in HostedClusters, HostedClustersOf(id) = {h},
             latest'[id] = Nowhere
      PROVE  Settled(id, h)'
  <2>1. latest[id] = Nowhere /\ delivered'[id] = delivered[id]
    BY <1>2 DEF StaysSilent, CInv, Unheard
  <2>2. Settled(id, h)
    BY <1>2, <2>1 DEF CInv, Owed
  <2>3. store'[h] = Absent
    <3>1. Heard' /\ HostedClustersOf(id)' = {h}
      BY <1>2, SeenIsHeardNext DEF RInv, HostedClustersOf
    <3> QED
      BY <1>2, <3>1 DEF Heard
  <2>4. id \in missed => id \in missed'
    BY <1>2, <2>3
  <2>5. hub[h] # Absent /\ store[h] = Absent => hub'[h] = hub[h]
    <3>1. InstanceOf[h] # NoID
      BY <1>2, ResourcesAssumption DEF HostedClustersOf
    <3> QED
      BY <2>3, <3>1 DEF Listed
  <2> QED
    BY <2>1, <2>2, <2>3, <2>4, <2>5 DEF Settled
<1>3. Owed'
  BY <1>2 DEF Owed, HostedClustersOf
<1> QED
  BY <1>1, <1>3 DEF CInv

\* A step of the monitor: a HostedCluster that it sees is heard of.
LEMMA MonitorStepKeepsOwed ==
    ASSUME CInv, MonitorStep
    PROVE  CInv'
<1>1. RInv'
  BY MonitorStepKeepsRInv DEF CInv
<1>2. \A id \in InstanceIDs : StaysSilent(id)
  BY NextSilent DEF CInv, RInv, MonitorStep
<1>3. ASSUME NEW id \in InstanceIDs, NEW h \in HostedClusters,
             HostedClustersOf(id) = {h}, store'[h] = Absent, id \in missed
      PROVE  id \in missed'
  <2>1. \A r \in HostedClusters : InstanceOf[r] = id => r = h
    BY <1>3 DEF HostedClustersOf
  <2> QED
    BY <1>3, <2>1 DEF MonitorStep
<1>4. \A h \in HostedClusters : ~Listed(h) /\ store'[h] = Absent => hub'[h] = hub[h]
  BY DEF MonitorStep, Resources
<1> QED
  BY <1>1, <1>2, <1>3, <1>4, OwedKept

\* A listed HostedCluster is heard of; a NodePool changes nothing that is owed.
LEMMA RelistKeepsOwed ==
    ASSUME CInv,
           \/ \E r \in HostedClusters : RelistHostedCluster(r)
           \/ \E r \in NodePools : RelistNodePool(r)
    PROVE  CInv'
<1>1. RInv'
  BY RelistKeepsRInv DEF CInv
<1>2. Stored /\ HubSeen /\ Tracked /\ EventsTyped /\ "hc" \in Handlers /\ "np" \in Handlers
  BY DEF CInv, RInv, IInv, Handlers
<1>3. \A r \in Resources : ~Listed(r) => InstanceOf[r] \in InstanceIDs /\ hub[r] # Absent
  BY <1>2, ResourcesAssumption DEF Listed, HubSeen
<1>4. hub' = hub
  BY DEF RelistHostedCluster, RelistNodePool
<1>5. \A id \in InstanceIDs : StaysSilent(id)
  BY <1>2, <1>3, HandleSilent, HandlersSpeakFor DEF RelistHostedCluster, RelistNodePool, Resources
<1>6. ASSUME NEW id \in InstanceIDs, NEW h \in HostedClusters,
             HostedClustersOf(id) = {h}, store'[h] = Absent, id \in missed
      PROVE  id \in missed'
  <2>1. ASSUME NEW r \in HostedClusters, RelistHostedCluster(r)
        PROVE  id \in missed'
    <3>1. /\ r \in Resources /\ ~Listed(r) /\ store' = [store EXCEPT ![r] = hub[r]]
          /\ missed' = missed \ {InstanceOf[r]}
      BY <2>1 DEF RelistHostedCluster, Resources
    <3>2. store'[r] # Absent
      BY <1>2, <1>3, <3>1 DEF Stored
    <3>3. InstanceOf[r] # id
      BY <1>6, <3>2 DEF HostedClustersOf
    <3> QED
      BY <1>6, <3>1, <3>3
  <2>2. ASSUME NEW r \in NodePools, RelistNodePool(r)
        PROVE  id \in missed'
    BY <1>6, <2>2 DEF RelistNodePool
  <2> QED
    BY <2>1, <2>2
<1> QED
  BY <1>1, <1>4, <1>5, <1>6, OwedKept

\* A deletion that nobody sees is missed; any other change is still to be listed.
LEMMA UnseenKeepsOwed ==
    ASSUME CInv,
           NEW r \in Resources, NEW o,
           r \in HostedClusters => o \in HCObjects \cup {Absent},
           r \in NodePools => o \in NPObjects \cup {Absent},
           ChangeUnseen(r, o)
    PROVE  CInv'
<1>1. RInv'
  BY UnseenKeepsRInv DEF CInv
<1>2. /\ ~Listed(r) /\ hub' = [hub EXCEPT ![r] = o]
      /\ missed' = IF r \in HostedClusters /\ o = Absent THEN missed \cup {InstanceOf[r]} ELSE missed
      /\ UNCHANGED <<store, handler, timer, delivered, latest>>
  BY DEF ChangeUnseen, debouncerVars
<1>3. Unheard'
  BY <1>2 DEF CInv, Unheard, Silent
<1>4. \A q \in Resources : hub'[q] = IF q = r THEN o ELSE hub[q]
  BY <1>2 DEF CInv, RInv, HubSeen
<1>5. store[r] = Absent
  BY <1>2 DEF CInv, RInv, HubSeen, Listed
<1>6. ASSUME NEW id \in InstanceIDs, NEW h \in HostedClusters, HostedClustersOf(id) = {h}, latest[id] = Nowhere
      PROVE  Settled(id, h)'
  <2>1. Settled(id, h) /\ h \in Resources /\ InstanceOf[h] = id
    BY <1>6 DEF CInv, Owed, Resources, HostedClustersOf
  <2>2. CASE r = h
    BY <1>2, <1>4, <1>5, <1>6, <2>1, <2>2 DEF Settled
  <2>3. CASE r # h
    BY <1>2, <1>4, <2>1, <2>3 DEF Settled
  <2> QED
    BY <2>2, <2>3
<1>7. Owed'
  BY <1>2, <1>6 DEF Owed, HostedClustersOf
<1> QED
  BY <1>1, <1>3, <1>7 DEF CInv

\* A crash: what the consumers take for alive and is gone is missed from now on.
LEMMA CrashKeepsOwed ==
    ASSUME CInv, CrashAndRestart
    PROVE  CInv'
<1>1. RInv'
  BY CrashKeepsRInv DEF CInv
<1>2. /\ store' = [r \in Resources |-> IF InstanceOf[r] = NoID THEN store[r] ELSE Absent]
      /\ handler' = [rt \in Handlers |-> NoEvent] /\ timer' = [t \in Timers |-> D!Free]
      /\ missed' = missed \cup Outlived
      /\ UNCHANGED <<hub, delivered>>
  BY DEF CrashAndRestart, NewDebouncer
<1>3. Unheard'
  BY <1>2 DEF Unheard, Silent
<1>4. ASSUME NEW id \in InstanceIDs, NEW h \in HostedClusters, HostedClustersOf(id) = {h}
      PROVE  Settled(id, h)'
  <2>1. h \in Resources /\ InstanceOf[h] # NoID
    BY <1>4, ResourcesAssumption DEF Resources, HostedClustersOf
  <2>2. CASE hub[h] # Absent
    BY <1>2, <2>1, <2>2 DEF Settled
  <2>3. CASE hub[h] = Absent
    <3>1. delivered[id] = NoEvent \/ delivered[id].status = "DELETED" \/ id \in Outlived
      BY <1>4, <2>3 DEF Outlived
    <3> QED
      BY <1>2, <3>1 DEF Settled
  <2> QED
    BY <2>2, <2>3
<1>5. Owed'
  BY <1>4 DEF Owed, HostedClustersOf
<1> QED
  BY <1>1, <1>3, <1>5 DEF CInv

(***************************************************************************)
(* After any number of crashes, a monitor at rest that has listed          *)
(* everything and lost nothing has told the consumers what the hub holds;  *)
(* the one exception is a deletion no process was there to see.            *)
(***************************************************************************)
THEOREM CatchesUp == RestartSpec => []RestartCatchesUp
<1>1. RestartInit => CInv
  <2> SUFFICES ASSUME RestartInit PROVE CInv
    OBVIOUS
  <2>1. IInv /\ Stored /\ hub = store
    BY InitIInv DEF RestartInit, IInv
  <2>2. RInv
    BY <2>1 DEF RInv, HubSeen, Stored
  <2>3. Unheard /\ Owed
    BY DEF RestartInit, Init, D!Init, Unheard, Silent, Owed, Settled
  <2> QED
    BY <2>2, <2>3 DEF CInv
<1>2. CInv /\ [RestartNext]_restartVars => CInv'
  <2> SUFFICES ASSUME CInv, [RestartNext]_restartVars PROVE CInv'
    OBVIOUS
  <2>1. CASE MonitorStep
    BY <2>1, MonitorStepKeepsOwed
  <2>2. CASE \E r \in HostedClusters : RelistHostedCluster(r) \/ \E o \in HCObjects \cup {Absent} : ChangeUnseen(r, o)
    BY <2>2, RelistKeepsOwed, UnseenKeepsOwed, ResourcesAssumption DEF Resources
  <2>3. CASE \E r \in NodePools : RelistNodePool(r) \/ \E o \in NPObjects \cup {Absent} : ChangeUnseen(r, o)
    BY <2>3, RelistKeepsOwed, UnseenKeepsOwed, ResourcesAssumption DEF Resources
  <2>4. CASE CrashAndRestart
    BY <2>4, CrashKeepsOwed
  <2>5. CASE UNCHANGED restartVars
    <3>1. UNCHANGED vars /\ UNCHANGED <<hub, missed, store, handler, timer, delivered, latest>>
      BY <2>5 DEF restartVars, vars, debouncerVars
    <3>2. RInv'
      BY <3>1, NextIInv DEF CInv, RInv, HubSeen
    <3>3. Unheard' /\ Owed'
      BY <3>1 DEF CInv, Unheard, Silent, Owed, Settled, HostedClustersOf
    <3> QED
      BY <3>2, <3>3 DEF CInv
  <2> QED
    BY <2>1, <2>2, <2>3, <2>4, <2>5 DEF RestartNext
<1>3. CInv => RestartCatchesUp
  <2> SUFFICES ASSUME CInv, NEW id \in InstanceIDs, NEW h \in HostedClusters, AtRest,
                      \A r \in Resources : Listed(r),
                      HostedClustersOf(id) = {h}, latest[id].at # "lost"
               PROVE  IF hub[h] = Absent
                      THEN \/ delivered[id] = NoEvent \/ delivered[id].status = "DELETED" \/ id \in missed
                      ELSE /\ delivered[id] # NoEvent
                           /\ delivered[id].status = ComputeCompositeStatus(HCStatusOf(hub[h]), inst[id].npStatus)
    BY DEF RestartCatchesUp
  <2>1. IInv /\ Recorded /\ Stored /\ ViewIsCurrent
    BY DEF CInv, RInv, IInv
  <2>2. store[h] = hub[h]
    BY ResourcesAssumption DEF Listed, HostedClustersOf, Resources
  <2>3. /\ latest[id] = Nowhere \/ latest[id] = OnBus
        /\ latest[id] = OnBus => delivered[id] # NoEvent /\ delivered[id].status = Intended(id)
    BY <2>1, AtRestOnBus
  <2>4. inst[id].hcStatus = IF store[h] = Absent THEN NoStatus ELSE HCStatusOf(store[h])
    BY <2>1 DEF ViewIsCurrent
  <2>5. store[h] # Absent => HCStatusOf(store[h]) # NoStatus
    BY <2>1, HostedClusterFacts, StatusFacts DEF Stored
  <2>6. inst[id].hcStatus # NoStatus =>
          inst[id].lastPublished = ComputeCompositeStatus(inst[id].hcStatus, inst[id].npStatus)
    BY <2>1 DEF Recorded, LastPublishedIsComposite, Composite
  <2>7. CASE latest[id] = OnBus
    BY <2>2, <2>3, <2>4, <2>5, <2>6, <2>7 DEF Intended
  <2>8. CASE latest[id] = Nowhere
    <3>1. store[h] = Absent
      BY <2>1, <2>8, SeenIsHeard DEF Heard
    <3>2. Settled(id, h)
      BY <2>8 DEF CInv, Owed
    <3> QED
      BY <2>2, <3>1, <3>2 DEF Settled
  <2> QED
    BY <2>3, <2>7, <2>8
<1> QED
  BY <1>1, <1>2, <1>3, PTL DEF RestartSpec

-----------------------------------------------------------------------------
(***************************************************************************)
(* The messages.  Only FAILED and UNAVAILABLE carry a HostedCluster's      *)
(* message, and no NodePool status outranks either, so that the hcMsg on   *)
(* record may be out of date only where it is empty.                       *)
(***************************************************************************)
SparesMessage(i) == i.hcStatus \in {"FAILED", "UNAVAILABLE"} \/ i.hcMsg = NoMessage

\* npMsg is of the NodePool whose status is on record.
NodePoolNoted(id, n) ==
    /\ NodePoolsOf(id) = {n} /\ store[n] # Absent
    /\ NPStatusOf(store[n]) # NoStatus /\ inst[id].npStatus = NPStatusOf(store[n])
    => inst[id].npMsg = NPMsgOf(store[n])

Noted ==
    \A id \in InstanceIDs :
        SparesMessage(inst[id]) /\ \A n \in NodePools : NodePoolNoted(id, n)

\* A HostedCluster status that a NodePool outranks carries no message.
LEMMA OutrankedIsPlain ==
    ASSUME NEW hcStatus \in HCStatus, NEW npStatus \in NPStatus \cup {NoStatus},
           NodePoolIsWorse(hcStatus, npStatus)
    PROVE  hcStatus \notin {"FAILED", "UNAVAILABLE"}
<1>1. npStatus \in NPStatus
  BY DEF NodePoolIsWorse
<1>2. StatusPriority[npStatus] <= 4
  BY <1>1 DEF NPStatus, StatusPriority
<1>3. StatusPriority["FAILED"] = 5 /\ StatusPriority["UNAVAILABLE"] = 4
  BY DEF StatusPriority
<1>4. StatusPriority[npStatus] \in Int
  BY <1>1 DEF NPStatus, StatusPriority
<1> QED
  BY <1>2, <1>3, <1>4 DEF NodePoolIsWorse

\* A HostedCluster's conditions give a message for FAILED and UNAVAILABLE only.
LEMMA PlainHasNoMessage ==
    ASSUME NEW o, HCStatusOf(o) \notin {"FAILED", "UNAVAILABLE"}
    PROVE  HCMsgOf(o) = NoMessage
BY DEF HCMsgOf, extractHostedClusterMessage

(***************************************************************************)
(* What reconcileResource says of a HostedCluster: the NodePool's message  *)
(* on record where the NodePool drives, its own new one otherwise.         *)
(***************************************************************************)
LEMMA HostedClusterSpeaks ==
    ASSUME NEW id, NEW i \in InstanceState, SparesMessage(i), NEW o \in HCObjects,
           NEW result, result = reconcileHostedCluster(id, i, o)
    PROVE  /\ SparesMessage(result.inst)
           /\ result.inst.npMsg = i.npMsg /\ result.inst.npStatus = i.npStatus
           /\ result.event # NoEvent =>
                result.event.message =
                    IF NodePoolIsWorse(HCStatusOf(o), i.npStatus) THEN i.npMsg ELSE HCMsgOf(o)
<1> DEFINE moved == [i EXCEPT !.hcMsg = HCMsgOf(o), !.hcStatus = HCStatusOf(o)]
<1>1. CASE i.hcStatus = HCStatusOf(o)
  BY <1>1 DEF reconcileHostedCluster, Quietly
<1>2. CASE i.hcStatus # HCStatusOf(o)
  <2>1. result = PublishComposite(id, moved)
    BY <1>2 DEF reconcileHostedCluster
  <2>2. /\ moved \in InstanceState /\ moved.hcStatus = HCStatusOf(o) /\ moved.hcMsg = HCMsgOf(o)
        /\ moved.npMsg = i.npMsg /\ moved.npStatus = i.npStatus
    BY HostedClusterFacts DEF InstanceState
  <2> HIDE DEF moved
  <2>3. SparesMessage(moved)
    BY <2>2, PlainHasNoMessage DEF SparesMessage
  <2>4. /\ result.inst.hcStatus = moved.hcStatus /\ result.inst.hcMsg = moved.hcMsg
        /\ result.inst.npMsg = moved.npMsg /\ result.inst.npStatus = moved.npStatus
    BY <2>1, <2>2 DEF PublishComposite, Quietly, InstanceState
  <2>5. result.event # NoEvent => result.event.message = compositeMessage(moved)
    BY <2>1 DEF PublishComposite, Quietly, StatusEvent
  <2> QED
    BY <2>2, <2>3, <2>4, <2>5 DEF SparesMessage, compositeMessage
<1> QED
  BY <1>1, <1>2

(***************************************************************************)
(* What it says of a NodePool: its own message where it drives.  The       *)
(* HostedCluster drives only after a NodePool that did, and then its       *)
(* message on record is empty.                                             *)
(***************************************************************************)
LEMMA NodePoolSpeaks ==
    ASSUME NEW id, NEW i \in InstanceState, Consistent(i), SparesMessage(i), NEW o \in NPObjects,
           NEW result, result = reconcileNodePool(id, i, o)
    PROVE  /\ SparesMessage(result.inst)
           /\ NPStatusOf(o) # NoStatus => result.inst.npMsg = NPMsgOf(o)
           /\ result.event # NoEvent =>
                /\ i.hcStatus # NoStatus
                /\ IF NodePoolIsWorse(i.hcStatus, NPStatusOf(o))
                   THEN result.event.message = NPMsgOf(o)
                   ELSE /\ result.event.message = NoMessage
                        /\ i.hcStatus \notin {"FAILED", "UNAVAILABLE"}
<1> DEFINE noted == [i EXCEPT !.npMsg = NPMsgOf(o)]
           moved == [noted EXCEPT !.npStatus = NPStatusOf(o)]
<1>1. /\ noted \in InstanceState /\ noted.hcStatus = i.hcStatus /\ noted.hcMsg = i.hcMsg
      /\ noted.npMsg = NPMsgOf(o)
  BY NodePoolFacts DEF InstanceState
<1>2. /\ moved \in InstanceState /\ moved.hcStatus = i.hcStatus /\ moved.hcMsg = i.hcMsg
      /\ moved.npMsg = NPMsgOf(o) /\ moved.npStatus = NPStatusOf(o)
      /\ moved.lastPublished = i.lastPublished
  BY NodePoolFacts DEF InstanceState
<1>3. result =
        IF NPStatusOf(o) = NoStatus THEN Quietly(i)
        ELSE IF i.npStatus = NPStatusOf(o) THEN Quietly(noted)
        ELSE IF i.hcStatus = NoStatus THEN Quietly(moved)
        ELSE PublishComposite(id, moved)
  BY DEF reconcileNodePool
<1> HIDE DEF noted, moved
<1>4. SparesMessage(noted) /\ SparesMessage(moved)
  BY <1>1, <1>2 DEF SparesMessage
<1>5. CASE result \in {Quietly(i), Quietly(noted), Quietly(moved)} /\ result.event = NoEvent
  BY <1>1, <1>2, <1>3, <1>4, <1>5 DEF Quietly, PublishComposite
<1>6. CASE /\ NPStatusOf(o) # NoStatus /\ i.npStatus # NPStatusOf(o) /\ i.hcStatus # NoStatus
           /\ moved.lastPublished # Composite(moved)
  <2>1. /\ result.inst = [moved EXCEPT !.lastPublished = Composite(moved)]
        /\ result.event.message = compositeMessage(moved)
    BY <1>3, <1>6 DEF PublishComposite, StatusEvent
  <2>2. SparesMessage(result.inst) /\ result.inst.npMsg = NPMsgOf(o)
    BY <1>2, <1>4, <2>1 DEF SparesMessage, InstanceState
  <2>3. CASE NodePoolIsWorse(i.hcStatus, NPStatusOf(o))
    BY <1>2, <1>6, <2>1, <2>2, <2>3 DEF compositeMessage
  <2>4. CASE ~NodePoolIsWorse(i.hcStatus, NPStatusOf(o))
    <3>1. Composite(moved) = i.hcStatus /\ compositeMessage(moved) = i.hcMsg
      BY <1>2, <2>4 DEF Composite, ComputeCompositeStatus, compositeMessage
    <3>2. NodePoolIsWorse(i.hcStatus, i.npStatus)
      BY <1>2, <1>6, <3>1 DEF Consistent, Composite, ComputeCompositeStatus
    <3>3. i.hcStatus \notin {"FAILED", "UNAVAILABLE"}
      BY <1>6, <3>2, OutrankedIsPlain DEF InstanceState
    <3> QED
      BY <1>6, <2>1, <2>2, <2>4, <3>1, <3>3 DEF SparesMessage
  <2> QED
    BY <2>3, <2>4
<1> QED
  BY <1>3, <1>5, <1>6 DEF PublishComposite, Quietly

\* A NodePool that goes away leaves the word to a HostedCluster that it outranked.
LEMMA DeleteNodePoolSpeaks ==
    ASSUME NEW id, NEW i \in InstanceState, Consistent(i), SparesMessage(i),
           NEW result, result = handleDeleteNodePool(id, i)
    PROVE  /\ SparesMessage(result.inst)
           /\ result.event # NoEvent =>
                /\ i.hcStatus # NoStatus /\ i.hcStatus \notin {"FAILED", "UNAVAILABLE"}
                /\ result.inst.npStatus = NoStatus /\ result.event.message = NoMessage
<1> DEFINE alone == [i EXCEPT !.npStatus = NoStatus, !.npMsg = NoMessage]
<1>1. /\ alone \in InstanceState /\ alone.hcStatus = i.hcStatus /\ alone.hcMsg = i.hcMsg
      /\ alone.npStatus = NoStatus
  BY DEF InstanceState, Messages
<1>2. result =
        IF i.hcStatus = NoStatus THEN Quietly(i)
        ELSE IF i.lastPublished = i.hcStatus THEN Quietly(alone)
        ELSE [inst |-> [alone EXCEPT !.lastPublished = i.hcStatus],
              event |-> StatusEvent(id, i.hcStatus, i.hcMsg)]
  BY DEF handleDeleteNodePool
<1> HIDE DEF alone
<1>3. CASE i.hcStatus = NoStatus \/ i.lastPublished = i.hcStatus
  BY <1>1, <1>2, <1>3 DEF Quietly, SparesMessage
<1>4. CASE i.hcStatus # NoStatus /\ i.lastPublished # i.hcStatus
  <2>1. /\ result.inst = [alone EXCEPT !.lastPublished = i.hcStatus]
        /\ result.event.message = i.hcMsg
    BY <1>2, <1>4 DEF StatusEvent
  <2>2. /\ result.inst.hcStatus = i.hcStatus /\ result.inst.hcMsg = i.hcMsg
        /\ result.inst.npStatus = NoStatus
    BY <1>1, <2>1 DEF InstanceState
  <2>3. NodePoolIsWorse(i.hcStatus, i.npStatus)
    BY <1>4 DEF Consistent, Composite, ComputeCompositeStatus
  <2>4. i.hcStatus \notin {"FAILED", "UNAVAILABLE"}
    BY <1>4, <2>3, OutrankedIsPlain DEF InstanceState
  <2> QED
    BY <1>4, <2>1, <2>2, <2>4 DEF SparesMessage
<1> QED
  BY <1>3, <1>4

(***************************************************************************)
(* An event that the handler rt computes in this step carries the current  *)
(* message of the pair it is about: MessageIsCurrent, handler by handler.  *)
(***************************************************************************)
SaysCurrent(rt) ==
    \A id \in InstanceIDs, h \in HostedClusters, n \in NodePools :
        /\ HostedClustersOf(id) = {h} /\ NodePoolsOf(id) = {n}
        /\ handler[rt] = NoEvent /\ handler'[rt] # NoEvent
        /\ handler'[rt].id = id /\ store'[h] # Absent
        /\ inst'[id].npStatus # NoStatus => store'[n] # Absent /\ inst'[id].npStatus = NPStatusOf(store'[n])
        => handler'[rt].message =
            IF NodePoolIsWorse(HCStatusOf(store'[h]), inst'[id].npStatus)
            THEN NPMsgOf(store'[n]) ELSE HCMsgOf(store'[h])

AllSayCurrent == \A rt \in Handlers : SaysCurrent(rt)

\* Steps that only take events from the handlers and leave the records.
LEMMA OthersSayNothing ==
    ASSUME Noted, inst' = inst, \A rt \in Handlers : handler'[rt] \in {handler[rt], NoEvent},
           \A r \in Resources : InstanceOf[r] # NoID => store'[r] = store[r]
    PROVE  Noted' /\ AllSayCurrent
<1>1. \A id \in InstanceIDs, n \in NodePools : NodePoolsOf(id) = {n} => store'[n] = store[n]
  BY ResourcesAssumption DEF NodePoolsOf, Resources
<1>2. ASSUME NEW id \in InstanceIDs, NEW n \in NodePools
      PROVE  NodePoolNoted(id, n)'
  <2>1. NodePoolNoted(id, n) /\ NodePoolsOf(id)' = NodePoolsOf(id)
    BY DEF Noted, NodePoolsOf
  <2> QED
    BY <1>1, <2>1 DEF NodePoolNoted
<1>3. Noted'
  BY <1>2 DEF Noted, SparesMessage
<1> QED
  BY <1>3 DEF AllSayCurrent, SaysCurrent

(***************************************************************************)
(* A handler at work on the resource r, which has the contents o now.      *)
(***************************************************************************)
At(rt, r, o, result) ==
    /\ InstanceOf[r] # NoID /\ Ready(rt)
    /\ store' = [store EXCEPT ![r] = o]
    /\ Handle(rt, InstanceOf[r], result)

\* What such a step changes.
LEMMA AtEffect ==
    ASSUME IInv, NEW rt \in Handlers, NEW r \in Resources, NEW o, NEW result, At(rt, r, o, result),
           result.event # NoEvent => result.event.id = InstanceOf[r]
    PROVE  /\ InstanceOf[r] \in InstanceIDs
           /\ inst[InstanceOf[r]] \in InstanceState /\ Consistent(inst[InstanceOf[r]])
           /\ \A q \in Resources : store'[q] = IF q = r THEN o ELSE store[q]
           /\ \A id \in InstanceIDs : inst'[id] = IF id = InstanceOf[r] THEN result.inst ELSE inst[id]
           /\ \A qt \in Handlers : handler'[qt] # NoEvent /\ handler[qt] = NoEvent =>
                  qt = rt /\ handler'[qt] = result.event /\ result.event.id = InstanceOf[r]
<1>1. Recorded /\ Stored /\ EventsTyped
  BY DEF IInv
<1>2. /\ inst' = [inst EXCEPT ![InstanceOf[r]] = result.inst]
      /\ handler' = [handler EXCEPT ![rt] = result.event]
  BY DEF At, Handle
<1>3. InstanceOf[r] \in InstanceIDs
  BY ResourcesAssumption DEF At
<1>4. inst[InstanceOf[r]] \in InstanceState /\ Consistent(inst[InstanceOf[r]])
  BY <1>1, <1>3 DEF Recorded, LastPublishedIsComposite, Consistent
<1>5. \A q \in Resources : store'[q] = IF q = r THEN o ELSE store[q]
  BY <1>1 DEF At, Stored
<1>6. \A id \in InstanceIDs : inst'[id] = IF id = InstanceOf[r] THEN result.inst ELSE inst[id]
  BY <1>1, <1>2 DEF Recorded
<1>7. \A qt \in Handlers : handler'[qt] = IF qt = rt THEN result.event ELSE handler[qt]
  BY <1>1, <1>2 DEF EventsTyped
<1> QED
  BY <1>3, <1>4, <1>5, <1>6, <1>7

\* A HostedCluster comes in: it speaks with its new message or the NodePool's on record.
LEMMA HostedClusterSays ==
    ASSUME IInv, Noted, NEW r \in HostedClusters, NEW o \in HCObjects,
           At("hc", r, o, reconcileHostedCluster(InstanceOf[r], inst[InstanceOf[r]], o))
    PROVE  Noted' /\ AllSayCurrent
<1> DEFINE id == InstanceOf[r]
           result == reconcileHostedCluster(id, inst[id], o)
<1>1. id \in InstanceIDs /\ r \in Resources /\ r \notin NodePools /\ "hc" \in Handlers
  BY ResourcesAssumption DEF At, Resources, Handlers
<1>2. inst[id] \in InstanceState /\ Consistent(inst[id])
  BY <1>1 DEF IInv, Recorded, LastPublishedIsComposite, Consistent
<1>3. /\ SparesMessage(result.inst)
      /\ result.inst.npMsg = inst[id].npMsg /\ result.inst.npStatus = inst[id].npStatus
      /\ result.event # NoEvent =>
           /\ result.event.id = id
           /\ result.event.message =
                IF NodePoolIsWorse(HCStatusOf(o), inst[id].npStatus)
                THEN inst[id].npMsg ELSE HCMsgOf(o)
  BY <1>1, <1>2, HostedClusterSpeaks, HostedClusterSound DEF Noted, SoundResult
<1>4. At("hc", r, o, result)
  OBVIOUS
<1> HIDE DEF result
<1>5. /\ \A q \in Resources : store'[q] = IF q = r THEN o ELSE store[q]
      /\ \A k \in InstanceIDs : inst'[k] = IF k = id THEN result.inst ELSE inst[k]
      /\ \A qt \in Handlers : handler'[qt] # NoEvent /\ handler[qt] = NoEvent =>
            handler'[qt] = result.event /\ result.event.id = id
  BY <1>1, <1>3, <1>4, AtEffect
<1>6. \A n \in NodePools : store'[n] = store[n]
  BY <1>1, <1>5 DEF Resources
<1>7. \A k \in InstanceIDs : inst'[k].npMsg = inst[k].npMsg /\ inst'[k].npStatus = inst[k].npStatus
  BY <1>3, <1>5
<1>8. ASSUME NEW k \in InstanceIDs, NEW n \in NodePools
      PROVE  NodePoolNoted(k, n)'
  <2>1. NodePoolNoted(k, n) /\ NodePoolsOf(k)' = NodePoolsOf(k)
    BY DEF Noted, NodePoolsOf
  <2> QED
    BY <1>6, <1>7, <2>1 DEF NodePoolNoted
<1>9. Noted'
  BY <1>3, <1>5, <1>8 DEF Noted, SparesMessage
<1>10. ASSUME NEW rt \in Handlers, NEW h \in HostedClusters, NEW n \in NodePools,
              HostedClustersOf(id) = {h}, NodePoolsOf(id) = {n}, result.event # NoEvent,
              inst'[id].npStatus # NoStatus => store'[n] # Absent /\ inst'[id].npStatus = NPStatusOf(store'[n])
       PROVE  result.event.message =
                IF NodePoolIsWorse(HCStatusOf(store'[h]), inst'[id].npStatus)
                THEN NPMsgOf(store'[n]) ELSE HCMsgOf(store'[h])
  <2>1. h = r /\ store'[h] = o
    BY <1>1, <1>5, <1>10 DEF HostedClustersOf
  <2>2. NodePoolNoted(id, n)
    BY <1>1 DEF Noted
  <2>3. NodePoolIsWorse(HCStatusOf(o), inst[id].npStatus) => inst[id].npMsg = NPMsgOf(store'[n])
    BY <1>1, <1>6, <1>7, <1>10, <2>2 DEF NodePoolIsWorse, NodePoolNoted
  <2> QED
    BY <1>1, <1>3, <1>7, <1>10, <2>1, <2>3
<1>11. AllSayCurrent
  BY <1>1, <1>5, <1>10 DEF AllSayCurrent, SaysCurrent
<1> QED
  BY <1>9, <1>11

(***************************************************************************)
(* A HostedCluster goes away: the record is a new one, and DELETED has no  *)
(* message and no HostedCluster.                                           *)
(***************************************************************************)
LEMMA DeleteHostedClusterSays ==
    ASSUME IInv, Noted, NEW r \in HostedClusters,
           At("hc", r, Absent, handleDeleteHostedCluster(InstanceOf[r], inst[InstanceOf[r]]))
    PROVE  Noted' /\ AllSayCurrent
<1> DEFINE id == InstanceOf[r]
           result == handleDeleteHostedCluster(id, inst[id])
<1>1. id \in InstanceIDs /\ r \in Resources /\ r \notin NodePools /\ "hc" \in Handlers
  BY ResourcesAssumption DEF At, Resources, Handlers
<1>2. result.inst = NewInstance /\ result.event.id = id
  BY DEF handleDeleteHostedCluster, StatusEvent
<1>3. At("hc", r, Absent, result)
  OBVIOUS
<1> HIDE DEF result
<1>4. /\ \A q \in Resources : store'[q] = IF q = r THEN Absent ELSE store[q]
      /\ \A k \in InstanceIDs : inst'[k] = IF k = id THEN result.inst ELSE inst[k]
      /\ \A qt \in Handlers : handler'[qt] # NoEvent /\ handler[qt] = NoEvent =>
            handler'[qt] = result.event /\ result.event.id = id
  BY <1>1, <1>2, <1>3, AtEffect
<1>5. NewInstance.hcMsg = NoMessage /\ NewInstance.npStatus = NoStatus
  BY DEF NewInstance
<1>6. \A n \in NodePools : store'[n] = store[n]
  BY <1>1, <1>4 DEF Resources
<1>7. ASSUME NEW k \in InstanceIDs, NEW n \in NodePools
      PROVE  NodePoolNoted(k, n)'
  <2>1. NodePoolNoted(k, n) /\ NodePoolsOf(k)' = NodePoolsOf(k)
    BY DEF Noted, NodePoolsOf
  <2> QED
    BY <1>2, <1>4, <1>5, <1>6, <2>1 DEF NodePoolNoted
<1>8. Noted'
  BY <1>2, <1>4, <1>5, <1>7 DEF Noted, SparesMessage
<1>9. \A h \in HostedClusters : HostedClustersOf(id) = {h} => store'[h] = Absent
  BY <1>1, <1>4 DEF HostedClustersOf
<1> QED
  BY <1>4, <1>8, <1>9 DEF AllSayCurrent, SaysCurrent

\* A NodePool comes in: it speaks with its new message, or a HostedCluster without one.
LEMMA NodePoolSays ==
    ASSUME IInv, Noted, NEW r \in NodePools, NEW o \in NPObjects,
           At("np", r, o, reconcileNodePool(InstanceOf[r], inst[InstanceOf[r]], o))
    PROVE  Noted' /\ AllSayCurrent
<1> DEFINE id == InstanceOf[r]
           result == reconcileNodePool(id, inst[id], o)
<1>1. id \in InstanceIDs /\ r \in Resources /\ r \notin HostedClusters /\ "np" \in Handlers
  BY ResourcesAssumption DEF At, Resources, Handlers
<1>2. inst[id] \in InstanceState /\ Consistent(inst[id]) /\ Stored /\ ViewIsCurrent
  BY <1>1 DEF IInv, Recorded, LastPublishedIsComposite, Consistent
<1>3. /\ SparesMessage(result.inst)
      /\ NPStatusOf(o) # NoStatus =>
            result.inst.npMsg = NPMsgOf(o) /\ result.inst.npStatus = NPStatusOf(o)
      /\ result.event # NoEvent =>
           /\ result.event.id = id
           /\ IF NodePoolIsWorse(inst[id].hcStatus, NPStatusOf(o))
              THEN result.event.message = NPMsgOf(o)
              ELSE /\ result.event.message = NoMessage
                   /\ inst[id].hcStatus \notin {"FAILED", "UNAVAILABLE"}
  BY <1>1, <1>2, NodePoolSpeaks, NodePoolSound DEF Noted, SoundResult
<1>4. result.event # NoEvent => NPStatusOf(o) # NoStatus
  BY DEF reconcileNodePool, Quietly
<1>5. At("np", r, o, result)
  OBVIOUS
<1> HIDE DEF result
<1>6. /\ \A q \in Resources : store'[q] = IF q = r THEN o ELSE store[q]
      /\ \A k \in InstanceIDs : inst'[k] = IF k = id THEN result.inst ELSE inst[k]
      /\ \A qt \in Handlers : handler'[qt] # NoEvent /\ handler[qt] = NoEvent =>
            handler'[qt] = result.event /\ result.event.id = id
  BY <1>1, <1>3, <1>5, AtEffect
<1>7. ASSUME NEW k \in InstanceIDs, NEW n \in NodePools
      PROVE  NodePoolNoted(k, n)'
  <2>1. NodePoolNoted(k, n) /\ NodePoolsOf(k)' = NodePoolsOf(k)
    BY DEF Noted, NodePoolsOf
  <2>2. n \in Resources /\ (NodePoolsOf(k) = {n} => InstanceOf[n] = k /\ (k = id => n = r))
    BY <1>1 DEF NodePoolsOf, Resources
  <2>3. CASE n = r
    BY <1>3, <1>6, <2>1, <2>2, <2>3 DEF NodePoolNoted
  <2>4. CASE n # r
    BY <1>6, <2>1, <2>2, <2>4 DEF NodePoolNoted
  <2> QED
    BY <2>3, <2>4
<1>8. Noted'
  BY <1>3, <1>6, <1>7 DEF Noted, SparesMessage
<1>9. ASSUME NEW h \in HostedClusters, NEW n \in NodePools,
             HostedClustersOf(id) = {h}, NodePoolsOf(id) = {n}, result.event # NoEvent,
             store'[h] # Absent
      PROVE  result.event.message =
                IF NodePoolIsWorse(HCStatusOf(store'[h]), inst'[id].npStatus)
                THEN NPMsgOf(store'[n]) ELSE HCMsgOf(store'[h])
  <2>1. n = r /\ store'[n] = o /\ store'[h] = store[h]
    BY <1>1, <1>6, <1>9 DEF NodePoolsOf, Resources
  <2>2. inst[id].hcStatus = HCStatusOf(store'[h])
    BY <1>1, <1>2, <1>9, <2>1 DEF ViewIsCurrent
  <2>3. inst'[id].npStatus = NPStatusOf(o)
    BY <1>1, <1>3, <1>4, <1>6, <1>9
  <2> QED
    BY <1>3, <1>9, <2>1, <2>2, <2>3, PlainHasNoMessage
<1>10. AllSayCurrent
  BY <1>1, <1>6, <1>9 DEF AllSayCurrent, SaysCurrent
<1> QED
  BY <1>8, <1>10

\* A NodePool goes away: the HostedCluster that it outranked has no message.
LEMMA DeleteNodePoolSays ==
    ASSUME IInv, Noted, NEW r \in NodePools,
           At("np", r, Absent, handleDeleteNodePool(InstanceOf[r], inst[InstanceOf[r]]))
    PROVE  Noted' /\ AllSayCurrent
<1> DEFINE id == InstanceOf[r]
           result == handleDeleteNodePool(id, inst[id])
<1>1. id \in InstanceIDs /\ r \in Resources /\ r \notin HostedClusters /\ "np" \in Handlers
  BY ResourcesAssumption DEF At, Resources, Handlers
<1>2. inst[id] \in InstanceState /\ Consistent(inst[id]) /\ Stored /\ ViewIsCurrent
  BY <1>1 DEF IInv, Recorded, LastPublishedIsComposite, Consistent
<1>3. /\ SparesMessage(result.inst)
      /\ result.event # NoEvent =>
           /\ result.event.id = id
           /\ inst[id].hcStatus \notin {"FAILED", "UNAVAILABLE"}
           /\ result.inst.npStatus = NoStatus /\ result.event.message = NoMessage
  BY <1>1, <1>2, DeleteNodePoolSpeaks, DeleteNodePoolSound DEF Noted, SoundResult
<1>4. At("np", r, Absent, result)
  OBVIOUS
<1> HIDE DEF result
<1>5. /\ \A q \in Resources : store'[q] = IF q = r THEN Absent ELSE store[q]
      /\ \A k \in InstanceIDs : inst'[k] = IF k = id THEN result.inst ELSE inst[k]
      /\ \A qt \in Handlers : handler'[qt] # NoEvent /\ handler[qt] = NoEvent =>
            handler'[qt] = result.event /\ result.event.id = id
  BY <1>1, <1>3, <1>4, AtEffect
<1>6. ASSUME NEW k \in InstanceIDs, NEW n \in NodePools
      PROVE  NodePoolNoted(k, n)'
  <2>1. NodePoolNoted(k, n) /\ NodePoolsOf(k)' = NodePoolsOf(k)
    BY DEF Noted, NodePoolsOf
  <2>2. n \in Resources /\ (NodePoolsOf(k) = {n} => InstanceOf[n] = k /\ (k = id => n = r))
    BY <1>1 DEF NodePoolsOf, Resources
  <2> QED
    BY <1>5, <2>1, <2>2 DEF NodePoolNoted
<1>7. Noted'
  BY <1>3, <1>5, <1>6 DEF Noted, SparesMessage
<1>8. ASSUME NEW h \in HostedClusters, HostedClustersOf(id) = {h}, result.event # NoEvent, store'[h] # Absent
      PROVE  /\ ~NodePoolIsWorse(HCStatusOf(store'[h]), inst'[id].npStatus)
             /\ result.event.message = HCMsgOf(store'[h])
  <2>1. store'[h] = store[h]
    BY <1>1, <1>5 DEF Resources
  <2>2. inst[id].hcStatus = HCStatusOf(store'[h])
    BY <1>1, <1>2, <1>8, <2>1 DEF ViewIsCurrent
  <2> QED
    BY <1>1, <1>3, <1>5, <1>8, <2>2, PlainHasNoMessage DEF NodePoolIsWorse
<1>9. AllSayCurrent
  BY <1>1, <1>5, <1>8 DEF AllSayCurrent, SaysCurrent
<1> QED
  BY <1>7, <1>9

(***************************************************************************)
(* Every step keeps the messages on record right and says what is current. *)
(***************************************************************************)
LEMMA NextSays ==
    ASSUME IInv, Noted, Next
    PROVE  Noted' /\ AllSayCurrent
<1>1. Stored /\ EventsTyped
  BY DEF IInv
<1>2. ASSUME NEW r \in HostedClusters,
             DeleteHostedCluster(r) \/ \E o \in HCObjects : NotifyHostedCluster(r, o)
      PROVE  Noted' /\ AllSayCurrent
  <2>1. r \in Resources
    BY DEF Resources
  <2>2. CASE DeleteHostedCluster(r)
    BY <1>1, <2>1, <2>2, NotifyEffect, DeleteHostedClusterSays DEF DeleteHostedCluster, At
  <2>3. ASSUME NEW o \in HCObjects, NotifyHostedCluster(r, o)
        PROVE  Noted' /\ AllSayCurrent
    BY <1>1, <2>1, <2>3, NotifyEffect, HostedClusterSays DEF NotifyHostedCluster, At
  <2> QED
    BY <1>2, <2>2, <2>3
<1>3. ASSUME NEW r \in NodePools,
             DeleteNodePool(r) \/ \E o \in NPObjects : NotifyNodePool(r, o)
      PROVE  Noted' /\ AllSayCurrent
  <2>1. r \in Resources
    BY DEF Resources
  <2>2. CASE DeleteNodePool(r)
    BY <1>1, <2>1, <2>2, NotifyEffect, DeleteNodePoolSays DEF DeleteNodePool, At
  <2>3. ASSUME NEW o \in NPObjects, NotifyNodePool(r, o)
        PROVE  Noted' /\ AllSayCurrent
    BY <1>1, <2>1, <2>3, NotifyEffect, NodePoolSays DEF NotifyNodePool, At
  <2> QED
    BY <1>3, <2>2, <2>3
<1>4. ASSUME NEW r \in Resources, NEW o, SkipUnlabelled(r, o)
      PROVE  Noted' /\ AllSayCurrent
  <2>1. \A q \in Resources : InstanceOf[q] # NoID => store'[q] = store[q]
    BY <1>1, <1>4 DEF SkipUnlabelled, Change, Stored
  <2> QED
    BY <1>4, <2>1, OthersSayNothing DEF SkipUnlabelled
<1>5. ASSUME NEW rt \in Handlers, Submit(rt)
      PROVE  Noted' /\ AllSayCurrent
  <2>1. /\ inst' = inst /\ store' = store
        /\ handler' = [handler EXCEPT ![rt] = NoEvent]
    BY <1>5 DEF Submit, SubmitAccepted, SubmitIgnored
  <2>2. \A qt \in Handlers : handler'[qt] \in {handler[qt], NoEvent}
    BY <1>1, <2>1 DEF EventsTyped
  <2> QED
    BY <2>1, <2>2, OthersSayNothing
<1>6. CASE UNCHANGED <<store, inst, handler>>
  BY <1>6, OthersSayNothing
<1>7. CASE \E t \in Timers : Fire(t) \/ Callback(t) \/ Publish(t) \/ Backoff(t)
  BY <1>6, <1>7 DEF Fire, Callback, Publish, PublishSucceeds, PublishFails, PublishDrops, Fail,
                    Backoff, BackoffElapses, BackoffCancelled
<1>8. CASE Cancel \/ Shutdown \/ Returned
  BY <1>6, <1>8 DEF Cancel, Shutdown, StopDebouncer, StopReturns, StartReturns, Returned, vars
<1> QED
  BY <1>2, <1>3, <1>4, <1>5, <1>7, <1>8 DEF Next

\* So does every step with crashes: the initial list comes in like any notification.
LEMMA RestartNextSays ==
    ASSUME RInv, Noted, [RestartNext]_restartVars
    PROVE  Noted' /\ AllSayCurrent
<1>1. IInv /\ Stored /\ HubSeen /\ EventsTyped
  BY DEF RInv, IInv
<1>2. CASE MonitorStep
  BY <1>1, <1>2, NextSays DEF MonitorStep
<1>3. \A r \in Resources : ~Listed(r) => InstanceOf[r] # NoID /\ hub[r] # Absent
  BY <1>1 DEF Listed, HubSeen
<1>4. ASSUME NEW r \in HostedClusters, RelistHostedCluster(r)
      PROVE  Noted' /\ AllSayCurrent
  <2>1. r \in Resources /\ ~Listed(r)
    BY <1>4 DEF RelistHostedCluster, Resources
  <2>2. InstanceOf[r] # NoID /\ hub[r] \in HCObjects
    BY <1>1, <1>3, <2>1 DEF HubSeen
  <2> QED
    BY <1>1, <1>4, <2>2, HostedClusterSays DEF RelistHostedCluster, At
<1>5. ASSUME NEW r \in NodePools, RelistNodePool(r)
      PROVE  Noted' /\ AllSayCurrent
  <2>1. r \in Resources /\ ~Listed(r)
    BY <1>5 DEF RelistNodePool, Resources
  <2>2. InstanceOf[r] # NoID /\ hub[r] \in NPObjects
    BY <1>1, <1>3, <2>1 DEF HubSeen
  <2> QED
    BY <1>1, <1>5, <2>2, NodePoolSays DEF RelistNodePool, At
<1>6. CASE UNCHANGED <<store, inst, handler>>
  BY <1>6, OthersSayNothing
<1>7. CASE (\E r \in Resources : \E o : ChangeUnseen(r, o)) \/ UNCHANGED restartVars
  BY <1>6, <1>7 DEF ChangeUnseen, restartVars, vars
<1>8. CASE CrashAndRestart
  <2>1. /\ inst' = [id \in InstanceIDs |-> NewInstance]
        /\ handler' = [rt \in Handlers |-> NoEvent]
    BY <1>8 DEF CrashAndRestart
  <2>2. NewInstance.hcMsg = NoMessage /\ NewInstance.npStatus = NoStatus
    BY DEF NewInstance
  <2>3. Noted'
    BY <2>1, <2>2 DEF Noted, SparesMessage, NodePoolNoted
  <2> QED
    BY <2>1, <2>3 DEF AllSayCurrent, SaysCurrent
<1> QED
  BY <1>2, <1>4, <1>5, <1>7, <1>8 DEF RestartNext, Resources

(***************************************************************************)
(* CurrentMessages: for any number of HostedClusters and NodePools and     *)
(* across crashes, every event computed for a pair carries the message     *)
(* that the conditions of the driving resource give now, although hcMsg is *)
(* not refreshed while the HostedCluster's status stays the same.          *)
(***************************************************************************)
THEOREM CurrentMessages == RestartSpec => MessageIsCurrent
<1>1. RestartInit => Noted
  BY DEF RestartInit, Init, NewInstance, Noted, SparesMessage, NodePoolNoted
<1>2. RInv /\ Noted /\ [RestartNext]_restartVars => Noted' /\ AllSayCurrent
  BY RestartNextSays
<1>3. AllSayCurrent =>
        [\A id \in InstanceIDs, h \in HostedClusters, n \in NodePools, rt \in Handlers :
            /\ HostedClustersOf(id) = {h} /\ NodePoolsOf(id) = {n}
            /\ handler[rt] = NoEvent /\ handler'[rt] # NoEvent
            /\ handler'[rt].id = id /\ store'[h] # Absent
            /\ inst'[id].npStatus # NoStatus => store'[n] # Absent /\ inst'[id].npStatus = NPStatusOf(store'[n])
            => handler'[rt].message =
                IF NodePoolIsWorse(HCStatusOf(store'[h]), inst'[id].npStatus)
                THEN NPMsgOf(store'[n]) ELSE HCMsgOf(store'[h])]_vars
  BY DEF AllSayCurrent, SaysCurrent
<1> QED
  BY <1>1, <1>2, <1>3, RestartInvariant, PTL DEF RestartSpec, MessageIsCurrent

-----------------------------------------------------------------------------
(***************************************************************************)
(* The monitor and its debouncer: every step is one that the debouncer's   *)
(* own specification allows, or leaves the debouncer alone.                *)
(***************************************************************************)
LEMMA NextUsesDebouncer ==
    ASSUME IInv, [Next]_vars
    PROVE  [D!Next]_(D!vars)
<1>1. ASSUME UNCHANGED <<timers, timer, stopped, stopCall, newest>>
      PROVE  [D!Next]_(D!vars)
  BY <1>1 DEF D!vars
<1>2. ASSUME NEW rt \in Handlers, Submit(rt)
      PROVE  [D!Next]_(D!vars)
  <2>1. handler[rt] # NoEvent => handler[rt] \in StatusEvents /\ handler[rt].id \in InstanceIDs
    BY <1>2 DEF IInv, EventsTyped, StatusEvents
  <2>2. CASE SubmitIgnored(rt)
    BY <2>2 DEF SubmitIgnored, D!SubmitAfterStop
  <2>3. ASSUME NEW t \in Timers, SubmitAccepted(rt, t)
        PROVE  D!Next
    BY <2>1, <2>3 DEF SubmitAccepted, D!Submit, D!Next
  <2> QED
    BY <1>2, <2>2, <2>3 DEF Submit
<1>3. ASSUME NEW t \in Timers, Fire(t) \/ Callback(t) \/ Publish(t) \/ Backoff(t)
      PROVE  [D!Next]_(D!vars)
  <2>1. CASE D!Fire(t) \/ D!Callback(t) \/ D!PublishReturns(t)
    BY <2>1 DEF D!Next
  <2> QED
    BY <1>1, <1>3, <2>1 DEF Fire, Callback, Publish, PublishSucceeds, PublishFails, PublishDrops,
                            Backoff, BackoffElapses, BackoffCancelled, debouncerVars
<1>4. CASE Shutdown
  <2>1. CASE StopDebouncer \/ StopReturns
    BY <2>1 DEF StopDebouncer, StopReturns, D!Next
  <2> QED
    BY <1>1, <1>4, <2>1 DEF Shutdown, StartReturns, debouncerVars
<1>5. ASSUME NEW r \in HostedClusters,
             DeleteHostedCluster(r) \/ \E o \in HCObjects : NotifyHostedCluster(r, o)
      PROVE  [D!Next]_(D!vars)
  BY <1>1, <1>5 DEF DeleteHostedCluster, NotifyHostedCluster, Handle, debouncerVars
<1>6. ASSUME NEW r \in NodePools,
             DeleteNodePool(r) \/ \E o \in NPObjects : NotifyNodePool(r, o)
      PROVE  [D!Next]_(D!vars)
  BY <1>1, <1>6 DEF DeleteNodePool, NotifyNodePool, Handle, debouncerVars
<1>7. CASE (\E r \in Resources : \E o : SkipUnlabelled(r, o)) \/ Cancel \/ Returned \/ UNCHANGED vars
  BY <1>1, <1>7 DEF SkipUnlabelled, Cancel, Returned, vars, debouncerVars
<1> QED
  BY <1>2, <1>3, <1>4, <1>5, <1>6, <1>7 DEF Next

(***************************************************************************)
(* UsesDebouncer: the monitor drives the debouncer as the debouncer's      *)
(* specification has it, so what is proved of the debouncer for any        *)
(* caller holds of the monitor's: every call of Submit is one of a single  *)
(* event under its own instance, and Stop is called once.                  *)
(***************************************************************************)
THEOREM UsesDebouncer == SafetySpec => D!SafetySpec
<1>1. Init => D!Init
  BY DEF Init
<1>2. SafetySpec => []IInv
  BY InitIInv, NextIInv, PTL DEF SafetySpec
<1> QED
  BY <1>1, <1>2, NextUsesDebouncer, PTL DEF SafetySpec, D!SafetySpec

\* The theorems about the debouncer, for the monitor's own.
DP == INSTANCE DebouncerProofs WITH Keys <- InstanceIDs, Events <- StatusEvents

\* Both instances of the debouncer's specification are the same.
LEMMA SameDebouncer ==
    /\ D!Init <=> DP!Init
    /\ [D!Next]_(D!vars) <=> [DP!Next]_(DP!vars)
    /\ D!QuietAfterStop <=> DP!QuietAfterStop
<1>1. D!Init <=> DP!Init
  BY DEF D!Init, DP!Init, D!Free, DP!Free
<1>2. D!QuietAfterStop <=> DP!QuietAfterStop
  BY DEF D!QuietAfterStop, DP!QuietAfterStop
<1>3. \A k, e, t : D!Accept(k, e, t) <=> DP!Accept(k, e, t)
  BY DEF D!Accept, DP!Accept, D!StopTimers, DP!StopTimers, D!Free, DP!Free, D!Armed, DP!Armed
<1>4. \A k, e : D!Submit(k, e) <=> DP!Submit(k, e)
  BY <1>3 DEF D!Submit, DP!Submit, D!SubmitAfterStop, DP!SubmitAfterStop, D!vars, DP!vars
<1>5. \A t : /\ D!Fire(t) <=> DP!Fire(t)
             /\ D!Callback(t) <=> DP!Callback(t)
             /\ D!PublishReturns(t) <=> DP!PublishReturns(t)
  BY DEF D!Fire, DP!Fire, D!Callback, DP!Callback, D!CallbackStopped, DP!CallbackStopped,
         D!CallbackPublishes, DP!CallbackPublishes, D!PublishReturns, DP!PublishReturns, D!Free, DP!Free
<1>6. (D!Stop <=> DP!Stop) /\ (D!StopReturns <=> DP!StopReturns)
  BY DEF D!Stop, DP!Stop, D!StopReturns, DP!StopReturns, D!StopTimers, DP!StopTimers, D!Free, DP!Free
<1>7. D!Next <=> DP!Next
  BY <1>4, <1>5, <1>6 DEF D!Next, DP!Next
<1> QED
  BY <1>1, <1>2, <1>7 DEF D!vars, DP!vars

\* No callback of the debouncer is inside publishFn after Start.
ReturnedIsQuiet == phase = "returned" => \A t \in Timers : timer[t].state # "publishing"

(***************************************************************************)
(* ReturnIsFinal: once Start has returned nothing is being published,      *)
(* whatever was in flight at the cancellation: the deferred debouncer.Stop *)
(* waits for the callbacks inside publishFn, and timers that fire later    *)
(* find the debouncer stopped.                                             *)
(***************************************************************************)
THEOREM ReturnIsFinal == SafetySpec => []ReturnedIsQuiet
<1> DEFINE Stopped == phase = "returned" => stopCall = "returned"
<1>1. Init => Stopped
  BY DEF Init
<1>2. IInv /\ Stopped /\ [Next]_vars => Stopped'
  <2> SUFFICES ASSUME IInv, Stopped, [Next]_vars, phase' = "returned"
               PROVE  stopCall' = "returned"
    OBVIOUS
  <2>1. CASE StartReturns
    BY <2>1 DEF StartReturns, debouncerVars
  <2>2. CASE phase' = phase
    BY <2>2, NextUsesDebouncer DEF D!Next, D!vars, D!Submit, D!SubmitAfterStop, D!Accept, D!Fire,
       D!Callback, D!CallbackStopped, D!CallbackPublishes, D!PublishReturns, D!Stop, D!StopReturns
  <2>3. phase' = phase \/ StartReturns
    BY DEF Next, DeleteHostedCluster, NotifyHostedCluster, DeleteNodePool, NotifyNodePool, Handle,
       SkipUnlabelled, Submit, SubmitAccepted, SubmitIgnored, Fire, Callback, Publish,
       PublishSucceeds, PublishFails, PublishDrops, Fail, Backoff, BackoffElapses,
       BackoffCancelled, Cancel, Shutdown, StopDebouncer, StopReturns, Returned, vars
  <2> QED
    BY <2>1, <2>2, <2>3
<1>3. Stopped /\ DP!QuietAfterStop => ReturnedIsQuiet
  BY DEF DP!QuietAfterStop, ReturnedIsQuiet
<1>4. DP!SafetySpec => []DP!QuietAfterStop
  BY TimersAssumption, DP!StopIsFinal
<1>5. SafetySpec => DP!SafetySpec
  BY UsesDebouncer, SameDebouncer, PTL DEF D!SafetySpec, DP!SafetySpec
<1> QED
  BY <1>1, <1>2, <1>3, <1>4, <1>5, InitIInv, NextIInv, PTL DEF SafetySpec

=============================================================================
