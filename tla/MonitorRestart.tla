--------------------------- MODULE MonitorRestart ---------------------------
(***************************************************************************)
(* The status monitor across a crash of the provider.  Everything the      *)
(* monitor knows is in memory: the record of instances, the pending events *)
(* and the informers' caches.  After a restart the informers list what is  *)
(* on the hub, so that every existing resource comes in as an addition,    *)
(* and what went away in the meantime is never heard of.                   *)
(*                                                                         *)
(* A resource that the restarted informers have not listed yet may change  *)
(* unseen; the time in which no process runs is nothing else.              *)
(***************************************************************************)
EXTENDS StatusMonitor

CONSTANT MaxCrashes     \* bound: how often the process crashes

ASSUME CrashesAssumption == MaxCrashes \in Nat

VARIABLES
    hub,        \* the resources as they are
    missed,     \* history: instances whose deletion no process has published
    crashes

restartVars == <<vars, hub, missed, crashes>>

RestartInit ==
    /\ Init
    /\ hub = store
    /\ missed = {}
    /\ crashes = 0

Listed(r) == InstanceOf[r] = NoID \/ store[r] = hub[r]

(***************************************************************************)
(* A step of the monitor; a resource that changes under its eyes changes   *)
(* on the hub.                                                             *)
(***************************************************************************)
MonitorStep ==
    /\ Next
    /\ \A r \in Resources : store'[r] # store[r] => Listed(r)
    /\ hub' = [r \in Resources |-> IF store'[r] # store[r] THEN store'[r] ELSE hub[r]]
    /\ missed' = missed \ {InstanceOf[r] : r \in {h \in HostedClusters : store'[h] \notin {store[h], Absent}}}
    /\ UNCHANGED crashes

(***************************************************************************)
(* The initial list of the informers delivers a resource.                  *)
(***************************************************************************)
RelistHostedCluster(r) ==
    LET id == InstanceOf[r] IN
    /\ ~Listed(r) /\ Ready("hc")
    /\ store' = [store EXCEPT ![r] = hub[r]]
    /\ Handle("hc", id, reconcileHostedCluster(id, inst[id], hub[r]))
    /\ missed' = missed \ {id}
    /\ UNCHANGED <<changes, hub, crashes>>

RelistNodePool(r) ==
    LET id == InstanceOf[r] IN
    /\ ~Listed(r) /\ Ready("np")
    /\ store' = [store EXCEPT ![r] = hub[r]]
    /\ Handle("np", id, reconcileNodePool(id, inst[id], hub[r]))
    /\ UNCHANGED <<changes, hub, missed, crashes>>

(***************************************************************************)
(* A resource changes or goes away before it is listed.                    *)
(***************************************************************************)
ChangeUnseen(r, o) ==
    /\ ~Listed(r) /\ hub[r] # o
    /\ changes < MaxChanges /\ changes' = changes + 1
    /\ hub' = [hub EXCEPT ![r] = o]
    /\ missed' = IF r \in HostedClusters /\ o = Absent THEN missed \cup {InstanceOf[r]} ELSE missed
    /\ UNCHANGED <<store, inst, handler, debouncerVars, publish, delivered, ctxDone,
                   phase, latest, failures, crashes>>

\* The instances that the consumers take for alive although they are gone.
Outlived ==
    {id \in InstanceIDs :
        /\ \A h \in HostedClustersOf(id) : hub[h] = Absent
        /\ delivered[id] # NoEvent /\ delivered[id].status # "DELETED"}

NewDebouncer ==
    /\ timers' = [id \in InstanceIDs |-> NoTimer]
    /\ timer' = [t \in Timers |-> D!Free]
    /\ stopped' = FALSE /\ stopCall' = "none"
    /\ newest' = [id \in InstanceIDs |-> NoTimer]

\* Mutant of CrashAndRestart: the record of instances survives.
CrashKeepingRecord ==
    /\ crashes < MaxCrashes /\ crashes' = crashes + 1
    /\ store' = [r \in Resources |-> IF InstanceOf[r] = NoID THEN store[r] ELSE Absent]
    /\ handler' = [rt \in Handlers |-> NoEvent]
    /\ NewDebouncer
    /\ publish' = [t \in Timers |-> FirstAttempt]
    /\ ctxDone' = FALSE /\ phase' = "running"
    /\ missed' = missed \cup Outlived
    /\ UNCHANGED <<inst, latest, hub, delivered, boundVars>>

(***************************************************************************)
(* The process dies, or exits, and a new one comes to Init.                *)
(***************************************************************************)
CrashAndRestart ==
    /\ crashes < MaxCrashes /\ crashes' = crashes + 1
    /\ store' = [r \in Resources |-> IF InstanceOf[r] = NoID THEN store[r] ELSE Absent]
    /\ inst' = [id \in InstanceIDs |-> NewInstance]
    /\ handler' = [rt \in Handlers |-> NoEvent]
    /\ NewDebouncer
    /\ publish' = [t \in Timers |-> FirstAttempt]
    /\ ctxDone' = FALSE /\ phase' = "running"
    /\ latest' = [id \in InstanceIDs |-> Nowhere]
    /\ missed' = missed \cup Outlived
    /\ UNCHANGED <<hub, delivered, boundVars>>

RestartNext ==
    \/ MonitorStep
    \/ \E r \in HostedClusters : RelistHostedCluster(r) \/ \E o \in HCObjects \cup {Absent} : ChangeUnseen(r, o)
    \/ \E r \in NodePools : RelistNodePool(r) \/ \E o \in NPObjects \cup {Absent} : ChangeUnseen(r, o)
    \/ CrashAndRestart

RestartSpec == RestartInit /\ [][RestartNext]_restartVars

-----------------------------------------------------------------------------
(***************************************************************************)
(* RestartCatchesUp: REQ-MON-130 and REQ-MON-140.  With nothing in flight, *)
(* everything listed and the last event not lost, consumers have the       *)
(* composite of an instance whose HostedCluster exists, whatever a process *)
(* before this one published, and DELETED for one that is gone.  It may    *)
(* lack only for an instance whose HostedCluster went away while no        *)
(* process was there to see it, or just before a crash.                    *)
(***************************************************************************)
RestartCatchesUp ==
    \A id \in InstanceIDs, h \in HostedClusters :
        /\ AtRest /\ ~ctxDone /\ \A r \in Resources : Listed(r)
        /\ HostedClustersOf(id) = {h} /\ latest[id].at # "lost"
        => IF hub[h] = Absent
           THEN \/ delivered[id] = NoEvent \/ delivered[id].status = "DELETED" \/ id \in missed
           ELSE /\ delivered[id] # NoEvent
                /\ delivered[id].status = ComputeCompositeStatus(HCStatusOf(hub[h]), inst[id].npStatus)
=============================================================================
