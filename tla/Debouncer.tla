------------------------------ MODULE Debouncer ------------------------------
(***************************************************************************)
(* The per-instance debouncer of internal/monitoring/debouncer.go.         *)
(*                                                                         *)
(* Every stretch of code that holds d.mu is one step.  A timer created by  *)
(* time.AfterFunc runs on its own goroutine: it fires (the goroutine       *)
(* exists, Timer.Stop can no longer prevent it), then takes d.mu, then     *)
(* runs publishFn without the lock.  Submit and Stop of other goroutines   *)
(* may come between any two of these steps.                                *)
(***************************************************************************)
CONSTANTS
    Keys,       \* instance ids
    Events,     \* what may be submitted
    Timers,     \* timer objects; a slot is reused once its goroutine ended
    NoTimer     \* "no entry in d.timers"

ASSUME NoTimerAssumption == NoTimer \notin Timers

VARIABLES
    timers,     \* d.timers: the timer tracked for each key, or NoTimer
    timer,      \* the timer objects and their goroutines
    stopped,    \* d.stopped
    stopCall,   \* progress of the call of Stop
    newest      \* history: the timer that carries the event last accepted for
                \* a key; NoTimer before the first and once it is handed over

vars == <<timers, timer, stopped, stopCall, newest>>

Free == [state |-> "free"]

Armed(k, e) == [state |-> "armed", key |-> k, event |-> e]

LiveTimer == [state : {"armed", "fired", "publishing"}, key : Keys, event : Events]

\* The goroutine that may still hand over its event.
Waiting(t) == timer[t].state \in {"armed", "fired"}

TypeOK ==
    /\ timers \in [Keys -> Timers \cup {NoTimer}]
    /\ timer \in [Timers -> {Free} \cup LiveTimer]
    /\ stopped \in BOOLEAN
    /\ stopCall \in {"none", "waiting", "returned"}
    /\ newest \in [Keys -> Timers \cup {NoTimer}]

Init ==
    /\ timers = [k \in Keys |-> NoTimer]
    /\ timer = [t \in Timers |-> Free]
    /\ stopped = FALSE
    /\ stopCall = "none"
    /\ newest = [k \in Keys |-> NoTimer]

(***************************************************************************)
(* Timer.Stop on the timers in S: a timer that has not fired never will;   *)
(* one that has fired is not affected.                                     *)
(***************************************************************************)
StopTimers(S) ==
    [t \in Timers |-> IF t \in S /\ timer[t].state = "armed" THEN Free ELSE timer[t]]

\* Mutant of Accept: a key that has a tracked timer is stopped and not re-armed.
AcceptWithoutRearm(k, e, t) ==
    /\ ~stopped
    /\ timer[t] = Free
    /\ timer' = [StopTimers({timers[k]}) EXCEPT ![t] =
                    IF timers[k] = NoTimer THEN Armed(k, e) ELSE @]
    /\ timers' = [timers EXCEPT ![k] = t]
    /\ newest' = [newest EXCEPT ![k] = t]
    /\ UNCHANGED <<stopped, stopCall>>

(***************************************************************************)
(* Submit: stop the tracked timer, arm a new one in the slot t.            *)
(***************************************************************************)
Accept(k, e, t) ==
    /\ ~stopped
    /\ timer[t] = Free
    /\ timer' = [StopTimers({timers[k]}) EXCEPT ![t] = Armed(k, e)]
    /\ timers' = [timers EXCEPT ![k] = t]
    /\ newest' = [newest EXCEPT ![k] = t]
    /\ UNCHANGED <<stopped, stopCall>>

SubmitAfterStop ==
    /\ stopped
    /\ UNCHANGED vars

\* The interval elapses and the runtime starts the callback's goroutine.
Fire(t) ==
    /\ timer[t].state = "armed"
    /\ timer' = [timer EXCEPT ![t].state = "fired"]
    /\ UNCHANGED <<timers, stopped, stopCall, newest>>

(***************************************************************************)
(* The callback under d.mu.  It deletes the entry of its key, whichever    *)
(* timer the entry names.                                                  *)
(***************************************************************************)
CallbackStopped(t) ==
    /\ timer[t].state = "fired"
    /\ stopped
    /\ timer' = [timer EXCEPT ![t] = Free]
    /\ UNCHANGED <<timers, stopped, stopCall, newest>>

\* Mutant of CallbackPublishes: no check of d.stopped.
CallbackUnchecked(t) ==
    /\ timer[t].state = "fired"
    /\ timers' = [timers EXCEPT ![timer[t].key] = NoTimer]
    /\ newest' = [newest EXCEPT ![timer[t].key] = IF @ = t THEN NoTimer ELSE @]
    /\ timer' = [timer EXCEPT ![t].state = "publishing"]
    /\ UNCHANGED <<stopped, stopCall>>

\* Mutant of CallbackPublishes: it stops the tracked timer and deletes its entry.
CallbackStopsTracked(t) ==
    /\ timer[t].state = "fired"
    /\ ~stopped
    /\ timers' = [timers EXCEPT ![timer[t].key] = NoTimer]
    /\ newest' = [newest EXCEPT ![timer[t].key] = IF @ = t THEN NoTimer ELSE @]
    /\ timer' = [StopTimers({timers[timer[t].key]}) EXCEPT ![t] =
                    [timer[t] EXCEPT !.state = "publishing"]]
    /\ UNCHANGED <<stopped, stopCall>>

\* Mutant of CallbackPublishes: the entry of the key is not deleted.
CallbackKeepsEntry(t) ==
    /\ timer[t].state = "fired"
    /\ ~stopped
    /\ newest' = [newest EXCEPT ![timer[t].key] = IF @ = t THEN NoTimer ELSE @]
    /\ timer' = [timer EXCEPT ![t].state = "publishing"]
    /\ UNCHANGED <<timers, stopped, stopCall>>

CallbackPublishes(t) ==
    /\ timer[t].state = "fired"
    /\ ~stopped
    /\ timers' = [timers EXCEPT ![timer[t].key] = NoTimer]
    /\ newest' = [newest EXCEPT ![timer[t].key] = IF @ = t THEN NoTimer ELSE @]
    /\ timer' = [timer EXCEPT ![t].state = "publishing"]
    /\ UNCHANGED <<stopped, stopCall>>

Callback(t) == CallbackStopped(t) \/ CallbackPublishes(t)

\* Mutant of PublishReturns: wg.Done is not deferred and a panic skips it.
PublishNeverDone(t) ==
    /\ timer[t].state = "publishing"
    /\ UNCHANGED vars

\* publishFn returns and the deferred wg.Done runs.
PublishReturns(t) ==
    /\ timer[t].state = "publishing"
    /\ timer' = [timer EXCEPT ![t] = Free]
    /\ UNCHANGED <<timers, stopped, stopCall, newest>>

\* Stop up to wg.Wait.
Stop ==
    /\ stopCall = "none"
    /\ stopCall' = "waiting"
    /\ stopped' = TRUE
    /\ timer' = StopTimers({timers[k] : k \in Keys})
    /\ timers' = [k \in Keys |-> NoTimer]
    /\ UNCHANGED newest

\* wg.Wait: no callback is between wg.Add and wg.Done.
StopReturns ==
    /\ stopCall = "waiting"
    /\ \A t \in Timers : timer[t].state # "publishing"
    /\ stopCall' = "returned"
    /\ UNCHANGED <<timers, timer, stopped, newest>>

Submit(k, e) == SubmitAfterStop \/ \E t \in Timers : Accept(k, e, t)

Next ==
    \/ \E k \in Keys, e \in Events : Submit(k, e)
    \/ \E t \in Timers : Fire(t) \/ Callback(t) \/ PublishReturns(t)
    \/ Stop
    \/ StopReturns

SafetySpec == Init /\ [][Next]_vars

(***************************************************************************)
(* A started timer fires, its goroutine gets the mutex, publishFn returns  *)
(* (its retries are bounded) and wg.Wait returns once the count is zero.   *)
(* Nobody is obliged to submit or to stop.                                 *)
(***************************************************************************)
Fairness ==
    /\ \A t \in Timers : WF_vars(Fire(t)) /\ WF_vars(Callback(t)) /\ WF_vars(PublishReturns(t))
    /\ WF_vars(StopReturns)

Spec == SafetySpec /\ Fairness

-----------------------------------------------------------------------------
(***************************************************************************)
(* NothingLost: until Stop, the event last accepted for a key either has   *)
(* been handed to publishFn or is held by a timer of that key that will    *)
(* still hand it over.  Submit's t.Stop() and a late callback's            *)
(* delete(d.timers, key) of another timer's entry must not lose it.        *)
(***************************************************************************)
NothingLost ==
    ~stopped => \A k \in Keys :
        newest[k] # NoTimer => Waiting(newest[k]) /\ timer[newest[k]].key = k

(***************************************************************************)
(* TrackedIsNewest: an entry of d.timers names the waiting timer of the    *)
(* event last accepted for its key, so t.Stop() in Submit can only discard *)
(* an event that the new one supersedes, and no entry outlives its timer.  *)
(***************************************************************************)
TrackedIsNewest ==
    \A k \in Keys : timers[k] # NoTimer =>
        /\ ~stopped
        /\ timers[k] = newest[k]
        /\ Waiting(timers[k])

(***************************************************************************)
(* QuietAfterStop: once Stop has returned no callback is inside publishFn, *)
(* in that state or any later one, although timers that d.timers had       *)
(* forgotten may still fire.                                               *)
(***************************************************************************)
QuietAfterStop ==
    stopCall = "returned" => \A t \in Timers : timer[t].state # "publishing"

(***************************************************************************)
(* SettledIsHandedOver: for every key, either submissions go on for ever   *)
(* (each one restarts the interval) or the last one is handed over, unless *)
(* Stop intervenes.                                                        *)
(***************************************************************************)
SettledIsHandedOver ==
    \A k \in Keys :
        \/ []<><<\E e \in Events : Submit(k, e)>>_vars
        \/ []<>(newest[k] = NoTimer \/ stopped)

(***************************************************************************)
(* StopTerminates: a call of Stop returns, whatever was in flight.         *)
(***************************************************************************)
StopTerminates == stopped ~> stopCall = "returned"
=============================================================================
