--------------------------- MODULE DebouncerProofs ---------------------------
(***************************************************************************)
(* The safety properties of Debouncer for any set of keys, events and      *)
(* timers.  They are proved together: that the tracked timer is the newest *)
(* one needs the newest one to be waiting, and the reverse.  The one thing *)
(* to add is that d.stopped is set exactly when Stop has been called.      *)
(***************************************************************************)
EXTENDS Debouncer, TLAPS

StopFlag == stopped <=> stopCall # "none"

IInv == TypeOK /\ StopFlag /\ NothingLost /\ TrackedIsNewest /\ QuietAfterStop

(***************************************************************************)
(* What Timer.Stop does to one timer: it is the same or it was armed and   *)
(* is free.                                                                *)
(***************************************************************************)
LEMMA StopTimersFacts ==
    ASSUME TypeOK, NEW S
    PROVE  /\ StopTimers(S) \in [Timers -> {Free} \cup LiveTimer]
           /\ \A t \in Timers : StopTimers(S)[t] = timer[t]
                                \/ (t \in S /\ timer[t].state = "armed" /\ StopTimers(S)[t] = Free)
           /\ \A t \in Timers : t \notin S => StopTimers(S)[t] = timer[t]
  BY DEF TypeOK, StopTimers

(***************************************************************************)
(* The shape of a timer.                                                   *)
(***************************************************************************)
LEMMA TimerFacts ==
    ASSUME TypeOK, NEW t \in Timers
    PROVE  /\ timer[t] = Free \/ timer[t] \in LiveTimer
           /\ timer[t] = Free <=> timer[t].state = "free"
           /\ timer[t].state \in {"free", "armed", "fired", "publishing"}
           /\ timer[t].state # "free" => timer[t].key \in Keys /\ timer[t].event \in Events
  BY DEF TypeOK, Free, LiveTimer

(***************************************************************************)
(* Init establishes the invariant.                                         *)
(***************************************************************************)
LEMMA InitIInv == Init => IInv
  BY DEF Init, IInv, TypeOK, StopFlag, NothingLost, TrackedIsNewest, QuietAfterStop, Free

(***************************************************************************)
(* Submit keeps it.  The timer it stops is the tracked one of its own key, *)
(* which by TrackedIsNewest and NothingLost is nobody else's newest timer. *)
(***************************************************************************)
LEMMA AcceptIInv ==
    ASSUME IInv, NEW k \in Keys, NEW e \in Events, NEW t \in Timers, Accept(k, e, t)
    PROVE  IInv'
  <1>1. TypeOK BY DEF IInv
  <1> DEFINE rest == StopTimers({timers[k]})
  <1>2. /\ rest \in [Timers -> {Free} \cup LiveTimer]
        /\ \A u \in Timers : rest[u] = timer[u] \/ (u = timers[k] /\ rest[u] = Free)
    BY <1>1, StopTimersFacts
  <1> HIDE DEF rest
  <1>3. /\ timer' = [rest EXCEPT ![t] = Armed(k, e)]
        /\ timers' = [timers EXCEPT ![k] = t]
        /\ newest' = [newest EXCEPT ![k] = t]
        /\ ~stopped /\ timer[t] = Free
        /\ stopped' = stopped /\ stopCall' = stopCall
    BY DEF Accept, rest
  <1>4. Armed(k, e) \in LiveTimer
    BY DEF Armed, LiveTimer
  <1>5. TypeOK'
    BY <1>1, <1>2, <1>3, <1>4 DEF TypeOK
  <1>6. \A l \in Keys \ {k} : newest[l] # NoTimer =>
            newest[l] \in Timers /\ newest[l] # t /\ newest[l] # timers[k]
    BY <1>1, <1>3, NoTimerAssumption
       DEF IInv, TypeOK, NothingLost, TrackedIsNewest, Waiting, Free
  <1>7. NothingLost'
    BY <1>1, <1>2, <1>3, <1>6
       DEF IInv, TypeOK, NothingLost, Waiting, Armed
  <1>8. TrackedIsNewest'
    BY <1>1, <1>2, <1>3, <1>6
       DEF IInv, TypeOK, TrackedIsNewest, Waiting, Armed
  <1>9. StopFlag' /\ QuietAfterStop'
    BY <1>3 DEF IInv, StopFlag, QuietAfterStop
  <1> QED BY <1>5, <1>7, <1>8, <1>9 DEF IInv

(***************************************************************************)
(* A timer that fires is as good a holder of its event as before.          *)
(***************************************************************************)
LEMMA FireIInv ==
    ASSUME IInv, NEW t \in Timers, Fire(t)
    PROVE  IInv'
  <1>1. TypeOK BY DEF IInv
  <1>2. timer[t] \in LiveTimer
    BY <1>1, TimerFacts DEF Fire, Free
  <1>3. TypeOK'
    BY <1>1, <1>2 DEF Fire, TypeOK, LiveTimer
  <1>4. \A u \in Timers : /\ Waiting(u) => Waiting(u)'
                          /\ timer'[u].state = "publishing" => timer[u].state = "publishing"
                          /\ Waiting(u) => timer'[u].key = timer[u].key
    BY <1>1, <1>2 DEF Fire, TypeOK, Waiting, LiveTimer
  <1>5. NothingLost' /\ TrackedIsNewest'
    BY <1>1, <1>4 DEF IInv, Fire, TypeOK, NothingLost, TrackedIsNewest, Waiting
  <1>6. StopFlag' /\ QuietAfterStop'
    BY <1>4 DEF IInv, Fire, StopFlag, QuietAfterStop
  <1> QED BY <1>3, <1>5, <1>6 DEF IInv

(***************************************************************************)
(* A callback that finds d.stopped ends; only QuietAfterStop still speaks  *)
(* of that state.                                                          *)
(***************************************************************************)
LEMMA CallbackStoppedIInv ==
    ASSUME IInv, NEW t \in Timers, CallbackStopped(t)
    PROVE  IInv'
  <1>1. TypeOK' /\ StopFlag' /\ NothingLost'
    BY DEF IInv, CallbackStopped, TypeOK, StopFlag, NothingLost
  <1>2. TrackedIsNewest'
    BY DEF IInv, CallbackStopped, TrackedIsNewest
  <1>3. QuietAfterStop'
    BY DEF IInv, CallbackStopped, TypeOK, QuietAfterStop, Free
  <1> QED BY <1>1, <1>2, <1>3 DEF IInv

(***************************************************************************)
(* A callback that publishes deletes the entry of its key, and the event   *)
(* is handed over if it was the newest.  No other key has this timer as    *)
(* its newest one, because a newest timer carries its key.                 *)
(***************************************************************************)
LEMMA CallbackPublishesIInv ==
    ASSUME IInv, NEW t \in Timers, CallbackPublishes(t)
    PROVE  IInv'
  <1>1. TypeOK BY DEF IInv
  <1> DEFINE key == timer[t].key
  <1>2. timer[t] \in LiveTimer /\ key \in Keys
    BY <1>1, TimerFacts DEF CallbackPublishes, Free
  <1>3. TypeOK'
    BY <1>1, <1>2 DEF CallbackPublishes, TypeOK, LiveTimer
  <1>4. \A k \in Keys : newest'[k] # NoTimer => newest'[k] = newest[k] /\ newest[k] # t
    BY <1>1, <1>2 DEF IInv, CallbackPublishes, TypeOK, NothingLost
  <1>5. \A u \in Timers \ {t} : timer'[u] = timer[u]
    BY <1>1 DEF CallbackPublishes, TypeOK
  <1>6. NothingLost'
    BY <1>1, <1>4, <1>5 DEF IInv, CallbackPublishes, TypeOK, NothingLost, Waiting
  <1>7. \A k \in Keys : timers'[k] # NoTimer =>
            k # key /\ timers'[k] = timers[k] /\ newest'[k] = newest[k]
    BY <1>1, <1>2 DEF CallbackPublishes, TypeOK
  <1>8. TrackedIsNewest'
    BY <1>1, <1>4, <1>5, <1>7 DEF IInv, CallbackPublishes, TypeOK, TrackedIsNewest, Waiting
  <1>9. StopFlag' /\ QuietAfterStop'
    BY <1>1 DEF IInv, CallbackPublishes, TypeOK, StopFlag, QuietAfterStop
  <1> QED BY <1>3, <1>6, <1>8, <1>9 DEF IInv

(***************************************************************************)
(* publishFn returns: its timer was not waiting.                           *)
(***************************************************************************)
LEMMA PublishReturnsIInv ==
    ASSUME IInv, NEW t \in Timers, PublishReturns(t)
    PROVE  IInv'
  <1>1. TypeOK BY DEF IInv
  <1>2. TypeOK'
    BY <1>1 DEF PublishReturns, TypeOK
  <1>3. ~Waiting(t) /\ \A u \in Timers \ {t} : timer'[u] = timer[u]
    BY <1>1 DEF PublishReturns, TypeOK, Waiting
  <1>4. NothingLost' /\ TrackedIsNewest'
    BY <1>1, <1>3 DEF IInv, PublishReturns, TypeOK, NothingLost, TrackedIsNewest, Waiting
  <1>5. StopFlag' /\ QuietAfterStop'
    BY <1>1 DEF IInv, PublishReturns, TypeOK, StopFlag, QuietAfterStop, Free
  <1> QED BY <1>2, <1>4, <1>5 DEF IInv

(***************************************************************************)
(* Stop clears the map and sets the flag.                                  *)
(***************************************************************************)
LEMMA StopIInv ==
    ASSUME IInv, Stop
    PROVE  IInv'
  <1>1. TypeOK BY DEF IInv
  <1>2. timer' \in [Timers -> {Free} \cup LiveTimer]
    BY <1>1, StopTimersFacts DEF Stop
  <1>3. TypeOK' /\ StopFlag'
    BY <1>1, <1>2 DEF Stop, TypeOK, StopFlag
  <1>4. NothingLost' /\ TrackedIsNewest' /\ QuietAfterStop'
    BY DEF Stop, NothingLost, TrackedIsNewest, QuietAfterStop
  <1> QED BY <1>3, <1>4 DEF IInv

(***************************************************************************)
(* wg.Wait returns when nobody publishes.                                  *)
(***************************************************************************)
LEMMA StopReturnsIInv ==
    ASSUME IInv, StopReturns
    PROVE  IInv'
  BY DEF StopReturns, IInv, TypeOK, StopFlag, NothingLost, TrackedIsNewest, QuietAfterStop,
         Waiting

(***************************************************************************)
(* Every step of the debouncer keeps the invariant.                        *)
(***************************************************************************)
LEMMA NextIInv == IInv /\ [Next]_vars => IInv'
  <1> SUFFICES ASSUME IInv, [Next]_vars PROVE IInv'
    OBVIOUS
  <1>1. ASSUME UNCHANGED vars PROVE IInv'
    BY <1>1 DEF vars, IInv, TypeOK, StopFlag, NothingLost, TrackedIsNewest, QuietAfterStop,
                Waiting
  <1>2. ASSUME NEW k \in Keys, NEW e \in Events, Submit(k, e) PROVE IInv'
    BY <1>1, <1>2, AcceptIInv DEF Submit, SubmitAfterStop
  <1>3. ASSUME NEW t \in Timers, Fire(t) \/ Callback(t) \/ PublishReturns(t) PROVE IInv'
    BY <1>3, FireIInv, CallbackStoppedIInv, CallbackPublishesIInv, PublishReturnsIInv
       DEF Callback
  <1> QED BY <1>1, <1>2, <1>3, StopIInv, StopReturnsIInv DEF Next

(***************************************************************************)
(* The debouncer's invariant holds in every reachable state.               *)
(***************************************************************************)
THEOREM Invariance == SafetySpec => []IInv
  BY InitIInv, NextIInv, PTL DEF SafetySpec

(***************************************************************************)
(* Type correctness: the map, the timers and the flags of the debouncer    *)
(* have the types the code gives them, in every reachable state.           *)
(***************************************************************************)
THEOREM TypeCorrect == SafetySpec => []TypeOK
  <1>1. IInv => TypeOK BY DEF IInv
  <1> QED BY <1>1, Invariance, PTL

(***************************************************************************)
(* No accepted event is lost before Stop, for any number of keys and       *)
(* timers in any state of their goroutines.                                *)
(***************************************************************************)
THEOREM EventsAreKept == SafetySpec => []NothingLost
  <1>1. IInv => NothingLost BY DEF IInv
  <1> QED BY <1>1, Invariance, PTL

(***************************************************************************)
(* The map of timers never names a timer that is not the newest of its     *)
(* key, nor one whose goroutine is past the point where Stop helps.        *)
(***************************************************************************)
THEOREM MapIsExact == SafetySpec => []TrackedIsNewest
  <1>1. IInv => TrackedIsNewest BY DEF IInv
  <1> QED BY <1>1, Invariance, PTL

(***************************************************************************)
(* After Stop has returned publishFn does not run.                         *)
(***************************************************************************)
THEOREM StopIsFinal == SafetySpec => []QuietAfterStop
  <1>1. IInv => QuietAfterStop BY DEF IInv
  <1> QED BY <1>1, Invariance, PTL
=============================================================================
