--------------------------- MODULE RegistrarProofs ---------------------------
(***************************************************************************)
(* What lastVersions means, for any compatibility matrix, any pair of      *)
(* configured backoffs and any number of changes and failures.             *)
(*                                                                         *)
(* LastIsAdvertised speaks of the ticker only; the argument has to follow  *)
(* the versions through the calls that lead there: what the request and    *)
(* the tick have read is what the hub still has (Fresh), a registration    *)
(* that is not finished has not touched the registry (Untouched), and      *)
(* between the first registration and the baseline the registry holds the  *)
(* hub's versions (BaselineDue) - each unless history says otherwise.      *)
(* FirstRound says that only the first registration leads to the baseline. *)
(***************************************************************************)
EXTENDS Registrar, TLAPS

Fresh ==
    pc \in InRegistration /\ "moved" \notin round =>
        /\ ~initial => current = DiscoverVersions
        /\ pc = "post" => payload = DiscoverVersions

Untouched ==
    pc \in InRegistration /\ ~initial /\ slips = {} /\ "failed" \notin round => last = advertised

BaselineDue == pc = "baseline" /\ slips = {} => advertised = DiscoverVersions

FirstRound == pc \in {"idle", "baseline"} => initial

IInv == TypeOK /\ Fresh /\ Untouched /\ BaselineDue /\ FirstRound /\ LastIsAdvertised

(***************************************************************************)
(* DiscoverVersions returns Kubernetes versions of the matrix.             *)
(***************************************************************************)
LEMMA DiscoverVersionsType == DiscoverVersions \subseteq K8sVersions
  BY DEF DiscoverVersions, K8sVersions

(***************************************************************************)
(* Init establishes the invariant.                                         *)
(***************************************************************************)
LEMMA InitIInv == Init => IInv
  <1> SUFFICES ASSUME Init PROVE IInv
    OBVIOUS
  <1>1. cfg \in Configs /\ backoff \in Nat /\ BackoffCapped
    BY ConfigsAssumption DEF Init, BackoffCapped
  <1>2. changes \in 0..MaxChanges /\ failures \in 0..MaxFailures
    BY BoundsAssumption DEF Init
  <1>3. initial \in BOOLEAN /\ ctxDone \in BOOLEAN
    BY DEF Init
  <1>4. TypeOK
    BY <1>1, <1>2, <1>3 DEF Init, TypeOK
  <1> QED
    BY <1>4 DEF Init, IInv, Fresh, Untouched, BaselineDue, FirstRound, LastIsAdvertised,
                InRegistration

(***************************************************************************)
(* The types are kept, the bound on the backoff included: it is set to the *)
(* initial one, which may be above the maximum, or by doubling, which the  *)
(* cap holds at or below the maximum whatever it started from.             *)
(***************************************************************************)
LEMMA NextTypeOK == TypeOK /\ [Next]_vars => TypeOK'
  <1> SUFFICES ASSUME TypeOK, [Next]_vars PROVE TypeOK'
    OBVIOUS
  <1> USE DEF TypeOK, InRegistration, Slips, BackoffCapped
  <1>1. CASE UNCHANGED vars
    BY <1>1 DEF vars, K8sVersions
  <1>2. CASE ChangeImages
    BY <1>2, BoundsAssumption DEF ChangeImages, K8sVersions
  <1>3. CASE Cancel \/ Start
    BY <1>3 DEF Cancel, Start, K8sVersions
  <1>4. CASE RegisterDiscovers
    BY <1>4, DiscoverVersionsType DEF RegisterDiscovers
  <1>5. CASE RegisterDiscoveryFails
    BY <1>5, BoundsAssumption DEF RegisterDiscoveryFails, CallFails, GiveUp
  <1>6. CASE PostAccepted
    BY <1>6 DEF PostAccepted
  <1>7. CASE PostRejected
    BY <1>7, BoundsAssumption DEF PostRejected, CallFails, GiveUp
  <1>8. CASE PostFails
    BY <1>8, BoundsAssumption DEF PostFails, CallFails
  <1>9. CASE BackoffElapses
    BY <1>9, ConfigsAssumption DEF BackoffElapses
  <1>10. CASE BackoffCancelled
    BY <1>10 DEF BackoffCancelled, GiveUp
  <1>11. CASE Baseline
    BY <1>11, DiscoverVersionsType DEF Baseline
  <1>12. CASE BaselineFails
    BY <1>12, BoundsAssumption DEF BaselineFails, CallFails
  <1>13. CASE TickChanged
    <2>1. cfg' \in Configs /\ backoff' \in Nat /\ BackoffCapped'
      BY <1>13, ConfigsAssumption DEF TickChanged
    <2>2. initial' \in BOOLEAN /\ round' \subseteq {"moved", "failed"}
      BY <1>13 DEF TickChanged
    <2> QED BY <1>13, <2>1, <2>2, DiscoverVersionsType DEF TickChanged
  <1>14. CASE TickFails
    BY <1>14, BoundsAssumption DEF TickFails, CallFails
  <1>15. CASE WatchCancelled
    BY <1>15 DEF WatchCancelled
  <1>16. CASE NothingToDo
    BY <1>16 DEF NothingToDo, vars
  <1> QED
    BY <1>1, <1>2, <1>3, <1>4, <1>5, <1>6, <1>7, <1>8, <1>9, <1>10, <1>11, <1>12, <1>13,
       <1>14, <1>15, <1>16 DEF Next, Step, Register

(***************************************************************************)
(* The rest of the invariant is kept.                                      *)
(***************************************************************************)
LEMMA NextIInv == IInv /\ [Next]_vars => IInv'
  <1> SUFFICES ASSUME IInv, [Next]_vars PROVE IInv'
    OBVIOUS
  <1>0. TypeOK'
    BY NextTypeOK DEF IInv
  <1> USE DEF Fresh, Untouched, BaselineDue, FirstRound, LastIsAdvertised, InRegistration
  <1>a. images' = images => DiscoverVersions' = DiscoverVersions
    BY DEF DiscoverVersions
  <1>1. CASE UNCHANGED vars \/ Cancel \/ Start \/ TickFails \/ WatchCancelled \/ NothingToDo
    BY <1>0, <1>1, <1>a
       DEF IInv, vars, Cancel, Start, TickFails, WatchCancelled, NothingToDo
  <1>2. CASE ChangeImages
    \* in a registration and before the baseline the move is recorded; while watching,
    \* neither lastVersions nor the registry depends on the hub
    BY <1>0, <1>2 DEF IInv, ChangeImages
  <1>3. CASE RegisterDiscovers
    BY <1>0, <1>3, <1>a DEF IInv, RegisterDiscovers
  <1>4. CASE RegisterDiscoveryFails
    BY <1>0, <1>4 DEF IInv, RegisterDiscoveryFails, GiveUp
  <1>5. CASE PostAccepted
    BY <1>0, <1>5, <1>a DEF IInv, PostAccepted
  <1>6. CASE PostRejected
    BY <1>0, <1>6 DEF IInv, PostRejected, GiveUp
  <1>7. CASE PostFails
    BY <1>0, <1>7, <1>a DEF IInv, PostFails
  <1>8. CASE BackoffElapses
    BY <1>0, <1>8, <1>a DEF IInv, BackoffElapses
  <1>9. CASE BackoffCancelled
    BY <1>0, <1>9 DEF IInv, BackoffCancelled, GiveUp
  <1>10. CASE Baseline
    BY <1>0, <1>10 DEF IInv, Baseline
  <1>11. CASE BaselineFails
    BY <1>0, <1>11 DEF IInv, BaselineFails
  <1>12. CASE TickChanged
    BY <1>0, <1>12, <1>a DEF IInv, TickChanged
  <1> QED
    BY <1>1, <1>2, <1>3, <1>4, <1>5, <1>6, <1>7, <1>8, <1>9, <1>10, <1>11, <1>12
       DEF Next, Step, Register

(***************************************************************************)
(* The registrar's invariant holds in every reachable state.               *)
(***************************************************************************)
THEOREM Invariance == SafetySpec => []IInv
  BY InitIInv, NextIInv, PTL DEF SafetySpec

(***************************************************************************)
(* Type correctness, with the bound on the backoff for every pair of       *)
(* configured values: it is above the maximum only where the initial one   *)
(* is, and then it is the initial one; no doubling takes it there.         *)
(***************************************************************************)
THEOREM TypeCorrect == SafetySpec => []TypeOK
  <1>1. IInv => TypeOK BY DEF IInv
  <1> QED BY <1>1, Invariance, PTL

(***************************************************************************)
(* While run waits for its ticker lastVersions is what the registry holds, *)
(* unless one of the recorded slips happened.                              *)
(***************************************************************************)
THEOREM LastVersionsAreAdvertised == SafetySpec => []LastIsAdvertised
  <1>1. IInv => LastIsAdvertised BY DEF IInv
  <1> QED BY <1>1, Invariance, PTL

(***************************************************************************)
(* Once the ticker has been reached only cancellation ends the goroutine.  *)
(***************************************************************************)
THEOREM WatchEndsByCancelOnly == SafetySpec => WatchSurvives
  <1> DEFINE Survives ==
        pc = "watch" \/ ~initial => (pc' = "exited" => pc = "exited" \/ ctxDone)
  <1>1. IInv /\ [Next]_vars => [Survives]_vars
    <2> SUFFICES ASSUME IInv, [Next]_vars PROVE [Survives]_vars
      OBVIOUS
    <2> QED
      BY DEF IInv, FirstRound, Next, Step, Register, ChangeImages, Cancel, Start, RegisterDiscovers,
             RegisterDiscoveryFails, GiveUp, PostAccepted, PostRejected, PostFails, BackoffElapses,
             BackoffCancelled, Baseline, BaselineFails, TickChanged, TickFails, WatchCancelled,
             NothingToDo, vars
  <1> QED BY <1>1, Invariance, PTL DEF SafetySpec, WatchSurvives
=============================================================================
