---------------------------- MODULE ServerProofs ----------------------------
(***************************************************************************)
(* Proofs about Server, for any requests and any readiness probes: types,  *)
(* a clean exit cuts off no request, the background starts ready, what a   *)
(* process that serves without it has been through, and that the life of   *)
(* the process keeps what Exchange promises of its requests.               *)
(***************************************************************************)
EXTENDS Server, TLAPS

(***************************************************************************)
(* The parts of the inductive invariant.  The listener is open only while  *)
(* Run serves, and a drain or a clean exit comes of a signal.              *)
(***************************************************************************)
Listening ==
    /\ accepting => phase \in Serving
    /\ phase = "draining" \/ outcome = "clean" => ctxDone

\* What the startup sequence has put in place when it is over.
Prepared ==
    /\ phase \in {"connecting", "draining"} \cup Serving => secret = "ours"
    /\ phase \in {"draining"} \cup Serving => publisher = "open"
    /\ background # "off" =>
        /\ secret = "ours" /\ phase \notin Startup
        /\ phase = "closing" => publisher = "open"

\* A probe that waitForReady has left behind was late or had no good answer.
LeftBehind(p) == Tried(p) /\ p # probe => p \in late \/ stage[p] \notin {"open", "ok"}

ProbesSettle ==
    /\ \A p \in late : Tried(p)
    /\ probe \notin late
    /\ background = "off" => \A p \in Probes : LeftBehind(p)

IInv ==
    /\ ServerTypeOK
    /\ Listening
    /\ Prepared
    /\ ProbesSettle
    /\ CleanExitIsDrained
    /\ BackgroundIsReady
    /\ ServingWithoutBackground

(***************************************************************************)
(* The process starts in the invariant.                                    *)
(***************************************************************************)
LEMMA InitIInv == Init => IInv
<1> SUFFICES ASSUME Init
             PROVE  IInv
  OBVIOUS
<1> USE DEF Init, ExchangeInit
<1>1. ServerTypeOK
  BY DEF ServerTypeOK, Startup, Serving, Ending, Verdicts
<1>2. Listening /\ Prepared
  BY DEF Listening, Prepared, Serving, Startup
<1>3. ProbesSettle
  BY ProbesAssumption DEF ProbesSettle, LeftBehind, Tried
<1>4. CleanExitIsDrained /\ BackgroundIsReady /\ ServingWithoutBackground
  BY DEF CleanExitIsDrained, BackgroundIsReady, ServingWithoutBackground
<1> QED
  BY <1>1, <1>2, <1>3, <1>4 DEF IInv

(***************************************************************************)
(* The steps of the startup, and its failure.                              *)
(***************************************************************************)
LEMMA StartKeepsIInv == IInv /\ Start => IInv'
<1> SUFFICES ASSUME IInv, Start
             PROVE  IInv'
  OBVIOUS
<1> USE DEF IInv, ServerTypeOK, Listening, Prepared, ProbesSettle, LeftBehind,
            CleanExitIsDrained, BackgroundIsReady, ServingWithoutBackground,
            Startup, Serving, Ending, Enter, InFlight, Tried, exchangeVars
<1>1. CASE Configure
  BY <1>1 DEF Configure
<1>2. CASE Prepare
  BY <1>2 DEF Prepare
<1>3. CASE EnsurePullSecret
  BY <1>3 DEF EnsurePullSecret
<1>4. CASE Connect
  BY <1>4 DEF Connect
<1>5. CASE StartupFails
  BY <1>5 DEF StartupFails
<1> QED
  BY <1>1, <1>2, <1>3, <1>4, <1>5 DEF Start

(***************************************************************************)
(* The requests.  What Exchange does to one request leaves the others and  *)
(* every verdict as they are.                                              *)
(***************************************************************************)
LEMMA RequestEffect ==
    ASSUME ServerTypeOK, NEW r \in Requests,
           ClientArrives(r) \/ RequestChanges(r) \/ RequestEnds(r)
    PROVE  /\ stage' \in [Requests -> {"absent", "open"} \cup Verdicts]
           /\ changed' \subseteq Requests
           /\ \A q \in Requests : q # r => stage'[q] = stage[q]
           /\ stage'[r] # stage[r] =>
                \/ stage[r] = "absent" /\ stage'[r] = "open" /\ accepting /\ r \notin Probes
                \/ stage[r] = "open" /\ stage'[r] \in Verdicts
           /\ UNCHANGED serverVars
<1>1. CASE ClientArrives(r)
  BY <1>1 DEF ClientArrives, Begin, ServerTypeOK, Verdicts
<1>2. CASE RequestChanges(r)
  BY <1>2 DEF RequestChanges, Change, ServerTypeOK, Verdicts
<1>3. CASE RequestEnds(r)
  <2>1. PICK verdict \in Verdicts : End(r, verdict)
    BY <1>3 DEF RequestEnds, Verdicts
  <2> QED
    BY <1>3, <2>1 DEF RequestEnds, End, ServerTypeOK, Verdicts
<1> QED
  BY <1>1, <1>2, <1>3

(***************************************************************************)
(* So a request disturbs nothing: it begins only while the listener is     *)
(* open, and when it is a probe it ends late or is the one waited for.     *)
(***************************************************************************)
LEMMA RequestKeepsIInv ==
    ASSUME IInv, NEW r \in Requests, ClientArrives(r) \/ RequestChanges(r) \/ RequestEnds(r)
    PROVE  IInv'
<1> DEFINE Ends == stage[r] = "open" /\ stage'[r] \in Verdicts
           Begins == stage[r] = "absent" /\ stage'[r] = "open" /\ accepting /\ r \notin Probes
<1>1. ServerTypeOK /\ Listening /\ Prepared /\ ProbesSettle
      /\ CleanExitIsDrained /\ BackgroundIsReady /\ ServingWithoutBackground
  BY DEF IInv
<1>2. /\ stage' \in [Requests -> {"absent", "open"} \cup Verdicts]
      /\ changed' \subseteq Requests
      /\ \A q \in Requests : q # r => stage'[q] = stage[q]
      /\ stage'[r] # stage[r] => Begins \/ Ends
      /\ UNCHANGED serverVars
  BY <1>1, RequestEffect
<1> HIDE DEF Begins, Ends
<1>3. \A q \in Requests : Tried(q) => Tried(q)'
  BY <1>2 DEF Tried, Begins, Ends, Verdicts
<1>4. \A q \in Requests : stage[q] \notin {"absent", "open"} => stage'[q] = stage[q]
  BY <1>2 DEF Begins, Ends, Verdicts
<1>5. \A q \in Requests : InFlight(q)' => InFlight(q) \/ (accepting /\ q \notin Probes)
  BY <1>2 DEF InFlight, Begins, Ends, Verdicts
<1>6. \A p \in Probes : Tried(p)' => Tried(p)
  BY <1>2, ProbesAssumption DEF Tried, Begins, Ends, Verdicts
<1>7. ServerTypeOK'
  BY <1>1, <1>2, <1>3, ProbesAssumption DEF ServerTypeOK, serverVars
<1>8. Listening' /\ Prepared'
  BY <1>1, <1>2 DEF Listening, Prepared, serverVars
<1>9. ProbesSettle'
  <2>1. late \subseteq Requests /\ late' = late /\ probe' = probe /\ background' = background
    BY <1>1, <1>2, ProbesAssumption DEF ServerTypeOK, serverVars
  <2>2. ASSUME NEW p \in Probes, LeftBehind(p)
        PROVE  LeftBehind(p)'
    <3>1. p \in Requests
      BY ProbesAssumption
    <3>2. CASE Tried(p) /\ p # probe /\ p \notin late
      <4>1. stage[p] \notin {"absent", "open"} /\ stage[p] # "ok"
        BY <2>2, <3>2 DEF LeftBehind, Tried
      <4> QED
        BY <1>4, <3>1, <4>1 DEF LeftBehind
    <3> QED
      BY <1>6, <2>1, <3>2 DEF LeftBehind
  <2> QED
    BY <1>1, <1>3, <2>1, <2>2 DEF ProbesSettle
<1>10. CleanExitIsDrained'
  BY <1>1, <1>2, <1>5 DEF CleanExitIsDrained, serverVars
<1>11. BackgroundIsReady'
  <2>1. ASSUME NEW p \in Probes \ late, stage[p] = "ok"
        PROVE  stage'[p] = "ok"
    BY <1>4, <2>1, ProbesAssumption
  <2> QED
    BY <1>1, <1>2, <2>1 DEF BackgroundIsReady, serverVars
<1>12. ServingWithoutBackground'
  <2>1. SUFFICES ASSUME phase = "serving", background = "off", ~ctxDone, accepting
                 PROVE  \A p \in Probes : Tried(p)' /\ (p \in late \/ stage'[p] # "ok")
    BY <1>2 DEF ServingWithoutBackground, serverVars
  <2>2. \A p \in Probes : Tried(p) /\ LeftBehind(p)
    BY <1>1, <2>1 DEF ServingWithoutBackground, ProbesSettle
  <2>3. probe \notin Probes
    BY <1>1, <2>1, ProbesAssumption DEF ServerTypeOK
  <2>4. \A p \in Probes : p \in late \/ stage[p] \notin {"absent", "open", "ok"}
    BY <2>2, <2>3 DEF LeftBehind, Tried
  <2> QED
    BY <1>3, <1>4, <2>2, <2>4, ProbesAssumption
<1> QED
  BY <1>7, <1>8, <1>9, <1>10, <1>11, <1>12 DEF IInv

(***************************************************************************)
(* The readiness probes.                                                   *)
(***************************************************************************)
LEMMA ReadyKeepsIInv == IInv /\ Ready => IInv'
<1> SUFFICES ASSUME IInv, Ready
             PROVE  IInv'
  OBVIOUS
<1> USE DEF IInv, ServerTypeOK, Listening, Prepared, ProbesSettle, LeftBehind,
            CleanExitIsDrained, BackgroundIsReady, ServingWithoutBackground,
            Startup, Serving, Ending, Enter, InFlight, Tried, exchangeVars
<1>1. ASSUME NEW p \in Probes, SendProbe(p)
      PROVE  IInv'
  <2>1. p \in Requests /\ p # NoProbe
    BY ProbesAssumption
  <2>2. /\ stage[p] = "absent" /\ stage'[p] = "open"
        /\ \A q \in Requests : q # p => stage'[q] = stage[q]
        /\ stage' \in [Requests -> {"absent", "open"} \cup Verdicts]
    BY <1>1, <2>1 DEF SendProbe, Begin
  <2> QED
    BY <1>1, <2>1, <2>2, ProbesAssumption DEF SendProbe, Begin
<1>2. CASE ProbeFails
  BY <1>2, ProbesAssumption DEF ProbeFails
<1>3. CASE ProbeTimesOut
  BY <1>3, ProbesAssumption DEF ProbeTimesOut
<1>4. CASE ProbeSucceeds
  BY <1>4, ProbesAssumption DEF ProbeSucceeds
<1>5. CASE GiveUp
  BY <1>5, ProbesAssumption DEF GiveUp
<1> QED
  BY <1>1, <1>2, <1>3, <1>4, <1>5 DEF Ready

(***************************************************************************)
(* The end of Run and of the process, and the steps around it.             *)
(***************************************************************************)
LEMMA FinishKeepsIInv == IInv /\ (Signal \/ ServeFails \/ BackgroundStops \/ Finish) => IInv'
<1> SUFFICES ASSUME IInv, Signal \/ ServeFails \/ BackgroundStops \/ Finish
             PROVE  IInv'
  OBVIOUS
<1> USE DEF IInv, ServerTypeOK, Listening, Prepared, ProbesSettle, LeftBehind,
            CleanExitIsDrained, BackgroundIsReady, ServingWithoutBackground,
            Startup, Serving, Ending, Enter, InFlight, Tried, exchangeVars
<1>1. CASE Signal
  BY <1>1 DEF Signal
<1>2. CASE ServeFails
  BY <1>2 DEF ServeFails
<1>3. CASE BackgroundStops
  BY <1>3 DEF BackgroundStops
<1>4. CASE ServeErrorReturns
  BY <1>4 DEF ServeErrorReturns
<1>5. CASE BeginShutdown
  BY <1>5 DEF BeginShutdown
<1>6. CASE Drained
  BY <1>6 DEF Drained
<1>7. CASE DrainTimesOut
  BY <1>7 DEF DrainTimesOut
<1>8. CASE ClosePublisher
  BY <1>8 DEF ClosePublisher
<1>9. CASE StopSignals
  BY <1>9 DEF StopSignals
<1>10. CASE Exit
  BY <1>10 DEF Exit
<1> QED
  BY <1>1, <1>2, <1>3, <1>4, <1>5, <1>6, <1>7, <1>8, <1>9, <1>10 DEF Finish

(***************************************************************************)
(* Every step of the process keeps the invariant.                          *)
(***************************************************************************)
LEMMA NextIInv == IInv /\ [ServerNext]_vars => IInv'
<1>1. CASE UNCHANGED vars
  BY <1>1 DEF vars, exchangeVars, serverVars, IInv, ServerTypeOK, Listening, Prepared,
              ProbesSettle, LeftBehind, Tried, InFlight, CleanExitIsDrained,
              BackgroundIsReady, ServingWithoutBackground
<1>2. CASE ServerNext
  BY <1>2, StartKeepsIInv, RequestKeepsIInv, ReadyKeepsIInv, FinishKeepsIInv DEF ServerNext
<1> QED
  BY <1>1, <1>2

(***************************************************************************)
(* So it holds throughout.                                                 *)
(***************************************************************************)
LEMMA Invariant == ServerSpec => []IInv
<1> QED
  BY InitIInv, NextIInv, PTL DEF ServerSpec

(***************************************************************************)
(* TypeCorrect: the types, which also say that a probe is only waited for  *)
(* while Run probes, and that Run has returned just when it has an outcome.*)
(***************************************************************************)
THEOREM TypeCorrect == ServerSpec => []ServerTypeOK
<1>1. IInv => ServerTypeOK
  BY DEF IInv
<1> QED
  BY <1>1, Invariant, PTL

(***************************************************************************)
(* CleanExit: when Run returns nil no request is left at work, however     *)
(* many there are and whenever the signal came (REQ-HTTP-030).             *)
(***************************************************************************)
THEOREM CleanExit == ServerSpec => []CleanExitIsDrained
<1>1. IInv => CleanExitIsDrained
  BY DEF IInv
<1> QED
  BY <1>1, Invariant, PTL

(***************************************************************************)
(* BackgroundReady: the registrar and the monitor start after an answered  *)
(* probe, with the pull secret and the publisher in place, and see the     *)
(* publisher closed only at the end.                                       *)
(***************************************************************************)
THEOREM BackgroundReady == ServerSpec => []BackgroundIsReady
<1>1. IInv => BackgroundIsReady
  BY DEF IInv
<1> QED
  BY <1>1, Invariant, PTL

(***************************************************************************)
(* ProbesNotWasted: a process serves without the background only when it   *)
(* is about to end or every probe was late or badly answered, however many *)
(* probes fit into the readiness timeout.                                  *)
(***************************************************************************)
THEOREM ProbesNotWasted == ServerSpec => []ServingWithoutBackground
<1>1. IInv => ServingWithoutBackground
  BY DEF IInv
<1> QED
  BY <1>1, Invariant, PTL

-----------------------------------------------------------------------------
(***************************************************************************)
(* The life of the process adds conditions to the steps of the exchange:   *)
(* a request comes while the listener is open, a probe reads and is not    *)
(* refused, and after the exit there are none.                             *)
(***************************************************************************)
LEMMA NextExchanges == [ServerNext]_vars => [ExchangeNext]_exchangeVars
<1> SUFFICES ASSUME [ServerNext]_vars
             PROVE  [ExchangeNext]_exchangeVars
  OBVIOUS
<1>1. CASE UNCHANGED vars
  BY <1>1 DEF vars
<1>2. ASSUME NEW r \in Requests, ClientArrives(r) \/ RequestChanges(r) \/ RequestEnds(r)
      PROVE  ExchangeNext
  <2>1. CASE RequestEnds(r)
    <3>1. PICK verdict \in Verdicts : End(r, verdict)
      BY <2>1 DEF RequestEnds, Verdicts
    <3> QED
      BY <3>1 DEF ExchangeNext
  <2> QED
    BY <1>2, <2>1 DEF ClientArrives, RequestChanges, ExchangeNext
<1>3. ASSUME NEW p \in Probes, SendProbe(p)
      PROVE  ExchangeNext
  BY <1>3, ProbesAssumption DEF SendProbe, ExchangeNext
<1>4. CASE Start \/ Signal \/ ServeFails \/ BackgroundStops \/ Finish
  BY <1>4 DEF Start, Configure, Prepare, EnsurePullSecret, Connect, StartupFails, Signal,
     ServeFails, BackgroundStops, Finish, ServeErrorReturns, BeginShutdown, Drained,
     DrainTimesOut, ClosePublisher, StopSignals, Exit
<1>5. CASE ProbeFails \/ ProbeTimesOut \/ ProbeSucceeds \/ GiveUp
  BY <1>5 DEF ProbeFails, ProbeTimesOut, ProbeSucceeds, GiveUp
<1> QED
  BY <1>1, <1>2, <1>3, <1>4, <1>5 DEF ServerNext, Ready

\* A verdict is given by End and stays.
LEMMA NextTells == VerdictsTell /\ [ExchangeNext]_exchangeVars => VerdictsTell'
<1> SUFFICES ASSUME VerdictsTell, [ExchangeNext]_exchangeVars
             PROVE  VerdictsTell'
  OBVIOUS
<1>1. CASE UNCHANGED exchangeVars
  BY <1>1 DEF VerdictsTell, exchangeVars
<1>2. ASSUME NEW r \in Requests, Begin(r)
      PROVE  VerdictsTell'
  BY <1>2 DEF Begin, VerdictsTell
<1>3. ASSUME NEW r \in Requests, Change(r)
      PROVE  VerdictsTell'
  BY <1>3 DEF Change, VerdictsTell
<1>4. ASSUME NEW r \in Requests, NEW verdict \in Verdicts, End(r, verdict)
      PROVE  VerdictsTell'
  BY <1>4 DEF End, VerdictsTell
<1> QED
  BY <1>1, <1>2, <1>3, <1>4 DEF ExchangeNext

(***************************************************************************)
(* UsesExchange: startup, probes, drain and exit do nothing to a request   *)
(* that Exchange does not know, so that Api may stand for the requests of  *)
(* the process.                                                            *)
(***************************************************************************)
THEOREM UsesExchange == ServerSpec => ExchangeSpec
<1>1. Init => ExchangeInit
  BY DEF Init
<1> QED
  BY <1>1, NextExchanges, PTL DEF ServerSpec, ExchangeSpec

\* Every request that came has ended, and its client can tell what was done.
SettledAtExit ==
    outcome = "clean" =>
        \A r \in Requests :
            \/ stage[r] = "absent"
            \/ stage[r] = "accepted" /\ r \in changed
            \/ stage[r] \in {"ok", "refused"} /\ r \notin changed
            \/ stage[r] \in {"error", "broken"}

(***************************************************************************)
(* CleanExitSettles: the drain of Run and the answers of the handler       *)
(* together.  When Run returns nil, no client of a create or a deletion is *)
(* left in doubt about it but for an error or a broken connection, and     *)
(* nothing was changed for one that was refused.                           *)
(***************************************************************************)
THEOREM CleanExitSettles == ServerSpec => []SettledAtExit
<1>1. ExchangeInit => VerdictsTell
  BY DEF ExchangeInit, VerdictsTell
<1>2. ExchangeSpec => []VerdictsTell
  BY <1>1, NextTells, PTL DEF ExchangeSpec
<1>3. IInv /\ VerdictsTell => SettledAtExit
  BY DEF IInv, ServerTypeOK, Verdicts, CleanExitIsDrained, InFlight, VerdictsTell, SettledAtExit
<1> QED
  BY <1>2, <1>3, Invariant, UsesExchange, PTL

=============================================================================
