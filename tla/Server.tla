------------------------------- MODULE Server -------------------------------
(***************************************************************************)
(* The life of the process: run of cmd/acm-cluster-service-provider and    *)
(* Run of internal/apiserver.  It prepares everything, serves HTTP, probes *)
(* its own health endpoint and starts the registrar and the status monitor *)
(* once that answers, and on a signal drains the requests, closes the NATS *)
(* publisher and exits.                                                    *)
(*                                                                         *)
(* Of a request, of a client or a probe, it sees no more than Exchange     *)
(* tells, which Api implements.                                            *)
(***************************************************************************)
EXTENDS Exchange

CONSTANTS
    Probes,     \* the readiness probes that fit into readinessProbeTimeout
    NoProbe

ASSUME ProbesAssumption == Probes \subseteq Requests /\ NoProbe \notin Requests

VARIABLES
    phase,      \* where run is
    secret,     \* the shared pull secret on the hub
    accepting,  \* the Serve goroutine accepts connections
    ctxDone,    \* the signal context is done
    probe,      \* the probe that waitForReady is waiting for
    late,       \* probes whose one-second timeout passed
    background, \* the registrar's and the monitor's goroutines
    publisher,  \* the NATS connection
    outcome     \* what Run returned

serverVars == <<phase, secret, accepting, ctxDone, probe, late, background,
                publisher, outcome>>

vars == <<exchangeVars, serverVars>>

(***************************************************************************)
(* The startup sequence of run up to Run, by what it has still to do, and  *)
(* the deferred calls at its end.                                          *)
(***************************************************************************)
Startup == {"configuring", "preparing", "ensuring", "connecting"}

Serving == {"probing", "serving"}

Ending == {"closing", "stopping", "exited"}

Init ==
    /\ ExchangeInit
    /\ phase = "configuring" /\ secret \in {"absent", "stale"}
    /\ accepting = FALSE /\ ctxDone = FALSE
    /\ probe = NoProbe /\ late = {}
    /\ background = "off" /\ publisher = "none" /\ outcome = "none"

Enter(to) == phase' = to

\* Load and Listen, before signals are caught: a signal kills the process.
Configure ==
    /\ phase = "configuring"
    /\ Enter("preparing")
    /\ UNCHANGED <<exchangeVars, secret, accepting, ctxDone, probe, late, background, publisher, outcome>>

\* The registry and Kubernetes clients, the scheme and the compatibility matrix.
Prepare ==
    /\ phase = "preparing"
    /\ Enter("ensuring")
    /\ UNCHANGED <<exchangeVars, secret, accepting, ctxDone, probe, late, background, publisher, outcome>>

(***************************************************************************)
(* The pull secret is created, or read and updated when it is there.       *)
(***************************************************************************)
EnsurePullSecret ==
    /\ phase = "ensuring" /\ ~ctxDone
    /\ Enter("connecting")
    /\ secret' = "ours"
    /\ UNCHANGED <<exchangeVars, accepting, ctxDone, probe, late, background, publisher, outcome>>

(***************************************************************************)
(* NewNATSPublisher returns also while NATS is unreachable; then Run       *)
(* serves and begins to probe.                                             *)
(***************************************************************************)
Connect ==
    /\ phase = "connecting"
    /\ Enter("probing")
    /\ publisher' = "open" /\ accepting' = TRUE
    /\ UNCHANGED <<exchangeVars, secret, ctxDone, probe, late, background, outcome>>

(***************************************************************************)
(* Any step of the startup may fail, the pull secret's also after its call *)
(* was applied; run returns the error.                                     *)
(***************************************************************************)
StartupFails ==
    /\ phase \in Startup
    /\ Enter("closing") /\ outcome' = "failed"
    /\ secret' = secret \/ (phase = "ensuring" /\ secret' = "ours")
    /\ UNCHANGED <<exchangeVars, accepting, ctxDone, probe, late, background, publisher>>

\* SIGTERM or SIGINT, once NotifyContext has been called.
Signal ==
    /\ phase \notin {"configuring", "exited"} /\ ~ctxDone
    /\ ctxDone' = TRUE
    /\ UNCHANGED <<exchangeVars, phase, secret, accepting, probe, late, background, publisher, outcome>>

\* Serve returns an error other than ErrServerClosed.
ServeFails ==
    /\ phase \in Serving /\ accepting
    /\ accepting' = FALSE
    /\ UNCHANGED <<exchangeVars, phase, secret, ctxDone, probe, late, background, publisher, outcome>>

-----------------------------------------------------------------------------
(***************************************************************************)
(* The requests.                                                           *)
(***************************************************************************)
ClientArrives(r) ==
    /\ accepting /\ r \notin Probes
    /\ Begin(r)
    /\ UNCHANGED serverVars

RequestChanges(r) ==
    /\ phase # "exited" /\ r \notin Probes
    /\ Change(r)
    /\ UNCHANGED serverVars

\* The health endpoint never refuses.
RequestEnds(r) ==
    /\ phase # "exited"
    /\ \E verdict \in IF r \in Probes THEN {"ok", "error", "broken"} ELSE Verdicts :
        End(r, verdict)
    /\ UNCHANGED serverVars

(***************************************************************************)
(* waitForReady: one probe at a time.  A probe that is refused, answered   *)
(* by anything but 200 or not answered within its second is tried again,   *)
(* until readinessProbeTimeout or the end of the context.                  *)
(***************************************************************************)
SendProbe(p) ==
    /\ phase = "probing" /\ probe = NoProbe /\ accepting /\ ~ctxDone
    /\ Begin(p)
    /\ probe' = p
    /\ UNCHANGED <<phase, secret, accepting, ctxDone, late, background, publisher, outcome>>

InFlight(r) == stage[r] = "open"

Tried(p) == stage[p] # "absent"

ProbeFails ==
    /\ probe # NoProbe
    /\ stage[probe] \notin {"open", "ok"}
    /\ probe' = NoProbe
    /\ UNCHANGED <<exchangeVars, phase, secret, accepting, ctxDone, late, background, publisher, outcome>>

ProbeTimesOut ==
    /\ probe # NoProbe /\ InFlight(probe)
    /\ probe' = NoProbe /\ late' = late \cup {probe}
    /\ UNCHANGED <<exchangeVars, phase, secret, accepting, ctxDone, background, publisher, outcome>>

\* Mutant of ProbeSucceeds: any answer will do.
ProbeAnswersAnything ==
    /\ phase = "probing" /\ probe # NoProbe /\ ~InFlight(probe)
    /\ Enter("serving") /\ probe' = NoProbe
    /\ background' = "running"
    /\ UNCHANGED <<exchangeVars, secret, accepting, ctxDone, late, publisher, outcome>>

\* The onReady callback of run starts the registrar and the monitor.
ProbeSucceeds ==
    /\ phase = "probing" /\ probe # NoProbe /\ stage[probe] = "ok"
    /\ Enter("serving") /\ probe' = NoProbe
    /\ background' = "running"
    /\ UNCHANGED <<exchangeVars, secret, accepting, ctxDone, late, publisher, outcome>>

\* Mutant of GiveUp: the deadline may pass whatever the probes say.
GiveUpEarly ==
    /\ phase = "probing" /\ probe = NoProbe
    /\ Enter("serving")
    /\ UNCHANGED <<exchangeVars, secret, accepting, ctxDone, probe, late, background, publisher, outcome>>

\* "readiness probe failed, skipping onReady callback"
GiveUp ==
    /\ phase = "probing" /\ probe = NoProbe
    /\ ctxDone \/ ~accepting \/ \A p \in Probes : Tried(p)
    /\ Enter("serving")
    /\ UNCHANGED <<exchangeVars, secret, accepting, ctxDone, probe, late, background, publisher, outcome>>

(***************************************************************************)
(* The background goroutines end some time after the context, and nobody   *)
(* waits for them.                                                         *)
(***************************************************************************)
BackgroundStops ==
    /\ background = "running" /\ ctxDone /\ phase # "exited"
    /\ background' = "stopped"
    /\ UNCHANGED <<exchangeVars, phase, secret, accepting, ctxDone, probe, late, publisher, outcome>>

-----------------------------------------------------------------------------
(***************************************************************************)
(* The end of Run: Serve has failed, or the context is done and Shutdown   *)
(* closes the listener and waits for the requests under way.               *)
(***************************************************************************)
ServeErrorReturns ==
    /\ phase = "serving" /\ ~accepting
    /\ Enter("closing") /\ outcome' = "failed"
    /\ UNCHANGED <<exchangeVars, secret, accepting, ctxDone, probe, late, background, publisher>>

\* Mutant of BeginShutdown: the signal is only looked at while accepting.
BeginShutdownAccepting ==
    /\ phase = "serving" /\ ctxDone /\ accepting /\ background # "off"
    /\ Enter("draining") /\ accepting' = FALSE
    /\ UNCHANGED <<exchangeVars, secret, ctxDone, probe, late, background, publisher, outcome>>

BeginShutdown ==
    /\ phase = "serving" /\ ctxDone
    /\ Enter("draining") /\ accepting' = FALSE
    /\ UNCHANGED <<exchangeVars, secret, ctxDone, probe, late, background, publisher, outcome>>

Drained ==
    /\ phase = "draining" /\ \A r \in Requests : ~InFlight(r)
    /\ Enter("closing") /\ outcome' = "clean"
    /\ UNCHANGED <<exchangeVars, secret, accepting, ctxDone, probe, late, background, publisher>>

\* Mutant of DrainTimesOut: the error of Shutdown is dropped.
DrainTimesOutQuietly ==
    /\ phase = "draining" /\ \E r \in Requests : InFlight(r)
    /\ Enter("closing") /\ outcome' = "clean"
    /\ UNCHANGED <<exchangeVars, secret, accepting, ctxDone, probe, late, background, publisher>>

DrainTimesOut ==
    /\ phase = "draining" /\ \E r \in Requests : InFlight(r)
    /\ Enter("closing") /\ outcome' = "failed"
    /\ UNCHANGED <<exchangeVars, secret, accepting, ctxDone, probe, late, background, publisher>>

(***************************************************************************)
(* The deferred calls of run, last first: the publisher, the signal        *)
(* context (which only now ends the background after a failed Serve), and  *)
(* the listener.                                                           *)
(***************************************************************************)
ClosePublisher ==
    /\ phase = "closing"
    /\ Enter("stopping")
    /\ publisher' = IF publisher = "open" THEN "closed" ELSE publisher
    /\ UNCHANGED <<exchangeVars, secret, accepting, ctxDone, probe, late, background, outcome>>

StopSignals ==
    /\ phase = "stopping" /\ ~ctxDone
    /\ ctxDone' = TRUE
    /\ UNCHANGED <<exchangeVars, phase, secret, accepting, probe, late, background, publisher, outcome>>

Exit ==
    /\ phase = "stopping" /\ ctxDone
    /\ Enter("exited") /\ accepting' = FALSE
    /\ UNCHANGED <<exchangeVars, secret, ctxDone, probe, late, background, publisher, outcome>>

Start == Configure \/ Prepare \/ EnsurePullSecret \/ Connect \/ StartupFails

Ready == (\E p \in Probes : SendProbe(p)) \/ ProbeFails \/ ProbeTimesOut \/ ProbeSucceeds \/ GiveUp

Finish == ServeErrorReturns \/ BeginShutdown \/ Drained \/ DrainTimesOut
            \/ ClosePublisher \/ StopSignals \/ Exit

ServerNext ==
    \/ Start
    \/ Signal \/ ServeFails
    \/ \E r \in Requests : ClientArrives(r) \/ RequestChanges(r) \/ RequestEnds(r)
    \/ Ready
    \/ BackgroundStops
    \/ Finish

(***************************************************************************)
(* The calls of the startup return, timeouts of probes and of the drain    *)
(* pass, and deferred calls run.                                           *)
(***************************************************************************)
ServerSpec ==
    /\ Init /\ [][ServerNext]_vars
    /\ WF_vars(Start) /\ WF_vars(Ready) /\ WF_vars(Finish)

-----------------------------------------------------------------------------
ServerTypeOK ==
    /\ phase \in Startup \cup Serving \cup {"draining"} \cup Ending
    /\ secret \in {"absent", "stale", "ours"}
    /\ accepting \in BOOLEAN /\ ctxDone \in BOOLEAN
    /\ probe \in Probes \cup {NoProbe} /\ late \subseteq Probes
    /\ background \in {"off", "running", "stopped"}
    /\ publisher \in {"none", "open", "closed"}
    /\ outcome \in {"none", "clean", "failed"}
    /\ phase \in Ending <=> outcome # "none"
    /\ probe # NoProbe => phase = "probing" /\ Tried(probe)
    /\ stage \in [Requests -> {"absent", "open"} \cup Verdicts] /\ changed \subseteq Requests

(***************************************************************************)
(* CleanExitIsDrained: REQ-HTTP-030.  When Run returns nil no request is   *)
(* cut off: each that arrived was answered, or its connection had broken   *)
(* before.  A request still at work means that Run returned an error.      *)
(***************************************************************************)
CleanExitIsDrained ==
    outcome = "clean" =>
        /\ ~accepting
        /\ \A r \in Requests : ~InFlight(r)

(***************************************************************************)
(* BackgroundIsReady: registration and monitoring start only when a health *)
(* request has been through the whole server and was answered in time.     *)
(* They run with the pull secret in place and the publisher open; main     *)
(* does not wait for them, so the publisher may be closed under a          *)
(* publication, but only when they were told to stop or the process ends   *)
(* with an error.                                                          *)
(***************************************************************************)
BackgroundIsReady ==
    background # "off" =>
        /\ secret = "ours"
        /\ \E p \in Probes \ late : stage[p] = "ok"
        /\ publisher = "open" \/ (publisher = "closed" /\ (ctxDone \/ outcome = "failed"))

(***************************************************************************)
(* ServingWithoutBackground: a process that serves without ever having     *)
(* started registration and monitoring was told to end, had its Serve      *)
(* fail, or got no answer in time to any probe, as when the hub is slow:   *)
(* a single good probe is never wasted.                                    *)
(***************************************************************************)
ServingWithoutBackground ==
    phase = "serving" /\ background = "off" =>
        \/ ctxDone \/ ~accepting
        \/ \A p \in Probes : Tried(p) /\ (p \in late \/ stage[p] # "ok")

(***************************************************************************)
(* ServerEnds: after a signal, or when Serve has failed, the process       *)
(* exits, whatever requests, probes and startup steps are at work.         *)
(***************************************************************************)
ServerEnds ==
    ctxDone \/ (phase \in Serving /\ ~accepting) ~> phase = "exited"

=============================================================================
