----------------------------- MODULE Registrar -----------------------------
(***************************************************************************)
(* The registration goroutine of internal/registration: it registers the   *)
(* provider with the DCM registry, retrying with exponential backoff, then *)
(* polls the hub's ClusterImageSets and registers again when the supported *)
(* Kubernetes versions change.                                             *)
(*                                                                         *)
(* Every call to the hub or to the registry is one step; ClusterImageSets  *)
(* come and go between any two of them.  The registry is external: a POST  *)
(* replaces the provider's record, and when the connection or the server   *)
(* fails the caller cannot tell whether it did.                            *)
(***************************************************************************)
EXTENDS Naturals

CONSTANTS
    OCPVersions,    \* OCP versions that a ClusterImageSet can name
    Matrix,         \* the compatibility matrix, OCP to Kubernetes version
    Configs,        \* the pairs of backoffs that may be configured
    MaxChanges,     \* bound: how often the ClusterImageSets may change
    MaxFailures,    \* bound: how often a call may fail while ctx is live
    Unregistered    \* the registry has no record of the provider

ASSUME MatrixAssumption == DOMAIN Matrix \subseteq OCPVersions

\* Nothing compares the two values: the first wait may be above the maximum.
ASSUME ConfigsAssumption == Configs \subseteq [initialBackoff : Nat, maxBackoff : Nat]

ASSUME BoundsAssumption == MaxChanges \in Nat /\ MaxFailures \in Nat

VARIABLES
    cfg,        \* the backoffs that this process was configured with
    images,     \* OCP versions that have a ClusterImageSet on the hub
    pc,         \* where the goroutine is
    initial,    \* registerWithRetry was called before the baseline, not by a tick
    payload,    \* kubernetesSupportedVersions of the request under way
    current,    \* currentVersions of the tick under way
    last,       \* lastVersions
    backoff,
    advertised, \* external: the versions in the registry's record
    ctxDone,
    round,      \* history: what happened during the registration under way
    slips,      \* history: why lastVersions may differ from the registry's record
    changes, failures

vars == <<cfg, images, pc, initial, payload, current, last, backoff, advertised,
          ctxDone, round, slips, changes, failures>>

K8sVersions == {Matrix[v] : v \in DOMAIN Matrix}

(***************************************************************************)
(* DiscoverVersions: the sorted list of distinct versions, as a set.  An   *)
(* image whose OCP version the matrix lacks adds nothing.                  *)
(***************************************************************************)
DiscoverVersions == {Matrix[v] : v \in images \cap DOMAIN Matrix}

InRegistration == {"discover", "post", "backoff"}

(***************************************************************************)
(* In round: the ClusterImageSets "moved" during this registration, or a   *)
(* POST "failed" that may have been applied.  In slips: they moved during  *)
(* the last registration that succeeded or before the baseline was read    *)
(* ("moved"), or a later one was given up after such a POST ("unfinished").*)
(***************************************************************************)
Slips == {"moved", "unfinished"}

\* No wait is longer than the maximum, unless the initial one is as configured.
BackoffCapped == backoff = cfg.initialBackoff \/ backoff <= cfg.maxBackoff

TypeOK ==
    /\ cfg \in Configs
    /\ images \subseteq OCPVersions
    /\ pc \in InRegistration \cup {"idle", "baseline", "watch", "exited"}
    /\ initial \in BOOLEAN
    /\ payload \subseteq K8sVersions
    /\ current \subseteq K8sVersions
    /\ last \subseteq K8sVersions
    /\ backoff \in Nat /\ BackoffCapped
    /\ advertised = Unregistered \/ advertised \subseteq K8sVersions
    /\ ctxDone \in BOOLEAN
    /\ round \subseteq {"moved", "failed"}
    /\ slips \subseteq Slips
    /\ changes \in 0..MaxChanges
    /\ failures \in 0..MaxFailures

Init ==
    /\ cfg \in Configs
    /\ images \in SUBSET OCPVersions
    /\ pc = "idle"
    /\ initial = TRUE
    /\ payload = {} /\ current = {} /\ last = {}
    /\ backoff = cfg.initialBackoff
    /\ advertised = Unregistered
    /\ ctxDone = FALSE
    /\ round = {}
    /\ slips = {}
    /\ changes = 0 /\ failures = 0

-----------------------------------------------------------------------------
(* The environment.                                                        *)

ChangeImages ==
    /\ changes < MaxChanges
    /\ changes' = changes + 1
    /\ \E v \in OCPVersions : images' = IF v \in images THEN images \ {v} ELSE images \cup {v}
    /\ round' = IF pc \in InRegistration THEN round \cup {"moved"} ELSE round
    /\ slips' = IF pc = "baseline" THEN slips \cup {"moved"} ELSE slips
    /\ UNCHANGED <<cfg, pc, initial, payload, current, last, backoff, advertised, ctxDone, failures>>

Cancel ==
    /\ ~ctxDone
    /\ ctxDone' = TRUE
    /\ UNCHANGED <<cfg, images, pc, initial, payload, current, last, backoff, advertised,
                   slips, round, changes, failures>>

\* A call to the hub or to the registry fails: a fault, or ctx is done.
CallFails ==
    IF ctxDone THEN UNCHANGED failures
    ELSE failures < MaxFailures /\ failures' = failures + 1

-----------------------------------------------------------------------------
(* Start, and registerWithRetry with Register inlined.                     *)

Start ==
    /\ pc = "idle"
    /\ pc' = "discover"
    /\ UNCHANGED <<cfg, images, initial, payload, current, last, backoff, advertised,
                   ctxDone, slips, round, changes, failures>>

RegisterDiscovers ==
    /\ pc = "discover"
    /\ payload' = DiscoverVersions
    /\ pc' = "post"
    /\ UNCHANGED <<cfg, images, initial, current, last, backoff, advertised,
                   ctxDone, slips, round, changes, failures>>

\* Mutant of GiveUp: a failed re-registration ends run, as a failed first one does.
GiveUpForGood ==
    /\ pc' = "exited"
    /\ slips' = IF "failed" \in round THEN slips \cup {"unfinished"} ELSE slips

\* registerWithRetry returns false: run ends, or goes back to its ticker.
GiveUp ==
    /\ pc' = IF initial THEN "exited" ELSE "watch"
    /\ slips' = IF "failed" \in round THEN slips \cup {"unfinished"} ELSE slips

\* The error of DiscoverVersions is not a retryableError.
RegisterDiscoveryFails ==
    /\ pc = "discover"
    /\ CallFails
    /\ GiveUp
    /\ UNCHANGED <<cfg, images, initial, payload, current, last, backoff, advertised,
                   ctxDone, round, changes>>

\* Mutant of PostAccepted: lastVersions is not brought up to date.
PostKeepsLast ==
    /\ pc = "post"
    /\ advertised' = payload
    /\ slips' = round \cap {"moved"}
    /\ pc' = IF initial THEN "baseline" ELSE "watch"
    /\ UNCHANGED <<cfg, images, initial, payload, current, last, backoff,
                   ctxDone, round, changes, failures>>

\* 200 or 201: registerWithRetry returns true.
PostAccepted ==
    /\ pc = "post"
    /\ advertised' = payload
    /\ slips' = round \cap {"moved"}
    /\ pc' = IF initial THEN "baseline" ELSE "watch"
    /\ last' = IF initial THEN last ELSE current
    /\ UNCHANGED <<cfg, images, initial, payload, current, backoff,
                   ctxDone, round, changes, failures>>

\* 4xx: not retryable.
PostRejected ==
    /\ pc = "post"
    /\ CallFails
    /\ GiveUp
    /\ UNCHANGED <<cfg, images, initial, payload, current, last, backoff, advertised,
                   ctxDone, round, changes>>

\* A transport error or another status: retry, and the POST may have been applied.
PostFails ==
    /\ pc = "post"
    /\ CallFails
    /\ advertised' \in {advertised, payload}
    /\ round' = round \cup {"failed"}
    /\ pc' = "backoff"
    /\ UNCHANGED <<cfg, images, initial, payload, current, last, backoff,
                   ctxDone, slips, changes>>

\* Mutant of BackoffElapses: no cap on the doubled backoff.
BackoffUncapped ==
    /\ pc = "backoff"
    /\ backoff' = 2 * backoff
    /\ pc' = "discover"
    /\ UNCHANGED <<cfg, images, initial, payload, current, last, advertised,
                   ctxDone, slips, round, changes, failures>>

BackoffElapses ==
    /\ pc = "backoff"
    /\ backoff' = IF 2 * backoff > cfg.maxBackoff THEN cfg.maxBackoff ELSE 2 * backoff
    /\ pc' = "discover"
    /\ UNCHANGED <<cfg, images, initial, payload, current, last, advertised,
                   ctxDone, slips, round, changes, failures>>

\* Mutant of BackoffCancelled: the wait does not look at ctx.
BackoffIgnoresCancel ==
    /\ pc = "backoff" /\ ctxDone
    /\ UNCHANGED vars

BackoffCancelled ==
    /\ pc = "backoff"
    /\ ctxDone
    /\ GiveUp
    /\ UNCHANGED <<cfg, images, initial, payload, current, last, backoff, advertised,
                   ctxDone, round, changes, failures>>

-----------------------------------------------------------------------------
(* run after the first registration: the baseline and the ticker.          *)

Baseline ==
    /\ pc = "baseline"
    /\ last' = DiscoverVersions
    /\ pc' = "watch"
    /\ UNCHANGED <<cfg, images, initial, payload, current, backoff, advertised,
                   ctxDone, slips, round, changes, failures>>

BaselineFails ==
    /\ pc = "baseline"
    /\ CallFails
    /\ pc' = "exited"
    /\ UNCHANGED <<cfg, images, initial, payload, current, last, backoff, advertised,
                   ctxDone, slips, round, changes>>

\* Mutant of TickChanged: a version that disappears is no change.
TickNeverShrinks ==
    /\ pc = "watch"
    /\ ~(DiscoverVersions \subseteq last)
    /\ current' = DiscoverVersions
    /\ initial' = FALSE
    /\ backoff' = cfg.initialBackoff
    /\ round' = {}
    /\ pc' = "discover"
    /\ UNCHANGED <<cfg, images, payload, last, advertised, ctxDone, slips, changes, failures>>

TickChanged ==
    /\ pc = "watch"
    /\ DiscoverVersions # last
    /\ current' = DiscoverVersions
    /\ initial' = FALSE
    /\ backoff' = cfg.initialBackoff
    /\ round' = {}
    /\ pc' = "discover"
    /\ UNCHANGED <<cfg, images, payload, last, advertised, ctxDone, slips, changes, failures>>

TickFails ==
    /\ pc = "watch"
    /\ CallFails
    /\ UNCHANGED <<cfg, images, pc, initial, payload, current, last, backoff, advertised,
                   ctxDone, slips, round, changes>>

WatchCancelled ==
    /\ pc = "watch"
    /\ ctxDone
    /\ pc' = "exited"
    /\ UNCHANGED <<cfg, images, initial, payload, current, last, backoff, advertised,
                   ctxDone, slips, round, changes, failures>>

\* A tick that finds nothing new, and the time after the goroutine has ended.
NothingToDo ==
    /\ pc = "exited" \/ (pc = "watch" /\ DiscoverVersions = last)
    /\ UNCHANGED vars

Register == RegisterDiscovers \/ RegisterDiscoveryFails \/ PostAccepted \/ PostRejected \/ PostFails

Step ==
    \/ Start \/ Register \/ BackoffElapses \/ BackoffCancelled
    \/ Baseline \/ BaselineFails \/ TickChanged \/ WatchCancelled

Next == Step \/ TickFails \/ NothingToDo \/ ChangeImages \/ Cancel

SafetySpec == Init /\ [][Next]_vars

(***************************************************************************)
(* The goroutine runs: calls return, timers and tickers fire.  A wait on   *)
(* ctx and a timer that ends over and over with ctx done is left by ctx in *)
(* the end: select chooses among ready cases at random.                    *)
(***************************************************************************)
Fairness == WF_vars(Step) /\ SF_vars(BackoffCancelled) /\ SF_vars(WatchCancelled)

Spec == SafetySpec /\ Fairness

-----------------------------------------------------------------------------
(***************************************************************************)
(* LastIsAdvertised: while run waits for its ticker, lastVersions is what  *)
(* the registry holds, unless a slip happened in the last registration:    *)
(* the comparison of a tick then tells whether the registry is out of      *)
(* date.  It relates two discoveries and a request, three calls apart.     *)
(***************************************************************************)
LastIsAdvertised == pc = "watch" /\ slips = {} => last = advertised

(***************************************************************************)
(* WatchSurvives: once the goroutine has reached its ticker, no failed     *)
(* List, no 4xx and no other failure of a re-registration ends it; only    *)
(* cancellation does.                                                      *)
(***************************************************************************)
WatchSurvives ==
    [][pc = "watch" \/ ~initial => (pc' = "exited" => pc = "exited" \/ ctxDone)]_vars

(***************************************************************************)
(* AdvertisedConverges: once ClusterImageSets and calls are stable, the    *)
(* registry ends up with the versions of the hub for good, unless the      *)
(* goroutine has ended or one of the slips happened.                       *)
(***************************************************************************)
AdvertisedConverges ==
    <>[](advertised = DiscoverVersions \/ pc = "exited" \/ slips # {})

(***************************************************************************)
(* CancelEnds: after a cancellation the goroutine ends (Done is closed),   *)
(* even if the registry stays unreachable.                                 *)
(***************************************************************************)
CancelEnds == ctxDone ~> pc = "exited"

=============================================================================
