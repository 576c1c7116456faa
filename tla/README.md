# Formal models of the ACM cluster service provider

TLA+ models of the DCM service provider for ACM clusters, the TLC runs that check them on small
instances and the theorems TLAPS proves about them. `PROJECT.json` lists components, runs, mutants,
the map from definitions to source lines, findings, hazards and theorems.

## The system

One Go process. `main` wires the parts, an HTTP server runs until SIGTERM, and once the server
answers its own readiness probe two background activities start: registration and monitoring.

| Part | State | Operations | Concurrency and failure |
|---|---|---|---|
| Cluster service (`internal/handler`, `internal/cluster`) | none of its own; HostedClusters and NodePools on the hub | POST, GET, LIST, DELETE of `/clusters` | requests run side by side without a lock; several Kubernetes calls each; a deadline per request; a rollback |
| Status monitor (`internal/monitoring`) | `instanceState` per instance id | informer add/update/delete/resync, submit, publish with retries, shutdown | two informer goroutines, one goroutine per debounce timer, mutexes held in parts of a handler |
| Debouncer (`debouncer.go`) | `timers`, `stopped`, a WaitGroup | Submit, timer callback, Stop | callbacks that fired but do not hold the mutex yet |
| Status mapping (`internal/service/status`, `extract*`) | none | conditions to status, composite, message | - |
| Registrar (`internal/registration`) | `lastVersions`, the backoff, position in `run` | register with retries, poll ClusterImageSets, re-register | three separate reads of the hub per cycle, lost replies, 4xx, cancellation |
| Server (`internal/apiserver`, `cmd`) | readiness, shutdown | run, Run, waitForReady, onReady | probe timeout, drain timeout, shutdown that does not join the background goroutines |
| Request path (`internal/apiserver` middlewares, generated router and strict handler, `internal/handler`) | per request: recorded status, context | validate, bind, decode, handle, answer, recover, log | one goroutine per request, a deadline, panics, broken connections |
| Reads (`GetCluster`, `ListClusters`, `version.go`) | none | GET, LIST by pages, version matrix both ways | several reads of a hub that changes in between |
| Health, pull secret | - | the probe's answer; one write at startup | a slow hub |
| Configuration, API types, generated client | - | - | none |

The parts meet in few places. The cluster service writes the HostedClusters and NodePools that the
monitor watches, tied together by the label `dcm.project/dcm-instance-id`; the monitor relies on the
id being unique, which only the cluster service's check before creation stands for. The registrar
advertises the versions that the cluster service resolves against the same ClusterImageSets.

What makes each part correct:

* debouncer: no accepted event is lost, nothing is published after Stop, a quiet key is published;
* monitor: the consumers end up with the worst-of status of the HostedCluster and its NodePool, or
  with DELETED; events lost on the way are lost for a known reason; shutdown completes;
* registrar: the registry holds the hub's versions, failures do not end the watch, cancellation does;
* cluster service: a failed create leaves nothing behind, a successful one is not damaged by others,
  a delete deletes what it found;
* reads: a GET answers with the cluster it was asked for and the version it was created with, a walk
  over pages misses and repeats clusters only for a change before them, an advertised version can be
  created;
* request path: the answer and the log line tell the client and the operator what was done;
* server: the process ends after a signal, drains its requests first, and starts its background once.

## Modules

| Module | Models | Uses |
|---|---|---|
| `Debouncer` | `debouncer.go` | |
| `StatusMapping` | `service/status/*.go`, `compositeMessage` and the `extract*` functions | |
| `ConditionPair` | any conditions of a HostedCluster and a NodePool, given to the mappers | EXTENDS `StatusMapping` |
| `StatusMonitor` | `monitor.go`, `reconcile.go`, composed with the two above | EXTENDS `StatusMapping`, INSTANCE `Debouncer` |
| `MonitorRestart` | the monitor with crashes, restarts and the initial list | EXTENDS `StatusMonitor` |
| `Registrar` | `registration.go`, `DiscoverVersions` | |
| `ClusterOps` | POST and DELETE: `handler.go`, `create.go`, `operations.go`, dispatcher and platform services | |
| `Listing` | `ListClusters` and its page tokens | |
| `Reading` | `GetCluster`, `convert.go`, `version.go`, `DiscoverVersions` | EXTENDS `StatusMapping` |
| `Exchange` | abstract: what the server promises of a request | |
| `Api` | middlewares, generated server, `handler.go`, error mapping | implements `Exchange` |
| `Server` | `main.go`, `apiserver/server.go` | EXTENDS `Exchange` |
| `*MC` | instances for TLC | |
| `DebouncerProofs`, `MonitorProofs`, `RegistrarProofs`, `ClusterOpsProofs`, `ListingProofs`, `ReadingProofs`, `ApiProofs`, `ServerProofs` | theorems | TLAPS |

Definitions named "Mutant of X" are faulty variants of X that a property must detect; no
specification uses them.

### Debouncer

A stretch of code that holds `d.mu` is one step. `timers` is `d.timers`; `timer` holds the timer
objects with their goroutines (`armed`, `fired`: the goroutine exists and `Timer.Stop` is too late,
`publishing`: between `wg.Add` and `wg.Done`). `Accept`/`SubmitAfterStop` are Submit, `Fire` is the
runtime, `CallbackStopped`/`CallbackPublishes` the callback under the mutex, `PublishReturns` the
return of `publishFn`, `Stop`/`StopReturns` the two sides of `wg.Wait`. `newest` is history.
Timer slots are reused; Submit needs a free slot, which is the bound on goroutines alive at once.

### StatusMapping

A watched object is its `deletionTimestamp` flag and its list of conditions, items that are no map
included. Texts are opaque; a message is a prefix and the text of a condition. `extractConditions`
keeps the items that are maps at their places; the scans for the first condition of a type are the least
of those places. `ConditionPair` is no part of the program: its behaviours append conditions to the lists
of a HostedCluster and a NodePool, so that its invariants speak of every pair of lists.

### StatusMonitor

Each informer calls its handler from one goroutine, so `handler["hc"]` and `handler["np"]` hold at
most one computed and not yet submitted event each. A notification is one step up to the release
of `state.mu` (`NotifyHostedCluster`, `NotifyNodePool`, `DeleteHostedCluster`, `DeleteNodePool`,
`SkipUnlabelled`), the submission another. Handlers only look at the object they are given, so a
resource changes in the step in which its handler sees it. `publish` is the loop of
`publishWithRetry` for each publishing timer. `latest` is history: where the event last computed
for an instance is, or why it was lost.

### Registrar

`pc` is the place in `registerWithRetry` or `run`; each call to the hub or the registry is one step.
A list of versions is a set (the code sorts and deduplicates it). `cfg` is the pair of backoffs that the
process was configured with, any pair of `Configs`: nothing compares the two. `round` and `slips` are history:
what happened during a registration that can make `lastVersions` differ from the registry's record.

### ClusterOps

Every Kubernetes call of a request is a step. Names are the unit of uniqueness on the hub, labels
carry the id, deletion marks the object and the operator removes it later. `Expire` is the deadline
of `requestTimeoutMiddleware`: from then on calls fail. A call that fails while the context is live
(at most `MaxFaults` times) may have been applied. `by`, `target` and `unsure` are history.

### MonitorRestart

`hub` is what the resources are, `store` what the informers of the running process have seen of
them. `CrashAndRestart` drops everything in memory (record, timers, caches) and comes to `Init` again;
`RelistHostedCluster` and `RelistNodePool` are the informers' initial list, which delivers every
resource as an addition; `ChangeUnseen` is a change before the list, the time without a process
included. `missed` is history: instances whose deletion no process has published.

### Listing

A walk over pages by one client, with any page size at each step, while clusters come and go. A
token is an offset, as in `encodePageToken`; a name is a number in the order of names. `seen`,
`steady`, `created` and `deleted` are history of the walk.

### Reading

`matrix` is the compatibility matrix of the running process; `Restart` cuts a GET off and reads another
one, as `main` reads the file at its start, while the clusters on the hub stay. A create falls back on the
default matrix when the file has no entries (`resolverMatrix`), a GET does not. `remapped` is history: a
matrix was read that has another version, or none, for a cluster's image.

A GET is two steps, as the code makes two reads: `FindByInstanceID` (the List by label) and `ExtractKubeconfig`
(the Secret), between which the cluster may go and another of its name come. `Create` takes
the release image that `Resolve` finds; k8sToOCP ranges over a Go map, so its result is a set from
which any member may be chosen. `ReleaseImageToK8sVersion` is the way back. `ReadAgreesWithEvents` is stated for
lists without a repeated type, which Kubernetes keys them by: `conditionMessage` skips conditions without a
text and the monitor's `extractHostedClusterMessage` does not, so a repeated type could tell them apart.

### Exchange and Api

`Exchange` is the abstract specification: a request begins, changes the hub at most once, and ends
with a verdict from which the client can tell whether it did; only an error or a broken answer leaves
that open. `Api` is the stack that implements it: `Validate` (OpenAPI middleware), `Bind` and `Decode`
(generated wrapper and strict handler), `Handle` (the Handler's own checks), the calls of the cluster
service seen from outside (`Serve`; `WriteHub` is the write itself, which is done before the call returns, if
it returns), the answer in two steps (`SendStatus`; `SendBody` or `SendBreaks`), and `Log`. `Panic` may come at
every stage from the validation to the log line: the stack is unwound past the logging middleware, and
`Recover` is what the client is left with, as `rfc9457RecoveryMiddleware` decides it: a 500 if no status line
is out (`wroteHeader`), else nothing more than what has been sent, and no answer at all after
`http.ErrAbortHandler`, which is thrown on. `Expire` is the deadline or the client's leaving. `KeepsExchange` is the refinement, with `StageOf` and `acted` as the
mapping; it is both model-checked and proved.

### Server

`phase` is the place in `run` and `Run`: the startup calls, probing, serving, draining, the deferred
calls, exit. Requests, client's and probe's, are the actions of `Exchange`, which `Api` implements.
`late` are probes whose one second passed, `background` the registrar's and the monitor's goroutines,
`publisher` the NATS connection they publish on.

## Runs

Passing runs:

| Run | Shows | Bounds |
|---|---|---|
| `debouncer` | `NothingLost`, `TrackedIsNewest`, `QuietAfterStop`; under fairness `SettledIsHandedOver`, `StopTerminates` | 2 keys, 4 timers: one key can own a publishing, a fired, a forgotten and a new timer |
| `status_mapping` | `OrderIrrelevant` (every order of the lists), `MessageFollowsDriver`, `TableDecides`: the mappers against a reference table | all pairs of objects with 4 conditions between them: enough for a repeated type beside every pair of types the mappers combine |
| `monitor` | `LatestIsAccountedFor`, `QuietMonitorAgrees`; under fairness `EventsSettle`, `ShutdownCompletes` | 1 instance, 3 changes, 3 timers, 1 retry, 2 failures: an event can be overtaken, dropped and replaced |
| `monitor_twins` | `LatestIsAccountedFor` with a duplicated id and an unlabelled resource | 2 HostedClusters, 2 NodePools, 2 timers, 4 changes |
| `monitor_restart` | `LastPublishedIsComposite`, `ViewIsCurrent`, `RestartCatchesUp`, `MessageIsCurrent` | 5 HostedCluster and 5 NodePool contents (each drives, ties, and changes its message only), 4 changes, 2 timers, 1 crash: a deletion can fall before, into and after the gap; no failing publication, which `monitor` has |
| `registrar` | `TypeOK` (the backoff's bounds), `LastIsAdvertised`, `WatchSurvives`; under fairness `AdvertisedConverges`, `CancelEnds` | 3 versions (one not in the matrix), 3 changes, 3 failures, two pairs of backoffs: 1 and 3, so that the doubling meets the cap, and 5 and 3, so that the first wait is above it |
| `cluster_ops` | `FailedCreateLeavesNothing`, `CreatedStays`, `DeletedIsGone` | 4 requests, 2 ids, 2 names, 1 failing call; with 3 requests the name of a deleted cluster cannot be reused beside a twin id |
| `listing` | `NoRepeat`, `NoSkip`; under fairness `WalkEnds` | 4 names, sizes 1 and 2, the default 3, and ones out of range, 3 changes, 1 failure: a walk has up to 4 pages, and a change can fall before, on and after each boundary |
| `reading` | `AnswerIsOwn`, `VersionReadsBack`, `AdvertisedIsCreatable`, `ReadAgreesWithEvents` | 2 ids that use one name in turn, 3 OCP versions of which one is unknown, 3 matrices between which restarts choose (one-to-one, two OCP versions for one Kubernetes version, no entries), 6 contents, one with a repeated type |
| `api` | `ErrorsAreProblems`, `LogTellsAnswer`, the refinement `KeepsExchange`; under fairness `EveryRequestEnds` | a request of any operation and flaw beside a create or delete, 2 ids of which one is "health", a hub with and without the other; a panic or an abort at every stage |
| `server` | `CleanExitIsDrained`, `BackgroundIsReady`, `ServingWithoutBackground`; under fairness `ServerEnds` | 2 client requests and 2 probes: a probe may fail, be late, and be followed by another |

The type invariants of all modules but the registrar's are proved and not run. Each property has a
mutant in `PROJECT.json`: a plausible bug in the mapped code that the run finds.

One run shows where the code departs from a document (details under `findings`):

| Run | Promise | What happens |
|---|---|---|
| `monitor_dropped` | TD-006 | a dropped event is never sent again: `lastPublished` already has it |

Smaller departures met while modelling. They have no run of their own; where a property above would
otherwise not hold, its statement makes the exception.

Monitor:

* `debouncer.go:27` "only the last submitted event per key fires": a fired timer that waits for the mutex
  publishes the superseded event (`LatestIsAccountedFor` has it as a cause of loss).
* REQ-MON-130: DELETED may be overtaken by an older NodePool event, whose handler had released `state.mu`
  and not yet submitted (`monitor.go:88`; "reordered" among the causes of loss).
* REQ-MON-130: a HostedCluster deleted while no process runs is never published as DELETED (`missed` in
  `RestartCatchesUp`).
* REQ-MON-240: a NodePool deleted before its HostedCluster is seen keeps its status in the composite
  (`QuietMonitorAgrees` asks for the status on record).
* REQ-MON-210: a NodePool that loses its conditions keeps its old status (`ViewIsCurrent`).
* REQ-MON-230: a NodePool in PENDING over a READY HostedCluster gives an empty message without the prefix.
* REQ-ACM-160: Available=True with Progressing other than False is READY (`TableDecides`).

Registrar and versions:

* REQ-REG-040: a failed List of ClusterImageSets is not retried and ends the first registration.
* REQ-REG-110: versions are read again for the baseline and at each tick after the payload's read; a
  change in between is not advertised (`registration.go:196`; `slips` in `LastIsAdvertised`).
* Nothing asks that the initial backoff be at most the maximum (`config.go:32`): if it is not, the first wait
  of each registration is above the maximum (`BackoffCapped` in `TypeOK`).
* REQ-ACM-030: a matrix in which two OCP versions share a Kubernetes version may refuse an advertised
  version, and not always (`AdvertisedIsCreatable`). The default matrix has no such pair
  (`OneToOneCreatable`).
* An empty matrix file makes a create fall back on the default matrix, while a GET then shows no version,
  and another file after a restart may show another version than a cluster was created for (`remapped` in
  `VersionReadsBack`).

Cluster service:

* REQ-API-102 as the monitor relies on it (spec, line 1176): two concurrent creates with one id and two names
  both succeed (`CreatedStays` holds for both).
* TD-003, REQ-ACM-170: a rollback that starts after the deadline deletes with the expired context and leaves
  the HostedCluster behind (`create.go:76`; excluded in `FailedCreateLeavesNothing`).
* REQ-API-340: a delete whose HostedCluster goes away after the lookup answers 500 (`DeletedIsGone`).
* `operations.go:124` "by instance ID": the Delete goes by name, and if the name has changed hands since the
  lookup it hits a cluster with another id. `CreatedStays` therefore exempts every cluster whose name was
  ever used by a create of an id that a delete asks for.
* REQ-API-220: the answer for a READY cluster may lack its kubeconfig, when the Secret is not there yet.

HTTP:

* REQ-API-180: the path of a cluster with the id "health" is that of `GET /clusters/health`, so a GET of it
  answers with the health document; `HealthId` in `Api`.
* REQ-API-020: unknown paths and bodies that only Go cannot decode are answered in plain text, and a known
  path with another method by an empty 405; a panic behind the status line may leave a cut-off problem
  document (`ErrorsAreProblems`).
* REQ-HTTP-060: a request that panics has no line "request completed". Its answer is a 500 only if its status
  line was not out yet; otherwise the client holds the answer that was under way, whole or cut off, and after
  `http.ErrAbortHandler` none (`LogTellsAnswer`).
* The default WriteTimeout of 15 s is shorter than the request timeout of 30 s: a late answer is broken off
  (`SendBreaks`).
* REQ-REG-010: if every readiness probe is late, `onReady` is skipped for good and the process serves without
  registration and monitoring (`ServingWithoutBackground`).
* A failed Serve closes the publisher before the context is cancelled, and `main` never waits for the
  monitor: an event may be published on a closed connection (`BackgroundIsReady`).

## Fairness

* Debouncer and monitor: timers fire, goroutines get the mutex, handlers proceed to Submit, a publish
  attempt and a backoff end, deferred calls run, informers resync while the monitor runs. Weak
  fairness of each, as the Go runtime and bounded retries give. Nobody need submit, change a
  resource or cancel.
* Registrar: its goroutine runs (weak fairness of its steps). Strong fairness of the two
  cancellation branches: `select` chooses among ready cases at random, so a loop that meets `ctx.Done()`
  again and again takes it in the end.
* Listing: a client that has begun a walk goes on with it, and the server answers it. Failures, lost
  answers and changes are bounded, as no walk over an ever-changing list need end.
* Api: the server takes its own steps (`Process`), and deadlines pass (`Expire`). The calls to the hub have
  no fairness: `EveryRequestEnds` holds because the context ends them. This assumes a request timeout above 0, as the
  default of 30 s is: with 0 `Run` sets no deadline (`server.go:125`).
* Server: the startup calls return, timeouts of the probe and of the drain pass, and deferred calls run
  (`Start`, `Ready`, `Finish`). Requests, signals and a failing Serve have no fairness.
* MonitorRestart, Reading and ClusterOps are checked for safety only.

## Proofs

Proved by TLAPS for every value of the constants, under the named assumptions of the modules (sentinel
values are not in the sets they are distinguished from; bounds are natural numbers; the
backoffs are not negative; each matrix maps known versions; the conditions a GET reads are a typed
list, `ObjectsAssumption`; no timer of the monitor is the sentinel for none, `TimersAssumption`). With it
every safety property that a passing run checks is a theorem.

* `DebouncerProofs`: `TypeOK`, `NothingLost`, `TrackedIsNewest`, `QuietAfterStop`. They are inductive only
  together: that Submit stops nobody else's timer needs "a tracked timer is the newest" and "a newest
  timer carries its key"; `QuietAfterStop` needs `StopFlag`, that `d.stopped` is set exactly when Stop has
  been called.
* `MonitorProofs`: `LatestIsAccountedFor`, `QuietMonitorAgrees` for `StatusMonitor`; `TypeOK`,
  `LastPublishedIsComposite`, `ViewIsCurrent`, `LatestIsAccountedFor`, `RestartCatchesUp`, `MessageIsCurrent` for `MonitorRestart`, with
  any number of resources per instance and any contents. The four handlers are first shown sound as
  operators (`SoundResult`: an event is computed when and only when the intended status is another one).
  The invariant adds to the properties that a timer's event is of its key, that a stopped debouncer
  means a cancelled context, and that every attempt but the first comes of a counted failure
  (`TimersKeyed`, `AttemptsCounted`). Steps outside the handlers are covered by one lemma, `StepTracks`: the
  last event of an instance stays put, is lost for a cause, gets a timer or gets out. With crashes,
  `HubSeen` says that an unlisted resource is unknown, so a listing is a notification like any other;
  `RestartCatchesUp` needs in addition that an instance of which this process has computed nothing has
  nothing on its way (`Unheard`) and that its last event is right, or its deletion missed, or its
  HostedCluster still to be listed (`Owed`). `MessageIsCurrent` (`CurrentMessages`) holds although hcMsg is
  refreshed only when the status changes: the invariant `Noted` says that hcMsg is empty unless the
  recorded status is FAILED or UNAVAILABLE and that npMsg is current whenever the recorded NodePool
  status is; a status that a NodePool's outranks has no message of its own to be out of date
  (`OutrankedIsPlain`), and a HostedCluster that drives an event has just been read.
  `UsesDebouncer` is a refinement: each step of the monitor is a step of `Debouncer` or leaves its
  variables alone. What `DebouncerProofs` proves therefore holds inside the monitor; `ReturnIsFinal`,
  that nothing is published after Start has returned, is `StopIsFinal` carried over in this way.
* `RegistrarProofs`: `TypeOK` (with the bound on the backoff, for every pair of configured values: above the
  maximum it can only be the initial one), `LastIsAdvertised`, `WatchSurvives`. The
  strengthening follows the versions through the calls: what was read is still what the hub has
  (`Fresh`), an unfinished registration has not touched the registry (`Untouched`), before the baseline
  the registry has the hub's versions (`BaselineDue`), each unless the history says otherwise.
* `ClusterOpsProofs`: `TypeOK`, `FailedCreateLeavesNothing`, `DeletedIsGone`, `CreatedStays`, for any number of concurrent
  requests and failed calls. Writes go by name, so the strengthening ties objects to requests: a
  HostedCluster has the name and id of the create that made it, which is past its Create call (`Made`); a
  delete goes for the name of the create that made what it found (`Targeted`); a request that has replied
  is over (`Replied`); one under way has what its calls need (`Parsed`). Most steps are covered by one
  lemma, `Frame`: no HostedCluster appears, none is taken off deletion, one request moves. `CreatedStays`
  has the invariant `StayInv`: a create whose HostedCluster has been made holds its name with an object of
  its own (`Held`), unless a delete came for an id under which that name was ever created (`Undisturbed`);
  what a delete aims at has the name and id of some create (`Known`), NodePools included (`PoolsMade`).
* `ListingProofs`: `TypeOK`, `NoRepeat`, `NoSkip` for any set of names, page sizes and changes. The offset is
  the number of names below a boundary, up to changes before it; that a name seen lies below it and a
  steady one not seen lies above it, unless pushed back or pulled forward, is the invariant `WalkInv`
  (`ShownIsBehind`, `UnshownIsAhead`, `AnswerFits`). `CompleteWalk` concludes that a walk during which
  nothing changes shows every cluster exactly once; it needs besides that every page is a part of the
  list (`PagesOfTheList`).
* `ReadingProofs`, on the mapping (`ConditionPair`, lists of any length and any items): `OrderIrrelevant`,
  `MessageFollowsDriver`, `TableDecides`. A scan for the first condition is a least element, and that
  there is one comes without induction over the list from the well-foundedness of the naturals
  (`MinExists`). While no type is repeated "the first condition of a type" is "the condition of that type"
  (`HasStatus`), which another order does not change (`Reordered`).
* `ReadingProofs`, on `Reading`: `TypeOK`, `AnswerIsOwn`, `VersionReadsBack`, `AdvertisedIsCreatable`; and `OneToOneCreatable`, that
  while the provider runs with a one-to-one matrix no advertised version is refused. Every cluster that
  was not remapped has an image to which the running process's matrix gives the version it was asked for
  (`ClustersChosen`), a restart marks the others (`RestartKeepsIInv`), a Secret belongs to the cluster of its name as long as
  that lives (`SecretsOwned`), and a GET under way knows when its cluster was replaced (`GetSound`).
  `ReadAgreesWithEvents` rests on the lemmas of the mapping: the first condition of a type and the first
  that has a text differ only where there is no text (`SameMessage`).
* `ApiProofs`: `ApiTypeOK`, `ErrorsAreProblems`, `LogTellsAnswer` and the refinement `KeepsExchange`. The
  invariant is local to a request (`Local`): it acts only from the service on, the answer in `reply` and
  the one on the wire are honest about it, a status line that is out is that of `reply` and recorded
  (`SendsInOrder`), and what a request is left with after its body, a broken connection or a panic is
  `Delivered`. `NextRefines`
  maps each step to a step of `Exchange` or to none. `ClientCanTell` (an accepted request changed the hub, a
  refused one did not) and `NothingAfterAnswer` (nothing is done for a request that has ended) are proved
  of `Exchange` and carried over.
* `ServerProofs`: `ServerTypeOK`, `CleanExitIsDrained`, `BackgroundIsReady`, `ServingWithoutBackground` for any number
  of requests and probes. Needed besides: the listener is open only while Run serves, and a drain or a
  clean exit comes of a signal (`Listening`); what the startup has put in place (`Prepared`); a probe left
  behind was late or had no good answer (`ProbesSettle`). `UsesExchange` shows that the process as a whole
  implements `Exchange`, and with it `CleanExitSettles`: after a clean exit every client can tell what was
  done for it, but for an error or a broken connection.

Only model-checked: everything under fairness (`SettledIsHandedOver`, `StopTerminates`, `EventsSettle`,
`ShutdownCompletes`, `AdvertisedConverges`, `CancelEnds`, `WalkEnds`, `EveryRequestEnds`, `ServerEnds`), as
liveness and ENABLED are beyond this prover; and `DroppedIsRecovered`, which fails.

## Not modelled

* Configuration: environment variables parsed by a library once at startup; the values are CONSTANTS.
* `api/v1alpha1/types.gen.go`, `spec.gen.go` and `pkg/client/client.gen.go`: data types, an embedded document and
  a generated client that nothing in the process calls. They have no state and decide nothing. They
  are nearly a quarter of the implementation's lines.
* The CloudEvent envelope and the NATS client's own reconnection buffer: a Publish succeeds or fails.
* Contents of the built HostedCluster and NodePool beyond name and labels, console URI, API endpoint,
  timestamps, titles and details of problem documents, logging other than the line "request completed".
* Which CRDs the health endpoint looks for, and the Get, Create and Update of the pull secret one by
  one: the first is an answer that may be late, the second one step that may fail before or after its
  write.
* `seenHC`/`seenNP` of the monitor, which only choose a log line.

## Plan

Done, in this order: Debouncer, StatusMapping, StatusMonitor, Registrar, ClusterOps, Listing, Reading,
Exchange and Api, Server, MonitorRestart; proofs about each of them.

What would come next:

1. A composition of ClusterOps and StatusMonitor: what duplicate ids, which concurrent creates can make, do
   to the published status of each cluster.
2. `UsesDebouncer` for MonitorRestart, where a crash begins the debouncer anew.
3. A NATS connection with its reconnection buffer, where a successful Publish may still be lost.
