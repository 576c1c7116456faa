-------------------------------- MODULE Api --------------------------------
(***************************************************************************)
(* What happens to one HTTP request, from the connection to the log line:  *)
(* the middlewares of internal/apiserver (deadline, panic recovery,        *)
(* logging, OpenAPI validation), the generated router, parameter binding   *)
(* and strict handler, the Handler of internal/handler and the answer it   *)
(* makes of what the cluster service returned.                             *)
(*                                                                         *)
(* Several requests run side by side, each in a goroutine of its own.  The *)
(* cluster service is seen from outside: it looks the id up, then acts on  *)
(* the hub, and returns one of the errors it has for the operation.        *)
(***************************************************************************)
EXTENDS Naturals

CONSTANTS
    Requests,       \* the requests that may arrive
    Ids,            \* cluster ids
    HealthId,       \* the id whose path is the path of the health endpoint
    Inputs,         \* what each request may ask for
    Hubs,           \* what the hub may have when the first one arrives
    Nothing,        \* no answer yet, or no status recorded
    Broken          \* the connection went away before the whole answer was out

Operations == {"create", "get", "list", "delete", "other"}

(***************************************************************************)
(* What may be wrong with a request.  "schema": it violates the OpenAPI    *)
(* document.  "repeated": a query parameter occurs twice, which validation *)
(* accepts and binding does not.  "decode": a number such as 3.0 that is   *)
(* an integer to the document and not to Go.  "rule": an empty version,    *)
(* which only validateCreateRequest refuses.                               *)
(***************************************************************************)
Flaws == {"none", "schema", "repeated", "decode", "rule"}

Input ==
    {in \in [op : Operations, id : Ids, flaw : Flaws] :
        /\ in.flaw = "schema" => in.op # "other"
        /\ in.flaw = "repeated" => in.op \in {"create", "list"}
        /\ in.flaw \in {"decode", "rule"} => in.op = "create"}

\* A request before it arrives asks for nothing in particular.
NoInput == [op |-> "other", id |-> HealthId, flaw |-> "none"]

ASSUME InputsAssumption ==
    HealthId \in Ids /\ Hubs \subseteq SUBSET Ids /\ \A r \in Requests : Inputs[r] \subseteq Input

VARIABLES
    pc,         \* where each request is
    input,      \* what it asks for
    expired,    \* its context is done: the deadline passed or the client left
    reply,      \* the answer that is about to be written
    wire,       \* what reached the client
    wroteHeader,\* the status line is out, as the recovery's responseWriter has it
    recorded,   \* the status in the logging's responseWriter
    rec,        \* what the recovery middleware recovered: a panic, an abort
    logged,     \* the status in the line "request completed"
    acted,      \* history: the service changed the hub for this request
    hub         \* ids that a lookup on the hub finds

apiVars == <<pc, input, expired, reply, wire, wroteHeader, recorded, rec, logged, acted, hub>>

Stages == {"absent", "validating", "binding", "decoding", "handling", "looking",
           "acting", "answering", "sending", "logging", "done"}

ErrorTypes == {"INVALID_ARGUMENT", "NOT_FOUND", "ALREADY_EXISTS", "UNPROCESSABLE_ENTITY",
               "INTERNAL", "UNAVAILABLE", "PERMISSION_DENIED", "UNAUTHENTICATED"}

(***************************************************************************)
(* The HTTP status of an error type.                                       *)
(***************************************************************************)
mapErrorType(type) ==
    CASE type = "INVALID_ARGUMENT" -> 400
      [] type = "NOT_FOUND" -> 404
      [] type = "ALREADY_EXISTS" -> 409
      [] type = "UNPROCESSABLE_ENTITY" -> 422
      [] type = "UNAVAILABLE" -> 503
      [] type = "PERMISSION_DENIED" -> 403
      [] type = "UNAUTHENTICATED" -> 401
      [] OTHER -> 500

(***************************************************************************)
(* An answer: its status line, what the body is, and the status that a     *)
(* problem document repeats.                                               *)
(***************************************************************************)
Statuses == {200, 201, 204, 404, 405, 500} \cup {mapErrorType(t) : t \in ErrorTypes}

Answers == [status : Statuses, body : {"problem"}, says : Statuses]
             \cup [status : Statuses, body : {"cluster", "list", "health", "empty", "text", "cut"}]

\* Nothing and Broken are no answers.
ASSUME SentinelAssumption ==
    /\ Nothing \notin Answers /\ Broken \notin Answers
    /\ Nothing \notin Statuses /\ Nothing # Broken

Problem(status, says) == [status |-> status, body |-> "problem", says |-> says]

PlainText(status) == [status |-> status, body |-> "text"]

\* The status line of an answer whose body was not written, or not to its end.
Cut(answer) == [status |-> answer.status, body |-> "cut"]

(***************************************************************************)
(* The statuses that an operation's mapper knows; any other becomes a 500. *)
(***************************************************************************)
KnownStatuses(op) ==
    CASE op = "create" -> {400, 409, 422}
      [] op = "list" -> {400}
      [] OTHER -> {404}

\* Mutant of ErrorAnswer: the mapper's default keeps the status of the error.
ErrorAnswerOfWrongStatus(op, type) ==
    Problem(IF op = "create" THEN 500 ELSE mapErrorType(type), mapErrorType(type))

ErrorAnswer(op, type) ==
    Problem(IF mapErrorType(type) \in KnownStatuses(op) THEN mapErrorType(type) ELSE 500,
            mapErrorType(type))

SuccessAnswer(op) ==
    CASE op = "create" -> [status |-> 201, body |-> "cluster"]
      [] op = "get" -> [status |-> 200, body |-> "cluster"]
      [] op = "list" -> [status |-> 200, body |-> "list"]
      [] OTHER -> [status |-> 204, body |-> "empty"]

HealthAnswer == [status |-> 200, body |-> "health"]

(***************************************************************************)
(* The errors that the cluster service returns before it writes to the hub.*)
(***************************************************************************)
ServiceErrors(op) ==
    CASE op = "create" -> {"INVALID_ARGUMENT", "UNPROCESSABLE_ENTITY", "ALREADY_EXISTS", "INTERNAL"}
      [] op = "list" -> {"INVALID_ARGUMENT", "INTERNAL"}
      [] OTHER -> {"NOT_FOUND", "INTERNAL"}

ApiInit ==
    /\ pc = [r \in Requests |-> "absent"]
    /\ input = [r \in Requests |-> NoInput]
    /\ expired = [r \in Requests |-> FALSE]
    /\ reply = [r \in Requests |-> Nothing]
    /\ wire = [r \in Requests |-> Nothing]
    /\ wroteHeader = [r \in Requests |-> FALSE]
    /\ recorded = [r \in Requests |-> 200]
    /\ rec = [r \in Requests |-> "none"]
    /\ logged = [r \in Requests |-> Nothing]
    /\ acted = [r \in Requests |-> FALSE]
    /\ hub \in Hubs

(***************************************************************************)
(* The request goes on to a stage, or an answer to it is about to be sent. *)
(***************************************************************************)
Advance(r, from, to) ==
    /\ pc[r] = from
    /\ pc' = [pc EXCEPT ![r] = to]
    /\ UNCHANGED <<input, expired, reply, wire, wroteHeader, recorded, rec, logged>>

Reply(r, from, answer) ==
    /\ pc[r] = from
    /\ pc' = [pc EXCEPT ![r] = "answering"]
    /\ reply' = [reply EXCEPT ![r] = answer]
    /\ UNCHANGED <<input, expired, wire, wroteHeader, recorded, rec, logged>>

Untouched == UNCHANGED <<acted, hub>>

Is(r, op) == input[r].op = op

Has(r, flaw) == input[r].flaw = flaw

(***************************************************************************)
(* GET on the path of HealthId is the health endpoint: the router prefers  *)
(* the fixed path to the pattern.                                          *)
(***************************************************************************)
IsHealth(r) == Is(r, "get") /\ input[r].id = HealthId

Arrive(r, in) ==
    /\ pc[r] = "absent"
    /\ pc' = [pc EXCEPT ![r] = "validating"]
    /\ input' = [input EXCEPT ![r] = in]
    /\ UNCHANGED <<expired, reply, wire, wroteHeader, recorded, rec, logged>> /\ Untouched

\* Mutant of Expire: only the lookup is under the deadline.
ExpireLookupOnly(r) ==
    /\ pc[r] = "looking" /\ ~expired[r]
    /\ expired' = [expired EXCEPT ![r] = TRUE]
    /\ UNCHANGED <<pc, input, reply, wire, wroteHeader, recorded, rec, logged>> /\ Untouched

(***************************************************************************)
(* The deadline of requestTimeoutMiddleware passes, or the client goes     *)
(* away; only the calls to the hub look at the context.                    *)
(***************************************************************************)
Expire(r) ==
    /\ pc[r] \in {"looking", "acting"} /\ ~expired[r]
    /\ expired' = [expired EXCEPT ![r] = TRUE]
    /\ UNCHANGED <<pc, input, reply, wire, wroteHeader, recorded, rec, logged>> /\ Untouched

(***************************************************************************)
(* openAPIValidationMiddleware; an operation the document lacks goes on to *)
(* the router, which knows no such path, or the path but not the method.   *)
(***************************************************************************)
NotRouted == {PlainText(404), [status |-> 405, body |-> "empty"]}

Validate(r) ==
    /\ Untouched
    /\ \/ Is(r, "other") /\ \E answer \in NotRouted : Reply(r, "validating", answer)
       \/ Has(r, "schema") /\ Reply(r, "validating", Problem(400, 400))
       \/ ~Is(r, "other") /\ ~Has(r, "schema") /\ Advance(r, "validating", "binding")

(***************************************************************************)
(* The generated wrapper binds the parameters.                             *)
(***************************************************************************)
Bind(r) ==
    /\ Untouched
    /\ \/ Has(r, "repeated") /\ Reply(r, "binding", Problem(400, 400))
       \/ ~Has(r, "repeated") /\ Advance(r, "binding", "decoding")

(***************************************************************************)
(* The generated strict handler decodes the body; main gives it no error   *)
(* handlers, so its own ones answer in plain text.                         *)
(***************************************************************************)
Decode(r) ==
    /\ Untouched
    /\ \/ Has(r, "decode") /\ Reply(r, "decoding", PlainText(400))
       \/ ~Has(r, "decode") /\ Advance(r, "decoding", "handling")

(***************************************************************************)
(* The Handler: its own validation, and the call of the service or of the  *)
(* health checker, which reports trouble in the body of a 200.             *)
(***************************************************************************)
Handle(r) ==
    /\ Untouched
    /\ \/ Has(r, "rule") /\ Reply(r, "handling", ErrorAnswer("create", "INVALID_ARGUMENT"))
       \/ ~Has(r, "rule") /\ Advance(r, "handling", "looking")

HealthAnswers(r) ==
    /\ IsHealth(r) /\ Untouched
    /\ Reply(r, "looking", HealthAnswer)

(***************************************************************************)
(* The service reads the hub: a create needs the id free, a get or a       *)
(* delete needs it taken.                                                  *)
(***************************************************************************)
LookupRefuses(r, type) ==
    /\ ~IsHealth(r) /\ type \in ServiceErrors(input[r].op) /\ Untouched
    /\ type = "NOT_FOUND" => input[r].id \notin hub
    /\ type = "ALREADY_EXISTS" => input[r].id \in hub
    /\ Reply(r, "looking", ErrorAnswer(input[r].op, type))

LookupReads(r) ==
    /\ Untouched
    /\ Reply(r, "looking", SuccessAnswer(input[r].op))
    /\ \/ Is(r, "list")
       \/ Is(r, "get") /\ ~IsHealth(r) /\ input[r].id \in hub

LookupGoesOn(r) ==
    /\ Untouched
    /\ Advance(r, "looking", "acting")
    /\ \/ Is(r, "create") /\ input[r].id \notin hub
       \/ Is(r, "delete") /\ input[r].id \in hub

(***************************************************************************)
(* The service writes to the hub: the write is done before the call that   *)
(* asks for it returns, if it returns.  A deleted cluster stays until the  *)
(* operator has finished with it.                                          *)
(***************************************************************************)
HubAfter(r) ==
    IF Is(r, "create") THEN {hub \cup {input[r].id}} ELSE {hub, hub \ {input[r].id}}

WriteHub(r) ==
    /\ pc[r] = "acting" /\ ~acted[r]
    /\ acted' = [acted EXCEPT ![r] = TRUE] /\ hub' \in HubAfter(r)
    /\ UNCHANGED <<pc, input, expired, reply, wire, wroteHeader, recorded, rec, logged>>

\* A failed create may take back what it has written.
MayRollBack(r) ==
    /\ UNCHANGED acted
    /\ hub' = hub \/ (Is(r, "create") /\ acted[r] /\ hub' = hub \ {input[r].id})

\* Mutant of ActFails: a failed write is reported like a taken name.
ActFailsAsConflict(r) ==
    MayRollBack(r) /\ Reply(r, "acting", ErrorAnswer(input[r].op, "ALREADY_EXISTS"))

\* A failed write may have been done.
ActFails(r) ==
    MayRollBack(r) /\ Reply(r, "acting", ErrorAnswer(input[r].op, "INTERNAL"))

ActSucceeds(r) ==
    acted[r] /\ Untouched /\ Reply(r, "acting", SuccessAnswer(input[r].op))

\* The name of a create is taken.
ActConflicts(r) ==
    /\ Is(r, "create") /\ ~acted[r] /\ Untouched
    /\ Reply(r, "acting", ErrorAnswer("create", "ALREADY_EXISTS"))

(***************************************************************************)
(* A call on a context that is done fails.                                 *)
(***************************************************************************)
ServiceExpires(r) ==
    /\ expired[r]
    /\ \/ HealthAnswers(r)
       \/ ~IsHealth(r) /\ LookupRefuses(r, "INTERNAL")
       \/ ActFails(r)

Serve(r) ==
    \/ HealthAnswers(r)
    \/ \E type \in ErrorTypes : LookupRefuses(r, type)
    \/ LookupReads(r)
    \/ LookupGoesOn(r)
    \/ WriteHub(r)
    \/ ActFails(r)
    \/ ActSucceeds(r)
    \/ ActConflicts(r)

(***************************************************************************)
(* The answer is written: its status line, which both responseWriters note,*)
(* and its body.  The write timeout or a lost connection breaks it off, and*)
(* then a large answer's error handler records a second status.            *)
(***************************************************************************)
\* Mutant of SendStatus: the logging's responseWriter keeps its default status.
SendStatusUnrecorded(r) ==
    /\ pc[r] = "answering"
    /\ pc' = [pc EXCEPT ![r] = "sending"]
    /\ wroteHeader' = [wroteHeader EXCEPT ![r] = TRUE]
    /\ UNCHANGED <<input, expired, reply, wire, recorded, rec, logged>> /\ Untouched

SendStatus(r) ==
    /\ pc[r] = "answering"
    /\ pc' = [pc EXCEPT ![r] = "sending"]
    /\ wroteHeader' = [wroteHeader EXCEPT ![r] = TRUE]
    /\ recorded' = [recorded EXCEPT ![r] = reply[r].status]
    /\ UNCHANGED <<input, expired, reply, wire, rec, logged>> /\ Untouched

SendBody(r) ==
    /\ pc[r] = "sending"
    /\ pc' = [pc EXCEPT ![r] = "logging"]
    /\ wire' = [wire EXCEPT ![r] = reply[r]]
    /\ UNCHANGED <<input, expired, reply, wroteHeader, recorded, rec, logged>> /\ Untouched

SendBreaks(r) ==
    /\ pc[r] = "sending"
    /\ pc' = [pc EXCEPT ![r] = "logging"]
    /\ wire' = [wire EXCEPT ![r] = Broken]
    /\ \E status \in {reply[r].status, 500} : recorded' = [recorded EXCEPT ![r] = status]
    /\ UNCHANGED <<input, expired, reply, wroteHeader, rec, logged>> /\ Untouched

(***************************************************************************)
(* What the client is left with when the recovery middleware has recovered *)
(* value.  http.ErrAbortHandler is thrown on, and net/http drops the       *)
(* connection.  Any other value is answered with a 500, unless the status  *)
(* line is out: then nothing is written, and net/http sends what there is. *)
(***************************************************************************)
SentSoFar(r) == IF wire[r] = Nothing THEN {reply[r], Cut(reply[r]), Broken} ELSE {wire[r]}

Recover(r, value) ==
    CASE value = "abort" -> {Broken}
      [] value = "panic" /\ ~wroteHeader[r] -> {Problem(500, 500), Broken}
      [] value = "panic" /\ wroteHeader[r] -> SentSoFar(r)

(***************************************************************************)
(* A panic anywhere below the recovery middleware, also after the hub was  *)
(* written.  The stack is unwound to that middleware, so the logging       *)
(* middleware inside it never comes to its line.                           *)
(***************************************************************************)
Panic(r) ==
    /\ pc[r] \notin {"absent", "done"}
    /\ pc' = [pc EXCEPT ![r] = "done"]
    /\ \E value \in {"panic", "abort"} :
        /\ rec' = [rec EXCEPT ![r] = value]
        /\ \E answer \in Recover(r, value) : wire' = [wire EXCEPT ![r] = answer]
    /\ UNCHANGED <<input, expired, reply, wroteHeader, recorded, logged>> /\ Untouched

(***************************************************************************)
(* requestLoggingMiddleware, once everything below it has returned.        *)
(***************************************************************************)
Log(r) ==
    /\ pc[r] = "logging"
    /\ pc' = [pc EXCEPT ![r] = "done"]
    /\ logged' = [logged EXCEPT ![r] = recorded[r]]
    /\ UNCHANGED <<input, expired, reply, wire, wroteHeader, recorded, rec>> /\ Untouched

(***************************************************************************)
(* What the server does with a request on its own: every stage but the     *)
(* calls to the hub, which may take for ever unless the context is done.   *)
(***************************************************************************)
Process(r) ==
    \/ Validate(r) \/ Bind(r) \/ Decode(r) \/ Handle(r)
    \/ ServiceExpires(r)
    \/ SendStatus(r) \/ SendBody(r) \/ SendBreaks(r) \/ Log(r)

ApiNext(r) == Expire(r) \/ Process(r) \/ Serve(r) \/ Panic(r)

Next == \E r \in Requests : ApiNext(r) \/ \E in \in Inputs[r] : Arrive(r, in)

\* Every request that arrived has gone; no more will come.
AllDone == \A r \in Requests : pc[r] = "done"

Spec ==
    /\ ApiInit /\ [][Next]_apiVars
    /\ \A r \in Requests : WF_apiVars(Expire(r)) /\ WF_apiVars(Process(r))

-----------------------------------------------------------------------------
ApiTypeOK ==
    /\ pc \in [Requests -> Stages]
    /\ input \in [Requests -> Input]
    /\ expired \in [Requests -> BOOLEAN]
    /\ reply \in [Requests -> Answers \cup {Nothing}]
    /\ wire \in [Requests -> Answers \cup {Nothing, Broken}]
    /\ wroteHeader \in [Requests -> BOOLEAN]
    /\ recorded \in [Requests -> Statuses]
    /\ rec \in [Requests -> {"none", "panic", "abort"}]
    /\ logged \in [Requests -> Statuses \cup {Nothing}]
    /\ acted \in [Requests -> BOOLEAN]
    /\ hub \in SUBSET Ids

Answered(r) == wire[r] \notin {Nothing, Broken}

(***************************************************************************)
(* What the client makes of the answer.                                    *)
(***************************************************************************)
Verdict(answer) ==
    IF answer = Broken THEN "broken"
    ELSE CASE answer.status \in {201, 204} -> "accepted"
           [] answer.status = 200 -> "ok"
           [] answer.status \in 400..499 -> "refused"
           [] OTHER -> "error"

StageOf(r) ==
    CASE pc[r] = "absent" -> "absent"
      [] pc[r] = "done" -> Verdict(wire[r])
      [] OTHER -> "open"

Abstract == INSTANCE Exchange WITH
    stage <- [r \in Requests |-> StageOf(r)],
    changed <- {r \in Requests : acted[r]}

(***************************************************************************)
(* KeepsExchange: the whole stack of middlewares, generated code, handler  *)
(* and service is what Exchange promises.  A request changes the hub once, *)
(* a client that is told that its create or delete was accepted can rely   *)
(* on it, and one that is told of an error of its own can rely on nothing  *)
(* having happened.  Only a 500, or no answer, leaves it in doubt.         *)
(***************************************************************************)
KeepsExchange == Abstract!ExchangeSpec

(***************************************************************************)
(* ErrorsAreProblems: REQ-API-020 and REQ-API-040.  Every error is a       *)
(* problem document whose status is that of the answer, whatever layer     *)
(* made it, except what the generated code answers itself: paths and       *)
(* methods that the API lacks, and bodies that only Go cannot decode; and  *)
(* except that a panic behind the status line may cut the document off.    *)
(***************************************************************************)
ErrorsAreProblems ==
    \A r \in Requests : Answered(r) /\ wire[r].status >= 400 =>
        \/ wire[r].body = "problem" /\ wire[r].says = wire[r].status
        \/ wire[r].body = "text" /\ (Is(r, "other") \/ Has(r, "decode"))
        \/ wire[r].body = "empty" /\ Is(r, "other")
        \/ wire[r].body = "cut" /\ rec[r] = "panic" /\ wroteHeader[r]

(***************************************************************************)
(* LogTellsAnswer: REQ-HTTP-060.  A request that was answered has a log    *)
(* line with the status the client got, unless it panicked.  Then it has   *)
(* none, and the client holds the answer that was under way if its status  *)
(* line was out, else the recovery's 500; after http.ErrAbortHandler it    *)
(* has no answer at all.                                                   *)
(***************************************************************************)
LogTellsAnswer ==
    \A r \in Requests : pc[r] = "done" /\ Answered(r) =>
        \/ rec[r] = "none" /\ logged[r] = wire[r].status
        \/ /\ rec[r] = "panic" /\ logged[r] = Nothing
           /\ IF wroteHeader[r] THEN wire[r].status = reply[r].status
                                ELSE wire[r] = Problem(500, 500)

(***************************************************************************)
(* EveryRequestEnds: a request that arrived is answered or broken off,     *)
(* also when the hub never answers, because the deadline ends every call.  *)
(***************************************************************************)
EveryRequestEnds ==
    \A r \in Requests : pc[r] # "absent" ~> pc[r] = "done" /\ wire[r] # Nothing

=============================================================================
