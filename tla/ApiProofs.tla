------------------------------ MODULE ApiProofs ------------------------------
(***************************************************************************)
(* Proofs about Api, for any requests, ids and inputs: types, what an      *)
(* error looks like, what the log says of an answer, and that the way of a *)
(* request through the whole server is what Exchange promises.             *)
(***************************************************************************)
EXTENDS Api, TLAPS

(***************************************************************************)
(* An answer to a request with input in that is no lie: its errors are     *)
(* problem documents, and its verdict fits what was done to the hub.       *)
(***************************************************************************)
IsProblem(in, answer) ==
    answer.status >= 400 =>
        \/ answer.body = "problem" /\ answer.says = answer.status
        \/ answer.body = "text" /\ (in.op = "other" \/ in.flaw = "decode")
        \/ answer.body = "empty" /\ in.op = "other"

IsTrue(did, answer) ==
    /\ Verdict(answer) = "accepted" => did
    /\ Verdict(answer) \in {"ok", "refused"} => ~did

Honest(in, did, answer) ==
    answer \in Answers /\ IsProblem(in, answer) /\ IsTrue(did, answer)

(***************************************************************************)
(* The parts of the inductive invariant, for one request: what has been    *)
(* done in each stage, and what is there to be sent, sent and logged.      *)
(***************************************************************************)
Prepared == {"answering", "sending", "logging", "done"}

\* A request is at work and nothing of its answer is fixed.
Unwritten == {"validating", "binding", "decoding", "handling", "looking", "acting"}

ActsOnce(r) ==
    /\ acted[r] => pc[r] \in Prepared \cup {"acting"}
    /\ pc[r] \in {"binding", "decoding", "handling", "looking"} => input[r].op # "other"
    /\ pc[r] = "acting" => input[r].op \in {"create", "delete"}

RepliesHonestly(r) ==
    /\ reply[r] = Nothing \/ Honest(input[r], acted[r], reply[r])
    /\ pc[r] \notin Prepared => reply[r] = Nothing
    /\ pc[r] \in {"answering", "sending", "logging"} \/ wroteHeader[r] => reply[r] # Nothing

(***************************************************************************)
(* What a request that has ended has left its client with: the answer of   *)
(* the layer that made it, what there was of it when a panic came, or the  *)
(* answer of the recovery middleware.                                      *)
(***************************************************************************)
Delivered(r) ==
    \/ wire[r] = Broken
    \/ wroteHeader[r] /\ rec[r] # "abort" /\ wire[r] = reply[r]
    \/ wroteHeader[r] /\ rec[r] = "panic" /\ wire[r] = Cut(reply[r])
    \/ ~wroteHeader[r] /\ rec[r] = "panic" /\ wire[r] = Problem(500, 500)

SendsInOrder(r) ==
    /\ pc[r] \notin {"sending", "logging", "done"} => ~wroteHeader[r]
    /\ pc[r] \in {"sending", "logging"} => wroteHeader[r]
    /\ pc[r] # "done" => rec[r] = "none"
    /\ pc[r] \notin {"logging", "done"} => wire[r] = Nothing
    /\ pc[r] = "logging" => wire[r] \in {reply[r], Broken}
    /\ pc[r] = "done" => Delivered(r)

LogsHonestly(r) ==
    /\ pc[r] # "done" => logged[r] = Nothing
    /\ pc[r] = "sending" => recorded[r] = reply[r].status
    /\ pc[r] = "logging" /\ wire[r] # Broken => recorded[r] = reply[r].status
    /\ pc[r] = "done" =>
        IF rec[r] = "none" THEN wire[r] = Broken \/ logged[r] = reply[r].status
                           ELSE logged[r] = Nothing

Local(r) == ActsOnce(r) /\ RepliesHonestly(r) /\ SendsInOrder(r) /\ LogsHonestly(r)

IInv == ApiTypeOK /\ \A r \in Requests : Local(r)

-----------------------------------------------------------------------------
(***************************************************************************)
(* The statuses by number.                                                 *)
(***************************************************************************)
LEMMA StatusFacts ==
    /\ Statuses = {200, 201, 204, 400, 401, 403, 404, 405, 409, 422, 500, 503}
    /\ mapErrorType("INVALID_ARGUMENT") = 400 /\ mapErrorType("NOT_FOUND") = 404
    /\ mapErrorType("ALREADY_EXISTS") = 409 /\ mapErrorType("UNPROCESSABLE_ENTITY") = 422
    /\ mapErrorType("INTERNAL") = 500
<1>1. /\ mapErrorType("INVALID_ARGUMENT") = 400 /\ mapErrorType("NOT_FOUND") = 404
      /\ mapErrorType("ALREADY_EXISTS") = 409 /\ mapErrorType("UNPROCESSABLE_ENTITY") = 422
  BY DEF mapErrorType
<1>2. /\ mapErrorType("INTERNAL") = 500 /\ mapErrorType("UNAVAILABLE") = 503
      /\ mapErrorType("PERMISSION_DENIED") = 403 /\ mapErrorType("UNAUTHENTICATED") = 401
  BY DEF mapErrorType
<1>3. {mapErrorType(t) : t \in ErrorTypes} = {400, 404, 409, 422, 500, 503, 403, 401}
  BY <1>1, <1>2 DEF ErrorTypes
<1> QED
  BY <1>1, <1>2, <1>3 DEF Statuses

(***************************************************************************)
(* What each kind of answer is, and what a client makes of it.             *)
(***************************************************************************)
LEMMA ProblemFacts ==
    ASSUME NEW status \in Statuses
    PROVE  /\ Problem(status, status) \in Answers
           /\ Problem(status, status).status = status
           /\ Problem(status, status).body = "problem"
           /\ Problem(status, status).says = status
           /\ status \in 400..499 => Verdict(Problem(status, status)) = "refused"
           /\ status = 500 => Verdict(Problem(status, status)) = "error"
<1>1. /\ Problem(status, status) \in Answers
      /\ Problem(status, status).status = status
      /\ Problem(status, status).body = "problem"
      /\ Problem(status, status).says = status
  BY DEF Problem, Answers
<1>2. Problem(status, status) # Broken
  BY <1>1, SentinelAssumption
<1> QED
  BY <1>1, <1>2 DEF Verdict

\* A plain text answer is an answer the code makes, and the log line calls it refused.
LEMMA TextFacts ==
    ASSUME NEW status \in {400, 404}
    PROVE  /\ PlainText(status) \in Answers
           /\ PlainText(status).status = status
           /\ PlainText(status).body = "text"
           /\ Verdict(PlainText(status)) = "refused"
<1>1. /\ PlainText(status) \in Answers
      /\ PlainText(status).status = status
      /\ PlainText(status).body = "text"
  BY StatusFacts DEF PlainText, Answers
<1>2. PlainText(status) # Broken
  BY <1>1, SentinelAssumption
<1> QED
  BY <1>1, <1>2 DEF Verdict

\* The answer of a successful operation is below 400 and logged as what it is.
LEMMA SuccessFacts ==
    ASSUME NEW op \in {"create", "get", "list", "delete"}
    PROVE  /\ SuccessAnswer(op) \in Answers
           /\ SuccessAnswer(op).status < 400
           /\ Verdict(SuccessAnswer(op)) = IF op \in {"create", "delete"} THEN "accepted" ELSE "ok"
<1>1. SuccessAnswer(op) \in Answers
  BY StatusFacts DEF SuccessAnswer, Answers
<1>2. SuccessAnswer(op).status = IF op = "create" THEN 201
                                 ELSE IF op = "delete" THEN 204 ELSE 200
  BY DEF SuccessAnswer
<1>3. SuccessAnswer(op) # Broken
  BY <1>1, SentinelAssumption
<1> QED
  BY <1>1, <1>2, <1>3 DEF Verdict

(***************************************************************************)
(* What the service's errors become: the mapper of every operation knows   *)
(* each of them, so the problem repeats the status it is sent with.        *)
(***************************************************************************)
LEMMA ErrorFacts ==
    ASSUME NEW op \in Operations \ {"other"}, NEW type \in ServiceErrors(op)
    PROVE  /\ ErrorAnswer(op, type) = Problem(mapErrorType(type), mapErrorType(type))
           /\ mapErrorType(type) \in Statuses
           /\ mapErrorType(type) \in 400..499 \/ mapErrorType(type) = 500
           /\ type = "INTERNAL" => mapErrorType(type) = 500
<1>1. CASE op = "create"
  <2>1. type \in {"INVALID_ARGUMENT", "UNPROCESSABLE_ENTITY", "ALREADY_EXISTS", "INTERNAL"}
    BY <1>1 DEF ServiceErrors
  <2>2. KnownStatuses(op) = {400, 409, 422}
    BY <1>1 DEF KnownStatuses
  <2> QED
    BY <2>1, <2>2, StatusFacts DEF ErrorAnswer
<1>2. CASE op = "list"
  <2>1. type \in {"INVALID_ARGUMENT", "INTERNAL"}
    BY <1>2 DEF ServiceErrors
  <2>2. KnownStatuses(op) = {400}
    BY <1>2 DEF KnownStatuses
  <2> QED
    BY <2>1, <2>2, StatusFacts DEF ErrorAnswer
<1>3. CASE op \in {"get", "delete"}
  <2>1. type \in {"NOT_FOUND", "INTERNAL"}
    BY <1>3 DEF ServiceErrors
  <2>2. KnownStatuses(op) = {404}
    BY <1>3 DEF KnownStatuses
  <2> QED
    BY <2>1, <2>2, StatusFacts DEF ErrorAnswer
<1> QED
  BY <1>1, <1>2, <1>3 DEF Operations

(***************************************************************************)
(* Which answers are honest about a request.                               *)
(***************************************************************************)
LEMMA HonestProblem ==
    ASSUME NEW in, NEW did \in BOOLEAN, NEW status \in Statuses,
           status = 500 \/ (status \in 400..499 /\ ~did)
    PROVE  Honest(in, did, Problem(status, status))
<1>1. IsProblem(in, Problem(status, status))
  BY ProblemFacts DEF IsProblem
<1>2. IsTrue(did, Problem(status, status))
  <2>1. Verdict(Problem(status, status)) \in {"refused", "error"}
        /\ (did => Verdict(Problem(status, status)) = "error")
    BY ProblemFacts
  <2> QED
    BY <2>1 DEF IsTrue
<1> QED
  BY <1>1, <1>2, ProblemFacts DEF Honest

\* An error of the service is answered by a problem that is honest about it.
LEMMA HonestError ==
    ASSUME NEW in, NEW did \in BOOLEAN, NEW op \in Operations \ {"other"},
           NEW type \in ServiceErrors(op), ~did \/ type = "INTERNAL"
    PROVE  Honest(in, did, ErrorAnswer(op, type))
BY ErrorFacts, HonestProblem

\* A plain text answer is honest where no operation was reached.
LEMMA HonestText ==
    ASSUME NEW in, NEW did \in BOOLEAN, ~did, NEW status \in {400, 404},
           in.op = "other" \/ in.flaw = "decode"
    PROVE  Honest(in, did, PlainText(status))
BY TextFacts DEF Honest, IsProblem, IsTrue

\* What the router answers is honest: no operation was reached.
LEMMA HonestNotRouted ==
    ASSUME NEW in, NEW did \in BOOLEAN, ~did, NEW answer \in NotRouted, in.op = "other"
    PROVE  Honest(in, did, answer)
<1> DEFINE refused == [status |-> 405, body |-> "empty"]
<1>1. refused \in Answers /\ refused.status = 405 /\ refused.body = "empty"
  BY StatusFacts DEF Answers
<1>2. Verdict(refused) = "refused"
  BY <1>1, SentinelAssumption DEF Verdict
<1>3. Honest(in, did, refused)
  BY <1>1, <1>2 DEF Honest, IsProblem, IsTrue
<1>4. Honest(in, did, PlainText(404))
  BY HonestText
<1> QED
  BY <1>3, <1>4 DEF NotRouted

(***************************************************************************)
(* A body that is cut off takes nothing back: the status line stays.       *)
(***************************************************************************)
LEMMA CutFacts ==
    ASSUME NEW answer \in Answers
    PROVE  /\ Cut(answer) \in Answers
           /\ Cut(answer).status = answer.status
           /\ Cut(answer).body = "cut"
           /\ Verdict(Cut(answer)) = Verdict(answer)
<1>1. answer.status \in Statuses
  BY DEF Answers
<1>2. /\ Cut(answer) \in Answers
      /\ Cut(answer).status = answer.status
      /\ Cut(answer).body = "cut"
  BY <1>1 DEF Cut, Answers
<1>3. Cut(answer) # Broken /\ answer # Broken
  BY <1>2, SentinelAssumption
<1> QED
  BY <1>2, <1>3 DEF Verdict

\* A success is honest if the operation has acted exactly when it creates or deletes.
LEMMA HonestSuccess ==
    ASSUME NEW in, NEW op \in {"create", "get", "list", "delete"},
           NEW did \in BOOLEAN, did <=> op \in {"create", "delete"}
    PROVE  Honest(in, did, SuccessAnswer(op))
<1>1. IsProblem(in, SuccessAnswer(op))
  <2>1. SuccessAnswer(op).status \in Nat
    BY SuccessFacts, StatusFacts DEF Answers
  <2> QED
    BY <2>1, SuccessFacts DEF IsProblem
<1>2. IsTrue(did, SuccessAnswer(op))
  BY SuccessFacts DEF IsTrue
<1> QED
  BY <1>1, <1>2, SuccessFacts DEF Honest

\* The answer of the health endpoint is honest: it acts on nothing.
LEMMA HonestHealth ==
    ASSUME NEW in, NEW did \in BOOLEAN, ~did
    PROVE  Honest(in, did, HealthAnswer)
<1> DEFINE answer == HealthAnswer
<1>1. answer \in Answers /\ answer.status = 200
  BY StatusFacts DEF Answers, HealthAnswer
<1>2. Verdict(answer) = "ok"
  BY <1>1, SentinelAssumption DEF Verdict
<1> QED
  BY <1>1, <1>2 DEF Honest, IsProblem, IsTrue

-----------------------------------------------------------------------------
(***************************************************************************)
(* A request changes nothing of the others: where their goroutines are and *)
(* what they have is their own, only the hub is shared.                    *)
(***************************************************************************)
OthersAsBefore(r) ==
    \A q \in Requests \ {r} :
        /\ pc'[q] = pc[q] /\ input'[q] = input[q] /\ expired'[q] = expired[q]
        /\ reply'[q] = reply[q] /\ wire'[q] = wire[q] /\ wroteHeader'[q] = wroteHeader[q]
        /\ recorded'[q] = recorded[q] /\ rec'[q] = rec[q] /\ logged'[q] = logged[q]
        /\ acted'[q] = acted[q]

\* The invariant speaks of one request at a time: a step keeps it if its own request does.
LEMMA LocalToOne ==
    ASSUME IInv, NEW r \in Requests, OthersAsBefore(r), ApiTypeOK', Local(r)'
    PROVE  IInv'
<1>1. ASSUME NEW q \in Requests \ {r}
      PROVE  Local(q)'
  <2>1. Local(q)
    BY <1>1 DEF IInv
  <2> QED
    BY <1>1, <2>1
       DEF OthersAsBefore, Local, ActsOnce, RepliesHonestly, SendsInOrder, LogsHonestly, Delivered
<1> QED
  BY <1>1 DEF IInv

(***************************************************************************)
(* The hub: what a write does to it keeps its type.                        *)
(***************************************************************************)
LEMMA HubType ==
    ASSUME ApiTypeOK, NEW r \in Requests
    PROVE  HubAfter(r) \subseteq SUBSET Ids
BY DEF ApiTypeOK, HubAfter, Input

(***************************************************************************)
(* A request goes on to a later stage before anything was written.         *)
(***************************************************************************)
LEMMA AdvanceKeepsIInv ==
    ASSUME IInv, NEW r \in Requests,
           NEW from \in Unwritten \ {"acting"}, NEW to \in Unwritten,
           Advance(r, from, to), Untouched,
           to = "acting" => input[r].op \in {"create", "delete"},
           to # "acting" => input[r].op # "other"
    PROVE  IInv'
<1>1. ApiTypeOK /\ Local(r)
  BY DEF IInv
<1>2. /\ pc[r] = from /\ pc' = [pc EXCEPT ![r] = to] /\ to \in Stages
      /\ UNCHANGED <<input, expired, reply, wire, wroteHeader, recorded, rec, logged, acted, hub>>
  BY DEF Advance, Untouched, Stages, Unwritten
<1>3. ApiTypeOK' /\ pc'[r] = to /\ OthersAsBefore(r)
  BY <1>1, <1>2 DEF ApiTypeOK, OthersAsBefore
<1>4. Local(r)'
  BY <1>1, <1>2, <1>3
     DEF Local, ActsOnce, RepliesHonestly, SendsInOrder, LogsHonestly, Prepared, Unwritten
<1> QED
  BY <1>3, <1>4, LocalToOne

(***************************************************************************)
(* An honest answer is about to be written; a rollback may have gone first.*)
(***************************************************************************)
LEMMA ReplyKeepsIInv ==
    ASSUME IInv, NEW r \in Requests,
           NEW from \in Unwritten,
           NEW answer, Reply(r, from, answer),
           UNCHANGED acted, hub' \in SUBSET Ids,
           Honest(input[r], acted[r], answer)
    PROVE  IInv'
<1>1. ApiTypeOK /\ Local(r)
  BY DEF IInv
<1>2. /\ pc[r] = from /\ pc' = [pc EXCEPT ![r] = "answering"]
      /\ reply' = [reply EXCEPT ![r] = answer]
      /\ UNCHANGED <<input, expired, wire, wroteHeader, recorded, rec, logged>>
  BY DEF Reply
<1>3. answer \in Answers /\ answer # Nothing
  BY SentinelAssumption DEF Honest
<1>4. /\ ApiTypeOK' /\ OthersAsBefore(r)
      /\ pc'[r] = "answering" /\ reply'[r] = answer
  BY <1>1, <1>2, <1>3 DEF ApiTypeOK, OthersAsBefore, Stages
<1>5. Local(r)'
  BY <1>1, <1>2, <1>3, <1>4
     DEF Local, ActsOnce, RepliesHonestly, SendsInOrder, LogsHonestly, Prepared, Unwritten
<1> QED
  BY <1>4, <1>5, LocalToOne

(***************************************************************************)
(* The same for a reply that leaves the hub alone.                         *)
(***************************************************************************)
LEMMA PlainReplyKeepsIInv ==
    ASSUME IInv, NEW r \in Requests,
           NEW from \in Unwritten,
           NEW answer, Reply(r, from, answer), Untouched,
           Honest(input[r], acted[r], answer)
    PROVE  IInv'
<1>1. UNCHANGED acted /\ hub' \in SUBSET Ids
  BY DEF IInv, ApiTypeOK, Untouched
<1> QED
  BY <1>1, ReplyKeepsIInv

-----------------------------------------------------------------------------
(***************************************************************************)
(* The request before the service: middlewares, generated code, Handler.   *)
(***************************************************************************)
LEMMA ArriveKeepsIInv ==
    ASSUME IInv, NEW r \in Requests, NEW in \in Inputs[r], Arrive(r, in)
    PROVE  IInv'
<1>1. ApiTypeOK /\ Local(r)
  BY DEF IInv
<1>2. /\ pc[r] = "absent" /\ pc' = [pc EXCEPT ![r] = "validating"]
      /\ input' = [input EXCEPT ![r] = in] /\ in \in Input
      /\ UNCHANGED <<expired, reply, wire, wroteHeader, recorded, rec, logged, acted, hub>>
  BY InputsAssumption DEF Arrive, Untouched
<1>3. ApiTypeOK' /\ pc'[r] = "validating" /\ OthersAsBefore(r)
  BY <1>1, <1>2 DEF ApiTypeOK, OthersAsBefore, Stages
<1>4. Local(r)'
  BY <1>1, <1>2, <1>3
     DEF Local, ActsOnce, RepliesHonestly, SendsInOrder, LogsHonestly, Prepared
<1> QED
  BY <1>3, <1>4, LocalToOne

\* The deadline changes no answer that is written.
LEMMA ExpireKeepsIInv ==
    ASSUME IInv, NEW r \in Requests, Expire(r)
    PROVE  IInv'
<1>1. ApiTypeOK /\ Local(r)
  BY DEF IInv
<1>2. expired' = [expired EXCEPT ![r] = TRUE]
      /\ UNCHANGED <<pc, input, reply, wire, wroteHeader, recorded, rec, logged, acted, hub>>
  BY DEF Expire, Untouched
<1>3. ApiTypeOK' /\ OthersAsBefore(r)
  BY <1>1, <1>2 DEF ApiTypeOK, OthersAsBefore
<1>4. Local(r)'
  BY <1>1, <1>2
     DEF Local, ActsOnce, RepliesHonestly, SendsInOrder, LogsHonestly, Delivered
<1> QED
  BY <1>3, <1>4, LocalToOne

\* Validation, binding, decoding and dispatch come before anything is acted on.
LEMMA FrontKeepsIInv ==
    ASSUME IInv, NEW r \in Requests, Validate(r) \/ Bind(r) \/ Decode(r) \/ Handle(r)
    PROVE  IInv'
<1> DEFINE Refusal == Problem(400, 400)
           Unreadable == PlainText(400)
           Invalid == ErrorAnswer("create", "INVALID_ARGUMENT")
           op == input[r].op
<1>1. /\ "validating" \in Unwritten /\ "binding" \in Unwritten /\ "decoding" \in Unwritten
      /\ "handling" \in Unwritten /\ "looking" \in Unwritten
  BY DEF Unwritten
<1>2. /\ pc[r] \in {"binding", "decoding", "handling"} => op # "other"
      /\ acted[r] \in BOOLEAN /\ ~acted[r]
  BY DEF IInv, ApiTypeOK, Local, ActsOnce, Prepared, Validate, Bind, Decode, Handle, Reply, Advance
<1>3. Untouched
  BY DEF Validate, Bind, Decode, Handle
<1>4. Honest(input[r], acted[r], Refusal)
  <2>1. 400 \in Statuses /\ 400 \in 400..499
    BY StatusFacts
  <2> QED
    BY <1>2, <2>1, HonestProblem
<1>5. op = "other" => \A answer \in NotRouted : Honest(input[r], acted[r], answer)
  BY <1>2, HonestNotRouted
<1>6. input[r].flaw = "decode" => Honest(input[r], acted[r], Unreadable)
  BY <1>2, HonestText
<1>7. Honest(input[r], acted[r], Invalid)
  <2>1. "create" \in Operations \ {"other"} /\ "INVALID_ARGUMENT" \in ServiceErrors("create")
    BY DEF Operations, ServiceErrors
  <2> QED
    BY <1>2, <2>1, HonestError
<1>8. \/ op = "other" /\ \E answer \in NotRouted : Reply(r, "validating", answer)
      \/ Reply(r, "validating", Refusal)
      \/ op # "other" /\ Advance(r, "validating", "binding")
      \/ Reply(r, "binding", Refusal)
      \/ Advance(r, "binding", "decoding")
      \/ input[r].flaw = "decode" /\ Reply(r, "decoding", Unreadable)
      \/ Advance(r, "decoding", "handling")
      \/ Reply(r, "handling", Invalid)
      \/ Advance(r, "handling", "looking")
  BY DEF Validate, Bind, Decode, Handle, Is, Has
<1> HIDE DEF Refusal, Unreadable, Invalid
<1>9. CASE op = "other" /\ \E answer \in NotRouted : Reply(r, "validating", answer)
  BY <1>1, <1>3, <1>5, <1>9, PlainReplyKeepsIInv
<1>10. CASE Reply(r, "validating", Refusal) \/ Reply(r, "binding", Refusal)
  BY <1>1, <1>3, <1>4, <1>10, PlainReplyKeepsIInv
<1>11. CASE input[r].flaw = "decode" /\ Reply(r, "decoding", Unreadable)
  BY <1>1, <1>3, <1>6, <1>11, PlainReplyKeepsIInv
<1>12. CASE Reply(r, "handling", Invalid)
  BY <1>1, <1>3, <1>7, <1>12, PlainReplyKeepsIInv
<1>13. CASE op # "other" /\ Advance(r, "validating", "binding")
  BY <1>1, <1>3, <1>13, AdvanceKeepsIInv
<1>14. CASE Advance(r, "binding", "decoding") \/ Advance(r, "decoding", "handling")
              \/ Advance(r, "handling", "looking")
  <2>1. op # "other"
    BY <1>2, <1>14 DEF Advance
  <2> QED
    BY <1>1, <1>3, <1>14, <2>1, AdvanceKeepsIInv
<1> QED
  BY <1>8, <1>9, <1>10, <1>11, <1>12, <1>13, <1>14

(***************************************************************************)
(* The service reads the hub, or answers for the health checker.           *)
(***************************************************************************)
LEMMA LookupKeepsIInv ==
    ASSUME IInv, NEW r \in Requests,
           \/ HealthAnswers(r) \/ LookupReads(r) \/ LookupGoesOn(r)
           \/ \E type \in ErrorTypes : LookupRefuses(r, type)
    PROVE  IInv'
<1>0. /\ "validating" \in Unwritten /\ "binding" \in Unwritten /\ "decoding" \in Unwritten
      /\ "handling" \in Unwritten /\ "looking" \in Unwritten /\ "acting" \in Unwritten
  BY DEF Unwritten
<1>1. ApiTypeOK /\ Local(r)
  BY DEF IInv
<1>2. /\ pc[r] = "looking" => input[r].op # "other"
      /\ input[r].op \in Operations
      /\ acted[r] \in BOOLEAN /\ ~acted[r]
  BY <1>1 DEF Local, ActsOnce, Prepared, ApiTypeOK, Input, HealthAnswers, LookupReads, LookupGoesOn,
              LookupRefuses, Reply, Advance
<1>3. CASE HealthAnswers(r)
  <2>1. Honest(input[r], acted[r], HealthAnswer)
    BY <1>2, HonestHealth
  <2> QED
    BY <1>0, <1>3, <2>1, PlainReplyKeepsIInv DEF HealthAnswers
<1>4. CASE LookupReads(r)
  <2>1. input[r].op \in {"get", "list"} /\ Reply(r, "looking", SuccessAnswer(input[r].op)) /\ Untouched
    BY <1>4 DEF LookupReads, Is
  <2>2. Honest(input[r], acted[r], SuccessAnswer(input[r].op))
    BY <1>2, <2>1, HonestSuccess
  <2> QED
    BY <1>0, <2>1, <2>2, PlainReplyKeepsIInv
<1>5. CASE LookupGoesOn(r)
  BY <1>0, <1>5, AdvanceKeepsIInv DEF LookupGoesOn, Is
<1>6. ASSUME NEW type \in ErrorTypes, LookupRefuses(r, type)
      PROVE  IInv'
  <2>1. /\ type \in ServiceErrors(input[r].op) /\ Untouched
        /\ Reply(r, "looking", ErrorAnswer(input[r].op, type)) /\ pc[r] = "looking"
    BY <1>6 DEF LookupRefuses, Reply
  <2>2. Honest(input[r], acted[r], ErrorAnswer(input[r].op, type))
    BY <1>2, <2>1, HonestError
  <2> QED
    BY <1>0, <2>1, <2>2, PlainReplyKeepsIInv
<1> QED
  BY <1>3, <1>4, <1>5, <1>6

(***************************************************************************)
(* The service writes to the hub.                                          *)
(***************************************************************************)
LEMMA WriteKeepsIInv ==
    ASSUME IInv, NEW r \in Requests, WriteHub(r)
    PROVE  IInv'
<1>1. ApiTypeOK /\ Local(r)
  BY DEF IInv
<1>2. /\ pc[r] = "acting" /\ acted' = [acted EXCEPT ![r] = TRUE]
      /\ UNCHANGED <<pc, input, expired, reply, wire, wroteHeader, recorded, rec, logged>>
  BY DEF WriteHub
<1>3. hub' \in SUBSET Ids
  BY <1>1, HubType DEF WriteHub
<1>4. ApiTypeOK' /\ OthersAsBefore(r)
  BY <1>1, <1>2, <1>3 DEF ApiTypeOK, OthersAsBefore
<1>5. Local(r)'
  BY <1>1, <1>2, <1>4
     DEF Local, ActsOnce, RepliesHonestly, SendsInOrder, LogsHonestly, Prepared
<1> QED
  BY <1>4, <1>5, LocalToOne

\* The service comes back from its writes.
LEMMA ActKeepsIInv ==
    ASSUME IInv, NEW r \in Requests, ActFails(r) \/ ActSucceeds(r) \/ ActConflicts(r)
    PROVE  IInv'
<1>0. "acting" \in Unwritten
  BY DEF Unwritten
<1>1. ApiTypeOK /\ Local(r)
  BY DEF IInv
<1>2. pc[r] = "acting" /\ acted[r] \in BOOLEAN
  BY <1>1 DEF ActFails, ActSucceeds, ActConflicts, Reply, ApiTypeOK
<1>3. input[r].op \in {"create", "delete"}
  BY <1>1, <1>2 DEF Local, ActsOnce
<1>4. input[r].op \in Operations \ {"other"} /\ "INTERNAL" \in ServiceErrors(input[r].op)
  BY <1>3 DEF Operations, ServiceErrors
<1>5. CASE ActFails(r)
  <2>1. Reply(r, "acting", ErrorAnswer(input[r].op, "INTERNAL")) /\ UNCHANGED acted
    BY <1>5 DEF ActFails, MayRollBack
  <2>2. hub' \in SUBSET Ids
    BY <1>1, <1>5 DEF ActFails, MayRollBack, ApiTypeOK
  <2>3. Honest(input[r], acted[r], ErrorAnswer(input[r].op, "INTERNAL"))
    BY <1>2, <1>4, HonestError
  <2> QED
    BY <1>0, <2>1, <2>2, <2>3, ReplyKeepsIInv
<1>6. CASE ActSucceeds(r)
  <2>1. acted[r] /\ Untouched /\ Reply(r, "acting", SuccessAnswer(input[r].op))
    BY <1>6 DEF ActSucceeds
  <2>2. Honest(input[r], acted[r], SuccessAnswer(input[r].op))
    BY <1>2, <1>3, <2>1, HonestSuccess
  <2> QED
    BY <1>0, <2>1, <2>2, PlainReplyKeepsIInv
<1>7. CASE ActConflicts(r)
  <2>1. "create" \in Operations \ {"other"} /\ "ALREADY_EXISTS" \in ServiceErrors("create")
    BY DEF Operations, ServiceErrors
  <2>2. Honest(input[r], acted[r], ErrorAnswer("create", "ALREADY_EXISTS"))
    BY <1>2, <1>7, <2>1, HonestError DEF ActConflicts
  <2> QED
    BY <1>0, <1>7, <2>2, PlainReplyKeepsIInv DEF ActConflicts
<1> QED
  BY <1>5, <1>6, <1>7

(***************************************************************************)
(* The answer goes out, status line first, and is logged.                  *)
(***************************************************************************)
LEMMA SendKeepsIInv ==
    ASSUME IInv, NEW r \in Requests, SendStatus(r) \/ SendBody(r) \/ SendBreaks(r)
    PROVE  IInv'
<1>1. ApiTypeOK /\ Local(r)
  BY DEF IInv
<1>2. /\ pc[r] \in {"answering", "sending"}
      /\ UNCHANGED <<input, expired, reply, rec, logged, acted, hub>>
  BY DEF SendStatus, SendBody, SendBreaks, Untouched
<1>3. Honest(input[r], acted[r], reply[r]) /\ reply[r] \in Answers /\ reply[r].status \in Statuses
  BY <1>1, <1>2 DEF Local, RepliesHonestly, Honest, Answers
<1>4. CASE SendStatus(r)
  <2>1. /\ pc[r] = "answering" /\ pc' = [pc EXCEPT ![r] = "sending"]
        /\ wroteHeader' = [wroteHeader EXCEPT ![r] = TRUE]
        /\ recorded' = [recorded EXCEPT ![r] = reply[r].status] /\ UNCHANGED wire
    BY <1>4 DEF SendStatus
  <2>2. /\ ApiTypeOK' /\ OthersAsBefore(r)
        /\ pc'[r] = "sending" /\ wroteHeader'[r] /\ recorded'[r] = reply[r].status
    BY <1>1, <1>2, <1>3, <2>1 DEF ApiTypeOK, OthersAsBefore, Stages
  <2>3. Local(r)'
    BY <1>1, <1>2, <1>3, <2>1, <2>2
       DEF Local, ActsOnce, RepliesHonestly, SendsInOrder, LogsHonestly, Prepared
  <2> QED
    BY <2>2, <2>3, LocalToOne
<1>5. CASE SendBody(r) \/ SendBreaks(r)
  <2>1. pc[r] = "sending" /\ pc' = [pc EXCEPT ![r] = "logging"] /\ UNCHANGED wroteHeader
    BY <1>5 DEF SendBody, SendBreaks
  <2>2. recorded[r] = reply[r].status /\ recorded = [recorded EXCEPT ![r] = recorded[r]]
    BY <1>1, <2>1 DEF Local, LogsHonestly, ApiTypeOK
  <2>3. PICK sent \in {reply[r], Broken}, status \in {reply[r].status, 500} :
          /\ wire' = [wire EXCEPT ![r] = sent] /\ recorded' = [recorded EXCEPT ![r] = status]
          /\ sent # Broken => status = reply[r].status
    BY <1>3, <1>5, <2>2 DEF SendBody, SendBreaks
  <2>4. status \in Statuses
    BY <1>3, StatusFacts
  <2>5. /\ ApiTypeOK' /\ OthersAsBefore(r) /\ pc'[r] = "logging"
        /\ wire'[r] = sent /\ recorded'[r] = status
    BY <1>1, <1>2, <1>3, <2>1, <2>3, <2>4 DEF ApiTypeOK, OthersAsBefore, Stages
  <2>6. Local(r)'
    BY <1>1, <1>2, <1>3, <2>1, <2>3, <2>5
       DEF Local, ActsOnce, RepliesHonestly, SendsInOrder, LogsHonestly, Prepared
  <2> QED
    BY <2>5, <2>6, LocalToOne
<1> QED
  BY <1>4, <1>5

(***************************************************************************)
(* A panic leaves the client with the recovery's 500, with what was out of *)
(* the answer, or with a broken connection.                                *)
(***************************************************************************)
LEMMA PanicKeepsIInv ==
    ASSUME IInv, NEW r \in Requests, Panic(r)
    PROVE  IInv'
<1> DEFINE fault == Problem(500, 500)
<1>1. ApiTypeOK /\ Local(r)
  BY DEF IInv
<1>2. PICK value \in {"panic", "abort"} :
        /\ rec' = [rec EXCEPT ![r] = value]
        /\ \E answer \in Recover(r, value) : wire' = [wire EXCEPT ![r] = answer]
  BY DEF Panic
<1>3. PICK answer \in Recover(r, value) : wire' = [wire EXCEPT ![r] = answer]
  BY <1>2
<1>4. /\ pc[r] \notin {"absent", "done"} /\ pc' = [pc EXCEPT ![r] = "done"]
      /\ UNCHANGED <<input, expired, reply, wroteHeader, recorded, logged, acted, hub>>
  BY DEF Panic, Untouched
<1>5. fault \in Answers
  <2>1. 500 \in Statuses
    BY StatusFacts
  <2> QED
    BY <2>1, ProblemFacts
<1>6. wroteHeader[r] \in BOOLEAN /\ (wroteHeader[r] => reply[r] \in Answers)
  BY <1>1 DEF ApiTypeOK, Local, RepliesHonestly
<1> HIDE DEF fault
<1>7. \/ answer = Broken
      \/ value = "panic" /\ ~wroteHeader[r] /\ answer = fault
      \/ value = "panic" /\ wroteHeader[r] /\ answer \in {reply[r], Cut(reply[r])}
  <2>1. CASE value = "abort"
    BY <1>3, <2>1 DEF Recover
  <2>2. CASE value = "panic" /\ ~wroteHeader[r]
    BY <1>3, <2>2 DEF Recover, fault
  <2>3. CASE value = "panic" /\ wroteHeader[r]
    <3>1. answer \in SentSoFar(r)
      BY <1>3, <2>3 DEF Recover
    <3>2. wire[r] = Nothing \/ wire[r] \in {reply[r], Broken}
      BY <1>1, <1>4 DEF Local, SendsInOrder
    <3> QED
      BY <2>3, <3>1, <3>2 DEF SentSoFar
  <2> QED
    BY <1>2, <1>6, <2>1, <2>2, <2>3
<1>8. answer \in Answers \cup {Broken}
  BY <1>5, <1>6, <1>7, CutFacts
<1>9. /\ ApiTypeOK' /\ OthersAsBefore(r)
      /\ pc'[r] = "done" /\ wire'[r] = answer /\ rec'[r] = value
  BY <1>1, <1>2, <1>3, <1>4, <1>8 DEF ApiTypeOK, OthersAsBefore, Stages
<1>10. Delivered(r)'
  BY <1>4, <1>7, <1>9 DEF Delivered, fault
<1>11. Local(r)'
  BY <1>1, <1>2, <1>4, <1>9, <1>10
     DEF Local, ActsOnce, RepliesHonestly, SendsInOrder, LogsHonestly, Prepared
<1> QED
  BY <1>9, <1>11, LocalToOne

\* The log line tells the answer that went out.
LEMMA LogKeepsIInv ==
    ASSUME IInv, NEW r \in Requests, Log(r)
    PROVE  IInv'
<1>1. ApiTypeOK /\ Local(r)
  BY DEF IInv
<1>2. /\ pc[r] = "logging" /\ pc' = [pc EXCEPT ![r] = "done"]
      /\ logged' = [logged EXCEPT ![r] = recorded[r]]
      /\ UNCHANGED <<input, expired, reply, wire, wroteHeader, recorded, rec, acted, hub>>
  BY DEF Log, Untouched
<1>3. recorded[r] \in Statuses
  BY <1>1 DEF ApiTypeOK
<1>4. /\ ApiTypeOK' /\ OthersAsBefore(r) /\ pc'[r] = "done" /\ logged'[r] = recorded[r]
  BY <1>1, <1>2, <1>3 DEF ApiTypeOK, OthersAsBefore, Stages
<1>5. Delivered(r)'
  BY <1>1, <1>2 DEF Local, SendsInOrder, Delivered
<1>6. Local(r)'
  BY <1>1, <1>2, <1>4, <1>5
     DEF Local, ActsOnce, RepliesHonestly, SendsInOrder, LogsHonestly, Prepared
<1> QED
  BY <1>4, <1>6, LocalToOne

-----------------------------------------------------------------------------
(***************************************************************************)
(* The requests start in the invariant, and every step of any keeps it.    *)
(***************************************************************************)
LEMMA InitIInv == ApiInit => IInv
<1> SUFFICES ASSUME ApiInit
             PROVE  IInv
  OBVIOUS
<1>1. NoInput \in Input /\ 200 \in Statuses
  BY InputsAssumption, StatusFacts DEF NoInput, Input, Operations, Flaws
<1>2. ApiTypeOK
  BY <1>1, InputsAssumption DEF ApiInit, ApiTypeOK, Stages
<1>3. ASSUME NEW r \in Requests
      PROVE  Local(r)
  BY DEF ApiInit, Local, ActsOnce, RepliesHonestly, SendsInOrder, LogsHonestly, Prepared
<1> QED
  BY <1>2, <1>3 DEF IInv

\* Every step of a request keeps the invariant.
LEMMA StepKeepsIInv ==
    ASSUME IInv, NEW r \in Requests, ApiNext(r)
    PROVE  IInv'
<1>1. CASE Expire(r)
  BY <1>1, ExpireKeepsIInv
<1>2. CASE Validate(r) \/ Bind(r) \/ Decode(r) \/ Handle(r)
  BY <1>2, FrontKeepsIInv
<1>3. CASE ServiceExpires(r) \/ Serve(r)
  <2>1. "INTERNAL" \in ErrorTypes
    BY DEF ErrorTypes
  <2>2. \/ HealthAnswers(r) \/ LookupReads(r) \/ LookupGoesOn(r)
        \/ \E type \in ErrorTypes : LookupRefuses(r, type)
        \/ WriteHub(r) \/ ActFails(r) \/ ActSucceeds(r) \/ ActConflicts(r)
    BY <1>3, <2>1 DEF ServiceExpires, Serve
  <2> QED
    BY <2>2, LookupKeepsIInv, WriteKeepsIInv, ActKeepsIInv
<1>4. CASE Panic(r)
  BY <1>4, PanicKeepsIInv
<1>5. CASE SendStatus(r) \/ SendBody(r) \/ SendBreaks(r) \/ Log(r)
  BY <1>5, SendKeepsIInv, LogKeepsIInv
<1> QED
  BY <1>1, <1>2, <1>3, <1>4, <1>5 DEF ApiNext, Process

\* Every step of the server keeps the invariant.
LEMMA NextIInv == IInv /\ [Next]_apiVars => IInv'
<1> SUFFICES ASSUME IInv, [Next]_apiVars
             PROVE  IInv'
  OBVIOUS
<1>1. CASE UNCHANGED apiVars
  BY <1>1
     DEF apiVars, IInv, ApiTypeOK, Local, ActsOnce, RepliesHonestly, SendsInOrder, LogsHonestly, Delivered
<1>2. CASE Next
  BY <1>2, ArriveKeepsIInv, StepKeepsIInv DEF Next
<1> QED
  BY <1>1, <1>2

\* The invariant holds in every state of every behaviour.
LEMMA Invariant == Spec => []IInv
<1> QED
  BY InitIInv, NextIInv, PTL DEF Spec

-----------------------------------------------------------------------------
(***************************************************************************)
(* What Exchange sees of a step.  A request comes, goes on without a       *)
(* change of the hub or with its first, or ends; the others stay.          *)
(***************************************************************************)
Comes(r) == pc[r] = "absent" /\ pc'[r] \notin {"absent", "done"} /\ acted'[r] = acted[r]

GoesOn(r) ==
    /\ pc[r] \notin {"absent", "done"} /\ pc'[r] \notin {"absent", "done"}
    /\ acted'[r] = acted[r] \/ (pc[r] = "acting" /\ acted'[r] = TRUE)

Ends(r) ==
    /\ pc[r] \notin {"absent", "done"} /\ pc'[r] = "done" /\ acted'[r] = acted[r]
    /\ wire'[r] \in Answers \cup {Broken}
    /\ wire'[r] = Broken \/ IsTrue(acted'[r], wire'[r])

\* A request that has ended has left its client with nothing untrue.
LEMMA DeliveredIsTrue ==
    ASSUME NEW r \in Requests, ApiTypeOK', Local(r)', pc'[r] = "done"
    PROVE  /\ wire'[r] \in Answers \cup {Broken}
           /\ wire'[r] = Broken \/ IsTrue(acted'[r], wire'[r])
<1>1. Delivered(r)' /\ acted'[r] \in BOOLEAN
  BY DEF Local, SendsInOrder, ApiTypeOK
<1>2. wroteHeader'[r] =>
        Honest(input'[r], acted'[r], reply'[r]) /\ reply'[r] \in Answers
  BY DEF Local, RepliesHonestly, Honest
<1>3. CASE wire'[r] = Broken
  BY <1>3
<1>4. CASE wroteHeader'[r] /\ wire'[r] \in {reply'[r], Cut(reply'[r])}
  BY <1>2, <1>4, CutFacts DEF Honest, IsTrue
<1>5. CASE wire'[r] = Problem(500, 500)
  <2>1. 500 \in Statuses
    BY StatusFacts
  <2>2. Honest(input'[r], acted'[r], Problem(500, 500))
    BY <1>1, <2>1, HonestProblem
  <2> QED
    BY <1>5, <2>2 DEF Honest
<1> QED
  BY <1>1, <1>3, <1>4, <1>5 DEF Delivered, Cut

\* What a client sees of a step of its request: it comes, goes on or ends.
LEMMA StepSeen ==
    ASSUME IInv, IInv', NEW r \in Requests, ApiNext(r) \/ \E in \in Inputs[r] : Arrive(r, in)
    PROVE  /\ OthersAsBefore(r) /\ acted' \in [Requests -> BOOLEAN]
           /\ Comes(r) \/ GoesOn(r) \/ Ends(r)
<1>1. ApiTypeOK /\ ApiTypeOK' /\ Local(r) /\ Local(r)'
  BY DEF IInv
<1>2. CASE \E in \in Inputs[r] : Arrive(r, in)
  BY <1>1, <1>2 DEF Arrive, Untouched, ApiTypeOK, OthersAsBefore, Comes
<1>3. CASE Expire(r)
  BY <1>1, <1>3 DEF Expire, Untouched, ApiTypeOK, OthersAsBefore, GoesOn
<1>4. CASE Validate(r) \/ Bind(r) \/ Decode(r) \/ Handle(r)
  <2>1. PICK from \in Unwritten, to \in Unwritten \cup {"answering"} :
          /\ pc[r] = from /\ pc' = [pc EXCEPT ![r] = to]
          /\ \A q \in Requests \ {r} : reply'[q] = reply[q]
          /\ UNCHANGED <<input, expired, wire, wroteHeader, recorded, rec, logged>>
    BY <1>1, <1>4 DEF Validate, Bind, Decode, Handle, Advance, Reply, Unwritten, ApiTypeOK
  <2>2. UNCHANGED <<acted, hub>>
    BY <1>4 DEF Validate, Bind, Decode, Handle, Untouched
  <2> QED
    BY <1>1, <2>1, <2>2 DEF Unwritten, ApiTypeOK, OthersAsBefore, GoesOn
<1>5. CASE WriteHub(r)
  BY <1>1, <1>5 DEF WriteHub, ApiTypeOK, OthersAsBefore, GoesOn
<1>6. CASE (ServiceExpires(r) \/ Serve(r)) /\ ~WriteHub(r)
  <2>1. PICK from \in {"looking", "acting"}, to \in {"acting", "answering"} :
          /\ pc[r] = from /\ pc' = [pc EXCEPT ![r] = to]
          /\ \A q \in Requests \ {r} : reply'[q] = reply[q]
          /\ UNCHANGED <<input, expired, wire, wroteHeader, recorded, rec, logged>>
    BY <1>1, <1>6 DEF ServiceExpires, Serve, HealthAnswers, LookupRefuses, LookupReads, LookupGoesOn,
       ActFails, ActSucceeds, ActConflicts, Advance, Reply, ApiTypeOK
  <2>2. UNCHANGED acted
    BY <1>6 DEF ServiceExpires, Serve, HealthAnswers, LookupRefuses, LookupReads, LookupGoesOn,
       ActFails, ActSucceeds, ActConflicts, MayRollBack, Untouched
  <2> QED
    BY <1>1, <2>1, <2>2 DEF ApiTypeOK, OthersAsBefore, GoesOn
<1>7. CASE SendStatus(r) \/ SendBody(r) \/ SendBreaks(r)
  BY <1>1, <1>7 DEF SendStatus, SendBody, SendBreaks, Untouched, ApiTypeOK, OthersAsBefore, GoesOn
<1>8. CASE Panic(r) \/ Log(r)
  <2>1. pc[r] \notin {"absent", "done"} /\ pc' = [pc EXCEPT ![r] = "done"]
        /\ UNCHANGED <<input, expired, reply, wroteHeader, recorded, acted, hub>>
    BY <1>8 DEF Panic, Log, Untouched
  <2>2. \A q \in Requests \ {r} : wire'[q] = wire[q] /\ rec'[q] = rec[q] /\ logged'[q] = logged[q]
    BY <1>1, <1>8 DEF Panic, Log, ApiTypeOK
  <2>3. pc'[r] = "done"
    BY <1>1, <2>1 DEF ApiTypeOK
  <2>4. /\ wire'[r] \in Answers \cup {Broken}
        /\ wire'[r] = Broken \/ IsTrue(acted'[r], wire'[r])
    BY <1>1, <2>3, DeliveredIsTrue
  <2> QED
    BY <1>1, <2>1, <2>2, <2>3, <2>4 DEF ApiTypeOK, OthersAsBefore, Ends
<1> QED
  BY <1>2, <1>3, <1>4, <1>5, <1>6, <1>7, <1>8 DEF ApiNext, Process

(***************************************************************************)
(* The verdict of an answer, or of a broken one, is one of Exchange's.     *)
(***************************************************************************)
LEMMA VerdictFacts ==
    ASSUME NEW answer \in Answers \cup {Broken}
    PROVE  /\ Verdict(answer) \in Abstract!Verdicts
           /\ answer = Broken => Verdict(answer) = "broken"
<1> DEFINE known == {"accepted", "ok", "refused", "error", "broken"}
<1>1. Verdict(answer) \in known
  <2>1. CASE answer = Broken
    BY <2>1 DEF Verdict
  <2>2. CASE answer # Broken /\ answer.status \in {201, 204}
    BY <2>2 DEF Verdict
  <2>3. CASE answer # Broken /\ answer.status = 200
    BY <2>3 DEF Verdict
  <2>4. CASE answer # Broken /\ answer.status \in 400..499
    BY <2>4 DEF Verdict
  <2>5. CASE answer # Broken /\ answer.status \notin {200, 201, 204} \cup 400..499
    BY <2>5 DEF Verdict
  <2> QED
    BY <2>1, <2>2, <2>3, <2>4, <2>5
<1>2. answer = Broken => Verdict(answer) = "broken"
  BY DEF Verdict
<1> QED
  BY <1>1, <1>2 DEF Abstract!Verdicts

(***************************************************************************)
(* The step lemmas of the refinement: a request comes with Begin, changes  *)
(* the hub with Change and ends with End; all else Exchange does not see.  *)
(***************************************************************************)
LEMMA StepRefines ==
    ASSUME IInv, IInv', NEW r \in Requests, ApiNext(r) \/ \E in \in Inputs[r] : Arrive(r, in)
    PROVE  [Abstract!ExchangeNext]_(Abstract!exchangeVars)
<1> DEFINE Stage == [q \in Requests |-> StageOf(q)]
           Changed == {q \in Requests : acted[q]}
<1>1. /\ OthersAsBefore(r) /\ acted \in [Requests -> BOOLEAN] /\ acted' \in [Requests -> BOOLEAN]
      /\ Comes(r) \/ GoesOn(r) \/ Ends(r)
  BY StepSeen DEF IInv, ApiTypeOK
<1>2. \A q \in Requests \ {r} : StageOf(q)' = StageOf(q)
  BY <1>1 DEF OthersAsBefore, StageOf
<1>3. Stage' = [Stage EXCEPT ![r] = StageOf(r)']
  BY <1>2
<1>4. acted'[r] = acted[r] => Changed' = Changed
  BY <1>1 DEF OthersAsBefore
<1>5. CASE Comes(r)
  <2>1. StageOf(r) = "absent" /\ StageOf(r)' = "open"
    BY <1>5 DEF Comes, StageOf
  <2>2. Abstract!Begin(r)
    BY <1>3, <1>4, <1>5, <2>1 DEF Comes, Abstract!Begin
  <2> QED
    BY <2>2 DEF Abstract!ExchangeNext
<1>6. CASE GoesOn(r)
  <2>1. StageOf(r) = "open" /\ StageOf(r)' = "open"
    BY <1>6 DEF GoesOn, StageOf
  <2>2. Stage' = Stage
    BY <1>3, <2>1
  <2>3. CASE acted'[r] = acted[r]
    BY <1>4, <2>2, <2>3 DEF Abstract!exchangeVars
  <2>4. CASE acted'[r] # acted[r]
    <3>1. ~acted[r] /\ acted'[r]
      BY <1>1, <1>6, <2>4 DEF GoesOn
    <3>2. Changed' = Changed \cup {r} /\ r \notin Changed
      BY <1>1, <3>1 DEF OthersAsBefore
    <3>3. Abstract!Change(r)
      BY <2>1, <2>2, <3>2 DEF Abstract!Change
    <3> QED
      BY <3>3 DEF Abstract!ExchangeNext
  <2> QED
    BY <2>3, <2>4
<1>7. CASE Ends(r)
  <2> DEFINE verdict == Verdict(wire'[r])
  <2>1. StageOf(r) = "open" /\ StageOf(r)' = verdict
    BY <1>7 DEF Ends, StageOf
  <2>2. /\ verdict \in Abstract!Verdicts
        /\ wire'[r] = Broken => verdict = "broken"
    BY <1>7, VerdictFacts DEF Ends
  <2>3. /\ verdict = "accepted" => acted'[r]
        /\ verdict \in {"ok", "refused"} => ~acted'[r]
    BY <1>7, <2>2 DEF Ends, IsTrue
  <2>4. acted'[r] = acted[r]
    BY <1>7 DEF Ends
  <2> HIDE DEF verdict
  <2>5. Abstract!End(r, verdict)
    BY <1>3, <1>4, <2>1, <2>3, <2>4 DEF Abstract!End
  <2> QED
    BY <2>2, <2>5 DEF Abstract!ExchangeNext
<1> QED
  BY <1>1, <1>5, <1>6, <1>7

\* Every step is a step of the exchange, or none.
LEMMA NextRefines ==
    IInv /\ IInv' /\ [Next]_apiVars => [Abstract!ExchangeNext]_(Abstract!exchangeVars)
<1> SUFFICES ASSUME IInv, IInv', [Next]_apiVars
             PROVE  [Abstract!ExchangeNext]_(Abstract!exchangeVars)
  OBVIOUS
<1>1. CASE UNCHANGED apiVars
  BY <1>1 DEF apiVars, Abstract!exchangeVars, StageOf
<1>2. CASE Next
  BY <1>2, StepRefines DEF Next
<1> QED
  BY <1>1, <1>2

\* The exchange starts with no request.
LEMMA InitRefines == ApiInit => Abstract!ExchangeInit
BY DEF ApiInit, StageOf, Abstract!ExchangeInit

-----------------------------------------------------------------------------
(***************************************************************************)
(* TypeCorrect: every answer is one that the code can make, and every      *)
(* status recorded and logged is one of an answer.                         *)
(***************************************************************************)
THEOREM TypeCorrect == Spec => []ApiTypeOK
<1>1. IInv => ApiTypeOK
  BY DEF IInv
<1> QED
  BY <1>1, Invariant, PTL

(***************************************************************************)
(* AnswersHonest: whatever layer answers, an error is a problem document   *)
(* with the status it is sent with, but for the plain text of the          *)
(* generated code (REQ-API-020, REQ-API-040).                              *)
(***************************************************************************)
THEOREM AnswersHonest == Spec => []ErrorsAreProblems
<1>1. IInv => ErrorsAreProblems
  <2> SUFFICES ASSUME IInv, NEW r \in Requests, Answered(r), wire[r].status >= 400
               PROVE  \/ wire[r].body = "problem" /\ wire[r].says = wire[r].status
                      \/ wire[r].body = "text" /\ (Is(r, "other") \/ Has(r, "decode"))
                      \/ wire[r].body = "empty" /\ Is(r, "other")
                      \/ wire[r].body = "cut" /\ rec[r] = "panic" /\ wroteHeader[r]
    BY DEF ErrorsAreProblems
  <2>1. ApiTypeOK /\ Local(r)
    BY DEF IInv
  <2>2. pc[r] \in {"logging", "done"}
    BY <2>1 DEF Local, SendsInOrder, Answered
  <2>3. wroteHeader[r] => IsProblem(input[r], reply[r]) /\ reply[r] \in Answers
    BY <2>1 DEF Local, RepliesHonestly, Honest
  <2>4. CASE wroteHeader[r] /\ wire[r] = reply[r]
    BY <2>3, <2>4 DEF IsProblem, Is, Has
  <2>5. CASE wroteHeader[r] /\ rec[r] = "panic" /\ wire[r] = Cut(reply[r])
    BY <2>3, <2>5, CutFacts
  <2>6. CASE wire[r] = Problem(500, 500)
    <3>1. 500 \in Statuses
      BY StatusFacts
    <3> QED
      BY <2>6, <3>1, ProblemFacts
  <2> QED
    BY <2>1, <2>2, <2>4, <2>5, <2>6 DEF Local, SendsInOrder, Delivered, Answered
<1> QED
  BY <1>1, Invariant, PTL

(***************************************************************************)
(* LogHonest: the line "request completed" has the status that the client  *)
(* got; a request that panicked has no line, and its client holds the      *)
(* answer whose status line was out, or else the recovery's 500, or, after *)
(* http.ErrAbortHandler, nothing (REQ-HTTP-060).                           *)
(***************************************************************************)
THEOREM LogHonest == Spec => []LogTellsAnswer
<1>1. IInv => LogTellsAnswer
  <2> SUFFICES ASSUME IInv, NEW r \in Requests, pc[r] = "done", Answered(r)
               PROVE  \/ rec[r] = "none" /\ logged[r] = wire[r].status
                      \/ /\ rec[r] = "panic" /\ logged[r] = Nothing
                         /\ IF wroteHeader[r] THEN wire[r].status = reply[r].status
                                              ELSE wire[r] = Problem(500, 500)
    BY DEF LogTellsAnswer
  <2>1. ApiTypeOK /\ Local(r)
    BY DEF IInv
  <2>2. Delivered(r) /\ wire[r] # Broken /\ rec[r] \in {"none", "panic", "abort"}
    BY <2>1 DEF Local, SendsInOrder, Answered, ApiTypeOK
  <2>3. wroteHeader[r] => reply[r] \in Answers
    BY <2>1 DEF Local, RepliesHonestly, Honest
  <2>4. IF rec[r] = "none" THEN logged[r] = reply[r].status ELSE logged[r] = Nothing
    BY <2>1, <2>2 DEF Local, LogsHonestly
  <2>5. wroteHeader[r] => Cut(reply[r]).status = reply[r].status
    BY <2>3, CutFacts
  <2> QED
    BY <2>2, <2>4, <2>5 DEF Delivered
<1> QED
  BY <1>1, Invariant, PTL

(***************************************************************************)
(* Refines: the way of a request through middlewares, generated code,      *)
(* Handler and service, side by side with any others, is what Exchange     *)
(* promises, on which Server rests.                                        *)
(***************************************************************************)
THEOREM Refines == Spec => KeepsExchange
<1> QED
  BY Invariant, InitRefines, NextRefines, PTL DEF Spec, KeepsExchange, Abstract!ExchangeSpec

-----------------------------------------------------------------------------
(***************************************************************************)
(* What follows of the exchange holds of the server: these lemmas are      *)
(* about Exchange alone, with the requests of Api as its requests.         *)
(***************************************************************************)
LEMMA ExchangeTells ==
    /\ Abstract!ExchangeInit => Abstract!VerdictsTell
    /\ Abstract!VerdictsTell /\ [Abstract!ExchangeNext]_(Abstract!exchangeVars) => Abstract!VerdictsTell'
<1> DEFINE Stage == [q \in Requests |-> StageOf(q)]
           Changed == {q \in Requests : acted[q]}
<1>1. Abstract!ExchangeInit => Abstract!VerdictsTell
  BY DEF Abstract!ExchangeInit, Abstract!VerdictsTell
<1>2. ASSUME Abstract!VerdictsTell, [Abstract!ExchangeNext]_(Abstract!exchangeVars)
      PROVE  Abstract!VerdictsTell'
  <2>1. CASE UNCHANGED Abstract!exchangeVars
    BY <1>2, <2>1 DEF Abstract!VerdictsTell, Abstract!exchangeVars
  <2>2. ASSUME NEW r \in Requests, Abstract!Begin(r)
        PROVE  Abstract!VerdictsTell'
    BY <1>2, <2>2 DEF Abstract!Begin, Abstract!VerdictsTell
  <2>3. ASSUME NEW r \in Requests, Abstract!Change(r)
        PROVE  Abstract!VerdictsTell'
    BY <1>2, <2>3 DEF Abstract!Change, Abstract!VerdictsTell
  <2>4. ASSUME NEW r \in Requests, NEW verdict \in Abstract!Verdicts, Abstract!End(r, verdict)
        PROVE  Abstract!VerdictsTell'
    BY <1>2, <2>4 DEF Abstract!End, Abstract!VerdictsTell
  <2> QED
    BY <1>2, <2>1, <2>2, <2>3, <2>4 DEF Abstract!ExchangeNext
<1> QED
  BY <1>1, <1>2

\* A request that has ended takes no part in a step.
LEMMA ExchangeEnds ==
    ASSUME Abstract!ExchangeNext, NEW r \in Requests, StageOf(r) \in Abstract!Verdicts
    PROVE  /\ StageOf(r)' = StageOf(r)
           /\ r \in {q \in Requests : acted'[q]} <=> r \in {q \in Requests : acted[q]}
<1> DEFINE Stage == [q \in Requests |-> StageOf(q)]
           Changed == {q \in Requests : acted[q]}
<1>1. Stage[r] = StageOf(r) /\ Stage'[r] = StageOf(r)' /\ DOMAIN Stage = Requests
  OBVIOUS
<1>2. Stage[r] # "absent" /\ Stage[r] # "open"
  BY <1>1 DEF Abstract!Verdicts
<1>3. PICK q \in Requests : Abstract!Begin(q) \/ Abstract!Change(q)
                             \/ \E verdict \in Abstract!Verdicts : Abstract!End(q, verdict)
  BY DEF Abstract!ExchangeNext
<1>4. \/ \E to : Stage' = [Stage EXCEPT ![q] = to] /\ Changed' = Changed
      \/ Stage' = Stage /\ Changed' = Changed \cup {q}
  BY <1>3 DEF Abstract!Begin, Abstract!Change, Abstract!End
<1>5. Stage[q] \in {"absent", "open"}
  BY <1>3 DEF Abstract!Begin, Abstract!Change, Abstract!End
<1>6. q # r
  BY <1>2, <1>5
<1> HIDE DEF Stage, Changed
<1>7. Stage'[r] = Stage[r] /\ (r \in Changed' <=> r \in Changed)
  BY <1>1, <1>4, <1>6
<1> USE DEF Changed
<1> QED
  BY <1>1, <1>7

(***************************************************************************)
(* ClientCanTell: with any number of requests at once, a 201 or 204 that   *)
(* arrives means that the service changed the hub for this request, and a  *)
(* 200 or a 4xx that it did not.  It is proved of Exchange and carried     *)
(* over by Refines.                                                        *)
(***************************************************************************)
THEOREM ClientCanTell == Spec => []Abstract!VerdictsTell
<1> QED
  BY Refines, ExchangeTells, PTL DEF KeepsExchange, Abstract!ExchangeSpec

(***************************************************************************)
(* NothingAfterAnswer: once a request is over, also one that panicked,     *)
(* ran into its deadline or lost its client, no later step of the server   *)
(* changes the hub on its account.                                         *)
(***************************************************************************)
THEOREM NothingAfterAnswer == Spec => Abstract!VerdictsAreFinal
<1>1. Abstract!ExchangeNext => Abstract!KeepsVerdicts
  BY ExchangeEnds DEF Abstract!KeepsVerdicts
<1> QED
  BY <1>1, Refines, PTL DEF KeepsExchange, Abstract!ExchangeSpec, Abstract!VerdictsAreFinal

=============================================================================
