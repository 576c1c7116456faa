------------------------------ MODULE Exchange ------------------------------
(***************************************************************************)
(* What the HTTP server promises of a request, whatever happens inside:    *)
(* it comes, it may change the hub once, and it ends with a verdict from   *)
(* which the client can tell whether it did.                               *)
(***************************************************************************)
CONSTANT Requests

VARIABLES
    stage,      \* where a request is, or the verdict it ended with
    changed     \* the requests that changed the hub

exchangeVars == <<stage, changed>>

(***************************************************************************)
(* "accepted" is a 201 or 204, "ok" a 200, "refused" a 4xx, "error" a 5xx; *)
(* "broken": the client did not get a whole answer.                        *)
(***************************************************************************)
Verdicts == {"accepted", "ok", "refused", "error", "broken"}

ExchangeInit ==
    /\ stage = [r \in Requests |-> "absent"]
    /\ changed = {}

Begin(r) ==
    /\ stage[r] = "absent"
    /\ stage' = [stage EXCEPT ![r] = "open"]
    /\ UNCHANGED changed

Change(r) ==
    /\ stage[r] = "open" /\ r \notin changed
    /\ changed' = changed \cup {r}
    /\ UNCHANGED stage

(***************************************************************************)
(* Only an error, or no answer, leaves open whether the hub was changed.   *)
(***************************************************************************)
End(r, verdict) ==
    /\ stage[r] = "open"
    /\ verdict = "accepted" => r \in changed
    /\ verdict \in {"ok", "refused"} => r \notin changed
    /\ stage' = [stage EXCEPT ![r] = verdict]
    /\ UNCHANGED changed

ExchangeNext ==
    \E r \in Requests : Begin(r) \/ Change(r) \/ \E verdict \in Verdicts : End(r, verdict)

ExchangeSpec == ExchangeInit /\ [][ExchangeNext]_exchangeVars

-----------------------------------------------------------------------------
(***************************************************************************)
(* VerdictsTell: a client that was told of success can rely on the change, *)
(* and one that was refused, or that only read, on there being none.       *)
(***************************************************************************)
VerdictsTell ==
    \A r \in Requests :
        /\ stage[r] = "accepted" => r \in changed
        /\ stage[r] \in {"ok", "refused"} => r \notin changed

(***************************************************************************)
(* VerdictsAreFinal: nothing is done for a request once it has ended; what *)
(* its client was told stays true.                                         *)
(***************************************************************************)
KeepsVerdicts ==
    \A r \in Requests : stage[r] \in Verdicts =>
        stage'[r] = stage[r] /\ (r \in changed' <=> r \in changed)

VerdictsAreFinal == [][KeepsVerdicts]_exchangeVars

=============================================================================
