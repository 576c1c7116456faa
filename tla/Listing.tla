------------------------------ MODULE Listing ------------------------------
(***************************************************************************)
(* GET /clusters by pages (ListClusters of internal/handler and            *)
(* internal/cluster).  A page token is an offset into the list of managed  *)
(* HostedClusters sorted by name, and every page reads that list anew, so  *)
(* clusters come and go between two pages of one walk.                     *)
(*                                                                         *)
(* A client walks the pages: it asks with the last token it was given,     *)
(* with any page size, and asks again when the answer is an error or is    *)
(* lost.  A name is its place in the order of all names, a number.         *)
(***************************************************************************)
EXTENDS Integers, FiniteSets

CONSTANTS
    Names,          \* names a HostedCluster can have
    Sizes,          \* values of max_page_size that a client sends
    DefaultSize,    \* the page size without max_page_size
    MaxSize,        \* the largest page size that is accepted
    Unset,          \* no max_page_size, or no next_page_token
    Garbled,        \* a page_token that does not decode to a natural number
    MaxChanges,     \* bound: creations and deletions in a behaviour
    MaxFailures     \* bound: failed List calls, lost answers, garbled tokens

ASSUME NamesAssumption == Names \subseteq Nat /\ IsFiniteSet(Names)

ASSUME SizesAssumption ==
    /\ Sizes \subseteq Int \cup {Unset} /\ Unset \notin Int /\ Garbled \notin Int
    /\ MaxSize \in Nat /\ DefaultSize \in 1..MaxSize

ASSUME BoundsAssumption == MaxChanges \in Nat /\ MaxFailures \in Nat

VARIABLES
    hcs,        \* names of the managed HostedClusters on the hub
    client,     \* "idle", "ready" to ask, "answered", or "done" with a walk
    token,      \* the token the client holds; without one the offset is 0
    reply,      \* the answer under way to the client
    seen,       \* how often the walk has shown each name
    steady,     \* history: names present ever since the walk began
    created, deleted,   \* history: names created and deleted during the walk
    changes, failures

vars == <<hcs, client, token, reply, seen, steady, created, deleted, changes,
          failures>>

Replies == [code : {200}, page : SUBSET Names, next : Nat \cup {Unset}]
             \cup [code : {400, 500}]

NoReply == [code |-> 500]

TypeOK ==
    /\ hcs \subseteq Names /\ steady \subseteq hcs
    /\ created \subseteq Names /\ deleted \subseteq Names
    /\ client \in {"idle", "ready", "answered", "done"}
    /\ token \in Nat
    /\ reply \in Replies
    /\ seen \in [Names -> Nat]
    /\ changes \in 0..MaxChanges /\ failures \in 0..MaxFailures

Smaller(a, b) == IF a <= b THEN a ELSE b

(***************************************************************************)
(* The place of a name in the sorted list: how many names precede it.      *)
(***************************************************************************)
Preceding(list, x) == {y \in list : y < x}

Rank(list, x) == Cardinality(Preceding(list, x))

(***************************************************************************)
(* validateMaxPageSize, and the default of the handler.                    *)
(***************************************************************************)
EffectiveSize(size) == IF size = Unset THEN DefaultSize ELSE size

SizeAccepted(size) == size = Unset \/ size \in 1..MaxSize

(***************************************************************************)
(* The page of a list and the token of the next one, at a natural offset.  *)
(***************************************************************************)
Offset(list, tok) == Smaller(tok, Cardinality(list))

End(list, tok, n) == Smaller(Offset(list, tok) + n, Cardinality(list))

PageOf(list, tok, n) ==
    {x \in list : Rank(list, x) >= Offset(list, tok) /\ Rank(list, x) < End(list, tok, n)}

\* Mutant of NextToken: the next page starts with the last name of this one.
OverlappingNextToken(list, tok, n) ==
    IF End(list, tok, n) < Cardinality(list) THEN End(list, tok, n) - 1 ELSE Unset

\* Mutant of NextToken: the last page is left out when it has one name.
ShortNextToken(list, tok, n) ==
    IF End(list, tok, n) + 1 < Cardinality(list) THEN End(list, tok, n) ELSE Unset

\* Mutant of NextToken: a full last page is followed by an empty one for ever.
EndlessNextToken(list, tok, n) ==
    IF End(list, tok, n) <= Cardinality(list) THEN End(list, tok, n) ELSE Unset

NextToken(list, tok, n) ==
    IF End(list, tok, n) < Cardinality(list) THEN End(list, tok, n) ELSE Unset

Init ==
    /\ hcs \in SUBSET Names
    /\ client = "idle" /\ token = 0 /\ reply = NoReply
    /\ seen = [x \in Names |-> 0]
    /\ steady = {} /\ created = {} /\ deleted = {}
    /\ changes = 0 /\ failures = 0

(***************************************************************************)
(* Clusters come and go, by POST and DELETE or by an administrator.        *)
(***************************************************************************)
Create(x) ==
    /\ x \in Names \ hcs /\ changes < MaxChanges
    /\ hcs' = hcs \cup {x}
    /\ created' = created \cup {x}
    /\ changes' = changes + 1
    /\ UNCHANGED <<client, token, reply, seen, steady, deleted, failures>>

Delete(x) ==
    /\ x \in hcs /\ changes < MaxChanges
    /\ hcs' = hcs \ {x}
    /\ steady' = steady \ {x}
    /\ deleted' = deleted \cup {x}
    /\ changes' = changes + 1
    /\ UNCHANGED <<client, token, reply, seen, created, failures>>

(***************************************************************************)
(* The client begins a walk, without a token.                              *)
(***************************************************************************)
Begin ==
    /\ client \in {"idle", "done"}
    /\ client' = "ready" /\ token' = 0
    /\ seen' = [x \in Names |-> 0]
    /\ steady' = hcs /\ created' = {} /\ deleted' = {}
    /\ UNCHANGED <<hcs, reply, changes, failures>>

(***************************************************************************)
(* One request: the page size is checked, the list is read, the token is   *)
(* decoded and the page is cut out of the list.                            *)
(***************************************************************************)
Answer(size) ==
    /\ client = "ready" /\ SizeAccepted(size)
    /\ client' = "answered"
    /\ reply' = [code |-> 200,
                 page |-> PageOf(hcs, token, EffectiveSize(size)),
                 next |-> NextToken(hcs, token, EffectiveSize(size))]
    /\ UNCHANGED <<hcs, token, seen, steady, created, deleted, changes, failures>>

Refuse(size, tok) ==
    /\ client = "ready" /\ failures < MaxFailures
    /\ ~SizeAccepted(size) \/ tok = Garbled
    /\ client' = "answered" /\ reply' = [code |-> 400]
    /\ failures' = failures + 1
    /\ UNCHANGED <<hcs, token, seen, steady, created, deleted, changes>>

ListFails ==
    /\ client = "ready" /\ failures < MaxFailures
    /\ client' = "answered" /\ reply' = [code |-> 500]
    /\ failures' = failures + 1
    /\ UNCHANGED <<hcs, token, seen, steady, created, deleted, changes>>

(***************************************************************************)
(* The answer arrives, or the client gives up waiting for it.              *)
(***************************************************************************)
Receive ==
    /\ client = "answered"
    /\ reply' = NoReply
    /\ IF reply.code = 200
         THEN /\ seen' = [x \in Names |-> IF x \in reply.page THEN seen[x] + 1 ELSE seen[x]]
              /\ client' = IF reply.next = Unset THEN "done" ELSE "ready"
              /\ token' = IF reply.next = Unset THEN token ELSE reply.next
         ELSE client' = "ready" /\ UNCHANGED <<seen, token>>
    /\ UNCHANGED <<hcs, steady, created, deleted, changes, failures>>

Lose ==
    /\ client = "answered" /\ failures < MaxFailures
    /\ reply' = NoReply /\ client' = "ready"
    /\ failures' = failures + 1
    /\ UNCHANGED <<hcs, token, seen, steady, created, deleted, changes>>

Next ==
    \/ \E x \in Names : Create(x) \/ Delete(x)
    \/ Begin
    \/ \E size \in Sizes : Answer(size) \/ (\E tok \in {token, Garbled} : Refuse(size, tok))
    \/ ListFails
    \/ Receive
    \/ Lose

(***************************************************************************)
(* A client that has begun a walk goes on with it, and the server answers. *)
(***************************************************************************)
Fairness == WF_vars(\E size \in Sizes : Answer(size)) /\ WF_vars(Receive)

Spec == Init /\ [][Next]_vars /\ Fairness

(***************************************************************************)
(* A name was pushed back, or pulled forward, by a change before it in the *)
(* list during the walk.                                                   *)
(***************************************************************************)
PushedBack(x) == \E y \in created : y < x

PulledForward(x) == \E y \in deleted : y < x

(***************************************************************************)
(* A walk shows a cluster a second time only if a cluster with a smaller   *)
(* name was created during the walk and pushed it onto a later page.       *)
(***************************************************************************)
NoRepeat ==
    \A x \in Names : seen[x] > 1 => PushedBack(x)

(***************************************************************************)
(* A walk that has ended has shown every cluster that existed throughout   *)
(* it, unless a cluster with a smaller name was deleted during the walk    *)
(* and pulled the rest of the list across the page boundary.               *)
(***************************************************************************)
NoSkip ==
    client = "done" =>
        \A x \in steady : seen[x] = 0 => PulledForward(x)

(***************************************************************************)
(* Every walk ends with a page that has no next_page_token, once clusters  *)
(* have stopped changing and calls have stopped failing.                   *)
(***************************************************************************)
WalkEnds == client = "ready" ~> client = "done"

=============================================================================
