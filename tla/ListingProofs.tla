--------------------------- MODULE ListingProofs ---------------------------
(***************************************************************************)
(* Proofs about Listing, for every finite set of names and every page      *)
(* size: types, and what a walk over a changing list can repeat or skip.   *)
(***************************************************************************)
EXTENDS Listing, FiniteSetTheorems, TLAPS

(***************************************************************************)
(* Every list is a finite set of numbers, so its parts have cardinalities. *)
(***************************************************************************)
LEMMA ListFinite ==
    ASSUME NEW list \in SUBSET Names
    PROVE  /\ IsFiniteSet(list) /\ Cardinality(list) \in Nat
           /\ \A x \in Names : IsFiniteSet(Preceding(list, x)) /\ Rank(list, x) \in Nat
<1>1. IsFiniteSet(list)
  BY NamesAssumption, FS_Subset
<1>2. \A x \in Names : Preceding(list, x) \subseteq list
  BY DEF Preceding
<1>3. \A x \in Names : IsFiniteSet(Preceding(list, x))
  BY <1>1, <1>2, FS_Subset
<1> QED
  BY <1>1, <1>3, FS_CardinalityType DEF Rank

(***************************************************************************)
(* A listed name has its place within the list.                            *)
(***************************************************************************)
LEMMA RankInList ==
    ASSUME NEW list \in SUBSET Names, NEW x \in list
    PROVE  Rank(list, x) < Cardinality(list)
<1>1. Preceding(list, x) \subseteq list /\ x \notin Preceding(list, x)
  BY NamesAssumption DEF Preceding
<1>2. Preceding(list, x) # list
  BY <1>1
<1>3. IsFiniteSet(list) /\ Cardinality(list) \in Nat /\ Cardinality(Preceding(list, x)) \in Nat
  BY ListFinite DEF Rank
<1>4. Cardinality(Preceding(list, x)) <= Cardinality(list)
      /\ (Cardinality(list) = Cardinality(Preceding(list, x)) => Preceding(list, x) = list)
  BY <1>1, <1>3, FS_Subset
<1> QED
  BY <1>2, <1>3, <1>4 DEF Rank

(***************************************************************************)
(* A creation moves no name forward, a deletion moves none back, and both  *)
(* leave the names up to the one created or deleted in their places.       *)
(***************************************************************************)
LEMMA RankMoves ==
    ASSUME NEW list \in SUBSET Names, NEW y \in Names, NEW x \in Names
    PROVE  /\ Rank(list, x) <= Rank(list \cup {y}, x)
           /\ Rank(list \ {y}, x) <= Rank(list, x)
           /\ ~ (y < x) => /\ Rank(list \cup {y}, x) = Rank(list, x)
                           /\ Rank(list \ {y}, x) = Rank(list, x)
<1>1. list \cup {y} \in SUBSET Names /\ list \ {y} \in SUBSET Names
  OBVIOUS
<1>2. /\ Preceding(list, x) \subseteq Preceding(list \cup {y}, x)
      /\ Preceding(list \ {y}, x) \subseteq Preceding(list, x)
  BY DEF Preceding
<1>3. Rank(list, x) <= Rank(list \cup {y}, x)
  BY <1>1, <1>2, ListFinite, FS_Subset DEF Rank
<1>4. Rank(list \ {y}, x) <= Rank(list, x)
  BY <1>1, <1>2, ListFinite, FS_Subset DEF Rank
<1>5. ASSUME ~ (y < x)
      PROVE  /\ Preceding(list \cup {y}, x) = Preceding(list, x)
             /\ Preceding(list \ {y}, x) = Preceding(list, x)
  BY <1>5 DEF Preceding
<1> QED
  BY <1>3, <1>4, <1>5 DEF Rank

(***************************************************************************)
(* What an accepted request returns: names of the list from the token's    *)
(* place on; the next token, if any, is further on and within the list,    *)
(* and without one the page reaches the end of the list.                   *)
(***************************************************************************)
LEMMA PageFacts ==
    ASSUME NEW list \in SUBSET Names, NEW tok \in Nat, NEW n \in Nat, n >= 1
    PROVE  /\ NextToken(list, tok, n) \in Nat \cup {Unset}
           /\ NextToken(list, tok, n) # Unset => tok < NextToken(list, tok, n)
           /\ \A x \in PageOf(list, tok, n) :
                /\ x \in list
                /\ Rank(list, x) >= tok
                /\ NextToken(list, tok, n) # Unset => Rank(list, x) < NextToken(list, tok, n)
           /\ \A x \in list \ PageOf(list, tok, n) :
                Rank(list, x) >= tok =>
                  /\ NextToken(list, tok, n) # Unset
                  /\ Rank(list, x) >= NextToken(list, tok, n)
<1> DEFINE c == Cardinality(list)
           o == Offset(list, tok)
           e == End(list, tok, n)
           next == NextToken(list, tok, n)
<1>1. c \in Nat /\ \A x \in list : Rank(list, x) \in Nat /\ Rank(list, x) < c
  BY ListFinite, RankInList
<1>2. o = (IF tok <= c THEN tok ELSE c) /\ o \in Nat /\ o <= c
  BY <1>1 DEF Offset, Smaller
<1>3. e = (IF o + n <= c THEN o + n ELSE c) /\ e \in Nat /\ e <= c
  BY <1>1, <1>2 DEF End, Smaller
<1>4. next = (IF e < c THEN e ELSE Unset)
  BY DEF NextToken
<1>5. e < c => o = tok /\ e = tok + n
  BY <1>1, <1>2, <1>3
<1>6. PageOf(list, tok, n) = {x \in list : Rank(list, x) >= o /\ Rank(list, x) < e}
  BY DEF PageOf
<1> HIDE DEF c, o, e, next
<1>7. next \in Nat \cup {Unset} /\ (next # Unset => next = e /\ e < c)
  BY <1>3, <1>4
<1>8. next # Unset => tok < next
  BY <1>5, <1>7
<1>9. ASSUME NEW x \in PageOf(list, tok, n)
      PROVE  /\ x \in list /\ Rank(list, x) >= tok
             /\ next # Unset => Rank(list, x) < next
  BY <1>1, <1>2, <1>6, <1>7
<1>10. ASSUME NEW x \in list \ PageOf(list, tok, n), Rank(list, x) >= tok
       PROVE  next # Unset /\ Rank(list, x) >= next
  <2>1. Rank(list, x) >= e
    BY <1>1, <1>2, <1>3, <1>6, <1>10
  <2>2. e < c
    BY <1>1, <1>3, <2>1
  <2>3. next = e /\ e # Unset
    BY <1>3, <1>4, <2>2, SizesAssumption
  <2> QED
    BY <2>1, <2>3
<1> QED
  BY <1>7, <1>8, <1>9, <1>10 DEF next

(***************************************************************************)
(* The page size that reaches the list is a positive number.               *)
(***************************************************************************)
LEMMA AcceptedSize ==
    ASSUME NEW size \in Sizes, SizeAccepted(size)
    PROVE  EffectiveSize(size) \in Nat /\ EffectiveSize(size) >= 1
BY SizesAssumption DEF SizeAccepted, EffectiveSize

(***************************************************************************)
(* The types hold in every reachable state.                                *)
(***************************************************************************)
LEMMA TypeInductive == TypeOK /\ [Next]_vars => TypeOK'
<1> SUFFICES ASSUME TypeOK, [Next]_vars PROVE TypeOK'
  OBVIOUS
<1> USE BoundsAssumption DEF TypeOK
<1>1. ASSUME NEW x \in Names, Create(x) PROVE TypeOK'
  BY <1>1 DEF Create
<1>2. ASSUME NEW x \in Names, Delete(x) PROVE TypeOK'
  BY <1>2 DEF Delete
<1>3. CASE Begin
  BY <1>3 DEF Begin
<1>4. ASSUME NEW size \in Sizes, Answer(size) PROVE TypeOK'
  <2>1. EffectiveSize(size) \in Nat /\ EffectiveSize(size) >= 1
    BY <1>4, AcceptedSize DEF Answer
  <2>2. hcs \in SUBSET Names
    OBVIOUS
  <2>3. NextToken(hcs, token, EffectiveSize(size)) \in Nat \cup {Unset}
    BY <2>1, <2>2, PageFacts
  <2>4. PageOf(hcs, token, EffectiveSize(size)) \in SUBSET Names
    BY DEF PageOf
  <2>5. reply' \in Replies
    BY <1>4, <2>3, <2>4 DEF Answer, Replies
  <2> QED
    BY <1>4, <2>5 DEF Answer
<1>5. ASSUME NEW size \in Sizes, NEW tok \in {token, Garbled}, Refuse(size, tok)
      PROVE  TypeOK'
  BY <1>5 DEF Refuse, Replies
<1>6. CASE ListFails
  BY <1>6 DEF ListFails, Replies
<1>7. CASE Receive
  <2>1. reply' \in Replies
    BY <1>7 DEF Receive, Replies, NoReply
  <2>2. token' \in Nat /\ client' \in {"ready", "done"}
    BY <1>7 DEF Receive, Replies
  <2>3. seen' \in [Names -> Nat]
    BY <1>7 DEF Receive
  <2> QED
    BY <1>7, <2>1, <2>2, <2>3 DEF Receive
<1>8. CASE Lose
  BY <1>8 DEF Lose, Replies, NoReply
<1>9. CASE UNCHANGED vars
  BY <1>9 DEF vars
<1> QED
  BY <1>1, <1>2, <1>3, <1>4, <1>5, <1>6, <1>7, <1>8, <1>9 DEF Next

(***************************************************************************)
(* Type correctness, for any names, page sizes and bounds: in particular   *)
(* the offset that a token carries is always a natural number.             *)
(***************************************************************************)
THEOREM TypeCorrect == Spec => []TypeOK
<1>1. Init => TypeOK
  BY BoundsAssumption DEF Init, TypeOK, NoReply, Replies
<1> QED
  BY <1>1, TypeInductive, PTL DEF Spec

(***************************************************************************)
(* Where a walk stands.  A name already shown, that no creation has pushed *)
(* back, is before the token; a name that was there all the time, that no  *)
(* deletion has pulled forward, and that was not shown, is still ahead of  *)
(* it.  The same holds of the answer under way.                            *)
(***************************************************************************)
ShownIsBehind ==
    \A x \in Names : ~PushedBack(x) =>
        /\ seen[x] <= 1
        /\ client \in {"ready", "answered"} /\ seen[x] = 1 => Rank(hcs, x) < token

UnshownIsAhead ==
    \A x \in steady : seen[x] = 0 /\ ~PulledForward(x) =>
        client \in {"ready", "answered"} /\ Rank(hcs, x) >= token

AnswerFits ==
    client = "answered" /\ reply.code = 200 =>
        /\ reply.next # Unset => token < reply.next
        /\ \A x \in reply.page : ~PushedBack(x) =>
              seen[x] = 0 /\ (reply.next # Unset => Rank(hcs, x) < reply.next)
        /\ \A x \in steady \ reply.page : seen[x] = 0 /\ ~PulledForward(x) =>
              reply.next # Unset /\ Rank(hcs, x) >= reply.next

WalkInv == ShownIsBehind /\ UnshownIsAhead /\ AnswerFits

(***************************************************************************)
(* The steps that leave the walk alone but move the list under it.         *)
(***************************************************************************)
LEMMA WalkSurvivesCreate ==
    ASSUME TypeOK, WalkInv, NEW y \in Names, Create(y)
    PROVE  WalkInv'
<1>1. hcs \in SUBSET Names /\ hcs' = hcs \cup {y} /\ created' = created \cup {y}
  BY DEF TypeOK, Create
<1>2. /\ UNCHANGED <<client, token, reply, seen, steady, deleted>>
      /\ token \in Nat /\ reply \in Replies /\ steady \subseteq Names
  BY DEF TypeOK, Create
<1>3. \A x \in Names : /\ Rank(hcs, x) \in Nat /\ Rank(hcs', x) \in Nat
                       /\ Rank(hcs, x) <= Rank(hcs', x)
                       /\ ~ (y < x) => Rank(hcs', x) = Rank(hcs, x)
  BY <1>1, RankMoves, ListFinite
<1>4. \A x \in Names : ~PushedBack(x)' => ~PushedBack(x) /\ ~ (y < x)
  BY <1>1 DEF PushedBack
<1>5. \A x \in Names : PulledForward(x)' = PulledForward(x)
  BY <1>2 DEF PulledForward
<1>6. ShownIsBehind'
  BY <1>2, <1>3, <1>4 DEF WalkInv, ShownIsBehind
<1>7. UnshownIsAhead'
  BY <1>2, <1>3, <1>5 DEF WalkInv, UnshownIsAhead
<1>8. AnswerFits'
  <2>1. SUFFICES ASSUME client = "answered", reply.code = 200 PROVE AnswerFits'
    BY <1>2 DEF AnswerFits
  <2>2. reply.page \subseteq Names /\ reply.next \in Nat \cup {Unset}
    BY <1>2, <2>1 DEF Replies
  <2> QED
    BY <1>2, <1>3, <1>4, <1>5, <2>1, <2>2, SizesAssumption DEF WalkInv, AnswerFits
<1> QED
  BY <1>6, <1>7, <1>8 DEF WalkInv

(***************************************************************************)
(* The same for a deletion.                                                *)
(***************************************************************************)
LEMMA WalkSurvivesDelete ==
    ASSUME TypeOK, WalkInv, NEW y \in Names, Delete(y)
    PROVE  WalkInv'
<1>1. /\ hcs \in SUBSET Names /\ hcs' = hcs \ {y}
      /\ deleted' = deleted \cup {y} /\ steady' \subseteq steady
  BY DEF TypeOK, Delete
<1>2. /\ UNCHANGED <<client, token, reply, seen, created>>
      /\ token \in Nat /\ reply \in Replies /\ steady \subseteq Names
  BY DEF TypeOK, Delete
<1>3. \A x \in Names : /\ Rank(hcs, x) \in Nat /\ Rank(hcs', x) \in Nat
                       /\ Rank(hcs', x) <= Rank(hcs, x)
                       /\ ~ (y < x) => Rank(hcs', x) = Rank(hcs, x)
  BY <1>1, RankMoves, ListFinite
<1>4. \A x \in Names : ~PulledForward(x)' => ~PulledForward(x) /\ ~ (y < x)
  BY <1>1 DEF PulledForward
<1>5. \A x \in Names : PushedBack(x)' = PushedBack(x)
  BY <1>2 DEF PushedBack
<1>6. ShownIsBehind'
  BY <1>2, <1>3, <1>5 DEF WalkInv, ShownIsBehind
<1>7. UnshownIsAhead'
  BY <1>1, <1>2, <1>3, <1>4 DEF WalkInv, UnshownIsAhead
<1>8. AnswerFits'
  <2>1. SUFFICES ASSUME client = "answered", reply.code = 200 PROVE AnswerFits'
    BY <1>2 DEF AnswerFits
  <2>2. reply.page \subseteq Names /\ reply.next \in Nat \cup {Unset}
    BY <1>2, <2>1 DEF Replies
  <2> QED
    BY <1>1, <1>2, <1>3, <1>4, <1>5, <2>1, <2>2, SizesAssumption DEF WalkInv, AnswerFits
<1> QED
  BY <1>6, <1>7, <1>8 DEF WalkInv

(***************************************************************************)
(* A page cut from the current list fits the walk.                         *)
(***************************************************************************)
LEMMA WalkSurvivesAnswer ==
    ASSUME TypeOK, WalkInv, NEW size \in Sizes, Answer(size)
    PROVE  WalkInv'
<1> DEFINE n == EffectiveSize(size)
           page == PageOf(hcs, token, n)
           next == NextToken(hcs, token, n)
<1>1. n \in Nat /\ n >= 1
  BY AcceptedSize DEF Answer
<1>2. /\ reply' = [code |-> 200, page |-> page, next |-> next]
      /\ client = "ready" /\ client' = "answered"
      /\ UNCHANGED <<hcs, token, seen, steady, created, deleted>>
  BY DEF Answer
<1>3. /\ hcs \in SUBSET Names /\ token \in Nat /\ steady \subseteq hcs
      /\ seen \in [Names -> Nat]
      /\ \A x \in Names : Rank(hcs, x) \in Nat
  BY ListFinite DEF TypeOK
<1>4. /\ next # Unset => token < next
      /\ \A x \in page : /\ x \in hcs /\ Rank(hcs, x) >= token
                         /\ next # Unset => Rank(hcs, x) < next
      /\ \A x \in hcs \ page : Rank(hcs, x) >= token =>
                                next # Unset /\ Rank(hcs, x) >= next
  BY <1>1, <1>3, PageFacts
<1> HIDE DEF n, page, next
<1>5. \A x : PushedBack(x)' = PushedBack(x) /\ PulledForward(x)' = PulledForward(x)
  BY <1>2 DEF PushedBack, PulledForward
<1>6. ShownIsBehind' /\ UnshownIsAhead'
  BY <1>2, <1>5 DEF WalkInv, ShownIsBehind, UnshownIsAhead
<1>7. \A x \in page : ~PushedBack(x) => seen[x] = 0
  BY <1>2, <1>3, <1>4 DEF WalkInv, ShownIsBehind
<1>8. \A x \in steady : seen[x] = 0 /\ ~PulledForward(x) => Rank(hcs, x) >= token
  BY DEF WalkInv, UnshownIsAhead
<1>9. AnswerFits'
  BY <1>2, <1>3, <1>4, <1>5, <1>7, <1>8 DEF AnswerFits
<1> QED
  BY <1>6, <1>9 DEF WalkInv

(***************************************************************************)
(* An answer that arrives moves the walk on as its page and token say.     *)
(***************************************************************************)
LEMMA WalkSurvivesReceive ==
    ASSUME TypeOK, WalkInv, Receive
    PROVE  WalkInv'
<1>1. /\ client = "answered" /\ reply' = NoReply
      /\ UNCHANGED <<hcs, steady, created, deleted>>
      /\ client' \in {"ready", "done"}
  BY DEF Receive
<1>2. /\ hcs \in SUBSET Names /\ token \in Nat /\ steady \subseteq Names
      /\ seen \in [Names -> Nat] /\ reply \in Replies
      /\ \A x \in Names : Rank(hcs, x) \in Nat
  BY ListFinite DEF TypeOK
<1>3. \A x : PushedBack(x)' = PushedBack(x) /\ PulledForward(x)' = PulledForward(x)
  BY <1>1 DEF PushedBack, PulledForward
<1>4. AnswerFits'
  BY <1>1 DEF AnswerFits
<1>5. CASE reply.code # 200
  <2>1. client' = "ready" /\ seen' = seen /\ token' = token
    BY <1>5 DEF Receive
  <2>2. ShownIsBehind' /\ UnshownIsAhead'
    BY <1>1, <1>3, <2>1 DEF WalkInv, ShownIsBehind, UnshownIsAhead
  <2> QED
    BY <1>4, <2>2 DEF WalkInv
<1>6. CASE reply.code = 200
  <2>1. reply.page \subseteq Names /\ reply.next \in Nat \cup {Unset}
    BY <1>2, <1>6 DEF Replies
  <2>2. /\ seen' = [x \in Names |-> IF x \in reply.page THEN seen[x] + 1 ELSE seen[x]]
        /\ client' = IF reply.next = Unset THEN "done" ELSE "ready"
        /\ token' = IF reply.next = Unset THEN token ELSE reply.next
    BY <1>6 DEF Receive
  <2>3. \A x \in Names : seen[x] \in Nat /\ seen'[x] \in Nat
                         /\ (x \in reply.page => seen'[x] = seen[x] + 1)
                         /\ (x \notin reply.page => seen'[x] = seen[x])
    BY <1>2, <2>2
  <2>4. /\ reply.next # Unset => token < reply.next
        /\ \A x \in reply.page : ~PushedBack(x) =>
              seen[x] = 0 /\ (reply.next # Unset => Rank(hcs, x) < reply.next)
        /\ \A x \in steady \ reply.page : seen[x] = 0 /\ ~PulledForward(x) =>
              reply.next # Unset /\ Rank(hcs, x) >= reply.next
    BY <1>1, <1>6 DEF WalkInv, AnswerFits
  <2>5. ASSUME NEW x \in Names, ~PushedBack(x)
        PROVE  /\ seen'[x] <= 1
               /\ client' = "ready" /\ seen'[x] = 1 => Rank(hcs, x) < token'
    <3>1. seen[x] <= 1 /\ (seen[x] = 1 => Rank(hcs, x) < token)
      BY <1>1, <2>5 DEF WalkInv, ShownIsBehind
    <3>2. CASE x \in reply.page
      <4>1. seen'[x] = 1
        BY <2>3, <2>4, <2>5, <3>2
      <4>2. client' = "ready" => reply.next # Unset /\ token' = reply.next
        BY <2>2
      <4> QED
        BY <2>4, <2>5, <3>2, <4>1, <4>2
    <3>3. CASE x \notin reply.page
      <4>1. seen'[x] = seen[x]
        BY <2>3, <3>3
      <4>2. client' = "ready" => token < token' /\ token' \in Nat
        BY <2>1, <2>2, <2>4
      <4> QED
        BY <1>2, <3>1, <4>1, <4>2
    <3> QED
      BY <3>2, <3>3
  <2>6. ShownIsBehind'
    BY <1>1, <1>3, <2>5 DEF ShownIsBehind
  <2>7. ASSUME NEW x \in steady, seen'[x] = 0, ~PulledForward(x)
        PROVE  client' = "ready" /\ Rank(hcs, x) >= token'
    <3>1. x \in Names /\ x \notin reply.page /\ seen[x] = 0
      BY <1>2, <2>3, <2>7
    <3>2. reply.next # Unset /\ Rank(hcs, x) >= reply.next
      BY <2>4, <2>7, <3>1
    <3> QED
      BY <2>2, <3>2
  <2>8. UnshownIsAhead'
    BY <1>1, <1>3, <2>7 DEF UnshownIsAhead
  <2> QED
    BY <1>4, <2>6, <2>8 DEF WalkInv
<1> QED
  BY <1>5, <1>6

(***************************************************************************)
(* The place of a walk in the list is kept by every step.                  *)
(***************************************************************************)
LEMMA WalkInductive == TypeOK /\ WalkInv /\ [Next]_vars => WalkInv'
<1> SUFFICES ASSUME TypeOK, WalkInv, [Next]_vars PROVE WalkInv'
  OBVIOUS
<1>1. ASSUME NEW x \in Names, Create(x) PROVE WalkInv'
  BY <1>1, WalkSurvivesCreate
<1>2. ASSUME NEW x \in Names, Delete(x) PROVE WalkInv'
  BY <1>2, WalkSurvivesDelete
<1>3. CASE Begin
  <2>1. hcs' \in SUBSET Names /\ \A x \in Names : Rank(hcs', x) \in Nat
    BY <1>3, ListFinite DEF TypeOK, Begin
  <2>2. client' = "ready" /\ token' = 0 /\ steady' \subseteq Names
    BY <1>3 DEF TypeOK, Begin
  <2>3. \A x \in Names : seen'[x] = 0
    BY <1>3 DEF Begin
  <2> QED
    BY <2>1, <2>2, <2>3 DEF WalkInv, ShownIsBehind, UnshownIsAhead, AnswerFits
<1>4. ASSUME NEW size \in Sizes, Answer(size) PROVE WalkInv'
  BY <1>4, WalkSurvivesAnswer
<1>5. ASSUME \/ ListFails \/ Lose
             \/ \E size \in Sizes, tok \in {token, Garbled} : Refuse(size, tok)
      PROVE  WalkInv'
  <2>1. /\ UNCHANGED <<hcs, token, seen, steady, created, deleted>>
        /\ client \in {"ready", "answered"} /\ client' \in {"ready", "answered"}
        /\ client' = "answered" => reply'.code # 200
    BY <1>5 DEF ListFails, Lose, Refuse
  <2>2. \A x : PushedBack(x)' = PushedBack(x) /\ PulledForward(x)' = PulledForward(x)
    BY <2>1 DEF PushedBack, PulledForward
  <2> QED
    BY <2>1, <2>2 DEF WalkInv, ShownIsBehind, UnshownIsAhead, AnswerFits
<1>6. CASE Receive
  BY <1>6, WalkSurvivesReceive
<1>7. CASE UNCHANGED vars
  BY <1>7 DEF vars, WalkInv, ShownIsBehind, UnshownIsAhead, AnswerFits,
              PushedBack, PulledForward
<1> QED
  BY <1>1, <1>2, <1>3, <1>4, <1>5, <1>6, <1>7 DEF Next

(***************************************************************************)
(* The place of a walk in the list, in every reachable state.              *)
(***************************************************************************)
LEMMA WalkCorrect == Spec => []WalkInv
<1>1. Init => WalkInv
  BY DEF Init, WalkInv, ShownIsBehind, UnshownIsAhead, AnswerFits
<1> QED
  BY <1>1, TypeCorrect, WalkInductive, PTL DEF Spec

(***************************************************************************)
(* A walk repeats a cluster only when a creation pushed it onto a later    *)
(* page, whatever the page sizes, the changes and the retries.             *)
(***************************************************************************)
THEOREM RepeatsOnlyPushedBack == Spec => []NoRepeat
<1>1. TypeOK /\ WalkInv => NoRepeat
  BY DEF TypeOK, WalkInv, ShownIsBehind, NoRepeat
<1> QED
  BY <1>1, TypeCorrect, WalkCorrect, PTL

(***************************************************************************)
(* A finished walk misses a cluster that was there all the time only when  *)
(* a deletion pulled it onto an earlier page.                              *)
(***************************************************************************)
THEOREM SkipsOnlyPulledForward == Spec => []NoSkip
<1>1. WalkInv => NoSkip
  BY DEF WalkInv, UnshownIsAhead, NoSkip
<1> QED
  BY <1>1, WalkCorrect, PTL

-----------------------------------------------------------------------------
(***************************************************************************)
(* While nothing changes, what was there at the beginning of the walk is   *)
(* the list, and every page, answered or read, is a part of it.            *)
(***************************************************************************)
PagesOfTheList ==
    created = {} /\ deleted = {} /\ client # "idle" =>
        /\ steady = hcs
        /\ \A x \in Names : seen[x] > 0 => x \in hcs
        /\ client = "answered" /\ reply.code = 200 => reply.page \subseteq hcs

LEMMA PagesInductive == TypeOK /\ PagesOfTheList /\ [Next]_vars => PagesOfTheList'
<1> SUFFICES ASSUME TypeOK, PagesOfTheList, [Next]_vars PROVE PagesOfTheList'
  OBVIOUS
<1>1. ASSUME NEW x \in Names, Create(x) \/ Delete(x) PROVE PagesOfTheList'
  BY <1>1 DEF Create, Delete, PagesOfTheList
<1>2. CASE Begin
  <2>1. steady' = hcs' /\ client' = "ready" /\ \A x \in Names : seen'[x] = 0
    BY <1>2 DEF Begin
  <2> QED
    BY <2>1 DEF PagesOfTheList
<1>3. ASSUME NEW size \in Sizes, Answer(size) PROVE PagesOfTheList'
  <2>1. reply'.page \subseteq hcs
    BY <1>3 DEF Answer, PageOf
  <2> QED
    BY <1>3, <2>1 DEF Answer, PagesOfTheList
<1>4. ASSUME \/ ListFails \/ Lose
             \/ \E size \in Sizes, tok \in {token, Garbled} : Refuse(size, tok)
      PROVE  PagesOfTheList'
  <2>1. /\ UNCHANGED <<hcs, seen, steady, created, deleted>>
        /\ client \in {"ready", "answered"}
        /\ client' = "answered" => reply'.code # 200
    BY <1>4 DEF ListFails, Lose, Refuse
  <2> QED
    BY <2>1 DEF PagesOfTheList
<1>5. CASE Receive
  <2>1. CASE reply.code = 200
    <3>1. /\ client = "answered" /\ client' # "answered"
          /\ \A x \in Names : seen'[x] = IF x \in reply.page THEN seen[x] + 1 ELSE seen[x]
          /\ UNCHANGED <<hcs, steady, created, deleted>>
      BY <1>5, <2>1 DEF Receive
    <3> QED
      BY <2>1, <3>1 DEF PagesOfTheList
  <2>2. CASE reply.code # 200
    BY <1>5, <2>2 DEF Receive, PagesOfTheList
  <2> QED
    BY <2>1, <2>2
<1>6. CASE UNCHANGED vars
  BY <1>6 DEF vars, PagesOfTheList
<1> QED
  BY <1>1, <1>2, <1>3, <1>4, <1>5, <1>6 DEF Next

\* A walk during which nothing changed has shown the list, and each name once.
QuietWalkIsComplete ==
    client = "done" /\ created = {} /\ deleted = {} =>
        seen = [x \in Names |-> IF x \in hcs THEN 1 ELSE 0]

(***************************************************************************)
(* CompleteWalk: with any page sizes, refused and lost requests included,  *)
(* the pages of a walk over a list that stays as it is are a partition of  *)
(* it: ListClusters leaves nothing out and repeats nothing at the          *)
(* boundaries of pages.                                                    *)
(***************************************************************************)
THEOREM CompleteWalk == Spec => []QuietWalkIsComplete
<1>1. Init => PagesOfTheList
  BY DEF Init, PagesOfTheList
<1>2. Spec => []PagesOfTheList
  BY <1>1, PagesInductive, TypeCorrect, PTL DEF Spec
<1>3. TypeOK /\ NoRepeat /\ NoSkip /\ PagesOfTheList => QuietWalkIsComplete
  <2> SUFFICES ASSUME TypeOK, NoRepeat, NoSkip, PagesOfTheList,
                      client = "done", created = {}, deleted = {}
               PROVE  seen = [x \in Names |-> IF x \in hcs THEN 1 ELSE 0]
    BY DEF QuietWalkIsComplete
  <2>1. ASSUME NEW x \in Names
        PROVE  seen[x] = IF x \in hcs THEN 1 ELSE 0
    <3>1. seen[x] \in Nat
      BY DEF TypeOK
    <3>2. ~(seen[x] > 1)
      BY DEF NoRepeat, PushedBack
    <3>3. x \in hcs => seen[x] # 0
      BY DEF NoSkip, PulledForward, PagesOfTheList
    <3>4. x \notin hcs => ~(seen[x] > 0)
      BY DEF PagesOfTheList
    <3> QED
      BY <3>1, <3>2, <3>3, <3>4
  <2> QED
    BY <2>1 DEF TypeOK
<1> QED
  BY <1>2, <1>3, TypeCorrect, RepeatsOnlyPushedBack, SkipsOnlyPulledForward, PTL

=============================================================================
