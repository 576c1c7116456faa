------------------------------- MODULE ApiMC -------------------------------
(***************************************************************************)
(* Model-checking instance of Api: a request of any kind beside one that   *)
(* creates or deletes, on an id that the hub has at first or has not.      *)
(***************************************************************************)
EXTENDS Api, TLC

CONSTANTS r1, r2

Sound(op, id) == [op |-> op, id |-> id, flaw |-> "none"]

Flawed(op, flaw) == [op |-> op, id |-> "a", flaw |-> flaw]

AnyInput ==
    {Sound(op, "a") : op \in {"create", "get", "list", "delete"}}
      \cup {Sound("get", "health"), NoInput}
      \cup {Flawed("create", flaw) : flaw \in Flaws \ {"none"}}

SomeInputs == (r1 :> AnyInput) @@ (r2 :> {Sound(op, "a") : op \in {"create", "delete"}})
=============================================================================
