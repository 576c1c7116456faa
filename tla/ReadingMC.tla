----------------------------- MODULE ReadingMC -----------------------------
(***************************************************************************)
(* Model-checking instance of Reading: one name that two clusters use one  *)
(* after the other, and three matrices: the default one, one in which two  *)
(* OCP versions share a Kubernetes version, and one without entries.  One  *)
(* release image is in none of them.                                       *)
(***************************************************************************)
EXTENDS Reading, TLC

CONSTANTS m1, m2

Cond(type, status, message) == [type |-> type, status |-> status, message |-> message]

Object(conds) == [deleting |-> FALSE, conditions |-> conds]

SomeObjects ==
    {Object(<<>>),
     Object(<<Cond("Available", "True", NoText)>>),
     Object(<<Cond("Progressing", "False", m1), Cond("Available", "False", m2)>>),
     Object(<<Cond("Available", "True", m2), Cond("Degraded", "True", m1)>>),
     Object(<<Cond("Degraded", "True", NoText), Cond("Degraded", "True", m1)>>),
     [deleting |-> TRUE, conditions |-> <<>>]}

SmallDefault == ("4.16" :> "1.29") @@ ("4.17" :> "1.30")

SharedMatrix == ("4.16" :> "1.30") @@ ("4.17" :> "1.30")

NoEntries == [o \in {} |-> "1.30"]

SomeMatrices == {SmallDefault, SharedMatrix, NoEntries}
=============================================================================
