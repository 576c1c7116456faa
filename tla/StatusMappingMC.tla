-------------------------- MODULE StatusMappingMC --------------------------
(***************************************************************************)
(* Model-checking instance of ConditionPair: every pair of a HostedCluster *)
(* and a NodePool with a few conditions, malformed and repeated ones       *)
(* included.  The text of a condition is its own [type, status], so that a *)
(* message tells which condition it came from.                             *)
(***************************************************************************)
EXTENDS ConditionPair

ConditionOf(type, status) ==
    [type |-> type, status |-> status, message |-> <<type, status>>]

SomeHCConditions ==
    {ConditionOf(ty, st) : ty \in {"Degraded", "Available", "Progressing"},
                           st \in {"True", "False", "Unknown"}} \cup {Malformed}

SomeNPConditions ==
    {ConditionOf(ty, st) : ty \in {"UpdatingVersion", "UpdatingConfig", "Ready"},
                           st \in {"True", "False"}}
    \cup {ConditionOf("Ready", "Unknown"), Malformed}
=============================================================================
