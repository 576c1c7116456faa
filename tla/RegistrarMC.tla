---------------------------- MODULE RegistrarMC ----------------------------
(***************************************************************************)
(* Model-checking instance of Registrar: two versions in the matrix and    *)
(* one ClusterImageSet version that the matrix lacks; backoffs that meet   *)
(* the cap by doubling, and an initial one that is above the cap.          *)
(***************************************************************************)
EXTENDS Registrar, TLC

Backoffs(first, most) == [initialBackoff |-> first, maxBackoff |-> most]

SomeConfigs == {Backoffs(1, 3), Backoffs(5, 3)}

SmallMatrix == ("4.16" :> "1.29") @@ ("4.17" :> "1.30")
=============================================================================
