---------------------------- MODULE ClusterOpsMC ----------------------------
(***************************************************************************)
(* Model-checking instances of ClusterOps.                                 *)
(***************************************************************************)
EXTENDS ClusterOps, TLC

\* Requests, ids and names are interchangeable.
Symmetry == Permutations(Requests) \cup Permutations(InstanceIDs) \cup Permutations(Names)
=============================================================================
