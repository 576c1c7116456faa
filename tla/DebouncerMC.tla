---------------------------- MODULE DebouncerMC ----------------------------
(***************************************************************************)
(* Model-checking instance of Debouncer.  Two keys show that the entries   *)
(* of d.timers do not interfere; four timer slots let one key own a timer  *)
(* that is publishing, one that fired, one the map forgot and a new one.   *)
(* Timers are not declared symmetric: the run checks liveness as well.     *)
(***************************************************************************)
EXTENDS Debouncer
=============================================================================
