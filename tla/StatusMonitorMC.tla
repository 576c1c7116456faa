-------------------------- MODULE StatusMonitorMC --------------------------
(***************************************************************************)
(* Model-checking instances of StatusMonitor.  Each resource is ready or   *)
(* not, which suffices for events to overtake each other.                  *)
(***************************************************************************)
EXTENDS StatusMonitor, TLC

CONSTANTS i1, h1, h2, n1, n2, m1

Cond(type, status, message) == [type |-> type, status |-> status, message |-> message]

Object(conds) == [deleting |-> FALSE, conditions |-> conds]

HCReady       == Object(<<Cond("Available", "True", NoText)>>)
HCUnavailable(m) == Object(<<Cond("Available", "False", m), Cond("Progressing", "False", NoText)>>)

NPReady       == Object(<<Cond("Ready", "True", NoText)>>)
NPUnavailable(m) == Object(<<Cond("Ready", "False", m)>>)

\* One instance: a HostedCluster and its NodePool.
OnePair == (h1 :> i1) @@ (n1 :> i1)

\* h1 and h2 claim the same instance; n2 has no label.
TwinsAndUnlabelled == (h1 :> i1) @@ (h2 :> i1) @@ (n1 :> i1) @@ (n2 :> NoID)

FewHC == {HCReady, HCUnavailable(m1)}
FewNP == {NPReady, NPUnavailable(m1)}

TimerSymmetry == Permutations(Timers)
=============================================================================
