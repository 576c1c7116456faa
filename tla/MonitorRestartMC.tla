-------------------------- MODULE MonitorRestartMC --------------------------
(***************************************************************************)
(* Model-checking instance of MonitorRestart.  The objects are chosen so   *)
(* that each resource can drive the composite, tie with the other, and     *)
(* change its message without changing its status.                         *)
(***************************************************************************)
EXTENDS MonitorRestart, TLC

CONSTANTS i1, h1, n1, m1, m2

Cond(type, status, message) == [type |-> type, status |-> status, message |-> message]

Object(conds) == [deleting |-> FALSE, conditions |-> conds]

HCReady       == Object(<<Cond("Available", "True", NoText)>>)
HCUnavailable(m) == Object(<<Cond("Available", "False", m), Cond("Progressing", "False", NoText)>>)
HCFailed(m)   == Object(<<Malformed, Cond("Degraded", "True", m)>>)
HCDeleting    == [deleting |-> TRUE, conditions |-> <<>>]

NPBare        == Object(<<>>)
NPReady       == Object(<<Cond("Ready", "True", NoText)>>)
NPUnavailable(m) == Object(<<Cond("Ready", "False", m)>>)
NPUpdating(m) == Object(<<Cond("UpdatingVersion", "True", m), Cond("Ready", "False", NoText)>>)

\* One instance: a HostedCluster and its NodePool.
OnePair == (h1 :> i1) @@ (n1 :> i1)

ManyHC == {HCReady, HCUnavailable(m1), HCUnavailable(m2), HCFailed(m1), HCDeleting}
ManyNP == {NPBare, NPReady, NPUnavailable(m1), NPUnavailable(m2), NPUpdating(m1)}

TimerSymmetry == Permutations(Timers)
=============================================================================
