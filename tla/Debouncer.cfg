SPECIFICATION Spec
CONSTANTS
    Keys = {k1, k2}
    Events = {e1, e2}
    Timers = {t1, t2, t3, t4}
    NoTimer = NoTimer
INVARIANTS
    NothingLost
    TrackedIsNewest
    QuietAfterStop
PROPERTIES
    SettledIsHandedOver
    StopTerminates
