SPECIFICATION ServerSpec
CONSTANTS
    Requests = {r1, r2, p1, p2}
    Probes = {p1, p2}
    NoProbe = NoProbe
INVARIANTS
    CleanExitIsDrained
    BackgroundIsReady
    ServingWithoutBackground
PROPERTY
    ServerEnds
CHECK_DEADLOCK FALSE
