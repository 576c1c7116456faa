SPECIFICATION Spec
CONSTANTS
    i1 = i1
    h1 = h1
    h2 = h2
    n1 = n1
    n2 = n2
    m1 = m1
    Malformed = Malformed
    NoText = NoText
    NoID = NoID
    Absent = Absent
    NoEvent = NoEvent
    NoTimer = NoTimer
    InstanceIDs = {i1}
    HostedClusters = {h1}
    NodePools = {n1}
    InstanceOf <- OnePair
    HCObjects <- FewHC
    NPObjects <- FewNP
    Timers = {t1, t2, t3}
    RetryMax = 1
    MaxChanges = 3
    MaxFailures = 2
INVARIANTS
    LatestIsAccountedFor
    QuietMonitorAgrees
PROPERTIES
    EventsSettle
    ShutdownCompletes
