SPECIFICATION SafetySpec
CONSTANTS
    i1 = i1
    h1 = h1
    h2 = h2
    n1 = n1
    n2 = n2
    m1 = m1
    Malformed = Malformed
    NoText = NoText
    NoID = NoID
    Absent = Absent
    NoEvent = NoEvent
    NoTimer = NoTimer
    InstanceIDs = {i1}
    HostedClusters = {h1, h2}
    NodePools = {n1, n2}
    InstanceOf <- TwinsAndUnlabelled
    HCObjects <- FewHC
    NPObjects <- FewNP
    Timers = {t1, t2}
    RetryMax = 0
    MaxChanges = 4
    MaxFailures = 1
SYMMETRY TimerSymmetry
INVARIANTS
    LatestIsAccountedFor
