SPECIFICATION RestartSpec
CONSTANTS
    i1 = i1
    h1 = h1
    n1 = n1
    m1 = m1
    m2 = m2
    Malformed = Malformed
    NoText = NoText
    NoID = NoID
    Absent = Absent
    NoEvent = NoEvent
    NoTimer = NoTimer
    InstanceIDs = {i1}
    HostedClusters = {h1}
    NodePools = {n1}
    InstanceOf <- OnePair
    HCObjects <- ManyHC
    NPObjects <- ManyNP
    Timers = {t1, t2}
    RetryMax = 0
    MaxChanges = 4
    MaxFailures = 0
    MaxCrashes = 1
SYMMETRY TimerSymmetry
INVARIANTS
    LastPublishedIsComposite
    ViewIsCurrent
    RestartCatchesUp
PROPERTY
    MessageIsCurrent
