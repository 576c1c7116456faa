SPECIFICATION Spec
CONSTANTS
    OCPVersions = {"4.16", "4.17", "4.99"}
    Matrix <- SmallMatrix
    Configs <- SomeConfigs
    MaxChanges = 3
    MaxFailures = 3
    Unregistered = Unregistered
INVARIANTS
    TypeOK
    LastIsAdvertised
PROPERTIES
    WatchSurvives
    AdvertisedConverges
    CancelEnds
