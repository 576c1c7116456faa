SPECIFICATION Spec
CONSTANTS
    Ids = {"a", "b"}
    Names = {n1}
    OCPVersions = {"4.16", "4.17", "4.99"}
    Matrices <- SomeMatrices
    DefaultCompatibilityMatrix <- SmallDefault
    Objects <- SomeObjects
    NoCluster = NoCluster
    NoSecret = NoSecret
    NoVersion = NoVersion
    Malformed = Malformed
    NoText = NoText
    m1 = m1
    m2 = m2
INVARIANTS
    AnswerIsOwn
    VersionReadsBack
    AdvertisedIsCreatable
    ReadAgreesWithEvents
