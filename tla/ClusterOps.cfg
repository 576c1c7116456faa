SPECIFICATION SafetySpec
CONSTANTS
    Requests = {p1, p2, p3, p4}
    InstanceIDs = {i1, i2}
    Names = {n1, n2}
    None = None
    MaxFaults = 1
SYMMETRY Symmetry
INVARIANTS
    FailedCreateLeavesNothing
    CreatedStays
    DeletedIsGone
