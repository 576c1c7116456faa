SPECIFICATION PairSpec
CONSTANTS
    HCConditions <- SomeHCConditions
    NPConditions <- SomeNPConditions
    MaxConditions = 4
    Malformed = Malformed
    NoText = NoText
INVARIANTS
    OrderIrrelevant
    MessageFollowsDriver
    TableDecides
CHECK_DEADLOCK FALSE
