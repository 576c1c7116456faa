SPECIFICATION Spec
CONSTANTS
    Names = {1, 2, 3, 4}
    Sizes <- SomeSizes
    DefaultSize = 3
    MaxSize = 3
    Unset = Unset
    Garbled = Garbled
    MaxChanges = 3
    MaxFailures = 1
INVARIANTS
    NoRepeat
    NoSkip
PROPERTY
    WalkEnds
