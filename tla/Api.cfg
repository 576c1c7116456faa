SPECIFICATION Spec
CONSTANTS
    Requests = {r1, r2}
    Ids = {"a", "health"}
    Inputs <- SomeInputs
    Hubs = {{}, {"a"}}
    HealthId = "health"
    Nothing = Nothing
    Broken = Broken
    r1 = r1
    r2 = r2
INVARIANTS
    ErrorsAreProblems
    LogTellsAnswer
PROPERTIES
    KeepsExchange
    EveryRequestEnds
CHECK_DEADLOCK FALSE
