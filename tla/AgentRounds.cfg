SPECIFICATION FairSpec
CONSTANTS
    Workers = {1, 2}
    Results <- SmallResults
    Base = 1
    Cap = 4
    MaxTurns = 4
    MaxPage = 2
    MaxSubtasks = 2
    MaxFollowups = 1
    MaxRounds = 2
    MaxSteps = 2
    MaxCalls = 1
    Upsets = {"api", "stop"}
INVARIANTS
    TypeOK
    ToldOnlyTheTruth
    WorkersAreHeard
    StopIsObeyed
PROPERTIES
    PagesAdvance
    RunEnds
