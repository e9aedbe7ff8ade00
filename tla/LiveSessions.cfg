SPECIFICATION FairSpec
CONSTANTS
    MaxRuns = 2
    MaxQuestions = 2
    MaxForks = 1
    NTraces = 2
    Stops = {1}
    Limits <- SmallLimits
INVARIANTS
    TypeOK
    ConversationsAreKept
    SessionShowsItsRun
    OldStopEndsNoRun
PROPERTIES
    RequestsEnd
CHECK_DEADLOCK FALSE
