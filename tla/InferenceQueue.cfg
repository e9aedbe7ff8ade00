SPECIFICATION FairSpec
CONSTANTS
    a = a
    b = b
    Tids = {a, b}
    Traces <- SmallTraces
    Day = 24
    Slack = 3
    Window = 2
    MinEvents = 2
    QueueSize = 2
    Upsets = {"worker", "interrupt"}
INVARIANTS
    TypeOK
    QueueIsNewest
    WindowsConserved
    ScoredInOrder
    TimesAreTrue
    WindowsAreWindows
PROPERTIES
    SessionEnds
