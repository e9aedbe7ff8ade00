SPECIFICATION Spec
CONSTANTS
    NAttempts = 3
    r1 = r1
    r2 = r2
    slow_db = slow_db
    outage = outage
    n_plus_one = n_plus_one
    Runs = {r1, r2}
    RunOf <- Retry
    Recipe <- CodeThenPause
    CodeRecipes = {n_plus_one}
    PlainRecipes = {slow_db, outage}
    PauseRecipes = {outage}
    Normal = normal
    Upsets = {"interrupt", "arm", "inject", "collector", "hasty"}
INVARIANTS TypeOK FaultInsideWindow LoadUndone JudgesAgree
PROPERTIES ImplementsIncident UndoneAtEnd
