SPECIFICATION Spec
CONSTANTS
    NAttempts = 3
    r1 = r1
    r2 = r2
    slow_db = slow_db
    outage = outage
    n_plus_one = n_plus_one
    Runs = {r1, r2}
    RunOf <- Retry
    Recipe <- CodeThenPlain
    CodeRecipes = {n_plus_one}
    PlainRecipes = {slow_db, outage}
    PauseRecipes = {outage}
    Normal = normal
    Upsets = {"interrupt", "again", "kill", "cleanup", "disarm", "collector"}
INVARIANTS RestartOutsideTrace UsableTraceIsWhole UsableMeansInjected
PROPERTIES JudgedIsFinal
