SPECIFICATION Spec
CONSTANTS
    NAttempts = 2
    r1 = r1
    r2 = r2
    slow_db = slow_db
    outage = outage
    n_plus_one = n_plus_one
    Runs = {r1, r2}
    RunOf <- TwoRuns
    Recipe <- CodeThenPlain
    CodeRecipes = {n_plus_one}
    PlainRecipes = {slow_db, outage}
    PauseRecipes = {outage}
    Normal = normal
    Upsets = {"prometheus"}
INVARIANTS JudgesAgree
