SPECIFICATION FairSpec
CONSTANTS
    NRuns = 2
    MaxAttempts = 4
    MaxCrashes = 1
    Upsets = {"arm", "collector", "unverified", "cp", "mount", "orphan"}
INVARIANTS TypeOK NothingLost VerdictReachesRow CampaignIsComplete
PROPERTIES CollectedOnce CampaignEnds
