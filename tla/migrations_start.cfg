SPECIFICATION Spec
CONSTANTS
    web = web
    worker = worker
    check = check
    Starters <- MCStarters
    Checkers <- MCCheckers
    Installations <- MCInstallations
    MaxDeaths = 2
    MaxRequirements = 2
INVARIANTS
    LedgerTellsTheTruth
    RequirementsSurvive
    SoundIsNeverRefused
PROPERTIES
    EveryStartSucceeds
CHECK_DEADLOCK FALSE
