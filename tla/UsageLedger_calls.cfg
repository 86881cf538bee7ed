\* Two requests, of any agent, and one report.
SPECIFICATION LedgerFairSpec
CONSTANTS
    Reqs = {r1, r2}
    JobIds = {c1}
    Orgs = {o1}
    Errors <- MCErrors
    PageSize = 1
    None = None
INVARIANTS
    NothingPaidIsLost
    AnswerSurvivesLedger
    RowTellsTheAnswer
PROPERTIES
    EveryCallEnds
CHECK_DEADLOCK FALSE
