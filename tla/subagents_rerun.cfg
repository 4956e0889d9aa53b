SPECIFICATION FairSpec
CONSTANTS
    Rows = {c1}
    Workers = {w1}
    Turns = {t1}
    Kinds <- OneTask
    Modes = {"background"}
    NoRow = NoRow
    NoTurn = NoTurn
    NoWorker = NoWorker
    NoKind = NoKind
    MaxRestarts = 1
    MaxCrashes = 0
    Timeouts = FALSE
    Deletions = FALSE
PROPERTY EveryEndIsHeard
CHECK_DEADLOCK FALSE
