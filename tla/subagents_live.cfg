SPECIFICATION FairSpec
CONSTANTS
    Rows = {c1}
    Workers = {w1, w2}
    Turns = {t1}
    Kinds <- OneTask
    Modes = {"foreground", "background"}
    NoRow = NoRow
    NoTurn = NoTurn
    NoWorker = NoWorker
    NoKind = NoKind
    MaxRestarts = 1
    MaxCrashes = 1
    Timeouts = TRUE
    Deletions = FALSE
INVARIANTS
    OneLiveChat
    ActiveIsExecuted
PROPERTIES
    RunsEnd
    EndsReachParent
CHECK_DEADLOCK FALSE
