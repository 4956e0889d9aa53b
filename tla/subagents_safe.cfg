SPECIFICATION Spec
CONSTANTS
    Rows = {c1, c2}
    Workers = {w1, w2}
    Turns = {t1, t2}
    Kinds <- OneTask
    Modes = {"background"}
    NoRow = NoRow
    NoTurn = NoTurn
    NoWorker = NoWorker
    NoKind = NoKind
    MaxRestarts = 0
    MaxCrashes = 0
    Timeouts = FALSE
    Deletions = TRUE
SYMMETRY Symmetry
INVARIANTS
    TypeOK
    ActiveIsExecuted
    DeadParentRunsNothing
PROPERTIES
    CreatesNoDuplicate
    DeletionReachesAll
CHECK_DEADLOCK FALSE
