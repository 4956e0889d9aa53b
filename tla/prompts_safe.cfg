SPECIFICATION Spec
CONSTANTS
    Sessions = {s1}
    Runs = {r1, r2}
    Jobs = {}
    Calls = {c1, c2}
    Messages = {m1}
    NoRun = NoRun
    NoSession = NoSession
    NoJob = NoJob
    UserKinds = {"stream", "direct"}
    MaxJobsInFlight = 0
    MaxWatches = 0
    MaxWakes = 0
    MaxPending = 1
SYMMETRY Symmetry
INVARIANTS
    TypeOK
    AskersArePending
    ClosedOnBothSides
    WorkersAreBound
PROPERTIES
    SteerIsHeard
CHECK_DEADLOCK FALSE
