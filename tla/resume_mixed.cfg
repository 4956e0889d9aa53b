SPECIFICATION Spec
CONSTANTS
    Sessions = {s1}
    Runs = {r1, r2, r3, r4}
    Jobs = {j1, j2}
    NoRun = NoRun
    NoSession = NoSession
    NoJob = NoJob
    UserKinds = {"stream", "direct"}
    MaxJobsInFlight = 2
    MaxWatches = 2
    MaxWakes = 1
SYMMETRY Symmetry
INVARIANTS
    TypeOK
    OwedIsTracked
    OneWorker
    DeadSessionsHoldNothing
PROPERTIES
    ResumeAtMostOnce
CHECK_DEADLOCK FALSE
