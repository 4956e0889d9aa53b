SPECIFICATION FairSpec
CONSTANTS
    Sessions = {s1}
    Runs = {r1, r2, r3}
    Jobs = {j1, j2}
    NoRun = NoRun
    NoSession = NoSession
    NoJob = NoJob
    UserKinds = {"stream"}
    MaxJobsInFlight = 2
    MaxWatches = 2
    MaxWakes = 1
PROPERTIES
    ResumeNeverAborts
    TurnSpec
    EndedJobsResume
CHECK_DEADLOCK FALSE
