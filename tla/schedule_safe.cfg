SPECIFICATION FairSpec
CONSTANTS
    Jobs = {j1}
    Runs = {r1, r2, r3}
    Ticks = {t1, t2}
    Schedules = {once, daily}
    OnceAt = {once}
    NeverAt = {}
    NoTime = NoTime
    Retry = Retry
    NoRun = NoRun
    NoJob = NoJob
    MaxRestarts = 1
INVARIANTS
    TypeOK
    OneTimerLease
    EnabledRepeats
PROPERTIES
    ClaimsAreDue
    DueIsClaimed
