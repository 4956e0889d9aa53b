SPECIFICATION Spec
CONSTANTS
    Jobs = {j1}
    Runs = {r1, r2}
    Ticks = {t1}
    Schedules = {daily}
    OnceAt = {}
    NeverAt = {}
    NoTime = NoTime
    Retry = Retry
    NoRun = NoRun
    NoJob = NoJob
    MaxRestarts = 0
SYMMETRY Symmetry
INVARIANTS
    PausedStaysOff
