SPECIFICATION FairSpec
CONSTANTS
    Newest = 3
    Images = {1, 2}
    Published = {2, 3}
    Imports = {3}
    Faulty = {2, 3}
    NeedsBase = {2}
    MaxCrashes = 1
    MaxCuts = 1
INVARIANTS
    TypeOK
    StateAgrees
    NoBlockedRuns
PROPERTIES
    ComesUp
    LockIsLifted
