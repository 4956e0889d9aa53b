SPECIFICATION Spec
CONSTANTS
    Newest = 2
    Images = {1, 2}
    Published = {}
    Imports = {}
    Faulty = {2}
    NeedsBase = {}
    MaxCrashes = 2
    MaxCuts = 0
PROPERTIES
    UserDataKept
