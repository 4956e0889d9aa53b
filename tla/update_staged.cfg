SPECIFICATION Spec
CONSTANTS
    Newest = 2
    Images = {1, 2}
    Published = {}
    Imports = {}
    Faulty = {}
    NeedsBase = {}
    MaxCrashes = 1
    MaxCuts = 1
PROPERTIES
    ActivatedIsUsable
