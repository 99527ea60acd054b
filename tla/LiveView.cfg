SPECIFICATION Spec
CONSTANTS
    r1 = r1
    r2 = r2
    Replicas <- Two
    Warm <- One
    NumGens = 3
    Files = 2
    MaxVersion = 2
    Delay = 1
    MaxAge = 1
    Retention = 1
    MaxFaults = 2
    Prompt = TRUE
    Unraced = TRUE
INVARIANTS WholeGenerations AdvertisedResolves
CONSTRAINT Bounded
