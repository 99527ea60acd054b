SPECIFICATION Spec
CONSTANTS
    r1 = r1
    r2 = r2
    Replicas <- One
    Warm <- One
    NumGens = 3
    Files = 1
    MaxVersion = 2
    Delay = 1
    MaxAge = 1
    Retention = 1
    MaxFaults = 1
    Prompt = FALSE
    Unraced = FALSE
INVARIANT AdvertisedResolves
