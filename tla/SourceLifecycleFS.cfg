SPECIFICATION FairSpec
CONSTANTS
    MaxVersion = 2
    FilesOf <- TwoVersions
    SameRoot = FALSE
    RatioFiles = 2
    MaxFaults = 0
PROPERTIES SrcCollected
