SPECIFICATION FairSpec
CONSTANTS
    Files <- TwoFiles
    Upstream <- TwoUpstream
    Version <- TwoVersion
    Workers <- One
    MaxSnapshots = 0
    MaxTrees = 1
    RatioFiles = 2
    MaxFaults = 1
    None = "none"
PROPERTIES MissingHeals
INVARIANTS TypeOK 
