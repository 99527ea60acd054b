SPECIFICATION ViewsSpec
CONSTANTS
    u1 = u1
    u2 = u2
    Indexes = {"Packages", "Sources"}
    MaxContent = 2
    RatioFiles = 4
    MaxFaults = 2
SYMMETRY Symmetry
VIEW Moving
INVARIANTS   UpstreamSafe  MergeSafe ClosureIsClosed CompareIsPolicy LogSafe
PROPERTY KeepsPublished
