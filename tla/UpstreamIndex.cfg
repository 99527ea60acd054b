SPECIFICATION FairSpec
CONSTANTS
    r1 = r1
    p1 = p1
    p2 = p2
    p3 = p3
    a1 = a1
    a2 = a2
    Replicas <- One
    Archs <- TwoArchs
    Pkgs <- ThreePkgs
    Index <- ThreeGens
    SrcsOf <- ThreeSrcs
    MaxFaults = 1
    MaxRounds = 0
    ByHash = TRUE
INVARIANTS CompleteIsWhole FreshMetaVouches
PROPERTIES EventuallyCurrent
