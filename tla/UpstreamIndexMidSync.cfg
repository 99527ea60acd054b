SPECIFICATION Spec
CONSTANTS
    r1 = r1
    p1 = p1
    p2 = p2
    p3 = p3
    a1 = a1
    a2 = a2
    Replicas <- One
    Archs <- OneArch
    Pkgs <- ThreePkgs
    Index <- Moving
    SrcsOf <- NoSrcs
    MaxFaults = 0
    MaxRounds = 0
    ByHash = FALSE
INVARIANT MidSyncKeepsPackages
