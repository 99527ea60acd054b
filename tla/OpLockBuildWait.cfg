SPECIFICATION Spec
CONSTANTS
    Users <- ThreeUsers
    IndexFirst = {"worker"}
    TTL = 8
    Interval = 2
    BuildWait = 8
    MaxFaults = 0
    MaxWipes = 0
INVARIANTS MutualExclusion
