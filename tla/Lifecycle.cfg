SPECIFICATION LifecycleSpec
CONSTANTS
    Users <- TwoUsers
    IndexFirst = {"worker"}
    TTL = 8
    Interval = 2
    BuildWait = 1
    MaxFaults = 2
    MaxWipes = 1
INVARIANTS MutualExclusion  FlightSafe
PROPERTIES ForeignKeySafe PollersGetLock SrcCollected FollowersReturn
