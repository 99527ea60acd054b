SPECIFICATION FairSpec
CONSTANTS
    Clients <- OneClient
    MaxJobs = 2
    Max = 2
    Requested = {"update", "prime"}
    MaxFaults = 1
INVARIANTS TypeOK OneLiveJobPerKind  StatusFollows
PROPERTIES ImplementsLedger  
