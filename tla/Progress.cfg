SPECIFICATION ProgressSpec
CONSTANTS
  Instances <- TwoInstances
  Threads <- TwoThreads
  InstanceOf <- SeparateInstanceOf
  Flushers <- TwoThreads
  Refreshers <- NoThread
  Paths = {"q"}
  SourcePaths = {"q"}
  Keys = {"k"}
  MaxClock = 2
  Budget <- LiveBudget
INVARIANTS CleanMeansWritten
PROPERTIES EventuallyClean PendingWritesKept SwitchoverWhenQuiet
