SPECIFICATION StoresSpec
CONSTANTS
    Packages = {"p1", "p2"}
    Sources = {"s1"}
    Bucket <- BucketOf
    Name <- NameOf
    Version <- VersionOf
    Digest <- DigestOf
    Workers = {1, 2}
    MaxOps = 2
    MaxFaults = 1
    None = "none"
VIEW Moving
INVARIANTS IndexSafe ValkeyIndexSafe
PROPERTIES PendingWritesKept EntriesKept DownloadedSticks
