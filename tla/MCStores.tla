------------------------------ MODULE MCStores ------------------------------
(***************************************************************************)
(* The metadata stores, for TLC: ValkeyStore with two workers (its own     *)
(* variables) and with one that does more (Long), Deb822Store in one       *)
(* process with two goroutines that race (Race), also when storage fails   *)
(* and files vanish (Worn), and with one that crashes (Solo).  A behaviour *)
(* is one of one of these parts; all but the first share the variables y1  *)
(* to y19.                                                                 *)
(***************************************************************************)
EXTENDS ValkeyStore, Integers, TLC

VARIABLES part, y1, y2, y3, y4, y5, y6, y7, y8, y9, y10, y11, y12, y13, y14, y15, y16, y17, y18, y19

\* The variables after the seventh and the thirteenth.
after13 == <<y14, y15, y16, y17, y18, y19>>
after7 == <<y8, y9, y10, y11, y12, y13, after13>>
ys == <<y1, y2, y3, y4, y5, y6, y7, after7>>
all == <<part, vars, ys>>

BudgetOf(op, fault, crash, reset, delete) ==
    "op" :> op @@ "fault" :> fault @@ "crash" :> crash @@ "reset" :> reset @@ "delete" :> delete

Race == INSTANCE Deb822Store WITH
    Instances <- {"a"}, Threads <- {"t1", "t2"}, InstanceOf <- [t \in {"t1", "t2"} |-> "a"],
    Flushers <- {"t1", "t2"}, Refreshers <- {"t2"}, Paths <- {"q"}, SourcePaths <- {"q"},
    Keys <- {"k"}, MaxClock <- 2, Budget <- BudgetOf(2, 0, 0, 1, 0),
    file <- y1, clock <- y2, up <- y3, mem <- y4, known <- y5, dirty <- y6,
    generation <- y7, pc <- y8, todo <- y9, cur <- y10, stamp <- y11, buf <- y12,
    gen <- y13, listed <- y14, load <- y15, budget <- y16, intent <- y17, written <- y18,
    removed <- y19

Worn == INSTANCE Deb822Store WITH
    Instances <- {"a"}, Threads <- {"t1", "t2"}, InstanceOf <- [t \in {"t1", "t2"} |-> "a"],
    Flushers <- {"t1", "t2"}, Refreshers <- {"t2"}, Paths <- {"q"}, SourcePaths <- {"q"},
    Keys <- {"k"}, MaxClock <- 2, Budget <- BudgetOf(1, 1, 0, 0, 1),
    file <- y1, clock <- y2, up <- y3, mem <- y4, known <- y5, dirty <- y6,
    generation <- y7, pc <- y8, todo <- y9, cur <- y10, stamp <- y11, buf <- y12,
    gen <- y13, listed <- y14, load <- y15, budget <- y16, intent <- y17, written <- y18,
    removed <- y19

Solo == INSTANCE Deb822Store WITH
    Instances <- {"a"}, Threads <- {"t1"}, InstanceOf <- [t \in {"t1"} |-> "a"],
    Flushers <- {"t1"}, Refreshers <- {"t1"}, Paths <- {"p", "q"}, SourcePaths <- {"q"},
    Keys <- {"k", "l"}, MaxClock <- 2, Budget <- BudgetOf(3, 0, 1, 0, 0),
    file <- y1, clock <- y2, up <- y3, mem <- y4, known <- y5, dirty <- y6,
    generation <- y7, pc <- y8, todo <- y9, cur <- y10, stamp <- y11, buf <- y12,
    gen <- y13, listed <- y14, load <- y15, budget <- y16, intent <- y17, written <- y18,
    removed <- y19

\* Two versions of a package with one digest, and a source.
PlacementIds == {"p1", "p2", "s1"}
BucketOf == [i \in PlacementIds |-> IF i = "s1" THEN "sources" ELSE "amd64"]
NameOf == [i \in PlacementIds |-> IF i = "s1" THEN "s" ELSE "p"]
VersionOf == [i \in PlacementIds |-> IF i = "p2" THEN 2 ELSE 1]
DigestOf == [i \in {"p1", "p2"} |-> "d"]
Long == INSTANCE ValkeyStore WITH
    Packages <- {"p1", "p2"}, Sources <- {"s1"}, Bucket <- BucketOf, Name <- NameOf,
    Version <- VersionOf, Digest <- DigestOf, Workers <- {1}, MaxOps <- 4, MaxFaults <- 1,
    None <- "none",
    key <- y1, member <- y2, bucket <- y3, digest <- y4, latest <- y5, work <- y6,
    file <- y7, back <- y8, restore <- y9, acked <- y10, touched <- y11, seen <- y12,
    ops <- y13

Blank13 == y14 = 0 /\ y15 = 0 /\ y16 = 0 /\ y17 = 0 /\ y18 = 0 /\ y19 = 0
Blank7 == y8 = 0 /\ y9 = 0 /\ y10 = 0 /\ y11 = 0 /\ y12 = 0 /\ y13 = 0 /\ Blank13

Blank == y1 = 0 /\ y2 = 0 /\ y3 = 0 /\ y4 = 0 /\ y5 = 0 /\ y6 = 0 /\ y7 = 0 /\ Blank7

StoresInit ==
    /\ Init
    /\ \/ part = "valkey" /\ Blank
       \/ part = "long" /\ Long!Init /\ Blank13
       \/ part = "race" /\ Race!Init
       \/ part = "worn" /\ Worn!Init
       \/ part = "solo" /\ Solo!Init

\* The operations on Valkey are bounded: these behaviours may end.
StoresNext ==
    /\ UNCHANGED part
    /\ \/ part = "valkey" /\ Next /\ UNCHANGED ys
       \/ /\ UNCHANGED vars
          /\ \/ part = "long" /\ Long!Next /\ UNCHANGED after13
             \/ part = "race" /\ Race!Next
             \/ part = "worn" /\ Worn!Next
             \/ part = "solo" /\ Solo!Next
       \/ part \notin {"race", "worn", "solo"} /\ UNCHANGED all

\* What can change in a part: the other variables keep their initial values.
Moving == <<part, IF part = "valkey" THEN vars ELSE ys>>

StoresSpec == StoresInit /\ [][StoresNext]_all

-----------------------------------------------------------------------------
\* The index on files (Deb822Store): no racing flush forgets a mutation, also when calls
\* fail and files vanish; with one goroutine, what the flushes mark clean is on storage
\* and memory is what the callers asked for, across a crash.  And the index on Valkey with
\* one worker that does more (ValkeyIndexSafe of ValkeyStore).
IndexSafe ==
    /\ part = "race" => Race!TypeOK /\ Race!CleanMeansWritten
    /\ part = "worn" => Worn!TypeOK /\ Worn!CleanMeansWritten
    /\ part = "solo" => Solo!TypeOK /\ Solo!CleanMeansPersisted /\ Solo!MemoryIsIntended
    /\ part = "long" => Long!ValkeyIndexSafe

\* No refresh or merge replaces a pending write (Deb822Store's property of the same name).
PendingWritesKept ==
    [][/\ part = "race" => Race!PendingKept
       /\ part = "worn" => Worn!PendingKept]_ys

\* Refresh evicts only what is gone from storage (EvictsOnlyMissing of Deb822Store), and no
\* write takes FilesDownloaded back, in the index on files (DownloadedIsSticky of
\* Deb822Store) or on Valkey (DownloadedSticks of ValkeyStore, one worker that does more).
EntriesKept ==
    [][/\ part = "solo" => Solo!EvictsMissing /\ Solo!DownloadedKept
       /\ part = "long" => Long!DownloadedStays]_ys

=============================================================================
