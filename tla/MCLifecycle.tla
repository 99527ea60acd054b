---------------------------- MODULE MCLifecycle -----------------------------
(***************************************************************************)
(* The operation lock, the source files between download and collection,   *)
(* and the requests that resolve one path, for TLC.  A behaviour is one of *)
(* one of these parts: OpLock has variables of its own, the other two are  *)
(* instances that share the variables y1 to y10.                           *)
(***************************************************************************)
EXTENDS OpLock, TLC

VARIABLES part, y1, y2, y3, y4, y5, y6, y7, y8, y9, y10

ys == <<y1, y2, y3, y4, y5, y6, y7, y8, y9, y10>>
all == <<part, vars, ys>>

TwoUsers == {"worker", "scheduler"}

\* The third version of the source shares its tarball with the first.
Source == INSTANCE SourceLifecycle WITH
    MaxVersion <- 3, FilesOf <- <<{"orig"}, {"dsc"}, {"orig"}>>, SameRoot <- TRUE,
    RatioFiles <- 3, MaxFaults <- 0,
    stored <- y1, flag <- y2, first <- y3, exists <- y4, offered <- y5, current <- y6,
    work <- y7, clean <- y8, seen <- y9

TwoRequests == {"r1", "r2"}
Flight == INSTANCE ResolveFlight WITH
    Requests <- TwoRequests, MaxChanges <- 2,
    listed <- y1, upstream <- y2, changes <- y3, inflight <- y4, miss <- y5, pc <- y6,
    result <- y7, follows <- y8, done <- y9, known <- y10

LifecycleInit ==
    /\ Init
    /\ \/ /\ part = "lock"
          /\ y1 = 0 /\ y2 = 0 /\ y3 = 0 /\ y4 = 0 /\ y5 = 0 /\ y6 = 0
          /\ y7 = 0 /\ y8 = 0 /\ y9 = 0 /\ y10 = 0
       \/ part = "source" /\ Source!Init /\ y10 = 0
       \/ part = "flight" /\ Flight!Init

LifecycleNext ==
    /\ UNCHANGED part
    /\ \/ part = "lock" /\ Next /\ UNCHANGED ys
       \/ part = "source" /\ Source!Next /\ UNCHANGED <<vars, y10>>
       \/ part = "flight" /\ Flight!Next /\ UNCHANGED vars

svars == Source!vars
fvars == Flight!vars

\* The fairness of each part, as its module states it.
SourceFairness ==
    /\ SF_svars(part = "source" /\ Source!RunUpdate)
    /\ SF_svars(part = "source" /\ Source!Snapshot)
    /\ SF_svars(part = "source" /\ Source!PruneMissingSrcEntries)
    /\ WF_svars(part = "source" /\ Source!Working)
    /\ WF_svars(part = "source" /\ Source!Cleaning)
    /\ WF_svars(part = "source" /\ Source!GraceEnds)
FlightFairness == \A r \in TwoRequests : WF_fvars(part = "flight" /\ Flight!Step(r))
LockFairness ==
    /\ WF_vars(part = "lock" /\ Tick)
    /\ \A u \in Users :
        /\ WF_vars(part = "lock" /\ StartRenewing(u)) /\ WF_vars(part = "lock" /\ Finish(u))
        /\ WF_vars(part = "lock" /\ (Renew(u) \/ RenewFails(u)))
        /\ SF_vars(part = "lock" /\ Acquire(u))

LifecycleSpec ==
    /\ LifecycleInit /\ [][LifecycleNext]_all
    /\ SourceFairness /\ FlightFairness /\ LockFairness

-----------------------------------------------------------------------------
\* SourceLifecycle: no version stays merely listed above a downloaded one (its property
\* DownloadsFollow).
SourceSafe == part = "source" => Source!TypeOK /\ Source!DownloadsFollow

\* SourceLifecycle: a source file nothing references is collected in the end (its property
\* of the same name).
SrcCollected ==
    \A f \in {"orig", "dsc"} :
        (part = "source" /\ Source!Orphaned(f))
            ~> (part = "source" /\ (~Source!Orphaned(f) \/ Source!Faults # {}))

\* ResolveFlight: one resolve at a time per path, and a remembered miss costs no index
\* fetch (its properties OneResolve and RememberedMissIsCheap).
FlightSafe == part = "flight" => Flight!FlightSafe

\* ResolveFlight: no follower is parked for ever (its property of the same name).
FollowersReturn ==
    \A r \in TwoRequests :
        (part = "flight" /\ y6[r] = "wait") ~> (part = "flight" /\ y6[r] \in {"found", "error"})

=============================================================================
