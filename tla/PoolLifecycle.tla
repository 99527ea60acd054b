--------------------------- MODULE PoolLifecycle ---------------------------
(***************************************************************************)
(* The life of a pool file: pulled through or auto-updated into the pool   *)
(* and indexed (server.go, ingest.go, syncer.go), published in a snapshot  *)
(* and in current/ (syncer.go, publish.go), collected by a cleanup         *)
(* (cleanup.go), and found again by a restart (main.go, rebuild.go).       *)
(*                                                                         *)
(* Files are the pool paths of one package: its versions from the          *)
(* upstreams of one component and architecture.  An index publishes one of *)
(* them, so the content of a Packages file is that one, or None.           *)
(*                                                                         *)
(* Time is relative to the grace period.  A file, an entry or a temporary  *)
(* file is "young" within gcGracePeriod of being written and "old" after   *)
(* it.  A cleanup compares with the time it began, so nothing ages for it  *)
(* while it runs.                                                          *)
(***************************************************************************)
EXTENDS Integers, Sequences, FiniteSets

CONSTANTS Files,
          Upstream,        \* the upstream each file comes from
          Version,         \* the rank of its version
          Workers,         \* requests and update jobs running at once
          MaxSnapshots,    \* snapshots kept whatever their age, 0 for no such limit
          MaxTrees,        \* bound on the snapshots of one behaviour
          RatioFiles,      \* minFilesForRatioCheck
          MaxFaults,       \* bound on the faults of one behaviour
          None             \* an index without the package

ASSUME PoolAssumption ==
    /\ None \notin Files
    /\ Version \in [Files -> Nat]
    /\ MaxSnapshots \in Nat

Age == {"none", "young", "old"}
Contents == Files \union {None}

VARIABLES
    pool,     \* age of each pool file
    temp,     \* age of a temporary file a killed PutFile left for each
    entry,    \* age (FirstSeen) of each index entry
    exists,   \* the ExistsCache
    offered,  \* files the upstreams' current indices list
    worker,
    trees,    \* dated snapshots, oldest first: the content of their Packages
    current,  \* the content of current/'s Packages
    op,       \* holder of the operation lock
    snap,     \* the running Snapshot
    clean,    \* the running Cleanup
    seen      \* faults and races that have happened

store == <<pool, temp>>
published == <<trees, current>>
vars == <<store, entry, exists, offered, worker, published, op, snap, clean, seen>>

Idle == [pc |-> "idle", f |-> None, stream |-> FALSE]
WorkerStates == [pc : {"idle", "resolve", "has", "check", "fetch", "put", "rename", "add", "upsert"},
                 f : Contents, stream : BOOLEAN]
\* next: where the cleanup resumes once the ExistsCache has forgotten "file".
NoClean == [pc |-> "idle", todo |-> {}, found |-> {}, refs |-> {}, file |-> None, next |-> "idle"]
CleanStates == [pc : {"idle", "trees", "entries", "check", "remove", "forget", "refs", "index",
                      "walk", "delete", "temps"},
                todo : SUBSET Files, found : SUBSET Files, refs : SUBSET Contents,
                file : Contents, next : {"idle", "remove", "delete"}]

\* "failure": a fetch, a write to the pool or the index, a listing or a deletion failed.
Kinds == {"failure", "vanish", "crash"}
Raced == {"readopted", "lost"}

\* The type of every variable.
TypeOK ==
    /\ pool \in [Files -> Age] /\ temp \in [Files -> Age] /\ entry \in [Files -> Age]
    /\ exists \subseteq Files /\ offered \subseteq Files
    /\ worker \in [Workers -> WorkerStates]
    /\ trees \in Seq(Contents)
    /\ current \in Contents
    /\ op \in {"free", "snapshot", "cleanup"}
    /\ snap \in {"idle", "dated", "current"} /\ clean \in CleanStates
    /\ seen \subseteq Kinds \union Raced

Fault(k) == /\ Cardinality(seen \intersect Kinds) < MaxFaults
            /\ k \notin seen
            /\ seen' = seen \union {k}
NoFault == seen' = seen

Init ==
    /\ pool = [f \in Files |-> "none"] /\ temp = pool /\ entry = pool
    /\ exists = {}
    /\ offered = {f \in Files : \A g \in Files : Upstream[g] = Upstream[f] => Version[f] <= Version[g]}
    /\ worker = [k \in Workers |-> Idle]
    /\ trees = <<>>
    /\ current = None
    /\ op = "free" /\ snap = "idle" /\ clean = NoClean /\ seen = {}

\* Files a worker knows to be in the pool and is about to index.
Ingesting == {worker[k].f : k \in {k \in Workers : worker[k].pc \in {"add", "upsert"}}}
Indexed == {f \in Files : entry[f] # "none"}
Stored == {f \in Files : pool[f] # "none"}

-----------------------------------------------------------------------------
(***************************************************************************)
(* Ingest.  A worker is a live request for a pool path, or the update job  *)
(* (of the refresh loop, which takes no operation lock) caching a package  *)
(* or one of its dependencies.                                             *)
(***************************************************************************)

Step(k, pc) == worker' = [worker EXCEPT ![k].pc = pc]
Finish(k) == worker' = [worker EXCEPT ![k] = Idle]

\* servePool: a missing file is pulled through, streamed unless the request has a
\* Range; a present one the ExistsCache does not know is indexed again; any other
\* is served as it is.
ServePool(k, f) ==
    /\ worker[k].pc = "idle"
    /\ \/ pool[f] = "none" /\ \E s \in BOOLEAN :
              worker' = [worker EXCEPT ![k] = [pc |-> "resolve", f |-> f, stream |-> s]]
       \/ /\ pool[f] # "none" /\ f \notin exists
          /\ worker' = [worker EXCEPT ![k] = [pc |-> "resolve", f |-> f, stream |-> FALSE]]
    /\ UNCHANGED <<store, entry, exists, offered, published, op, snap, clean, seen>>

\* resolvePoolPackage, then the Remove of a stale positive.
Resolve(k, next) ==
    LET f == worker[k].f IN
    /\ \/ f \notin offered /\ Finish(k) /\ UNCHANGED exists
       \/ f \in offered /\ exists' = exists \ {f} /\ Step(k, next)
    /\ UNCHANGED <<store, entry, offered, published, op, snap, clean, seen>>

\* pullThrough goes on with Cache, pullThroughStream with the download itself.
PullThrough(k) == worker[k].pc = "resolve" /\ ~worker[k].stream /\ Resolve(k, "has")
PullThroughStream(k) == worker[k].pc = "resolve" /\ worker[k].stream /\ Resolve(k, "fetch")

\* runUpdate and Prime: Cache an offered file, itself newer than an indexed version
\* or a dependency of one that is.
RunUpdate(k, f) ==
    /\ worker[k].pc = "idle" /\ f \in offered
    /\ worker' = [worker EXCEPT ![k] = [pc |-> "has", f |-> f, stream |-> FALSE]]
    /\ UNCHANGED <<store, entry, exists, offered, published, op, snap, clean, seen>>

\* ExistsCache.Has.  A hit on a file that deleteOrphans has deleted and is about to
\* have forgotten is one of the races "seen" records.
Has(k) ==
    LET f == worker[k].f IN
    /\ worker[k].pc = "has"
    /\ Step(k, IF f \in exists THEN "upsert" ELSE "check")
    /\ seen' = IF f \in exists /\ clean.pc = "forget" /\ clean.file = f
               THEN seen \union {"readopted"} ELSE seen
    /\ UNCHANGED <<store, entry, exists, offered, published, op, snap, clean>>

\* store.Exists of CacheStreaming.
CacheStreaming(k) ==
    /\ worker[k].pc = "check"
    /\ Step(k, IF pool[worker[k].f] = "none" THEN "fetch" ELSE "add")
    /\ UNCHANGED <<store, entry, exists, offered, published, op, snap, clean, seen>>

\* FetchDebStream.
FetchDebStream(k) ==
    /\ worker[k].pc = "fetch"
    /\ \/ Step(k, "put") /\ NoFault
       \/ Finish(k) /\ Fault("failure")
    /\ UNCHANGED <<store, entry, exists, offered, published, op, snap, clean>>

\* PutFile begins: a file already there is left alone and the body is not read.
PutFile(k) ==
    LET f == worker[k].f IN
    /\ worker[k].pc = "put"
    /\ \/ pool[f] # "none" /\ Step(k, "add")
       \/ pool[f] = "none" /\ Step(k, "rename")
    /\ UNCHANGED <<store, entry, exists, offered, published, op, snap, clean, seen>>

\* PutFile ends: the rename, or a failed body (a digest mismatch is a read error)
\* whose temporary file is removed.
Rename(k) ==
    LET f == worker[k].f IN
    /\ worker[k].pc = "rename"
    /\ \/ pool' = [pool EXCEPT ![f] = "young"] /\ Step(k, "add") /\ NoFault
       \/ UNCHANGED pool /\ Finish(k) /\ Fault("failure")
    /\ UNCHANGED <<temp, entry, exists, offered, published, op, snap, clean>>

\* exists.Add of CacheStreaming and CacheStreamingBody.
Add(k) ==
    /\ worker[k].pc = "add"
    /\ exists' = exists \union {worker[k].f}
    /\ Step(k, "upsert")
    /\ UNCHANGED <<store, entry, offered, published, op, snap, clean, seen>>

\* upsertEntry stamps FirstSeen; its failure is returned with the file in the pool.
UpsertEntry(k) ==
    /\ worker[k].pc = "upsert"
    /\ Finish(k)
    /\ \/ entry' = [entry EXCEPT ![worker[k].f] = "young"] /\ NoFault
       \/ UNCHANGED entry /\ Fault("failure")
    /\ UNCHANGED <<store, exists, offered, published, op, snap, clean>>

Ingest(k) == \/ \E f \in Files : ServePool(k, f) \/ RunUpdate(k, f)
             \/ PullThrough(k) \/ PullThroughStream(k) \/ Has(k) \/ CacheStreaming(k) \/ FetchDebStream(k)
             \/ PutFile(k) \/ Rename(k) \/ Add(k) \/ UpsertEntry(k)

-----------------------------------------------------------------------------
(***************************************************************************)
(* Snapshot, under the operation lock.                                     *)
(***************************************************************************)

\* highestVersionByKey over a set of files, for a key of each.
HighestVersionByKey(S, key) ==
    {f \in S : \A g \in S : key[g] = key[f] => Version[g] <= Version[f]}

\* groupStanzas: the key leaves the upstream out, so two upstreams at one version are
\* a tie the listing's order decides.
GroupStanzas == IF Indexed = {} THEN {None}
                ELSE HighestVersionByKey(Indexed, [f \in Files |-> None])

EndSnapshot == op' = "free" /\ snap' = "idle"

SnapshotStart ==
    /\ op = "free" /\ Len(trees) < MaxTrees
    /\ op' = "snapshot" /\ snap' = "dated"
    /\ UNCHANGED <<store, entry, exists, offered, worker, published, clean, seen>>

\* publishSuite of the dated tree.  A write that fails ends the snapshot and leaves the
\* tree's directory, with or without its Packages file.
PublishDated ==
    /\ snap = "dated"
    /\ \E c \in GroupStanzas :
          \/ trees' = Append(trees, c) /\ snap' = "current" /\ UNCHANGED op /\ NoFault
          \/ \E d \in {c, None} : trees' = Append(trees, d) /\ EndSnapshot /\ Fault("failure")
    /\ UNCHANGED <<store, entry, exists, offered, worker, current, clean>>

\* publishSuite of current/, from a listing of its own, and the end of Snapshot.
PublishCurrent ==
    /\ snap = "current"
    /\ EndSnapshot
    /\ \/ current' \in GroupStanzas /\ NoFault
       \/ UNCHANGED current /\ Fault("failure")
    /\ UNCHANGED <<store, entry, exists, offered, worker, trees, clean>>

Snapshot == SnapshotStart \/ PublishDated \/ PublishCurrent

-----------------------------------------------------------------------------
(***************************************************************************)
(* Cleanup, under the operation lock.  Requests and the refresh loop run   *)
(* beside it.                                                              *)
(***************************************************************************)

At(pc) == clean.pc = pc
Goto(pc) == clean' = [NoClean EXCEPT !.pc = pc]
EndCleanup == clean' = NoClean /\ op' = "free"
\* An error of a listing or a check ends the whole Cleanup.
Abort == EndCleanup /\ Fault("failure")

\* checkOrphanRatio with maxOrphanRatio 0.5.
CheckOrphanRatio(total, orphaned) == total >= RatioFiles /\ 2 * orphaned > total

CleanupStart ==
    /\ op = "free"
    /\ op' = "cleanup" /\ clean' = [NoClean EXCEPT !.pc = "trees"]
    /\ UNCHANGED <<store, entry, exists, offered, worker, published, snap, seen>>

\* pruneSnapshots and deleteSnapshotTree: of the trees beyond the newest MaxSnapshots
\* (all of them when there is no such limit), the oldest n are past the age limit.  A deletion that fails is only
\* logged, and leaves a tree with or without its Packages file.
PruneSnapshots ==
    LET excess == IF Len(trees) > MaxSnapshots THEN Len(trees) - MaxSnapshots ELSE 0 IN
    /\ At("trees")
    /\ \E n \in 0 .. excess : LET kept == SubSeq(trees, n + 1, Len(trees)) IN
          \/ trees' = kept /\ NoFault
          \/ n > 0 /\ Fault("failure") /\ \E c \in {None, trees[n]} : trees' = <<c>> \o kept
    /\ Goto("entries")
    /\ UNCHANGED <<store, entry, exists, offered, worker, current, op, snap>>

\* Mutant of ListOldEntries: the comparison with the grace period the wrong way round.
ListYoungEntries == {f \in Files : entry[f] = "young"}

\* pruneMissingEntries skips the entries within the grace period.
ListOldEntries == {f \in Files : entry[f] = "old"}

PruneList ==
    /\ At("entries")
    /\ clean' = [clean EXCEPT !.pc = "check", !.todo = ListOldEntries, !.refs = ListOldEntries]
    /\ UNCHANGED <<store, entry, exists, offered, worker, published, op, snap, seen>>

\* store.Exists of each listed entry, then the ratio check.  "refs" holds the entries
\* checked, until the reference set is built.
PruneCheck ==
    /\ At("check")
    /\ \/ /\ clean.todo = {}
          /\ IF CheckOrphanRatio(Cardinality(clean.refs), Cardinality(clean.found))
             THEN Goto("refs")
             ELSE clean' = [NoClean EXCEPT !.pc = "remove", !.todo = clean.found]
          /\ UNCHANGED op /\ NoFault
       \/ /\ \E f \in clean.todo :
               clean' = [clean EXCEPT !.todo = @ \ {f},
                                      !.found = IF pool[f] = "none" THEN @ \union {f} ELSE @]
          /\ UNCHANGED op /\ NoFault
       \/ clean.todo # {} /\ Abort
    /\ UNCHANGED <<store, entry, exists, offered, worker, published, snap>>

\* RemoveEntry of each entry found missing, whatever has happened to its file since.
PruneRemove ==
    /\ At("remove")
    /\ \/ clean.todo = {} /\ Goto("refs") /\ UNCHANGED entry /\ NoFault
       \/ \E f \in clean.todo :
             \/ /\ entry' = [entry EXCEPT ![f] = "none"]
                /\ clean' = [clean EXCEPT !.pc = "forget", !.todo = @ \ {f}, !.file = f,
                                          !.next = "remove"]
                /\ NoFault
             \/ clean' = [clean EXCEPT !.todo = @ \ {f}] /\ UNCHANGED entry /\ Fault("failure")
    /\ UNCHANGED <<store, exists, offered, worker, published, op, snap>>

\* Mutant of Forget: the ExistsCache keeps the path.
ForgetNothing ==
    /\ At("forget")
    /\ clean' = [clean EXCEPT !.pc = clean.next, !.file = None, !.next = "idle"]
    /\ UNCHANGED <<store, entry, exists, offered, worker, published, op, snap, seen>>

\* exists.Remove of pruneMissingEntries and of deleteOrphans.
Forget ==
    /\ At("forget")
    /\ exists' = exists \ {clean.file}
    /\ clean' = [clean EXCEPT !.pc = clean.next, !.file = None, !.next = "idle"]
    /\ UNCHANGED <<store, entry, offered, worker, published, op, snap, seen>>

\* buildPoolRefSet, the published half: the Packages files of current/ and of every
\* tree.  One that cannot be listed or read aborts the run.
ScanPackagesRefs ==
    /\ At("refs")
    /\ \/ /\ clean' = [NoClean EXCEPT !.pc = "index", !.refs =
                        ({trees[i] : i \in DOMAIN trees} \union {current}) \intersect Files]
          /\ UNCHANGED op /\ NoFault
       \/ Abort
    /\ UNCHANGED <<store, entry, exists, offered, worker, published, snap>>

\* The other half: the highest indexed version from each upstream.
BuildPoolRefSet == HighestVersionByKey(Indexed, Upstream)

IndexRefs ==
    /\ At("index")
    /\ clean' = [clean EXCEPT !.pc = "walk", !.refs = @ \union BuildPoolRefSet]
    /\ UNCHANGED <<store, entry, exists, offered, worker, published, op, snap, seen>>

\* What deleteOrphans will delete: candidates older than the grace period.
Orphans == {f \in Stored \ clean.refs : pool[f] = "old"}

\* gcPool: walk the pool, check the ratio.
GcPool ==
    /\ At("walk")
    /\ \/ /\ IF CheckOrphanRatio(Cardinality(Stored), Cardinality(Stored \ clean.refs))
             THEN Goto("temps")
             ELSE clean' = [NoClean EXCEPT !.pc = "delete", !.todo = Orphans]
          /\ UNCHANGED op /\ NoFault
       \/ Abort
    /\ UNCHANGED <<store, entry, exists, offered, worker, published, snap>>

\* An old file that deleteOrphans is about to delete has been indexed, or found present
\* by a worker that will index it, since the reference set was built.
Readopted(f) == pool[f] = "old" /\ (f \in Ingesting \/ entry[f] = "young")

\* deleteOrphans: a file that is gone already, or cannot be deleted, is only logged.
DeleteOrphans ==
    /\ At("delete")
    /\ \/ clean.todo = {} /\ Goto("temps") /\ UNCHANGED pool /\ NoFault
       \/ \E f \in clean.todo :
             \/ /\ pool[f] # "none"
                /\ pool' = [pool EXCEPT ![f] = "none"]
                /\ clean' = [clean EXCEPT !.pc = "forget", !.todo = @ \ {f}, !.file = f,
                                          !.next = "delete"]
                /\ seen' = IF Readopted(f) THEN seen \union {"readopted"} ELSE seen
             \/ /\ clean' = [clean EXCEPT !.todo = @ \ {f}] /\ UNCHANGED pool
                /\ IF pool[f] = "none" THEN NoFault ELSE Fault("failure")
    /\ UNCHANGED <<temp, entry, exists, offered, worker, published, op, snap>>

CleanupTempFiles ==
    /\ At("temps")
    /\ temp' = [f \in Files |-> IF temp[f] = "old" THEN "none" ELSE temp[f]]
    /\ EndCleanup
    /\ UNCHANGED <<pool, entry, exists, offered, worker, published, snap, seen>>

CleanupStep == \/ PruneSnapshots \/ PruneList \/ PruneCheck \/ PruneRemove \/ Forget
               \/ ScanPackagesRefs \/ IndexRefs \/ GcPool \/ DeleteOrphans \/ CleanupTempFiles

-----------------------------------------------------------------------------
(***************************************************************************)
(* The world around them.                                                  *)
(***************************************************************************)

\* An upstream replaces the version it offers by a newer one.
UpstreamMoves(f) ==
    /\ f \notin offered
    /\ \A g \in offered : Upstream[g] = Upstream[f] => Version[g] < Version[f]
    /\ offered' = {g \in offered : Upstream[g] # Upstream[f]} \union {f}
    /\ UNCHANGED <<store, entry, exists, worker, published, op, snap, clean, seen>>

\* A pool file is removed by someone else.
Vanish(f) ==
    /\ pool[f] # "none" /\ Fault("vanish")
    /\ pool' = [pool EXCEPT ![f] = "none"]
    /\ UNCHANGED <<temp, entry, exists, offered, worker, published, op, snap, clean>>

\* Files a worker is past the beginning of PutFile with.
InFlight == {worker[k].f : k \in {k \in Workers : worker[k].pc \in {"rename", "add", "upsert"}}}

\* The grace period runs out for what has been written so far.  An ingest takes less than
\* the grace period from PutFile to the index (retryTimeout bounds the download), and a
\* cleanup measures from its own start.
Grow(ages, S) == [x \in Files |-> IF x \in S /\ ages[x] = "young" THEN "old" ELSE ages[x]]
GraceEnds ==
    /\ op # "cleanup"
    /\ pool' = Grow(pool, Files \ InFlight)
    /\ temp' = Grow(temp, Files) /\ entry' = Grow(entry, Files)
    /\ UNCHANGED <<exists, offered, worker, published, op, snap, clean, seen>>

\* Mutant of Rebuild: FirstSeen is left unset.
RebuildUnstamped(e) == [f \in Files |-> IF pool[f] # "none" THEN "unset" ELSE e[f]]

\* rebuild.Run: an entry, seen now, for every file in the pool.
Rebuild(e) == [f \in Files |-> IF pool[f] # "none" THEN "young" ELSE e[f]]

\* reconcileIndexIfEmpty.
ReconcileIndexIfEmpty(e) == IF \A f \in Files : e[f] = "none" THEN Rebuild(e) ELSE e

\* The process is killed and comes back.  Its temporary files stay, entries not yet
\* flushed (young ones) may be lost, an operator may have run "debproxy rebuild" with
\* or without a reset, and the ExistsCache is preloaded from the index.
Restart ==
    /\ "crash" \notin seen /\ Cardinality(seen \intersect Kinds) < MaxFaults
    /\ temp' = [f \in Files |->
          IF \E k \in Workers : worker[k].pc = "rename" /\ worker[k].f = f THEN "young" ELSE temp[f]]
    /\ \E e \in {entry, [f \in Files |-> IF entry[f] = "young" THEN "none" ELSE entry[f]]} :
          /\ seen' = seen \union {"crash"} \union (IF e = entry THEN {} ELSE {"lost"})
          /\ entry' \in {ReconcileIndexIfEmpty(e), Rebuild(e), Rebuild([f \in Files |-> "none"])}
          /\ exists' = {f \in Files : entry'[f] # "none"}
    /\ worker' = [k \in Workers |-> Idle]
    /\ op' = "free" /\ snap' = "idle" /\ clean' = NoClean
    /\ UNCHANGED <<pool, offered, published>>

-----------------------------------------------------------------------------
Next == \/ \E k \in Workers : Ingest(k)
        \/ Snapshot \/ CleanupStart \/ CleanupStep
        \/ \E f \in Files : UpstreamMoves(f) \/ Vanish(f)
        \/ GraceEnds \/ Restart

Spec == Init /\ [][Next]_vars

\* A cleanup is started again and again and runs to its end, time passes, and a
\* request that has begun goes on (its fetch is bounded by retryTimeout).
FairSpec ==
    /\ Spec
    /\ WF_vars(CleanupStart) /\ WF_vars(CleanupStep) /\ SF_vars(GraceEnds)
    /\ WF_vars(Snapshot /\ snap # "idle")
    /\ \A k \in Workers : WF_vars(worker[k].pc # "idle" /\ Ingest(k))

-----------------------------------------------------------------------------
(***************************************************************************)
(* Properties.                                                             *)
(***************************************************************************)

Published == ({trees[i] : i \in DOMAIN trees} \union {current}) \intersect Files

\* Every package file that a snapshot or current/ names is in the pool, through every
\* interleaving of downloads, cleanups, snapshots and restarts: unless someone else
\* deleted it, a crash lost an unflushed entry, or the file was indexed again in the
\* middle of the cleanup that had found it unreferenced.
PublishedResolves ==
    seen \intersect {"vanish", "lost", "readopted"} = {} => \A f \in Published : pool[f] # "none"

Ghost(f) == entry[f] # "none" /\ pool[f] = "none"
Reindexing(f) == \E k \in Workers : worker[k].f = f /\ worker[k].pc = "upsert"
Blocked == CheckOrphanRatio(Cardinality(Indexed), Cardinality(Indexed \ Stored))

\* An entry whose file is gone does not stay in the index for ever: the file is
\* downloaded again or a cleanup prunes the entry, unless an update job that trusts the
\* ExistsCache stamps it anew, or so many look missing that the cleanup refuses.
Healed(f) == ~Ghost(f) \/ Reindexing(f) \/ Blocked
MissingHeals == \A f \in Files : Ghost(f) ~> Healed(f)
=============================================================================
