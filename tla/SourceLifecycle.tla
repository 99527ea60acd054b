-------------------------- MODULE SourceLifecycle --------------------------
(***************************************************************************)
(* The files and index entries of one upstream's source package: recorded  *)
(* and auto-updated by runUpdate (internal/syncer/syncer.go), pulled       *)
(* through file by file by serveSrc (internal/server/server.go), published *)
(* in current/ by Snapshot, pruned and collected by Cleanup                *)
(* (internal/syncer/cleanup.go).                                           *)
(*                                                                         *)
(* A version is a number; two versions may share files, as the revisions   *)
(* of one upstream tarball do.  Ages are relative to gcGracePeriod.  One   *)
(* request or update runs at a time, beside Cleanup: two of them meet only *)
(* in PutFile, which keeps the file that is there, and in the index.       *)
(***************************************************************************)
EXTENDS Naturals, FiniteSets, FiniteSetsExt

CONSTANTS MaxVersion,  \* bound on the versions the upstream offers
          FilesOf,     \* the files of each version
          SameRoot,    \* does ListPublishedInfo("src") see what PutFile("src/...") stored
          RatioFiles,  \* minFilesForRatioCheck
          MaxFaults    \* bound on the kinds of fault of one behaviour

Versions == 1 .. MaxVersion
Files == UNION {FilesOf[v] : v \in Versions}
Age == {"none", "young", "old"}

VARIABLES
    stored,   \* age of each file in storage
    flag,     \* entry of each version: none, listed, or downloaded (FilesDownloaded)
    first,    \* age of each entry's FirstSeen
    exists,   \* the ExistsCache
    offered,  \* the version in the upstream's Sources
    current,  \* the version in the Sources of current/, 0 if none
    work,     \* a request inside pullThroughSource, or the source part of runUpdate
    clean,    \* the source part of Cleanup
    seen      \* faults that have happened, and "overtaken": the highest downloaded entry was
              \* pruned after an update had read it and before it recorded its own

index == <<flag, first>>
vars == <<stored, index, exists, offered, current, work, clean, seen>>

Idle == [pc |-> "idle", v |-> 0, first |-> "none", prev |-> 0, todo |-> {}]
NoClean == [pc |-> "idle", missing |-> {}, todo |-> {}]
VersionOrNone == Versions \union {0}

\* The type of every variable.
TypeOK ==
    /\ stored \in [Files -> Age]
    /\ flag \in [Versions -> {"none", "listed", "downloaded"}] /\ first \in [Versions -> Age]
    /\ exists \subseteq Files /\ offered \in Versions /\ current \in VersionOrNone
    /\ work \in [pc : {"idle", "find", "fetch", "put", "upsert", "record", "cache"},
                 v : VersionOrNone, first : Age, prev : VersionOrNone, todo : SUBSET Files]
    /\ clean \in [pc : {"idle", "remove", "refs", "delete", "forget"},
                  missing : SUBSET Versions, todo : SUBSET Files]
    /\ seen \subseteq {"failure", "vanish", "overtaken"}

Faults == seen \ {"overtaken"}
Fault(k) == /\ k \in Faults \/ Cardinality(Faults) < MaxFaults
            /\ seen' = seen \union {k}
NoFault == seen' = seen

Init ==
    /\ stored = [f \in Files |-> "none"]
    /\ flag = [v \in Versions |-> "none"] /\ first = [v \in Versions |-> "none"]
    /\ exists = {} /\ offered = 1 /\ current = 0
    /\ work = Idle /\ clean = NoClean
    /\ seen = {}

Stored == {f \in Files : stored[f] # "none"}
Indexed == {v \in Versions : flag[v] # "none"}
\* highestVersionByKey, and FindSourceEntry without a version.
HighestEntry == IF Indexed = {} THEN 0 ELSE Max(Indexed)

\* UpsertSourceEntry: FilesDownloaded and FirstSeen are sticky; FirstSeen is now unless
\* the caller brings the one it read.
UpsertSourceEntry(v, downloaded, seenAt) ==
    /\ flag' = [flag EXCEPT ![v] = IF downloaded \/ @ = "downloaded" THEN "downloaded" ELSE "listed"]
    /\ first' = [first EXCEPT ![v] = IF @ = "none" THEN seenAt ELSE @]

\* PutFile: a file that is there already is left alone.
PutFile(f) == stored' = [stored EXCEPT ![f] = IF @ = "none" THEN "young" ELSE @]

-----------------------------------------------------------------------------
\* serveSrc: a file that is not stored is pulled through.
ServeSrc(f) ==
    /\ work.pc = "idle" /\ stored[f] = "none"
    /\ work' = [Idle EXCEPT !.pc = "find", !.todo = {f}]
    /\ UNCHANGED <<stored, index, exists, offered, current, clean, seen>>

\* pullThroughSource: the entry of the highest version, or else the upstream's Sources.
\* CacheSourceFile fails for a file that is not listed there, and ends at once when
\* the file has been stored meanwhile.
PullThroughSource ==
    LET v == IF HighestEntry # 0 THEN HighestEntry ELSE offered IN
    /\ work.pc = "find"
    /\ work' = IF ~(work.todo \subseteq FilesOf[v]) \/ (HighestEntry = 0 /\ work.todo \subseteq Stored)
              THEN Idle
              ELSE [work EXCEPT !.pc = IF work.todo \subseteq Stored THEN "upsert" ELSE "fetch",
                               !.v = HighestEntry,
                               !.first = IF HighestEntry = 0 THEN "none" ELSE first[v]]
    /\ UNCHANGED <<stored, index, exists, offered, current, clean, seen>>

\* FetchSourceFileStream fails for a file that the upstream has dropped.
FetchSourceFileStream ==
    /\ work.pc = "fetch"
    /\ \/ work' = [work EXCEPT !.pc = "put"] /\ work.todo \subseteq FilesOf[offered] /\ NoFault
       \/ work' = Idle /\ ~(work.todo \subseteq FilesOf[offered]) /\ NoFault
       \/ work' = Idle /\ Fault("failure")
    /\ UNCHANGED <<stored, index, exists, offered, current, clean>>

CacheSourceFile ==
    /\ work.pc = "put"
    /\ \E f \in work.todo : PutFile(f)
    /\ work' = IF work.v = 0 THEN Idle ELSE [work EXCEPT !.pc = "upsert"]
    /\ UNCHANGED <<index, exists, offered, current, clean, seen>>

\* The entry that was read before the download is upserted with FilesDownloaded; a
\* failure is only logged.
UpsertDownloaded ==
    /\ work.pc = "upsert"
    /\ work' = Idle
    /\ \/ UpsertSourceEntry(work.v, TRUE, work.first) /\ NoFault
       \/ UNCHANGED index /\ Fault("failure")
    /\ UNCHANGED <<stored, exists, offered, current, clean>>

-----------------------------------------------------------------------------
\* runUpdate reads which versions have been downloaded, and the upstream's Sources.
RunUpdate ==
    LET downloaded == {v \in Versions : flag[v] = "downloaded"} IN
    /\ work.pc = "idle"
    /\ work' = [pc |-> "record", prev |-> IF downloaded = {} THEN 0 ELSE Max(downloaded),
               v |-> offered, first |-> "none", todo |-> FilesOf[offered]]
    /\ UNCHANGED <<stored, index, exists, offered, current, clean, seen>>

\* Mutant of RecordSource: a version bump never counts as newer than what was downloaded.
RecordSourceOnly ==
    /\ work.pc = "record"
    /\ work' = Idle
    /\ UpsertSourceEntry(work.v, FALSE, "young") /\ NoFault
    /\ UNCHANGED <<stored, exists, offered, current, clean>>

\* The source is recorded; if an earlier version was downloaded, this one is too.
RecordSource ==
    /\ work.pc = "record"
    /\ work' = IF work.prev # 0 /\ work.v > work.prev THEN [work EXCEPT !.pc = "cache"] ELSE Idle
    /\ \/ UpsertSourceEntry(work.v, FALSE, "young") /\ NoFault
       \/ UNCHANGED index /\ Fault("failure")
    /\ UNCHANGED <<stored, exists, offered, current, clean>>

\* CacheSourceFile of one of its files: the ExistsCache, then storage, then a download.
\* A failure is only logged.
AutoUpdateFile ==
    /\ work.pc = "cache"
    /\ \E f \in work.todo :
          /\ work' = [work EXCEPT !.todo = @ \ {f}]
          /\ \/ f \in exists /\ UNCHANGED <<stored, exists>> /\ NoFault
             \/ /\ f \notin exists /\ f \in FilesOf[offered] \union Stored
                /\ PutFile(f) /\ exists' = exists \union {f} /\ NoFault
             \/ /\ f \notin exists /\ UNCHANGED <<stored, exists>>
                /\ IF f \in FilesOf[offered] \union Stored THEN Fault("failure") ELSE NoFault
    /\ UNCHANGED <<index, offered, current, clean>>

\* FilesDownloaded is set whatever became of the downloads.
MarkDownloaded ==
    /\ work.pc = "cache" /\ work.todo = {}
    /\ work' = Idle
    /\ \/ UpsertSourceEntry(work.v, TRUE, "young") /\ NoFault
       \/ UNCHANGED index /\ Fault("failure")
    /\ UNCHANGED <<stored, exists, offered, current, clean>>

\* Snapshot, which excludes Cleanup: groupSourceStanzas keeps the highest version.
Snapshot ==
    /\ clean.pc = "idle"
    /\ current' = HighestEntry
    /\ UNCHANGED <<stored, index, exists, offered, work, clean, seen>>

-----------------------------------------------------------------------------
CheckOrphanRatio(total, orphaned) == total >= RatioFiles /\ 2 * orphaned > total

\* pruneMissingSrcEntries lists the entries and looks for those past the grace period
\* that have FilesDownloaded and lack a file.
PruneMissingSrcEntries ==
    LET checked == {v \in Versions : flag[v] = "downloaded" /\ first[v] = "old"}
        missing == {v \in checked : ~(FilesOf[v] \subseteq Stored)}
    IN  /\ clean.pc = "idle"
        /\ clean' = [NoClean EXCEPT !.pc = "remove",
              !.missing = IF CheckOrphanRatio(Cardinality(checked), Cardinality(missing)) THEN {} ELSE missing]
        /\ UNCHANGED <<stored, index, exists, offered, current, work, seen>>

\* RemoveSourceEntry of each; a failure is only logged.
RemoveSourceEntry ==
    /\ clean.pc = "remove"
    /\ \E removed \in SUBSET clean.missing :
          /\ flag' = [v \in Versions |-> IF v \in removed THEN "none" ELSE flag[v]]
          /\ first' = [v \in Versions |-> IF v \in removed THEN "none" ELSE first[v]]
          /\ IF removed = clean.missing
             THEN seen' = seen \union (IF work.pc = "record" /\ work.prev \in removed
                                      THEN {"overtaken"} ELSE {})
             ELSE Fault("failure")
    /\ clean' = [NoClean EXCEPT !.pc = "refs"]
    /\ UNCHANGED <<stored, exists, offered, current, work>>

\* Mutant of BuildSrcRefSet: the published Sources are not scanned.
IndexRefsOnly == UNION {FilesOf[v] : v \in {HighestEntry} \ {0}}

\* buildSrcRefSet: the Sources of current/ (scanSourcesRefs) and the highest entry.
BuildSrcRefSet == UNION {FilesOf[v] : v \in {current, HighestEntry} \ {0}}

\* Mutant of Listed: the listing looks in another directory, whatever the backend.
ListedElsewhere == IF SameRoot THEN {} ELSE Stored

\* ListPublishedInfo("src").  The filesystem backend keeps what PutFile stores under
\* pool/, where this listing does not look.
Listed == IF SameRoot THEN Stored ELSE {}

\* gcSrc lists the files and finds the orphans past the grace period.
GcSrc ==
    LET orphans == Listed \ BuildSrcRefSet IN
    /\ clean.pc = "refs"
    /\ \/ /\ clean' = [NoClean EXCEPT !.pc = "delete",
                !.todo = IF CheckOrphanRatio(Cardinality(Listed), Cardinality(orphans)) THEN {}
                         ELSE {f \in orphans : stored[f] = "old"}]
          /\ NoFault
       \/ clean' = NoClean /\ Fault("failure")
    /\ UNCHANGED <<stored, index, exists, offered, current, work>>

\* deleteOrphans: the files, each with its mark in the ExistsCache; a failure is only logged.
DeleteOrphans ==
    /\ clean.pc = "delete"
    /\ \E deleted \in SUBSET clean.todo :
          /\ stored' = [f \in Files |-> IF f \in deleted THEN "none" ELSE stored[f]]
          /\ clean' = [NoClean EXCEPT !.pc = "forget", !.todo = deleted]
          /\ IF deleted = clean.todo THEN NoFault ELSE Fault("failure")
    /\ UNCHANGED <<index, exists, offered, current, work>>

Forget ==
    /\ clean.pc = "forget"
    /\ exists' = exists \ clean.todo
    /\ clean' = NoClean
    /\ UNCHANGED <<stored, index, offered, current, work, seen>>

-----------------------------------------------------------------------------
UpstreamMoves ==
    /\ offered < MaxVersion /\ offered' = offered + 1
    /\ UNCHANGED <<stored, index, exists, current, work, clean, seen>>

\* A file is lost from storage.
Vanish(f) ==
    /\ stored[f] # "none" /\ Fault("vanish")
    /\ stored' = [stored EXCEPT ![f] = "none"]
    /\ UNCHANGED <<index, exists, offered, current, work, clean>>

Older(a) == IF a = "young" THEN "old" ELSE a

\* gcGracePeriod passes; a request takes less from storing its file to the end.
GraceEnds ==
    /\ stored' = [f \in Files |-> IF work.pc = "upsert" /\ f \in work.todo THEN stored[f] ELSE Older(stored[f])]
    /\ first' = [v \in Versions |-> Older(first[v])]
    /\ UNCHANGED <<flag, exists, offered, current, work, clean, seen>>

Working == \/ PullThroughSource \/ FetchSourceFileStream \/ CacheSourceFile \/ UpsertDownloaded
           \/ RecordSource \/ AutoUpdateFile \/ MarkDownloaded
Cleaning == RemoveSourceEntry \/ GcSrc \/ DeleteOrphans \/ Forget

Next == \/ \E f \in Files : ServeSrc(f) \/ Vanish(f)
        \/ RunUpdate \/ Working \/ Snapshot \/ PruneMissingSrcEntries \/ Cleaning
        \/ UpstreamMoves \/ GraceEnds

\* The schedulers run the update, the snapshot and the cleanup again and again, and time
\* passes; nothing makes clients ask or upstreams move.
\* RunUpdate does not wait for requests in the code, so they cannot keep it from starting.
Fairness == /\ SF_vars(RunUpdate) /\ SF_vars(Snapshot) /\ SF_vars(PruneMissingSrcEntries)
            /\ WF_vars(Working) /\ WF_vars(Cleaning) /\ WF_vars(GraceEnds)

Spec == Init /\ [][Next]_vars
FairSpec == Spec /\ Fairness

-----------------------------------------------------------------------------
\* gcSrc never deletes a file that the Sources of current/ list, whatever requests and
\* updates run beside it.
DeletesNothingPublished ==
    \A f \in Files : DeleteOrphans /\ stored'[f] # stored[f] /\ current # 0
        => f \notin FilesOf[current]
KeepsPublished == [][DeletesNothingPublished]_vars

\* A file that no published Sources and no highest entry references is collected in the
\* end, or referenced again: unless deletions fail or the ratio check stops them.
Orphaned(f) == stored[f] # "none" /\ f \notin BuildSrcRefSet
SrcCollected == \A f \in Files : Orphaned(f) ~> (~Orphaned(f) \/ Faults # {})

\* A source whose files were downloaded follows the upstream: between updates, no version
\* stays merely listed above one that is downloaded, whatever pruning and collection
\* did in between; unless a step failed, or pruning overtook an update, which takes the
\* version for downloaded and lists it again.
DownloadsFollow ==
    seen = {} /\ work.pc \notin {"record", "cache"} =>
        \A u, v \in Versions : u < v /\ flag[u] = "downloaded" => flag[v] # "listed"
=============================================================================
