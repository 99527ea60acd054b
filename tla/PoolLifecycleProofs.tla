------------------------ MODULE PoolLifecycleProofs ------------------------
(***************************************************************************)
(* Proofs about PoolLifecycle for any number of files, upstreams, workers, *)
(* snapshots and faults: its types, and that what is published is in the   *)
(* pool.  A collected file may leave its index entry behind (a ghost); the *)
(* argument is that a ghost is never the highest indexed version, so no    *)
(* snapshot picks it, and that the upstreams offer something newer, so no  *)
(* worker indexes it again without its file.                               *)
(***************************************************************************)
EXTENDS PoolLifecycle, TLAPS

\* None of what PublishedResolves excepts has happened.
Unspoiled == seen \intersect {"vanish", "lost", "readopted"} = {}

\* The upstream of f offers f's version or a newer one; a newer one.
Known(f) == \E h \in offered : Upstream[h] = Upstream[f] /\ Version[f] <= Version[h]
Superseded(f) == \E h \in offered : Upstream[h] = Upstream[f] /\ Version[f] < Version[h]

\* What an upstream offers has one version, and every file that is stored, indexed or
\* about to be is of an offered version or an older one.
OfferedInv == \A f, g \in offered : Upstream[f] = Upstream[g] => Version[f] = Version[g]
KnownInv ==
    /\ \A f \in Files : pool[f] # "none" \/ entry[f] # "none" => Known(f)
    /\ \A k \in Workers : worker[k].pc \notin {"idle", "resolve"} => Known(worker[k].f)

\* Snapshot and cleanup run under the operation lock; a worker has a file, and what it
\* is about to rename has not been in the pool for a grace period.
LockInv == (clean.pc # "idle" => op = "cleanup") /\ (snap # "idle" => op = "snapshot")
PlaceInv ==
    \A k \in Workers : /\ worker[k].pc # "idle" => worker[k].f \in Files
                       /\ worker[k].pc = "rename" => pool[worker[k].f] # "old"

\* What a worker is about to index is in the pool.
IngestInv == \A k \in Workers : worker[k].pc \in {"add", "upsert"} => pool[worker[k].f] # "none"

\* What the ExistsCache names is in the pool, or about to be forgotten, or superseded
\* and not what a worker asks for.
Forgetting(f) == clean.pc = "forget" /\ clean.file = f
Asked(f) == \E k \in Workers : worker[k].pc = "has" /\ worker[k].f = f
ExistsInv == \A f \in exists : pool[f] # "none" \/ Forgetting(f) \/ (Superseded(f) /\ ~Asked(f))

\* The entries that pruneMissingEntries has found missing and may yet remove.
Phase(pc) == clean.pc = pc \/ (clean.pc = "forget" /\ clean.next = pc)
PruneSet == IF clean.pc \in {"entries", "check"} THEN clean.found
            ELSE IF Phase("remove") THEN clean.todo ELSE {}

\* A ghost is superseded upstream, and a higher version that will stay is indexed and
\* stored.
Above(f, S) == \E g \in Files \ S : entry[g] # "none" /\ pool[g] # "none" /\ Version[f] < Version[g]
GhostInv == \A f \in Files : Ghost(f) => Superseded(f) /\ Above(f, PruneSet)

\* From the collection of the references to the last deletion: what is published is
\* referenced, what is to be deleted is old, not published, and indexed before the
\* cleanup began only if its upstream has a higher indexed version.
Outdated(f) == \E g \in Files : entry[g] # "none" /\ Upstream[g] = Upstream[f] /\ Version[f] < Version[g]
RefInv ==
    /\ clean.pc \in {"index", "walk"} => Published \subseteq clean.refs
    /\ clean.pc = "walk" => \A f \in Files \ clean.refs : entry[f] = "old" => Outdated(f)
    /\ Phase("delete") =>
          \A f \in clean.todo : pool[f] = "old" /\ f \notin Published /\ (entry[f] = "old" => Outdated(f))

Served == \A f \in Published : pool[f] # "none"

PoolInv == /\ TypeOK /\ OfferedInv /\ KnownInv /\ LockInv /\ PlaceInv
           /\ Unspoiled => IngestInv /\ ExistsInv /\ GhostInv /\ RefInv /\ Served

-----------------------------------------------------------------------------
(* Types *)

WorkerPCs == {"idle", "resolve", "has", "check", "fetch", "put", "rename", "add", "upsert"}

\* What Step and Finish do to the workers.
LEMMA WorkerStep ==
    ASSUME TypeOK, NEW k \in Workers, NEW pc \in WorkerPCs, Step(k, pc)
    PROVE  /\ worker' \in [Workers -> WorkerStates]
           /\ worker'[k].pc = pc /\ worker'[k].f = worker[k].f
           /\ \A j \in Workers \ {k} : worker'[j] = worker[j]
  BY Zenon DEF TypeOK, WorkerStates, WorkerPCs, Step

\* A worker that is done is idle; the others stay as they are.
LEMMA WorkerFinish ==
    ASSUME TypeOK, NEW k \in Workers, Finish(k)
    PROVE  /\ worker' \in [Workers -> WorkerStates]
           /\ worker'[k].pc = "idle"
           /\ \A j \in Workers \ {k} : worker'[j] = worker[j]
  BY Zenon DEF TypeOK, WorkerStates, Contents, Idle, Finish

\* What the start of a request or an update does.
LEMMA WorkerStart ==
    ASSUME TypeOK, NEW k \in Workers, NEW pc \in WorkerPCs, NEW f \in Files, NEW s \in BOOLEAN,
           worker' = [worker EXCEPT ![k] = [pc |-> pc, f |-> f, stream |-> s]]
    PROVE  /\ worker' \in [Workers -> WorkerStates]
           /\ worker'[k].pc = pc /\ worker'[k].f = f
           /\ \A j \in Workers \ {k} : worker'[j] = worker[j]
<1>1. [pc |-> pc, f |-> f, stream |-> s] \in WorkerStates
  BY Zenon DEF WorkerStates, WorkerPCs, Contents
<1> QED
  BY Zenon, <1>1 DEF TypeOK

\* An ingest step keeps the types; that a busy worker has a file is PlaceInv.
LEMMA IngestType == TypeOK /\ PlaceInv /\ (\E k \in Workers : Ingest(k)) => TypeOK'
<1> SUFFICES ASSUME TypeOK, PlaceInv, NEW k \in Workers, Ingest(k) PROVE TypeOK'
  BY Zenon
<1>1. CASE \E f \in Files : ServePool(k, f) \/ RunUpdate(k, f)
  <2>1. PICK f \in Files, s \in BOOLEAN, pc \in {"resolve", "has"} :
           worker' = [worker EXCEPT ![k] = [pc |-> pc, f |-> f, stream |-> s]]
    BY <1>1, Zenon DEF ServePool, RunUpdate
  <2>2. worker' \in [Workers -> WorkerStates]
    BY Zenon, <2>1, WorkerStart DEF WorkerPCs
  <2> QED
    BY Zenon, <1>1, <2>2 DEF ServePool, RunUpdate, TypeOK, store, published
<1>2. CASE PullThrough(k) \/ PullThroughStream(k)
  <2>1. worker' \in [Workers -> WorkerStates]
    BY Zenon, <1>2, WorkerStep, WorkerFinish DEF PullThrough, PullThroughStream, Resolve, WorkerPCs
  <2> QED
    BY Zenon, <1>2, <2>1 DEF PullThrough, PullThroughStream, Resolve, TypeOK, store, published
<1>3. CASE Has(k)
  <2>1. worker' \in [Workers -> WorkerStates]
    BY Zenon, <1>3, WorkerStep DEF Has, WorkerPCs
  <2> QED
    BY Zenon, <1>3, <2>1 DEF Has, TypeOK, Raced, store, published
<1>4. CASE CacheStreaming(k) \/ PutFile(k)
  <2>1. worker' \in [Workers -> WorkerStates]
    BY Zenon, <1>4, WorkerStep DEF CacheStreaming, PutFile, WorkerPCs
  <2> QED
    BY Zenon, <1>4, <2>1 DEF CacheStreaming, PutFile, TypeOK, store, published
<1>5. CASE FetchDebStream(k)
  <2>1. worker' \in [Workers -> WorkerStates]
    BY Zenon, <1>5, WorkerStep, WorkerFinish DEF FetchDebStream, WorkerPCs
  <2> QED
    BY Zenon, <1>5, <2>1 DEF FetchDebStream, Fault, NoFault, Kinds, TypeOK, store, published
<1>6. CASE Rename(k)
  <2>1. worker' \in [Workers -> WorkerStates]
    BY Zenon, <1>6, WorkerStep, WorkerFinish DEF Rename, WorkerPCs
  <2>2. pool' \in [Files -> Age]
    BY Zenon, <1>6 DEF Rename, TypeOK, Age
  <2> QED
    BY Zenon, <1>6, <2>1, <2>2 DEF Rename, Fault, NoFault, Kinds, TypeOK, published
<1>7. CASE Add(k)
  <2>1. worker' \in [Workers -> WorkerStates]
    BY Zenon, <1>7, WorkerStep DEF Add, WorkerPCs
  <2>2. exists' \subseteq Files
    BY Zenon, <1>7 DEF Add, TypeOK, PlaceInv
  <2> QED
    BY Zenon, <1>7, <2>1, <2>2 DEF Add, TypeOK, store, published
<1>8. CASE UpsertEntry(k)
  <2>1. worker' \in [Workers -> WorkerStates]
    BY Zenon, <1>8, WorkerFinish DEF UpsertEntry
  <2>2. entry' \in [Files -> Age]
    BY Zenon, <1>8 DEF UpsertEntry, TypeOK, Age
  <2> QED
    BY Zenon, <1>8, <2>1, <2>2 DEF UpsertEntry, Fault, NoFault, Kinds, TypeOK, store, published
<1> QED
  BY Zenon, <1>1, <1>2, <1>3, <1>4, <1>5, <1>6, <1>7, <1>8 DEF Ingest

\* The trees a cleanup leaves are trees there were, or trees without their package.
LEMMA TreesShrink ==
    ASSUME TypeOK, PruneSnapshots
    PROVE  /\ trees' \in Seq(Contents)
           /\ Published' \subseteq Published
<1> DEFINE excess == IF Len(trees) > MaxSnapshots THEN Len(trees) - MaxSnapshots ELSE 0
<1>0. trees \in Seq(Contents) /\ Len(trees) \in Nat /\ excess \in 0 .. Len(trees)
  BY PoolAssumption DEF TypeOK
<1>1. PICK n \in 0 .. excess :
         \/ trees' = SubSeq(trees, n + 1, Len(trees))
         \/ n > 0 /\ \E c \in {None, trees[n]} : trees' = <<c>> \o SubSeq(trees, n + 1, Len(trees))
  BY Zenon DEF PruneSnapshots
<1>2. n \in 0 .. Len(trees)
  BY <1>0
<1> HIDE DEF excess
<1> DEFINE kept == SubSeq(trees, n + 1, Len(trees))
<1>3. /\ kept \in Seq(Contents) /\ Len(kept) = Len(trees) - n
      /\ \A i \in 1 .. Len(kept) : kept[i] = trees[n + i]
  BY <1>0, <1>2
<1>4. CASE trees' = kept
  <2>1. trees' \in Seq(Contents) /\ \A i \in DOMAIN trees' : trees'[i] \in {trees[j] : j \in DOMAIN trees}
    <3>1. trees' \in Seq(Contents) /\ DOMAIN trees' = 1 .. Len(kept) /\ DOMAIN trees = 1 .. Len(trees)
      BY <1>0, <1>3, <1>4
    <3>2. ASSUME NEW i \in 1 .. Len(kept)
          PROVE  n + i \in 1 .. Len(trees) /\ trees'[i] = trees[n + i]
      <4> HIDE DEF kept
      <4> QED
        BY <1>0, <1>2, <1>3, <1>4
    <3> QED
      BY Zenon, <3>1, <3>2
  <2> QED
    BY Zenon, <2>1 DEF PruneSnapshots, Published
<1>5. CASE n > 0 /\ \E c \in {None, trees[n]} : trees' = <<c>> \o kept
  <2>1. PICK c \in {None, trees[n]} : trees' = <<c>> \o kept
    BY Zenon, <1>5
  <2>2. c \in Contents /\ c \in {None} \union {trees[j] : j \in DOMAIN trees}
    BY <1>0, <1>2, <1>5 DEF Contents
  <2>3. /\ trees' \in Seq(Contents) /\ Len(trees') = 1 + Len(kept) /\ trees'[1] = c
        /\ \A i \in 2 .. Len(trees') : trees'[i] = kept[i - 1]
    BY <2>1, <2>2, <1>3
  <2>4. \A i \in DOMAIN trees' : trees'[i] \in {None} \union {trees[j] : j \in DOMAIN trees}
    <3> SUFFICES ASSUME NEW i \in 1 .. Len(trees')
                 PROVE  trees'[i] \in {None} \union {trees[j] : j \in DOMAIN trees}
      BY <2>3
    <3>1. CASE i = 1
      BY Zenon, <3>1, <2>2, <2>3
    <3>2. CASE i # 1
      <4>1. i - 1 \in 1 .. Len(kept) /\ n + (i - 1) \in 1 .. Len(trees)
        BY <3>2, <2>3, <1>0, <1>2, <1>3
      <4>2. trees'[i] = kept[i - 1] /\ kept[i - 1] = trees[n + (i - 1)]
        BY <4>1, <3>2, <2>3, <1>0, <1>3
      <4> QED
        BY <4>1, <4>2, <1>0
    <3> QED
      BY Zenon, <3>1, <3>2
  <2> QED
    BY Zenon, <2>3, <2>4, PoolAssumption DEF PruneSnapshots, Published
<1> QED
  BY Zenon, <1>1, <1>4, <1>5

\* A snapshot adds what groupStanzas picks, or nothing.
LEMMA TreesGrow ==
    ASSUME TypeOK, PublishDated \/ PublishCurrent
    PROVE  /\ trees' \in Seq(Contents) /\ current' \in Contents
           /\ Published' \subseteq Published \union GroupStanzas
<1>1. GroupStanzas \subseteq Contents
  BY Zenon DEF GroupStanzas, HighestVersionByKey, Indexed, Contents
<1>2. CASE PublishDated
  <2>1. PICK d \in GroupStanzas \union {None} : trees' = Append(trees, d)
    BY Zenon, <1>2 DEF PublishDated
  <2>2. d \in Contents /\ trees \in Seq(Contents) /\ current' = current
    BY Zenon, <1>1, <1>2, <2>1 DEF TypeOK, Contents, PublishDated
  <2>3. /\ trees' \in Seq(Contents) /\ Len(trees') = Len(trees) + 1
        /\ trees'[Len(trees) + 1] = d
        /\ \A i \in 1 .. Len(trees) : trees'[i] = trees[i]
    BY <2>1, <2>2
  <2>4. \A i \in DOMAIN trees' : trees'[i] \in {d} \union {trees[j] : j \in DOMAIN trees}
    BY <2>2, <2>3
  <2> QED
    BY <2>1, <2>2, <2>3, <2>4, PoolAssumption DEF Published, TypeOK
<1>3. CASE PublishCurrent
  BY ZenonT(30), <1>1, <1>3 DEF PublishCurrent, Published, TypeOK
<1> QED
  BY Zenon, <1>2, <1>3

CleanPCs == {"idle", "trees", "entries", "check", "remove", "forget", "refs", "index", "walk",
             "delete", "temps"}

\* The states in which the steps of a cleanup leave it.
LEMMA CleanTypes ==
    /\ NoClean \in CleanStates
    /\ \A pc \in CleanPCs : [NoClean EXCEPT !.pc = pc] \in CleanStates
    /\ \A pc \in CleanPCs, S \in SUBSET Files : [NoClean EXCEPT !.pc = pc, !.todo = S] \in CleanStates
    /\ \A S \in SUBSET Files : [NoClean EXCEPT !.pc = "index", !.refs = S] \in CleanStates
  BY ZenonT(30) DEF NoClean, CleanPCs, CleanStates, Contents

\* Every other step keeps the types.
LEMMA TypeStep == TypeOK /\ PlaceInv /\ [Next]_vars => TypeOK'
<1> SUFFICES ASSUME TypeOK, PlaceInv, [Next]_vars PROVE TypeOK'
  BY Zenon
<1> USE DEF TypeOK
<1>1. CASE \E k \in Workers : Ingest(k)
  BY Zenon, <1>1, IngestType
<1>2. CASE SnapshotStart
  BY Zenon, <1>2 DEF SnapshotStart, store, published
<1>3. CASE PublishDated \/ PublishCurrent
  BY Zenon, <1>3, TreesGrow DEF PublishDated, PublishCurrent, EndSnapshot, Fault, NoFault, Kinds, store
<1>4. CASE CleanupStart
  BY Zenon, <1>4 DEF CleanupStart, NoClean, CleanStates, Contents, store, published
<1>5. CASE PruneSnapshots
  BY Zenon, <1>5, TreesShrink DEF PruneSnapshots, Goto, NoClean, CleanStates, Contents, Fault, NoFault, Kinds, store
<1>6. CASE PruneList
  BY Zenon, <1>6 DEF PruneList, ListOldEntries, At, CleanStates, Contents, store, published
<1>7. CASE PruneCheck
  <2>1. clean' \in CleanStates
    <3>1. CASE clean' = [NoClean EXCEPT !.pc = "refs"] \/ clean' = NoClean
      BY Zenon, <3>1, CleanTypes DEF CleanPCs
    <3>3. CASE clean' = [NoClean EXCEPT !.pc = "remove", !.todo = clean.found]
      <4>1. clean.found \in SUBSET Files
        BY Zenon DEF CleanStates
      <4> QED
        BY Zenon, <3>3, <4>1, CleanTypes DEF CleanPCs
    <3>2. CASE \E f \in clean.todo :
                  clean' = [clean EXCEPT !.todo = @ \ {f},
                                         !.found = IF pool[f] = "none" THEN @ \union {f} ELSE @]
      <4>1. PICK f \in clean.todo :
               clean' = [clean EXCEPT !.todo = @ \ {f},
                                      !.found = IF pool[f] = "none" THEN @ \union {f} ELSE @]
        BY Zenon, <3>2
      <4>2. (IF pool[f] = "none" THEN clean.found \union {f} ELSE clean.found) \in SUBSET Files
        BY Zenon, <4>1 DEF CleanStates
      <4> QED
        BY Zenon, <4>1, <4>2 DEF CleanStates
    <3> QED
      BY Zenon, <1>7, <3>1, <3>2, <3>3 DEF PruneCheck, Goto, Abort, EndCleanup
  <2> QED
    BY Zenon, <1>7, <2>1 DEF PruneCheck, Abort, EndCleanup, Fault, NoFault, Kinds, store, published
<1>8. CASE PruneRemove
  <2>1. clean' \in CleanStates
    <3>1. CASE clean' = [NoClean EXCEPT !.pc = "refs"]
      BY Zenon, <3>1, CleanTypes DEF CleanPCs
    <3>2. ASSUME NEW f \in clean.todo, clean' = [clean EXCEPT !.todo = @ \ {f}]
          PROVE  clean' \in CleanStates
      BY Zenon, <3>2 DEF CleanStates
    <3>3. ASSUME NEW f \in clean.todo,
                 clean' = [clean EXCEPT !.pc = "forget", !.todo = @ \ {f}, !.file = f, !.next = "remove"]
          PROVE  clean' \in CleanStates
      BY Zenon, <3>3 DEF CleanStates, Contents
    <3> QED
      BY Zenon, <1>8, <3>1, <3>2, <3>3 DEF PruneRemove, Goto
  <2>2. entry' \in [Files -> Age]
    BY Zenon, <1>8 DEF PruneRemove, Age
  <2> QED
    BY Zenon, <1>8, <2>1, <2>2 DEF PruneRemove, Fault, NoFault, Kinds, store, published
<1>9. CASE Forget
  BY ZenonT(30), <1>9 DEF Forget, CleanStates, Contents, store, published
<1>10. CASE ScanPackagesRefs
  <2>1. clean' \in CleanStates
    BY ZenonT(30), <1>10, CleanTypes DEF ScanPackagesRefs, Abort, EndCleanup
  <2> QED
    BY Zenon, <1>10, <2>1 DEF ScanPackagesRefs, Abort, EndCleanup, Fault, NoFault, Kinds, store, published
<1>11. CASE IndexRefs
  <2>1. BuildPoolRefSet \subseteq Contents
    BY Zenon DEF BuildPoolRefSet, HighestVersionByKey, Indexed, Contents
  <2> QED
    BY Zenon, <1>11, <2>1 DEF IndexRefs, CleanStates, store, published
<1>12. CASE GcPool
  <2>1. clean' \in CleanStates
    <3>1. Orphans \subseteq Files
      BY Zenon DEF Orphans, Stored
    <3>2. \/ clean' = [NoClean EXCEPT !.pc = "temps"] \/ clean' = NoClean
          \/ clean' = [NoClean EXCEPT !.pc = "delete", !.todo = Orphans]
      BY Zenon, <1>12 DEF GcPool, Goto, Abort, EndCleanup
    <3> QED
      BY Zenon, <3>1, <3>2, CleanTypes DEF CleanPCs
  <2> QED
    BY Zenon, <1>12, <2>1 DEF GcPool, Abort, EndCleanup, Fault, NoFault, Kinds, store, published
<1>13. CASE DeleteOrphans
  <2>1. clean' \in CleanStates
    <3>1. CASE clean' = [NoClean EXCEPT !.pc = "temps"]
      BY Zenon, <3>1, CleanTypes DEF CleanPCs
    <3>2. ASSUME NEW f \in clean.todo, clean' = [clean EXCEPT !.todo = @ \ {f}]
          PROVE  clean' \in CleanStates
      BY <3>2 DEF CleanStates
    <3>3. ASSUME NEW f \in clean.todo,
                 clean' = [clean EXCEPT !.pc = "forget", !.todo = @ \ {f}, !.file = f, !.next = "delete"]
          PROVE  clean' \in CleanStates
      BY Zenon, <3>3 DEF CleanStates, Contents
    <3> QED
      BY Zenon, <1>13, <3>1, <3>2, <3>3 DEF DeleteOrphans, Goto
  <2>2. pool' \in [Files -> Age]
    BY Zenon, <1>13 DEF DeleteOrphans, Age
  <2>3. seen' \subseteq Kinds \union Raced
    BY Zenon, <1>13 DEF DeleteOrphans, Fault, NoFault, Kinds, Raced
  <2> QED
    BY Zenon, <1>13, <2>1, <2>2, <2>3 DEF DeleteOrphans, published
<1>14. CASE CleanupTempFiles
  BY Zenon, <1>14 DEF CleanupTempFiles, EndCleanup, NoClean, CleanStates, Contents, Age, published
<1>15. CASE \E f \in Files : UpstreamMoves(f) \/ Vanish(f)
  BY Zenon, <1>15 DEF UpstreamMoves, Vanish, Fault, Kinds, Age, store, published
<1>16. CASE GraceEnds
  BY Zenon, <1>16 DEF GraceEnds, Grow, Age, published
<1>17. CASE Restart
  <2>1. entry' \in [Files -> Age] /\ temp' \in [Files -> Age]
    BY <1>17 DEF Restart, ReconcileIndexIfEmpty, Rebuild, Age
  <2>2. worker' \in [Workers -> WorkerStates] /\ clean' \in CleanStates
    BY Zenon, <1>17 DEF Restart, Idle, WorkerStates, NoClean, CleanStates, Contents
  <2>3. seen' \subseteq Kinds \union Raced /\ exists' \subseteq Files
    BY Zenon, <1>17 DEF Restart, Kinds, Raced
  <2> QED
    BY Zenon, <1>17, <2>1, <2>2, <2>3 DEF Restart, published
<1>18. CASE UNCHANGED vars
  BY Zenon, <1>18 DEF vars, store, published
<1> QED
  BY Zenon, <1>1, <1>2, <1>3, <1>4, <1>5, <1>6, <1>7, <1>8, <1>9, <1>10, <1>11, <1>12, <1>13, <1>14,
     <1>15, <1>16, <1>17, <1>18 DEF Next, Snapshot, CleanupStep

-----------------------------------------------------------------------------
(* What changes what *)

\* Only the ingest of the named steps, the cleanup and the world change files, entries
\* and offers; what happened stays recorded.
LEMMA FileSteps ==
    ASSUME [Next]_vars
    PROVE  \/ UNCHANGED <<pool, entry, offered>>
           \/ \E k \in Workers : Rename(k) \/ UpsertEntry(k)
           \/ PruneRemove \/ DeleteOrphans
           \/ \E f \in Files : UpstreamMoves(f) \/ Vanish(f)
           \/ GraceEnds \/ Restart
<1>1. CASE \E k \in Workers : Ingest(k)
  BY <1>1 DEF Ingest, ServePool, RunUpdate, PullThrough, PullThroughStream, Resolve, Has,
              CacheStreaming, FetchDebStream, PutFile, Add, store
<1>2. CASE Snapshot \/ CleanupStart
  BY Zenon, <1>2 DEF Snapshot, SnapshotStart, PublishDated, PublishCurrent, CleanupStart, store
<1>3. CASE CleanupStep
  BY Zenon, <1>3 DEF CleanupStep, PruneSnapshots, PruneList, PruneCheck, Forget, ScanPackagesRefs,
              IndexRefs, GcPool, CleanupTempFiles, store
<1>4. CASE UNCHANGED vars
  BY Zenon, <1>4 DEF vars, store
<1> QED
  BY Zenon, <1>1, <1>2, <1>3, <1>4 DEF Next

\* Faults are never forgotten.
LEMMA SeenGrows ==
    ASSUME [Next]_vars
    PROVE  /\ seen \subseteq seen'
           /\ Unspoiled' => Unspoiled
<1>1. seen \subseteq seen'
  <2>1. CASE \E k \in Workers : Ingest(k)
    BY ZenonT(30), <2>1 DEF Ingest, ServePool, RunUpdate, PullThrough, PullThroughStream, Resolve, Has, Rename,
                UpsertEntry, CacheStreaming, FetchDebStream, PutFile, Add, Fault, NoFault
  <2>2. CASE Snapshot \/ CleanupStart
    BY Zenon, <2>2 DEF Snapshot, SnapshotStart, PublishDated, PublishCurrent, CleanupStart, Fault, NoFault
  <2>3. CASE CleanupStep
    BY Zenon, <2>3 DEF CleanupStep, PruneSnapshots, PruneList, PruneCheck, PruneRemove, Forget,
                ScanPackagesRefs, IndexRefs, GcPool, DeleteOrphans, CleanupTempFiles, Abort,
                Fault, NoFault
  <2>4. CASE \E f \in Files : UpstreamMoves(f) \/ Vanish(f)
    BY Zenon, <2>4 DEF UpstreamMoves, Vanish, Fault
  <2>5. CASE GraceEnds \/ Restart \/ UNCHANGED vars
    BY Zenon, <2>5 DEF GraceEnds, Restart, vars
  <2> QED
    BY Zenon, <2>1, <2>2, <2>3, <2>4, <2>5 DEF Next
<1> QED
  BY Zenon, <1>1 DEF Unspoiled

\* What a worker has reached, and what it did to get there.
LEMMA WorkerMoves ==
    ASSUME TypeOK, NEW k \in Workers, Ingest(k)
    PROVE  /\ \A j \in Workers \ {k} : worker'[j] = worker[j]
           /\ \/ worker'[k].pc = "idle"
              \/ worker'[k].pc = "resolve" /\ worker'[k].f \in Files
              \/ worker'[k].pc = "has" /\ worker'[k].f \in offered
              \/ /\ worker[k].pc # "idle" /\ worker'[k].f = worker[k].f
                 /\ \/ worker'[k].pc \in {"has", "fetch"} /\ worker[k].pc = "resolve" /\ worker[k].f \in offered
                    \/ worker'[k].pc \in {"check", "fetch", "put"} /\ worker[k].pc # "resolve"
                    \/ worker'[k].pc = "rename" /\ pool[worker[k].f] = "none" /\ worker[k].pc = "put"
                    \/ worker'[k].pc = "upsert" /\ Has(k) /\ worker[k].f \in exists
                    \/ worker'[k].pc = "upsert" /\ Add(k)
                    \/ worker'[k].pc = "add" /\ Rename(k) /\ pool' = [pool EXCEPT ![worker[k].f] = "young"]
                    \/ /\ worker'[k].pc = "add" /\ pool[worker[k].f] # "none"
                       /\ worker[k].pc \in {"check", "put"}
<1>1. ASSUME NEW f \in Files, ServePool(k, f) \/ RunUpdate(k, f)
      PROVE  /\ \A j \in Workers \ {k} : worker'[j] = worker[j]
             /\ \/ worker'[k].pc = "resolve" /\ worker'[k].f \in Files
                \/ worker'[k].pc = "has" /\ worker'[k].f \in offered
  <2>1. CASE ServePool(k, f)
    <3>1. PICK s \in BOOLEAN : worker' = [worker EXCEPT ![k] = [pc |-> "resolve", f |-> f, stream |-> s]]
      BY <2>1, Zenon DEF ServePool
    <3> QED
      BY Zenon, <3>1, WorkerStart DEF WorkerPCs
  <2>2. CASE RunUpdate(k, f)
    BY Zenon, <2>2, WorkerStart DEF WorkerPCs, RunUpdate
  <2> QED
    BY Zenon, <1>1, <2>1, <2>2
<1>2. CASE PullThrough(k) \/ PullThroughStream(k)
  BY Zenon, <1>2, WorkerStep, WorkerFinish DEF PullThrough, PullThroughStream, Resolve, WorkerPCs
<1>3. CASE Has(k)
  BY Zenon, <1>3, WorkerStep DEF Has, WorkerPCs
<1>4. CASE CacheStreaming(k) \/ PutFile(k)
  BY Zenon, <1>4, WorkerStep DEF CacheStreaming, PutFile, WorkerPCs
<1>5. CASE FetchDebStream(k) \/ UpsertEntry(k)
  BY Zenon, <1>5, WorkerStep, WorkerFinish DEF FetchDebStream, UpsertEntry, WorkerPCs
<1>6. CASE Rename(k)
  BY Zenon, <1>6, WorkerStep, WorkerFinish DEF Rename, WorkerPCs
<1>7. CASE Add(k)
  BY Zenon, <1>7, WorkerStep DEF Add, WorkerPCs
<1> QED
  BY Zenon, <1>1, <1>2, <1>3, <1>4, <1>5, <1>6, <1>7 DEF Ingest

-----------------------------------------------------------------------------
(* Offers, locks and places *)

\* What is offered only gets newer.
LEMMA OffersGrow ==
    ASSUME TypeOK, OfferedInv, [Next]_vars
    PROVE  /\ OfferedInv'
           /\ \A f \in Files : (Known(f) => Known(f)') /\ (Superseded(f) => Superseded(f)')
<1>0. Version \in [Files -> Nat] /\ offered \subseteq Files
  BY Zenon, PoolAssumption DEF TypeOK
<1>1. CASE UNCHANGED offered
  BY Zenon, <1>1 DEF OfferedInv, Known, Superseded
<1>2. ASSUME NEW g \in Files, UpstreamMoves(g)
      PROVE  /\ OfferedInv'
             /\ \A f \in Files : (Known(f) => Known(f)') /\ (Superseded(f) => Superseded(f)')
  <2>1. /\ \A h \in offered : Upstream[h] = Upstream[g] => Version[h] < Version[g]
        /\ offered' = {h \in offered : Upstream[h] # Upstream[g]} \union {g}
    BY Zenon, <1>2 DEF UpstreamMoves
  <2>2. OfferedInv'
    BY Zenon, <2>1 DEF OfferedInv
  <2>3. \A f \in Files : \A h \in offered : Version[h] \in Nat /\ Version[f] \in Nat /\ Version[g] \in Nat
    BY Zenon, <1>0
  <2>4. ASSUME NEW f \in Files, Known(f) PROVE Known(f)'
    BY <2>1, <2>3, <2>4 DEF Known
  <2>5. ASSUME NEW f \in Files, Superseded(f) PROVE Superseded(f)'
    BY <2>1, <2>3, <2>5 DEF Superseded
  <2> QED
    BY Zenon, <2>2, <2>4, <2>5
<1> QED
  BY Zenon, <1>1, <1>2, FileSteps DEF Rename, UpsertEntry, PruneRemove, DeleteOrphans, Vanish, GraceEnds, Restart

\* An offered file is known, and not superseded.
LEMMA OfferedKnown ==
    ASSUME TypeOK, OfferedInv, NEW f \in offered
    PROVE  Known(f) /\ ~Superseded(f)
<1>1. Version[f] \in Nat /\ f \in Files
  BY Zenon, PoolAssumption DEF TypeOK
<1> QED
  BY <1>1 DEF OfferedInv, Known, Superseded

\* The entries a restart finds or makes are of files that were indexed or are stored.
LEMMA RestartEntries ==
    ASSUME TypeOK, Restart
    PROVE  /\ \A f \in Files : entry'[f] # "none" => entry[f] # "none" \/ pool[f] # "none"
           /\ "lost" \notin seen' =>
                 \/ \A f \in Files : entry[f] # "none" => entry'[f] # "none"
                 \/ \A f \in Files : entry'[f] # "none" => pool[f] # "none"
<1>1. PICK e \in {entry, [f \in Files |-> IF entry[f] = "young" THEN "none" ELSE entry[f]]} :
         /\ seen' = seen \union {"crash"} \union (IF e = entry THEN {} ELSE {"lost"})
         /\ entry' \in {ReconcileIndexIfEmpty(e), Rebuild(e), Rebuild([f \in Files |-> "none"])}
  BY Zenon DEF Restart
<1>2. e \in [Files -> Age] /\ \A f \in Files : e[f] # "none" => entry[f] # "none"
  BY Zenon, <1>1 DEF TypeOK, Age
<1>3. \/ entry' = e
      \/ entry' = [f \in Files |-> IF pool[f] # "none" THEN "young" ELSE e[f]]
      \/ entry' = [f \in Files |-> IF pool[f] # "none" THEN "young" ELSE "none"]
  BY Zenon, <1>1 DEF ReconcileIndexIfEmpty, Rebuild
<1>4. "lost" \notin seen' => e = entry
  BY Zenon, <1>1
<1> QED
  BY Zenon, <1>2, <1>3, <1>4

\* No worker stores or indexes a file its upstream has never offered.
LEMMA KnownStep ==
    ASSUME TypeOK, OfferedInv, KnownInv, PlaceInv, [Next]_vars
    PROVE  KnownInv'
<1>0. \A f \in Files : Known(f) => Known(f)'
  BY Zenon, OffersGrow
<1>1. ASSUME NEW f \in Files, pool'[f] # "none" \/ entry'[f] # "none" PROVE Known(f)
  <2>1. CASE UNCHANGED <<pool, entry>>
    BY Zenon, <1>1, <2>1 DEF KnownInv
  <2>2. ASSUME NEW k \in Workers, Rename(k) \/ UpsertEntry(k) PROVE Known(f)
    <3>1. worker[k].f \in Files /\ Known(worker[k].f)
      BY ZenonT(30), <2>2 DEF Rename, UpsertEntry, PlaceInv, KnownInv
    <3> QED
      BY Zenon, <1>1, <2>2, <3>1 DEF Rename, UpsertEntry, KnownInv, TypeOK, store
  <2>3. CASE PruneRemove \/ DeleteOrphans \/ \E g \in Files : UpstreamMoves(g) \/ Vanish(g)
    BY ZenonT(30), <1>1, <2>3 DEF PruneRemove, DeleteOrphans, UpstreamMoves, Vanish, KnownInv, TypeOK, CleanStates, store
  <2>4. CASE GraceEnds
    BY Zenon, <1>1, <2>4 DEF GraceEnds, Grow, KnownInv
  <2>5. CASE Restart
    BY Zenon, <1>1, <2>5, RestartEntries DEF Restart, KnownInv
  <2> QED
    BY Zenon, <2>1, <2>2, <2>3, <2>4, <2>5, FileSteps
<1>2. ASSUME NEW j \in Workers, worker'[j].pc \notin {"idle", "resolve"}
      PROVE  worker'[j].f \in Files /\ Known(worker'[j].f)
  <2>1. CASE UNCHANGED worker
    BY Zenon, <1>2, <2>1 DEF KnownInv, PlaceInv
  <2>2. ASSUME NEW k \in Workers, Ingest(k) PROVE worker'[j].f \in Files /\ Known(worker'[j].f)
    <3>1. CASE j # k
      <4>1. worker'[j] = worker[j]
        BY Zenon, <2>2, <3>1, WorkerMoves
      <4> QED
        BY Zenon, <1>2, <4>1 DEF KnownInv, PlaceInv
    <3>2. CASE j = k
      <4>1. \/ worker'[j].f \in offered
            \/ worker'[j].f = worker[j].f /\ worker[j].pc \notin {"idle", "resolve"}
        BY Zenon, <1>2, <2>2, <3>2, WorkerMoves DEF Has, Add, Rename
      <4> QED
        BY Zenon, <4>1, OfferedKnown DEF KnownInv, PlaceInv, TypeOK
    <3> QED
      BY Zenon, <3>1, <3>2
  <2>3. CASE Restart
    BY Zenon, <1>2, <2>3 DEF Restart, Idle
  <2> QED
    BY Zenon, <2>1, <2>2, <2>3 DEF Next, Snapshot, SnapshotStart, PublishDated, PublishCurrent, CleanupStart,
       CleanupStep, PruneSnapshots, PruneList, PruneCheck, PruneRemove, Forget, ScanPackagesRefs,
       IndexRefs, GcPool, DeleteOrphans, CleanupTempFiles, UpstreamMoves, Vanish, GraceEnds, vars
<1> QED
  BY Zenon, <1>0, <1>1, <1>2 DEF KnownInv

\* A snapshot and a cleanup never run at once.
LEMMA LockInvStep == TypeOK /\ LockInv /\ [Next]_vars => LockInv'
<1> SUFFICES ASSUME TypeOK, LockInv, [Next]_vars PROVE LockInv'
  BY Zenon
<1>1. CASE UNCHANGED <<op, snap, clean>>
  BY Zenon, <1>1 DEF LockInv
<1>2. CASE Snapshot
  <2>1. clean' = clean /\ (op = "free" \/ snap # "idle")
    BY Zenon, <1>2 DEF Snapshot, SnapshotStart, PublishDated, PublishCurrent
  <2>2. snap' # "idle" => op' = "snapshot"
    BY Zenon, <1>2 DEF Snapshot, SnapshotStart, PublishDated, PublishCurrent, EndSnapshot, LockInv
  <2> QED
    BY Zenon, <2>1, <2>2 DEF LockInv
<1>3. CASE CleanupStart
  BY Zenon, <1>3 DEF CleanupStart, LockInv
<1>4. CASE CleanupStep
  <2>1. clean.pc # "idle" /\ snap' = snap
    BY Zenon, <1>4 DEF CleanupStep, PruneSnapshots, PruneList, PruneCheck, PruneRemove, Forget, At,
                ScanPackagesRefs, IndexRefs, GcPool, DeleteOrphans, CleanupTempFiles
  <2>2. op' = op \/ clean' = NoClean
    BY Zenon, <1>4 DEF CleanupStep, PruneSnapshots, PruneList, PruneCheck, PruneRemove, Forget, Abort, EndCleanup,
                ScanPackagesRefs, IndexRefs, GcPool, DeleteOrphans, CleanupTempFiles
  <2>3. NoClean.pc = "idle"
    BY Zenon DEF NoClean
  <2> QED
    BY Zenon, <2>1, <2>2, <2>3 DEF LockInv
<1>5. CASE Restart
  BY Zenon, <1>5 DEF Restart, NoClean, LockInv
<1>6. ASSUME NEW k \in Workers, Ingest(k) PROVE UNCHANGED <<op, snap, clean>>
  BY Zenon, <1>6 DEF Ingest, ServePool, RunUpdate, PullThrough, PullThroughStream, Resolve, Has, Rename,
              UpsertEntry, CacheStreaming, FetchDebStream, PutFile, Add
<1>7. ASSUME NEW f \in Files, UpstreamMoves(f) \/ Vanish(f) PROVE UNCHANGED <<op, snap, clean>>
  BY Zenon, <1>7 DEF UpstreamMoves, Vanish
<1>8. CASE GraceEnds \/ UNCHANGED vars
  BY Zenon, <1>8, <1>1 DEF GraceEnds, vars
<1> QED
  BY Zenon, <1>1, <1>2, <1>3, <1>4, <1>5, <1>6, <1>7, <1>8 DEF Next

\* Who changes the workers.
LEMMA WorkerSteps ==
    ASSUME [Next]_vars
    PROVE  UNCHANGED worker \/ (\E k \in Workers : Ingest(k)) \/ Restart
  BY Zenon DEF Next, Snapshot, SnapshotStart, PublishDated, PublishCurrent, CleanupStart,
       CleanupStep, PruneSnapshots, PruneList, PruneCheck, PruneRemove, Forget, ScanPackagesRefs,
       IndexRefs, GcPool, DeleteOrphans, CleanupTempFiles, UpstreamMoves, Vanish, GraceEnds, vars

\* A file that an unfinished PutFile writes does not become old; its own Rename makes it young.
LEMMA PlaceStep == TypeOK /\ PlaceInv /\ [Next]_vars => PlaceInv'
<1> SUFFICES ASSUME TypeOK, PlaceInv, [Next]_vars, NEW j \in Workers
             PROVE  /\ worker'[j].pc # "idle" => worker'[j].f \in Files
                    /\ worker'[j].pc = "rename" => pool'[worker'[j].f] # "old"
  BY Zenon DEF PlaceInv
<1>1. worker'[j].pc # "idle" => worker'[j].f \in Files
  <2>1. CASE UNCHANGED worker
    BY Zenon, <2>1 DEF PlaceInv
  <2>2. ASSUME NEW k \in Workers, Ingest(k) PROVE worker'[j].pc # "idle" => worker'[j].f \in Files
    <3>1. CASE j = k
      BY Zenon, <2>2, <3>1, WorkerMoves DEF PlaceInv, TypeOK
    <3>2. CASE j # k
      BY <2>2, <3>2, WorkerMoves DEF PlaceInv
    <3> QED
      BY Zenon, <3>1, <3>2
  <2>3. CASE Restart
    BY Zenon, <2>3 DEF Restart, Idle
  <2> QED
    BY Zenon, <2>1, <2>2, <2>3, WorkerSteps
<1>2. ASSUME NEW f \in Files, pool'[f] = "old"
      PROVE  pool[f] = "old" \/ (GraceEnds /\ f \notin InFlight)
  <2>1. CASE UNCHANGED pool
    BY Zenon, <1>2, <2>1
  <2>2. ASSUME NEW k \in Workers, Rename(k) \/ UpsertEntry(k) PROVE pool[f] = "old"
    BY Zenon, <1>2, <2>2 DEF Rename, UpsertEntry, TypeOK, store
  <2>3. CASE PruneRemove \/ DeleteOrphans \/ Restart \/ \E g \in Files : UpstreamMoves(g) \/ Vanish(g)
    BY Zenon, <1>2, <2>3 DEF PruneRemove, DeleteOrphans, Restart, UpstreamMoves, Vanish, TypeOK, store
  <2>4. CASE GraceEnds
    BY Zenon, <1>2, <2>4 DEF GraceEnds, Grow
  <2> QED
    BY Zenon, <2>1, <2>2, <2>3, <2>4, FileSteps
<1>3. ASSUME worker'[j].pc = "rename", pool'[worker'[j].f] = "old" PROVE FALSE
  <2>1. worker'[j].f \in Files
    BY Zenon, <1>1, <1>3
  <2>2. CASE UNCHANGED worker
    <3>1. worker[j].f \in InFlight
      BY Zenon, <1>3, <2>2 DEF InFlight
    <3> QED
      BY Zenon, <1>2, <1>3, <2>1, <2>2, <3>1 DEF PlaceInv
  <2>3. ASSUME NEW k \in Workers, Ingest(k) PROVE FALSE
    <3>1. ~GraceEnds \/ UNCHANGED worker
      BY Zenon DEF GraceEnds
    <3>2. pool[worker'[j].f] = "old"
      BY Zenon, <1>2, <1>3, <2>1, <2>2, <3>1
    <3>3. CASE j = k
      BY Zenon, <1>3, <2>3, <3>2, <3>3, WorkerMoves DEF Has, Add, Rename
    <3>4. CASE j # k
      BY Zenon, <1>3, <2>3, <3>2, <3>4, WorkerMoves DEF PlaceInv
    <3> QED
      BY Zenon, <3>3, <3>4
  <2>4. CASE Restart
    BY Zenon, <1>3, <2>4 DEF Restart, Idle
  <2> QED
    BY Zenon, <2>2, <2>3, <2>4, WorkerSteps
<1> QED
  BY Zenon, <1>1, <1>3

-----------------------------------------------------------------------------
(* Files that leave the pool *)

\* deleteOrphans deletes f, which nobody has indexed or is about to index again.
Deletes(f) ==
    /\ clean.pc = "delete" /\ f \in clean.todo
    /\ pool[f] # "none" /\ pool' = [pool EXCEPT ![f] = "none"]
    /\ clean' = [clean EXCEPT !.pc = "forget", !.todo = @ \ {f}, !.file = f, !.next = "delete"]
    /\ ~Readopted(f)
    /\ UNCHANGED <<entry, exists, offered, worker, published>>

\* Nothing else removes a file, as long as nothing spoils the execution.
LEMMA OnlyDeletes ==
    ASSUME TypeOK, [Next]_vars, Unspoiled', NEW f \in Files, pool[f] # "none", pool'[f] = "none"
    PROVE  Deletes(f)
<1>1. CASE DeleteOrphans
  <2>1. PICK g \in clean.todo :
           /\ pool[g] # "none"
           /\ pool' = [pool EXCEPT ![g] = "none"]
           /\ clean' = [clean EXCEPT !.pc = "forget", !.todo = @ \ {g}, !.file = g, !.next = "delete"]
           /\ seen' = IF Readopted(g) THEN seen \union {"readopted"} ELSE seen
    BY Zenon, <1>1 DEF DeleteOrphans
  <2>2. g = f
    BY Zenon, <2>1 DEF TypeOK
  <2>3. ~Readopted(g)
    BY Zenon, <2>1 DEF Unspoiled
  <2> QED
    BY Zenon, <1>1, <2>1, <2>2, <2>3 DEF DeleteOrphans, Deletes, At
<1>2. ASSUME NEW k \in Workers, Rename(k) \/ UpsertEntry(k) PROVE FALSE
  BY Zenon, <1>2 DEF Rename, UpsertEntry, TypeOK, store
<1>3. ASSUME NEW g \in Files, UpstreamMoves(g) PROVE FALSE
  BY Zenon, <1>3 DEF UpstreamMoves, store
<1>4. ASSUME NEW g \in Files, Vanish(g) PROVE FALSE
  BY Zenon, <1>4 DEF Vanish, Fault, Unspoiled
<1>5. CASE PruneRemove \/ Restart
  BY Zenon, <1>5 DEF PruneRemove, Restart, store
<1>6. CASE GraceEnds
  BY Zenon, <1>6 DEF GraceEnds, Grow
<1> QED
  BY Zenon, <1>1, <1>2, <1>3, <1>4, <1>5, <1>6, FileSteps

\* What a cleanup deletes with its entry left behind has a higher version that stays, in
\* the index and in the pool, and a newer one is offered.
LEMMA Succession ==
    ASSUME TypeOK, KnownInv, GhostInv, RefInv, NEW f \in Files, Deletes(f), entry[f] # "none"
    PROVE  Superseded(f) /\ Above(f, PruneSet)'
<1>0. Version \in [Files -> Nat] /\ offered \subseteq Files
  BY Zenon, PoolAssumption DEF TypeOK
<1>1. pool[f] = "old" /\ (entry[f] = "old" => Outdated(f))
  BY Zenon DEF Deletes, RefInv, Phase
<1>2. entry[f] = "old"
  BY Zenon, <1>1 DEF Deletes, Readopted, TypeOK, Age
<1>3. PICK g \in Files : entry[g] # "none" /\ Upstream[g] = Upstream[f] /\ Version[f] < Version[g]
  BY Zenon, <1>1, <1>2 DEF Outdated
<1>4. Superseded(f)
  <2>1. PICK h \in offered : Upstream[h] = Upstream[g] /\ Version[g] <= Version[h]
    BY Zenon, <1>3 DEF KnownInv, Known
  <2> QED
    BY <1>0, <1>3, <2>1 DEF Superseded
<1>5. PICK h \in Files : entry[h] # "none" /\ pool[h] # "none" /\ Version[f] < Version[h]
  <2>1. CASE pool[g] # "none"
    BY Zenon, <1>3, <2>1
  <2>2. CASE pool[g] = "none"
    <3>1. PICK h \in Files : entry[h] # "none" /\ pool[h] # "none" /\ Version[g] < Version[h]
      BY Zenon, <1>3, <2>2 DEF GhostInv, Ghost, Above
    <3> QED
      BY <1>0, <1>3, <3>1
  <2> QED
    BY Zenon, <2>1, <2>2
<1>6. h # f /\ pool'[h] = pool[h] /\ entry'[h] = entry[h]
  <2>1. Version[f] \in Nat /\ Version[h] \in Nat
    BY Zenon, <1>0
  <2>2. h # f
    BY <1>5, <2>1
  <2> QED
    BY Zenon, <2>2 DEF Deletes, TypeOK
<1>7. clean'.pc = "forget" /\ clean'.next = "delete"
  BY Zenon DEF Deletes, TypeOK, CleanStates
<1>8. PruneSet' = {}
  BY Zenon, <1>7 DEF PruneSet, Phase
<1> QED
  BY Zenon, <1>4, <1>5, <1>6, <1>8 DEF Above

\* What a worker is about to index stays in the pool, and what it finds in the
\* ExistsCache is there.
LEMMA IngestStep ==
    ASSUME TypeOK, PlaceInv, IngestInv, ExistsInv, RefInv, [Next]_vars, Unspoiled'
    PROVE  IngestInv'
<1> SUFFICES ASSUME NEW j \in Workers, worker'[j].pc \in {"add", "upsert"}, pool'[worker'[j].f] = "none"
             PROVE  FALSE
  BY Zenon DEF IngestInv
<1>1. CASE UNCHANGED worker
  <2> DEFINE f == worker[j].f
  <2>1. f \in Files /\ pool[f] # "none" /\ f \in Ingesting
    BY Zenon, <1>1 DEF PlaceInv, IngestInv, Ingesting
  <2>2. Deletes(f)
    BY Zenon, <1>1, <2>1, OnlyDeletes
  <2> QED
    BY Zenon, <2>1, <2>2 DEF Deletes, RefInv, Phase, Readopted
<1>2. ASSUME NEW k \in Workers, Ingest(k) PROVE FALSE
  <2> DEFINE f == worker'[j].f
  <2>1. f = worker[j].f /\ worker[j].pc # "idle" /\ f \in Files
    BY Zenon, <1>2, WorkerMoves DEF PlaceInv
  <2>2. pool[f] = "none"
    BY Zenon, <1>1, <2>1, OnlyDeletes DEF Deletes
  <2>3. j = k
    BY Zenon, <1>2, <2>1, <2>2, WorkerMoves DEF IngestInv
  <2>4. ~Add(k)
    BY Zenon, <2>1, <2>2, <2>3 DEF Add, IngestInv
  <2>5. ~(Rename(k) /\ pool' = [pool EXCEPT ![worker[k].f] = "young"])
    BY Zenon, <2>1, <2>3 DEF TypeOK
  <2>6. Has(k) /\ f \in exists
    BY Zenon, <1>2, <2>1, <2>2, <2>3, <2>4, <2>5, WorkerMoves
  <2>7. Forgetting(f)
    BY Zenon, <2>1, <2>2, <2>3, <2>6 DEF ExistsInv, Asked, Has
  <2> QED
    BY Zenon, <2>1, <2>3, <2>6, <2>7 DEF Has, Forgetting, Unspoiled
<1>3. CASE Restart
  BY Zenon, <1>3 DEF Restart, Idle
<1> QED
  BY Zenon, <1>1, <1>2, <1>3, WorkerSteps

\* A path leaves the ExistsCache with its file, except between the deletion and the
\* Remove, and except for a path that nobody asks for any more.
LEMMA ExistsStep ==
    ASSUME TypeOK, OfferedInv, LockInv, PlaceInv, IngestInv, ExistsInv, GhostInv, [Next]_vars, Unspoiled'
    PROVE  ExistsInv'
<1>0. \A f \in Files : Superseded(f) => Superseded(f)'
  BY Zenon, OffersGrow
<1>1. exists' \subseteq exists \/ (\E k \in Workers : Add(k)) \/ Restart
  <2>1. ASSUME NEW k \in Workers, Ingest(k) PROVE exists' \subseteq exists \/ Add(k)
    BY Zenon, <2>1 DEF Ingest, ServePool, RunUpdate, PullThrough, PullThroughStream, Resolve, Has,
                CacheStreaming, FetchDebStream, PutFile, Rename, UpsertEntry
  <2>2. CASE CleanupStep
    BY Zenon, <2>2 DEF CleanupStep, PruneSnapshots, PruneList, PruneCheck, PruneRemove, Forget,
                ScanPackagesRefs, IndexRefs, GcPool, DeleteOrphans, CleanupTempFiles
  <2> QED
    BY Zenon, <2>1, <2>2 DEF Next, Snapshot, SnapshotStart, PublishDated, PublishCurrent, CleanupStart,
                      UpstreamMoves, Vanish, GraceEnds, vars
<1>2. CASE Restart
  <2> SUFFICES ASSUME NEW f \in exists', pool'[f] = "none"
               PROVE  Superseded(f)' /\ ~Asked(f)'
    BY Zenon DEF ExistsInv
  <2>1. f \in Files /\ entry'[f] # "none" /\ pool[f] = "none"
    BY Zenon, <1>2 DEF Restart
  <2>2. Ghost(f)
    BY Zenon, <1>2, <2>1, RestartEntries DEF Ghost
  <2>3. \A k \in Workers : worker'[k].pc = "idle"
    BY Zenon, <1>2 DEF Restart, Idle
  <2> QED
    BY Zenon, <1>0, <2>1, <2>2, <2>3 DEF GhostInv, Asked
<1>3. ASSUME NEW k \in Workers, Add(k), NEW f \in exists', f \notin exists PROVE pool'[f] # "none"
  BY Zenon, <1>3 DEF Add, IngestInv, store
<1>4. ASSUME ~Restart, NEW f \in exists, f \in exists', pool'[f] = "none", ~Forgetting(f)'
      PROVE  Superseded(f)' /\ ~Asked(f)'
  <2>0. f \in Files
    BY Zenon, <1>4 DEF TypeOK
  <2>1. pool[f] = "none"
    <3>1. SUFFICES ASSUME pool[f] # "none" PROVE FALSE
      BY Zenon
    <3>2. Deletes(f)
      BY Zenon, <1>4, <2>0, <3>1, OnlyDeletes
    <3>3. clean'.pc = "forget" /\ clean'.file = f
      BY Zenon, <3>2 DEF Deletes, TypeOK, CleanStates
    <3> QED
      BY Zenon, <1>4, <3>3 DEF Forgetting
  <2>2. ~Forgetting(f)
    <3>1. SUFFICES ASSUME Forgetting(f) PROVE FALSE
      BY Zenon
    <3>2. clean' # clean
      BY Zenon, <1>4, <3>1 DEF Forgetting
    <3>3. Forget
      <4>1. CASE CleanupStep
        BY Zenon, <3>1, <4>1 DEF CleanupStep, PruneSnapshots, PruneList, PruneCheck, PruneRemove, At, Forgetting,
                          ScanPackagesRefs, IndexRefs, GcPool, DeleteOrphans, CleanupTempFiles
      <4>2. ASSUME NEW k \in Workers, Ingest(k) PROVE FALSE
        BY Zenon, <3>2, <4>2 DEF Ingest, ServePool, RunUpdate, PullThrough, PullThroughStream, Resolve, Has,
                          CacheStreaming, FetchDebStream, PutFile, Rename, UpsertEntry, Add
      <4>3. CASE CleanupStart
        BY Zenon, <3>1, <4>3 DEF CleanupStart, Forgetting, LockInv
      <4> QED
        BY Zenon, <1>4, <3>2, <4>1, <4>2, <4>3 DEF Next, Snapshot, SnapshotStart, PublishDated, PublishCurrent,
                      UpstreamMoves, Vanish, GraceEnds, vars
    <3> QED
      BY Zenon, <1>4, <3>1, <3>3 DEF Forget, Forgetting
  <2>3. Superseded(f) /\ ~Asked(f)
    BY Zenon, <2>1, <2>2 DEF ExistsInv
  <2>4. ASSUME NEW j \in Workers, worker'[j].pc = "has", worker'[j].f = f PROVE FALSE
    <3>1. CASE UNCHANGED worker
      BY Zenon, <2>3, <2>4, <3>1 DEF Asked
    <3>2. ASSUME NEW k \in Workers, Ingest(k) PROVE FALSE
      <4>1. j = k
        BY <2>3, <2>4, <3>2, WorkerMoves DEF Asked
      <4>2. f \in offered
        BY Zenon, <2>4, <3>2, <4>1, WorkerMoves
      <4> QED
        BY Zenon, <2>3, <4>2, OfferedKnown
    <3> QED
      BY Zenon, <1>4, <3>1, <3>2, WorkerSteps
  <2> QED
    BY Zenon, <1>0, <2>0, <2>3, <2>4 DEF Asked
<1> QED
  BY Zenon, <1>1, <1>2, <1>3, <1>4 DEF ExistsInv

\* Only entries without a file are added to what pruneMissingEntries may remove.
LEMMA PruneSetStep ==
    ASSUME TypeOK, [Next]_vars, NEW g \in PruneSet'
    PROVE  g \in PruneSet \/ pool[g] = "none"
<1>0. clean \in CleanStates
  BY Zenon DEF TypeOK
<1>1. CASE UNCHANGED clean
  BY Zenon, <1>1 DEF PruneSet, Phase
<1>2. CASE clean' = NoClean \/ \E pc \in {"trees", "entries", "refs", "index", "delete", "temps"} : clean'.pc = pc /\ clean'.found = {}
  <2>1. clean'.pc \notin {"check", "remove", "forget"} /\ clean'.found = {}
    BY <1>2 DEF NoClean
  <2>2. PruneSet' = {}
    BY Zenon, <2>1 DEF PruneSet, Phase
  <2> QED
    BY Zenon, <2>2
<1>3. CASE PruneList
  BY Zenon, <1>0, <1>3 DEF PruneList, At, CleanStates, PruneSet, Phase
<1>4. CASE PruneCheck
  <2>1. clean.pc = "check"
    BY Zenon, <1>4 DEF PruneCheck, At
  <2>2. CASE clean' = NoClean \/ clean' = [NoClean EXCEPT !.pc = "refs"]
    BY Zenon, <1>2, <2>2 DEF NoClean
  <2>3. CASE clean' = [NoClean EXCEPT !.pc = "remove", !.todo = clean.found]
    BY Zenon, <2>1, <2>3 DEF NoClean, PruneSet, Phase
  <2>4. ASSUME NEW f \in clean.todo,
               clean' = [clean EXCEPT !.todo = @ \ {f},
                                      !.found = IF pool[f] = "none" THEN @ \union {f} ELSE @]
        PROVE  g \in PruneSet \/ pool[g] = "none"
    BY Zenon, <1>0, <2>1, <2>4 DEF CleanStates, PruneSet, Phase
  <2> QED
    BY Zenon, <1>4, <2>2, <2>3, <2>4 DEF PruneCheck, Goto, Abort, EndCleanup
<1>5. CASE PruneRemove
  <2>1. clean.pc = "remove"
    BY Zenon, <1>5 DEF PruneRemove, At
  <2>2. CASE clean' = [NoClean EXCEPT !.pc = "refs"]
    BY Zenon, <1>2, <2>2 DEF NoClean
  <2>3. \/ clean'.todo \subseteq clean.todo /\ PruneSet' \subseteq clean'.todo
        \/ clean' = [NoClean EXCEPT !.pc = "refs"]
    <3>1. ASSUME NEW f \in clean.todo,
                 \/ clean' = [clean EXCEPT !.todo = @ \ {f}]
                 \/ clean' = [clean EXCEPT !.pc = "forget", !.todo = @ \ {f}, !.file = f, !.next = "remove"]
          PROVE  clean'.todo \subseteq clean.todo /\ PruneSet' \subseteq clean'.todo
      <4>1. clean'.todo = clean.todo \ {f} /\ clean'.pc \in {clean.pc, "forget"}
        BY Zenon, <1>0, <3>1 DEF CleanStates
      <4> QED
        BY Zenon, <2>1, <4>1 DEF PruneSet, Phase
    <3> QED
      BY Zenon, <1>5, <3>1 DEF PruneRemove, Goto
  <2> QED
    BY Zenon, <2>1, <2>2, <2>3 DEF PruneSet, Phase
<1>6. CASE Forget
  BY Zenon, <1>0, <1>6 DEF Forget, At, CleanStates, PruneSet, Phase
<1>7. CASE IndexRefs
  BY Zenon, <1>0, <1>7 DEF IndexRefs, At, CleanStates, PruneSet, Phase
<1>8. CASE DeleteOrphans
  <2>1. clean'.pc \in {"delete", "temps"} \/ (clean'.pc = "forget" /\ clean'.next = "delete")
    BY Zenon, <1>0, <1>8 DEF DeleteOrphans, At, Goto, NoClean, CleanStates
  <2> QED
    BY Zenon, <2>1 DEF PruneSet, Phase
<1>9. CASE CleanupStart \/ PruneSnapshots \/ ScanPackagesRefs \/ GcPool \/ CleanupTempFiles \/ Restart
  BY Zenon, <1>2, <1>9 DEF CleanupStart, PruneSnapshots, ScanPackagesRefs, GcPool, CleanupTempFiles, Restart,
                    Goto, Abort, EndCleanup, NoClean
<1>10. ASSUME NEW k \in Workers, Ingest(k) PROVE UNCHANGED clean
  BY Zenon, <1>10 DEF Ingest, ServePool, RunUpdate, PullThrough, PullThroughStream, Resolve, Has,
               CacheStreaming, FetchDebStream, PutFile, Rename, UpsertEntry, Add
<1> QED
  BY Zenon, <1>1, <1>3, <1>4, <1>5, <1>6, <1>7, <1>8, <1>9, <1>10 DEF Next, CleanupStep, Snapshot, SnapshotStart,
     PublishDated, PublishCurrent, UpstreamMoves, Vanish, GraceEnds, vars

\* An entry is lost only to pruneMissingEntries or to a restart, and made only by a
\* worker or a restart.
LEMMA EntrySteps ==
    ASSUME TypeOK, [Next]_vars, ~Restart, NEW f \in Files
    PROVE  /\ entry[f] # "none" /\ entry'[f] = "none" => f \in PruneSet
           /\ entry[f] = "none" /\ entry'[f] # "none" =>
                 \E k \in Workers : UpsertEntry(k) /\ worker[k].f = f
           /\ entry'[f] = "old" => entry[f] = "old" \/ GraceEnds
<1>1. CASE UNCHANGED entry
  BY Zenon, <1>1
<1>2. ASSUME NEW k \in Workers, Rename(k) \/ UpsertEntry(k)
      PROVE  \/ UNCHANGED entry
             \/ UpsertEntry(k) /\ entry' = [entry EXCEPT ![worker[k].f] = "young"]
  BY Zenon, <1>2 DEF Rename, UpsertEntry
<1>3. ASSUME NEW g \in Files, UpstreamMoves(g) \/ Vanish(g) PROVE UNCHANGED entry
  BY Zenon, <1>3 DEF UpstreamMoves, Vanish
<1>4. CASE PruneRemove
  <2>1. UNCHANGED entry \/ \E g \in PruneSet : entry' = [entry EXCEPT ![g] = "none"]
    BY Zenon, <1>4 DEF PruneRemove, At, PruneSet, Phase
  <2> QED
    BY Zenon, <2>1 DEF TypeOK
<1>5. CASE DeleteOrphans
  BY Zenon, <1>5 DEF DeleteOrphans
<1>6. CASE GraceEnds
  BY Zenon, <1>6 DEF GraceEnds, Grow
<1> QED
  BY Zenon, <1>1, <1>2, <1>3, <1>4, <1>5, <1>6, FileSteps DEF TypeOK

\* Every step keeps the ghosts superseded and below an entry that stays: a deletion makes a
\* ghost only of an outdated file, and a prune removes ghosts only.
LEMMA GhostStep ==
    ASSUME TypeOK, OfferedInv, KnownInv, IngestInv, GhostInv, RefInv, [Next]_vars, Unspoiled'
    PROVE  GhostInv'
<1> SUFFICES ASSUME NEW f \in Files, Ghost(f)' PROVE Superseded(f)' /\ Above(f, PruneSet)'
  BY Zenon DEF GhostInv
<1>0. /\ \A g \in Files : Superseded(g) => Superseded(g)'
      /\ Version \in [Files -> Nat]
  BY Zenon, OffersGrow, PoolAssumption
<1>1. CASE Restart
  <2>1. pool' = pool /\ PruneSet' = {} /\ "lost" \notin seen'
    BY Zenon, <1>1 DEF Restart, PruneSet, Phase, NoClean, Unspoiled
  <2>2. Ghost(f)
    BY Zenon, <1>1, <2>1, RestartEntries DEF Ghost
  <2>3. PICK g \in Files : entry[g] # "none" /\ pool[g] # "none" /\ Version[f] < Version[g]
    BY Zenon, <2>2 DEF GhostInv, Above
  <2>4. entry'[g] # "none"
    BY Zenon, <1>1, <2>1, <2>3, RestartEntries DEF Ghost
  <2> QED
    BY Zenon, <1>0, <2>1, <2>2, <2>3, <2>4 DEF GhostInv, Above
<1>2. CASE ~Restart /\ Ghost(f)
  <2>1. PICK g \in Files \ PruneSet : entry[g] # "none" /\ pool[g] # "none" /\ Version[f] < Version[g]
    BY Zenon, <1>2 DEF GhostInv, Above
  <2>2. entry'[g] # "none" /\ g \notin PruneSet'
    BY Zenon, <1>2, <2>1, EntrySteps, PruneSetStep
  <2>3. CASE pool'[g] # "none"
    BY Zenon, <1>0, <1>2, <2>1, <2>2, <2>3 DEF GhostInv, Above
  <2>4. CASE pool'[g] = "none"
    <3>1. Deletes(g)
      BY Zenon, <2>1, <2>4, OnlyDeletes
    <3>2. PICK h \in Files \ PruneSet' : entry'[h] # "none" /\ pool'[h] # "none" /\ Version[g] < Version[h]
      BY Zenon, <2>1, <3>1, Succession DEF Above
    <3>3. Version[f] < Version[h]
      BY <1>0, <2>1, <3>2
    <3> QED
      BY Zenon, <1>0, <1>2, <3>2, <3>3 DEF GhostInv, Above
  <2> QED
    BY Zenon, <2>3, <2>4
<1>3. CASE ~Restart /\ ~Ghost(f)
  <2>1. CASE pool[f] # "none"
    <3>1. Deletes(f)
      BY Zenon, <2>1, OnlyDeletes DEF Ghost
    <3>2. entry[f] # "none"
      BY Zenon, <3>1 DEF Deletes, Ghost
    <3> QED
      BY Zenon, <1>0, <3>1, <3>2, Succession
  <2>2. CASE pool[f] = "none"
    <3>1. PICK k \in Workers : UpsertEntry(k) /\ worker[k].f = f
      BY Zenon, <1>3, <2>2, EntrySteps DEF Ghost
    <3> QED
      BY Zenon, <2>2, <3>1 DEF UpsertEntry, IngestInv
  <2> QED
    BY Zenon, <2>1, <2>2
<1> QED
  BY Zenon, <1>1, <1>2, <1>3

\* While a cleanup is at work, nothing is published and nothing ages.
LEMMA CleanupAlone ==
    ASSUME LockInv, clean.pc # "idle"
    PROVE  ~Snapshot /\ ~CleanupStart /\ ~GraceEnds
  BY Zenon DEF LockInv, Snapshot, SnapshotStart, PublishDated, PublishCurrent, CleanupStart, GraceEnds

\* Who changes what is published, and who changes the cleanup.
LEMMA PublishedSteps ==
    ASSUME TypeOK, [Next]_vars
    PROVE  Published' \subseteq Published \/ (Snapshot /\ Published' \subseteq Published \union GroupStanzas)
<1>1. CASE UNCHANGED published
  BY Zenon, <1>1 DEF Published, published
<1>2. ASSUME NEW k \in Workers, Ingest(k) PROVE UNCHANGED published
  BY Zenon, <1>2 DEF Ingest, ServePool, RunUpdate, PullThrough, PullThroughStream, Resolve, Has,
               CacheStreaming, FetchDebStream, PutFile, Rename, UpsertEntry, Add
<1>3. CASE SnapshotStart \/ CleanupStart
  BY Zenon, <1>1, <1>3 DEF SnapshotStart, CleanupStart
<1>4. CASE PublishDated \/ PublishCurrent
  BY Zenon, <1>4, TreesGrow DEF Snapshot
<1>5. CASE CleanupStep
  BY Zenon, <1>1, <1>5, TreesShrink DEF CleanupStep, PruneList, PruneCheck, PruneRemove, Forget,
     ScanPackagesRefs, IndexRefs, GcPool, DeleteOrphans, CleanupTempFiles
<1>6. ASSUME NEW f \in Files, UpstreamMoves(f) \/ Vanish(f) PROVE UNCHANGED published
  BY Zenon, <1>6 DEF UpstreamMoves, Vanish
<1>7. CASE GraceEnds \/ Restart \/ UNCHANGED vars
  BY Zenon, <1>1, <1>7 DEF GraceEnds, Restart, vars
<1> QED
  BY Zenon, <1>1, <1>2, <1>3, <1>4, <1>5, <1>6, <1>7 DEF Next, Snapshot

\* Only the cleanup itself and a restart change where the cleanup is.
LEMMA CleanSteps ==
    ASSUME [Next]_vars
    PROVE  UNCHANGED clean \/ CleanupStart \/ CleanupStep \/ Restart
<1>1. ASSUME NEW k \in Workers, Ingest(k) PROVE UNCHANGED clean
  BY Zenon, <1>1 DEF Ingest, ServePool, RunUpdate, PullThrough, PullThroughStream, Resolve, Has,
               CacheStreaming, FetchDebStream, PutFile, Rename, UpsertEntry, Add
<1> QED
  BY Zenon, <1>1 DEF Next, Snapshot, SnapshotStart, PublishDated, PublishCurrent, UpstreamMoves, Vanish,
              GraceEnds, vars

\* Between the collection of the references and the last deletion nothing that RefInv
\* says of a file that is not deleted changes.
LEMMA RefKept ==
    ASSUME TypeOK, LockInv, PlaceInv, [Next]_vars, Unspoiled', ~Restart, NEW f \in Files,
           clean.pc # "idle", ~PruneRemove
    PROVE  /\ (entry[f] = "old" => Outdated(f)) => (entry'[f] = "old" => Outdated(f)')
           /\ pool[f] = "old" => pool'[f] = "old" \/ Deletes(f)
<1>1. \A g \in Files : entry[g] # "none" => entry'[g] # "none"
  <2>1. CASE UNCHANGED entry
    BY Zenon, <2>1
  <2>2. ASSUME NEW k \in Workers, Rename(k) \/ UpsertEntry(k), NEW g \in Files, entry[g] # "none"
        PROVE  entry'[g] # "none"
    BY Zenon, <2>2 DEF Rename, UpsertEntry, TypeOK
  <2>3. ASSUME NEW g \in Files, UpstreamMoves(g) \/ Vanish(g) PROVE UNCHANGED entry
    BY Zenon, <2>3 DEF UpstreamMoves, Vanish
  <2>4. CASE DeleteOrphans
    BY Zenon, <2>4 DEF DeleteOrphans
  <2> QED
    BY Zenon, <2>1, <2>2, <2>3, <2>4, FileSteps, CleanupAlone
<1>2. entry'[f] = "old" => entry[f] = "old"
  BY Zenon, EntrySteps, CleanupAlone
<1>3. Outdated(f) => Outdated(f)'
  BY Zenon, <1>1 DEF Outdated
<1>4. ASSUME pool[f] = "old" PROVE pool'[f] = "old" \/ Deletes(f)
  <2>1. CASE UNCHANGED pool
    BY Zenon, <1>4, <2>1
  <2>2. ASSUME NEW k \in Workers, Rename(k) \/ UpsertEntry(k) PROVE pool'[f] = "old"
    BY Zenon, <1>4, <2>2 DEF Rename, UpsertEntry, TypeOK, PlaceInv, store
  <2>3. CASE pool'[f] = "none"
    BY Zenon, <1>4, <2>3, OnlyDeletes
  <2>4. CASE DeleteOrphans /\ pool'[f] # "none"
    BY Zenon, <1>4, <2>4 DEF DeleteOrphans, TypeOK
  <2>5. ASSUME NEW g \in Files, UpstreamMoves(g) \/ Vanish(g) PROVE pool'[f] \in {"old", "none"}
    BY Zenon, <1>4, <2>5 DEF UpstreamMoves, Vanish, TypeOK, store
  <2> QED
    BY Zenon, <2>1, <2>2, <2>3, <2>4, <2>5, FileSteps, CleanupAlone
<1> QED
  BY Zenon, <1>2, <1>3, <1>4

\* What the cleanup has decided stays right until its last deletion, whatever the workers
\* index meanwhile.
LEMMA RefStep ==
    ASSUME TypeOK, LockInv, PlaceInv, RefInv, [Next]_vars, Unspoiled'
    PROVE  RefInv'
<1>0. clean \in CleanStates
  BY Zenon DEF TypeOK
<1>1. CASE clean'.pc \notin {"index", "walk", "delete"} /\ ~(clean'.pc = "forget" /\ clean'.next = "delete")
  BY Zenon, <1>1 DEF RefInv, Phase
<1>2. CASE Restart \/ CleanupStart \/ PruneSnapshots \/ CleanupTempFiles
  BY <1>1, <1>2 DEF Restart, CleanupStart, PruneSnapshots, CleanupTempFiles, Goto, EndCleanup, NoClean
<1>3. CASE PruneList \/ PruneCheck \/ PruneRemove
  <2>1. CASE PruneList
    BY Zenon, <1>0, <1>1, <2>1 DEF PruneList, CleanStates
  <2>2. CASE PruneCheck
    <3>1. clean'.pc \in {"refs", "remove", "check", "idle"}
      <4>1. clean.pc = "check"
        BY Zenon, <2>2 DEF PruneCheck, At
      <4>2. \/ clean' = [NoClean EXCEPT !.pc = "refs"] \/ clean' = NoClean
            \/ clean' = [NoClean EXCEPT !.pc = "remove", !.todo = clean.found]
            \/ \E f \in clean.todo :
                  clean' = [clean EXCEPT !.todo = @ \ {f},
                                         !.found = IF pool[f] = "none" THEN @ \union {f} ELSE @]
        BY Zenon, <2>2 DEF PruneCheck, Goto, Abort, EndCleanup
      <4>3. CASE \E f \in clean.todo :
                    clean' = [clean EXCEPT !.todo = @ \ {f},
                                           !.found = IF pool[f] = "none" THEN @ \union {f} ELSE @]
        BY Zenon, <1>0, <4>1, <4>3 DEF CleanStates
      <4>4. CASE clean' = NoClean
        BY Zenon, <4>4 DEF NoClean
      <4>5. CASE clean' = [NoClean EXCEPT !.pc = "refs"]
        BY Zenon, <4>5 DEF NoClean
      <4>6. CASE clean' = [NoClean EXCEPT !.pc = "remove", !.todo = clean.found]
        BY Zenon, <4>6 DEF NoClean
      <4> QED
        BY Zenon, <4>2, <4>3, <4>4, <4>5, <4>6
    <3> QED
      BY Zenon, <1>1, <3>1
  <2>3. CASE PruneRemove
    <3>1. clean'.pc \in {"refs", "remove"} \/ (clean'.pc = "forget" /\ clean'.next = "remove")
      BY Zenon, <1>0, <2>3 DEF PruneRemove, At, Goto, NoClean, CleanStates
    <3> QED
      BY Zenon, <1>1, <3>1
  <2> QED
    BY Zenon, <1>3, <2>1, <2>2, <2>3
<1>4. CASE ScanPackagesRefs
  <2>1. CASE clean' = NoClean
    BY Zenon, <1>1, <2>1 DEF NoClean
  <2>2. CASE clean' = [NoClean EXCEPT !.pc = "index", !.refs =
                         ({trees[i] : i \in DOMAIN trees} \union {current}) \intersect Files]
    BY Zenon, <1>4, <2>2 DEF ScanPackagesRefs, NoClean, RefInv, Phase, Published, published
  <2> QED
    BY Zenon, <1>4, <2>1, <2>2 DEF ScanPackagesRefs, Abort, EndCleanup
<1>5. CASE IndexRefs
  <2>1. /\ clean.pc = "index" /\ clean'.pc = "walk" /\ clean'.refs = clean.refs \union BuildPoolRefSet
        /\ UNCHANGED <<entry, published>>
    BY Zenon, <1>0, <1>5 DEF IndexRefs, At, CleanStates
  <2>2. Published' \subseteq clean'.refs
    <3>1. Published' = Published
      BY Zenon, <2>1 DEF Published, published
    <3> QED
      BY Zenon, <2>1, <3>1 DEF RefInv
  <2>3. ASSUME NEW f \in Files \ clean'.refs, entry'[f] = "old" PROVE Outdated(f)'
    <3>1. f \in Indexed /\ f \notin HighestVersionByKey(Indexed, Upstream)
      BY Zenon, <2>1, <2>3 DEF Indexed, BuildPoolRefSet
    <3>2. PICK g \in Indexed : Upstream[g] = Upstream[f] /\ ~(Version[g] <= Version[f])
      BY Zenon, <3>1 DEF HighestVersionByKey
    <3>3. g \in Files /\ entry[g] # "none" /\ Version[f] < Version[g]
      BY <3>2, PoolAssumption DEF Indexed
    <3> QED
      BY Zenon, <2>1, <3>2, <3>3 DEF Outdated
  <2> QED
    BY Zenon, <2>1, <2>2, <2>3 DEF RefInv, Phase
<1>6. CASE GcPool
  <2>1. CASE clean' = NoClean \/ clean' = [NoClean EXCEPT !.pc = "temps"]
    BY <1>1, <2>1 DEF NoClean
  <2>2. CASE clean' = [NoClean EXCEPT !.pc = "delete", !.todo = Orphans]
    <3>1. clean.pc = "walk" /\ UNCHANGED <<pool, entry, published>>
      BY Zenon, <1>6 DEF GcPool, At, store
    <3>2. clean'.pc = "delete" /\ clean'.todo = {f \in Stored \ clean.refs : pool[f] = "old"}
      BY Zenon, <2>2 DEF NoClean, Orphans
    <3>3. \A f \in clean'.todo : pool[f] = "old" /\ f \notin Published /\ (entry[f] = "old" => Outdated(f))
      BY Zenon, <3>1, <3>2 DEF RefInv, Stored
    <3> QED
      <4>1. Published' = Published /\ \A f : Outdated(f)' <=> Outdated(f)
        BY Zenon, <3>1 DEF Published, published, Outdated
      <4> QED
        BY Zenon, <3>1, <3>2, <3>3, <4>1 DEF RefInv, Phase
  <2> QED
    BY Zenon, <1>6, <2>1, <2>2 DEF GcPool, Goto, Abort, EndCleanup
<1>7. CASE (DeleteOrphans \/ Forget \/ UNCHANGED clean) /\ ~Restart /\ ~PruneRemove
  <2>1. CASE clean.pc = "idle"
    BY Zenon, <1>1, <1>7, <2>1 DEF DeleteOrphans, Forget, At
  <2>2. CASE clean.pc # "idle"
    <3>1. /\ Published' \subseteq Published
          /\ \A f \in Files : (entry[f] = "old" => Outdated(f)) => (entry'[f] = "old" => Outdated(f)')
          /\ \A f \in Files : pool[f] = "old" => pool'[f] = "old" \/ Deletes(f)
      <4>1. Published' \subseteq Published
        BY Zenon, <2>2, PublishedSteps, CleanupAlone
      <4> QED
        BY Zenon, <1>7, <2>2, <4>1, RefKept
    <3>2. CASE UNCHANGED clean /\ clean.pc \in {"index", "walk"}
      <4>1. ~Phase("delete")'
        BY Zenon, <3>2 DEF Phase
      <4> QED
        BY Zenon, <3>1, <3>2, <4>1 DEF RefInv
    <3>3. CASE Phase("delete") /\ clean'.todo \subseteq clean.todo /\ clean'.pc \notin {"index", "walk"}
      <4>1. ASSUME NEW f \in clean'.todo, Deletes(f) PROVE FALSE
        BY Zenon, <1>0, <4>1 DEF Deletes, CleanStates
      <4>2. clean.todo \subseteq Files
        BY Zenon, <1>0 DEF CleanStates
      <4> QED
        BY Zenon, <3>1, <3>3, <4>1, <4>2 DEF RefInv
    <3>4. CASE UNCHANGED clean /\ Phase("delete")
      BY Zenon, <3>3, <3>4 DEF Phase
    <3>5. CASE UNCHANGED clean /\ ~Phase("delete") /\ clean.pc \notin {"index", "walk"}
      BY Zenon, <1>1, <3>5 DEF Phase
    <3>6. CASE DeleteOrphans
      <4>1. Phase("delete")
        BY Zenon, <3>6 DEF DeleteOrphans, At, Phase
      <4>2. clean'.todo \subseteq clean.todo /\ clean'.pc \notin {"index", "walk"}
        <5>1. CASE clean' = [NoClean EXCEPT !.pc = "temps"]
          BY Zenon, <5>1 DEF NoClean
        <5>2. CASE \E f \in clean.todo :
                      \/ clean' = [clean EXCEPT !.todo = @ \ {f}]
                      \/ clean' = [clean EXCEPT !.pc = "forget", !.todo = @ \ {f}, !.file = f, !.next = "delete"]
          <6>1. clean.pc = "delete"
            BY Zenon, <3>6 DEF DeleteOrphans, At
          <6>2. PICK f \in clean.todo :
                      \/ clean' = [clean EXCEPT !.todo = @ \ {f}]
                      \/ clean' = [clean EXCEPT !.pc = "forget", !.todo = @ \ {f}, !.file = f, !.next = "delete"]
            BY Zenon, <5>2
          <6>3. clean'.todo = clean.todo \ {f} /\ clean'.pc \in {clean.pc, "forget"}
            BY Zenon, <1>0, <6>2 DEF CleanStates
          <6> QED
            BY Zenon, <6>1, <6>3
        <5> QED
          BY Zenon, <3>6, <5>1, <5>2 DEF DeleteOrphans, Goto
      <4> QED
        BY Zenon, <3>3, <4>1, <4>2
    <3>7. CASE Forget
      <4>1. clean.pc = "forget" /\ clean'.pc = clean.next /\ clean'.todo = clean.todo
            /\ clean.next \in {"idle", "remove", "delete"}
        BY Zenon, <1>0, <3>7 DEF Forget, At, CleanStates
      <4>2. CASE clean.next = "delete"
        BY Zenon, <3>3, <4>1, <4>2 DEF Phase
      <4>3. CASE clean.next # "delete"
        BY Zenon, <1>1, <4>1, <4>3
      <4> QED
        BY Zenon, <4>2, <4>3
    <3> QED
      BY Zenon, <1>7, <3>2, <3>4, <3>5, <3>6, <3>7
  <2> QED
    BY Zenon, <2>1, <2>2
<1> QED
  BY Zenon, <1>2, <1>3, <1>4, <1>5, <1>6, <1>7, CleanSteps DEF CleanupStep

\* No step deletes a published file or publishes a file that is not there.
LEMMA ServedStep ==
    ASSUME TypeOK, GhostInv, RefInv, Served, [Next]_vars, Unspoiled'
    PROVE  Served'
<1> SUFFICES ASSUME NEW f \in Published', pool'[f] = "none" PROVE FALSE
  BY Zenon DEF Served
<1>0. f \in Files /\ Version \in [Files -> Nat]
  BY Zenon, PoolAssumption DEF Published
<1>1. CASE f \in Published
  <2>1. Deletes(f)
    BY Zenon, <1>0, <1>1, OnlyDeletes DEF Served
  <2> QED
    BY Zenon, <1>1, <2>1 DEF Deletes, RefInv, Phase
<1>2. CASE Snapshot /\ f \in GroupStanzas
  <2>1. f \in HighestVersionByKey(Indexed, [g \in Files |-> None])
    BY Zenon, <1>0, <1>2, PoolAssumption DEF GroupStanzas
  <2>2. entry[f] # "none" /\ \A g \in Indexed : Version[g] <= Version[f]
    BY Zenon, <1>0, <2>1 DEF HighestVersionByKey, Indexed
  <2>3. pool[f] = "none"
    BY Zenon, <1>2 DEF Snapshot, SnapshotStart, PublishDated, PublishCurrent, store
  <2>4. PICK g \in Files : entry[g] # "none" /\ Version[f] < Version[g]
    BY Zenon, <1>0, <2>2, <2>3 DEF GhostInv, Ghost, Above
  <2> QED
    BY <1>0, <2>2, <2>4 DEF Indexed
<1> QED
  BY Zenon, <1>1, <1>2, PublishedSteps

-----------------------------------------------------------------------------
(* The theorems *)

\* The invariant holds at the start.
LEMMA PoolInvInit == Init => PoolInv
<1> SUFFICES ASSUME Init PROVE PoolInv
  BY Zenon
<1>1. TypeOK
  <2>1. worker \in [Workers -> WorkerStates]
    BY Zenon DEF Init, Idle, WorkerStates, Contents
  <2>2. clean \in CleanStates
    BY Zenon, CleanTypes DEF Init
  <2>3. /\ pool \in [Files -> Age] /\ temp \in [Files -> Age] /\ entry \in [Files -> Age]
        /\ exists \subseteq Files /\ offered \subseteq Files
    BY Zenon DEF Init, Age
  <2>4. trees \in Seq(Contents) /\ current \in Contents
    BY DEF Init, Contents
  <2>5. op \in {"free", "snapshot", "cleanup"} /\ snap \in {"idle", "dated", "current"} /\ seen = {}
    BY Zenon DEF Init
  <2> QED
    BY Zenon, <2>1, <2>2, <2>3, <2>4, <2>5 DEF TypeOK
<1>2. OfferedInv
  <2>1. \A f \in Files : Version[f] \in Nat
    BY Zenon, PoolAssumption
  <2>2. offered = {f \in Files : \A g \in Files : Upstream[g] = Upstream[f] => Version[f] <= Version[g]}
    BY Zenon DEF Init
  <2>3. ASSUME NEW f \in offered, NEW g \in offered, Upstream[f] = Upstream[g]
        PROVE  Version[f] = Version[g]
    <3>1. f \in Files /\ g \in Files /\ Version[f] <= Version[g] /\ Version[g] <= Version[f]
      BY Zenon, <2>2, <2>3
    <3> QED
      BY <2>1, <3>1
  <2> QED
    BY Zenon, <2>3 DEF OfferedInv
<1>3. \A k \in Workers : worker[k].pc = "idle"
  BY Zenon DEF Init, Idle
<1>4. \A f \in Files : pool[f] = "none" /\ entry[f] = "none"
  BY Zenon DEF Init
<1>5. clean.pc = "idle" /\ snap = "idle" /\ exists = {}
  BY Zenon DEF Init, NoClean
<1>6. Published = {}
  BY PoolAssumption DEF Init, Published
<1> QED
  BY Zenon, <1>1, <1>2, <1>3, <1>4, <1>5, <1>6 DEF PoolInv, KnownInv, LockInv, PlaceInv, IngestInv, ExistsInv,
     GhostInv, Ghost, RefInv, Phase, Served

\* Every step keeps the invariant.
LEMMA PoolInvStep == PoolInv /\ [Next]_vars => PoolInv'
<1> SUFFICES ASSUME PoolInv, [Next]_vars PROVE PoolInv'
  BY Zenon
<1>1. TypeOK /\ OfferedInv /\ KnownInv /\ LockInv /\ PlaceInv
  BY Zenon DEF PoolInv
<1>2. TypeOK' /\ OfferedInv' /\ KnownInv' /\ LockInv' /\ PlaceInv'
  BY Zenon, <1>1, TypeStep, OffersGrow, KnownStep, LockInvStep, PlaceStep
<1>3. ASSUME Unspoiled' PROVE (IngestInv /\ ExistsInv /\ GhostInv /\ RefInv /\ Served)'
  <2>1. IngestInv /\ ExistsInv /\ GhostInv /\ RefInv /\ Served
    BY Zenon, <1>3, SeenGrows DEF PoolInv
  <2> QED
    BY Zenon, <1>1, <1>3, <2>1, IngestStep, ExistsStep, GhostStep, RefStep, ServedStep
<1> QED
  BY Zenon, <1>2, <1>3 DEF PoolInv

\* The variables of PoolLifecycle keep their types, for any number of files, upstreams,
\* workers, snapshots and faults.
THEOREM PoolTypeCorrect == Spec => []TypeOK
<1>1. PoolInv => TypeOK
  BY Zenon DEF PoolInv
<1> QED
  BY <1>1, PoolInvInit, PoolInvStep, PTL DEF Spec

\* What a snapshot or current/ names is in the pool (PublishedResolves), through any
\* interleaving of pull-through, updates, snapshots, cleanups, rebuilds and restarts, for
\* any number of files, upstreams, workers, snapshots and faults.
THEOREM PublishedIsStored == Spec => []PublishedResolves
<1>1. PoolInv => PublishedResolves
  BY Zenon DEF PoolInv, Unspoiled, Served, PublishedResolves
<1> QED
  BY <1>1, PoolInvInit, PoolInvStep, PTL DEF Spec

=============================================================================
