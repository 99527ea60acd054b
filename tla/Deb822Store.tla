---------------------------- MODULE Deb822Store ----------------------------
(***************************************************************************)
(* The metadata index of internal/metadata/deb822store: every process (a   *)
(* server, a cron job) holds the index in memory, marks changed files      *)
(* dirty, and persists them with Flush.  Refresh and the merge that starts *)
(* every flush bring in what other processes wrote.  Several goroutines of *)
(* one process (the periodic flusher, the periodic merge, an admin job)    *)
(* run Flush and Refresh at the same time; each of their lock sections and *)
(* each of their storage calls is one step here.                           *)
(*                                                                         *)
(* One file holds the entries of one bucket.  An entry is identified by a  *)
(* key (package, version, upstream) and carries one bit of content: a      *)
(* source entry's FilesDownloaded flag.                                    *)
(***************************************************************************)
EXTENDS Integers, FiniteSets

CONSTANTS Instances,    \* processes that share the storage backend
          Threads,      \* goroutines that call Flush, Refresh or New
          InstanceOf,   \* the process each goroutine belongs to
          Flushers,     \* the goroutines that call Flush
          Refreshers,   \* the goroutines that call Refresh
          Paths,        \* metadata files
          SourcePaths,  \* the files that hold source entries
          Keys,         \* entry identities
          MaxClock,     \* bound on the storage clock
          Budget        \* bound on mutations, I/O faults, crashes, resets, deletions

Kinds == {"op", "fault", "crash", "reset", "delete"}

ASSUME StoreAssumption ==
    /\ InstanceOf \in [Threads -> Instances]
    /\ Flushers \subseteq Threads /\ Refreshers \subseteq Threads
    /\ Paths # {}
    /\ SourcePaths \subseteq Paths
    /\ MaxClock \in Nat \ {0}
    /\ Budget \in [Kinds -> Nat]

Absent == "absent"
Contents == {"meta", "files"}
FileData == [Keys -> Contents \union {Absent}]
NoEntries == [k \in Keys |-> Absent]

FlushPCs == {"path", "stat", "read", "merge", "copy", "write", "restat", "stamp", "clear"}
RefreshPCs == {"rstat", "rcompare", "rload", "rmerge", "rstamp"}
LoadPCs == {"load", "lstat"}

VARIABLES
    file,       \* the storage backend: [exists, data, mtime] of each path
    clock,      \* storage time, which stamps every write
    up,         \* has the process finished New
    mem,        \* Store.entries / sources / states of each process
    known,      \* Store.fileModTimes; 0 is the zero time of a missing key
    dirty,      \* Store.dirty
    generation, \* Store.generation
    pc, todo, cur, stamp, buf, gen, listed, load,   \* locals of each goroutine
    budget,     \* what is left of Budget
    intent,     \* history: what the callers of each process asked it to hold
    written,    \* history: newest generation of each process that reached storage
    removed     \* history: the <<path, key>> pairs some process ever removed

shared == <<file, clock>>
store == <<up, mem, known, dirty, generation>>
locals == <<pc, todo, cur, stamp, buf, gen, listed, load>>
history == <<intent, written, removed>>
vars == <<shared, store, locals, budget, history>>

TypeOK ==
    /\ file \in [Paths -> [exists : BOOLEAN, data : FileData, mtime : Nat]]
    /\ clock \in Nat
    /\ up \in [Instances -> BOOLEAN]
    /\ mem \in [Instances -> [Paths -> FileData]]
    /\ known \in [Instances -> [Paths -> Nat]]
    /\ dirty \in [Instances -> SUBSET Paths]
    /\ generation \in [Instances -> [Paths -> Nat]]
    /\ pc \in [Threads -> {"idle"} \union FlushPCs \union RefreshPCs \union LoadPCs]
    /\ todo \in [Threads -> SUBSET Paths]
    /\ cur \in [Threads -> Paths]
    /\ stamp \in [Threads -> Nat]
    /\ buf \in [Threads -> FileData]
    /\ gen \in [Threads -> Nat]
    /\ listed \in [Threads -> SUBSET Paths]
    /\ load \in [Threads -> [Paths -> Nat]]
    /\ budget \in [Kinds -> Nat]
    /\ intent \in [Instances -> [Paths -> FileData]]
    /\ written \in [Instances -> [Paths -> Nat]]
    /\ removed \in SUBSET (Paths \X Keys)

Init ==
    /\ file = [p \in Paths |-> [exists |-> FALSE, data |-> NoEntries, mtime |-> 0]]
    /\ clock = 1
    /\ up = [i \in Instances |-> TRUE]
    /\ mem = [i \in Instances |-> [p \in Paths |-> NoEntries]]
    /\ known = [i \in Instances |-> [p \in Paths |-> 0]]
    /\ dirty = [i \in Instances |-> {}]
    /\ generation = [i \in Instances |-> [p \in Paths |-> 0]]
    /\ pc = [t \in Threads |-> "idle"]
    /\ todo = [t \in Threads |-> {}]
    /\ cur = [t \in Threads |-> CHOOSE p \in Paths : TRUE]
    /\ stamp = [t \in Threads |-> 0]
    /\ buf = [t \in Threads |-> NoEntries]
    /\ gen = [t \in Threads |-> 0]
    /\ listed = [t \in Threads |-> {}]
    /\ load = [t \in Threads |-> [p \in Paths |-> 0]]
    /\ budget = Budget
    /\ intent = mem
    /\ written = generation
    /\ removed = {}

Spend(kind) == /\ budget[kind] > 0
               /\ budget' = [budget EXCEPT ![kind] = @ - 1]

Existing == {p \in Paths : file[p].exists}

-----------------------------------------------------------------------------
(* Mutations: each runs under the write lock and marks the file dirty.     *)

\* Mutant of UpsertedContent: the flag is not sticky.
UpsertedVerbatim(p, old, new) == new

\* A source entry's FilesDownloaded is sticky; other entries are replaced.
UpsertedContent(p, old, new) ==
    IF p \in SourcePaths /\ old = "files" THEN "files" ELSE new

Mutate(i, p, k, content) ==
    /\ Spend("op")
    /\ mem' = [mem EXCEPT ![i][p][k] = content]
    /\ dirty' = [dirty EXCEPT ![i] = @ \union {p}]
    /\ generation' = [generation EXCEPT ![i][p] = @ + 1]
    /\ intent' = [intent EXCEPT ![i][p][k] = content]
    /\ UNCHANGED <<shared, up, known, locals, written>>

\* UpsertEntry, UpsertSourceEntry, UpsertUpstreamState
Upsert(i, p, k, content) ==
    /\ up[i]
    /\ Mutate(i, p, k, UpsertedContent(p, mem[i][p][k], content))
    /\ UNCHANGED removed

\* RemoveEntry, RemoveSourceEntry; an entry that is not there changes nothing.
Remove(i, p, k) ==
    /\ up[i] /\ mem[i][p][k] # Absent
    /\ Mutate(i, p, k, Absent)
    /\ removed' = removed \union {<<p, k>>}

\* Reset empties every map of the process and leaves the files alone.
Reset(i) ==
    /\ up[i]
    /\ Spend("reset")
    /\ mem' = [mem EXCEPT ![i] = [p \in Paths |-> NoEntries]]
    /\ known' = [known EXCEPT ![i] = [p \in Paths |-> 0]]
    /\ dirty' = [dirty EXCEPT ![i] = {}]
    /\ generation' = [generation EXCEPT ![i] = [p \in Paths |-> 0]]
    /\ intent' = [intent EXCEPT ![i] = [p \in Paths |-> NoEntries]]
    /\ written' = [written EXCEPT ![i] = [p \in Paths |-> 0]]
    /\ UNCHANGED <<shared, up, locals, removed>>

-----------------------------------------------------------------------------
(* Goroutine plumbing. *)

Step(t, from, to) == pc[t] = from /\ pc' = [pc EXCEPT ![t] = to]

\* The goroutine returns; its locals die with the call.
Return(t, from) ==
    /\ pc[t] = from
    /\ pc' = [pc EXCEPT ![t] = "idle"]
    /\ todo' = [todo EXCEPT ![t] = {}]
    /\ stamp' = [stamp EXCEPT ![t] = 0]
    /\ buf' = [buf EXCEPT ![t] = NoEntries]
    /\ gen' = [gen EXCEPT ![t] = 0]
    /\ listed' = [listed EXCEPT ![t] = {}]
    /\ load' = [load EXCEPT ![t] = [p \in Paths |-> 0]]
    /\ UNCHANGED cur

\* Mutant of Merge: the file wins on conflict.
MergeDiskWins(disk, memory) ==
    [k \in Keys |-> IF disk[k] # Absent THEN disk[k] ELSE memory[k]]

\* mergeIndexEntries and its two siblings: the union, memory wins on conflict.
Merge(disk, memory) == [k \in Keys |-> IF memory[k] # Absent THEN memory[k] ELSE disk[k]]

MergeInto(i, p, disk) == mem' = [mem EXCEPT ![i][p] = Merge(disk, @)]

-----------------------------------------------------------------------------
(* Flush *)

FlushBegin(t) ==
    LET i == InstanceOf[t] IN
    /\ t \in Flushers /\ up[i] /\ dirty[i] # {}
    /\ Step(t, "idle", "path")
    /\ todo' = [todo EXCEPT ![t] = dirty[i]]
    /\ UNCHANGED <<shared, store, cur, stamp, buf, gen, listed, load, budget, history>>

\* flushRelPath reads fileModTimes, then stats without the lock.
FlushPath(t) ==
    /\ Step(t, "path", "stat")
    /\ \E p \in todo[t] :
        /\ todo' = [todo EXCEPT ![t] = @ \ {p}]
        /\ cur' = [cur EXCEPT ![t] = p]
        /\ stamp' = [stamp EXCEPT ![t] = known[InstanceOf[t]][p]]
    /\ UNCHANGED <<shared, store, buf, gen, listed, load, budget, history>>

FlushStat(t) ==
    LET f == file[cur[t]] IN
    /\ \/ f.exists /\ f.mtime > stamp[t] /\ Step(t, "stat", "read") /\ UNCHANGED budget
       \/ ~(f.exists /\ f.mtime > stamp[t]) /\ Step(t, "stat", "copy") /\ UNCHANGED budget
       \/ f.exists /\ Step(t, "stat", "copy") /\ Spend("fault")
    /\ UNCHANGED <<shared, store, todo, cur, stamp, buf, gen, listed, load, history>>

\* mergeFromDisk reads the file; a failed read is logged and the flush goes on.
FlushRead(t) ==
    LET f == file[cur[t]] IN
    /\ \/ /\ f.exists
          /\ Step(t, "read", "merge")
          /\ buf' = [buf EXCEPT ![t] = f.data]
          /\ UNCHANGED budget
       \/ ~f.exists /\ Step(t, "read", "copy") /\ UNCHANGED <<buf, budget>>
       \/ f.exists /\ Step(t, "read", "copy") /\ Spend("fault") /\ UNCHANGED buf
    /\ UNCHANGED <<shared, store, todo, cur, stamp, gen, listed, load, history>>

FlushMerge(t) ==
    /\ Step(t, "merge", "copy")
    /\ MergeInto(InstanceOf[t], cur[t], buf[t])
    /\ UNCHANGED <<shared, up, known, dirty, generation, todo, cur, stamp, buf, gen,
                   listed, load, budget, history>>

\* Mutant of FlushCopy: the generation is not captured with the entries.
FlushCopyNoGen(t) ==
    /\ Step(t, "copy", "write")
    /\ buf' = [buf EXCEPT ![t] = mem[InstanceOf[t]][cur[t]]]
    /\ stamp' = [stamp EXCEPT ![t] = clock]
    /\ UNCHANGED <<shared, store, todo, cur, gen, listed, load, budget, history>>

\* writeRelPath copies the entries and their generation under one read lock.
FlushCopy(t) ==
    LET i == InstanceOf[t] IN
    /\ Step(t, "copy", "write")
    /\ buf' = [buf EXCEPT ![t] = mem[i][cur[t]]]
    /\ gen' = [gen EXCEPT ![t] = generation[i][cur[t]]]
    /\ stamp' = [stamp EXCEPT ![t] = clock]
    /\ UNCHANGED <<shared, store, todo, cur, listed, load, budget, history>>

\* The new content replaces the file atomically (a rename, an object put), with
\* the time at which it was staged: some time between FlushCopy and now.
FlushWrite(t) ==
    LET i == InstanceOf[t] IN
    /\ Step(t, "write", "restat")
    /\ \E m \in stamp[t] .. clock :
        file' = [file EXCEPT ![cur[t]] = [exists |-> TRUE, data |-> buf[t], mtime |-> m]]
    /\ written' = [written EXCEPT ![i][cur[t]] = IF gen[t] > @ THEN gen[t] ELSE @]
    /\ UNCHANGED <<clock, store, todo, cur, stamp, buf, gen, listed, load, budget,
                   intent, removed>>

\* A failed write ends the whole flush; the remaining files stay dirty.
FlushWriteFails(t) ==
    /\ Return(t, "write")
    /\ Spend("fault")
    /\ UNCHANGED <<shared, store, history>>

FlushRestat(t) ==
    LET f == file[cur[t]] IN
    /\ \/ /\ f.exists
          /\ Step(t, "restat", "stamp")
          /\ stamp' = [stamp EXCEPT ![t] = f.mtime]
          /\ UNCHANGED budget
       \/ ~f.exists /\ Step(t, "restat", "clear") /\ UNCHANGED <<stamp, budget>>
       \/ f.exists /\ Step(t, "restat", "clear") /\ Spend("fault") /\ UNCHANGED stamp
    /\ UNCHANGED <<shared, store, todo, cur, buf, gen, listed, load, history>>

\* Mutant of FlushStamp: fileModTimes is left as it was.
FlushStampForgotten(t) ==
    /\ Step(t, "stamp", "clear")
    /\ UNCHANGED <<shared, store, todo, cur, stamp, buf, gen, listed, load, budget, history>>

FlushStamp(t) ==
    /\ Step(t, "stamp", "clear")
    /\ known' = [known EXCEPT ![InstanceOf[t]][cur[t]] = stamp[t]]
    /\ UNCHANGED <<shared, up, mem, dirty, generation, todo, cur, stamp, buf, gen,
                   listed, load, budget, history>>

\* Mutant of ClearedDirty: the generation is not compared.
ClearedAlways(i, p, g) == [dirty EXCEPT ![i] = @ \ {p}]

\* The dirty mark goes only if nothing mutated the file since FlushCopy.
ClearedDirty(i, p, g) ==
    IF generation[i][p] = g THEN [dirty EXCEPT ![i] = @ \ {p}] ELSE dirty

FlushClear(t) ==
    LET i == InstanceOf[t] IN
    /\ dirty' = ClearedDirty(i, cur[t], gen[t])
    /\ \/ todo[t] # {} /\ Step(t, "clear", "path")
          /\ UNCHANGED <<todo, cur, stamp, buf, gen, listed, load>>
       \/ todo[t] = {} /\ Return(t, "clear")
    /\ UNCHANGED <<shared, up, mem, known, generation, budget, history>>

-----------------------------------------------------------------------------
(* Refresh *)

RefreshBegin(t) ==
    /\ t \in Refreshers /\ up[InstanceOf[t]]
    /\ Step(t, "idle", "rstat")
    /\ listed' = [listed EXCEPT ![t] = Existing]
    /\ todo' = [todo EXCEPT ![t] = Existing]
    /\ UNCHANGED <<shared, store, cur, stamp, buf, gen, load, budget, history>>

RefreshStat(t) ==
    /\ Step(t, "rstat", "rcompare")
    /\ \E p \in todo[t] :
        /\ file[p].exists
        /\ todo' = [todo EXCEPT ![t] = @ \ {p}]
        /\ cur' = [cur EXCEPT ![t] = p]
        /\ stamp' = [stamp EXCEPT ![t] = file[p].mtime]
    /\ UNCHANGED <<shared, store, buf, gen, listed, load, budget, history>>

RefreshCompare(t) ==
    /\ Step(t, "rcompare", "rstat")
    /\ load' = [load EXCEPT ![t][cur[t]] =
                   IF stamp[t] > known[InstanceOf[t]][cur[t]] THEN stamp[t] ELSE 0]
    /\ UNCHANGED <<shared, store, todo, cur, stamp, buf, gen, listed, budget, history>>

\* Mutant of ToEvict: a file counts as seen only when it has to be loaded.
ToEvictUnchanged(t) ==
    {p \in Paths : known[InstanceOf[t]][p] # 0} \ {p \in Paths : load[t][p] # 0}

\* The files to evict are those the process knows of that the listing lacked.
ToEvict(t) == {p \in Paths : known[InstanceOf[t]][p] # 0} \ listed[t]

RefreshScan(t) ==
    LET toLoad == {p \in Paths : load[t][p] # 0} IN
    /\ todo[t] = {}
    /\ \/ /\ toLoad # {} \/ ToEvict(t) # {}
          /\ Step(t, "rstat", "rload")
          /\ todo' = [todo EXCEPT ![t] = toLoad]
          /\ listed' = [listed EXCEPT ![t] = ToEvict(t)]
          /\ UNCHANGED <<cur, stamp, buf, gen, load>>
       \/ toLoad = {} /\ ToEvict(t) = {} /\ Return(t, "rstat")
    /\ UNCHANGED <<shared, store, budget, history>>

RefreshRead(t) ==
    /\ Step(t, "rload", "rmerge")
    /\ \E p \in todo[t] :
        /\ file[p].exists
        /\ todo' = [todo EXCEPT ![t] = @ \ {p}]
        /\ cur' = [cur EXCEPT ![t] = p]
        /\ buf' = [buf EXCEPT ![t] = file[p].data]
    /\ UNCHANGED <<shared, store, stamp, gen, listed, load, budget, history>>

RefreshMerge(t) ==
    /\ Step(t, "rmerge", "rstamp")
    /\ MergeInto(InstanceOf[t], cur[t], buf[t])
    /\ UNCHANGED <<shared, up, known, dirty, generation, todo, cur, stamp, buf, gen,
                   listed, load, budget, history>>

RefreshStamp(t) ==
    /\ Step(t, "rstamp", "rload")
    /\ known' = [known EXCEPT ![InstanceOf[t]][cur[t]] = load[t][cur[t]]]
    /\ UNCHANGED <<shared, up, mem, dirty, generation, todo, cur, stamp, buf, gen,
                   listed, load, budget, history>>

\* Mutant of Evicted: pending mutations do not protect the entries.
EvictedAlways(i, p) == NoEntries

\* evictFile keeps a dirty file's entries; fileModTimes forgets it either way.
Evicted(i, p) == IF p \in dirty[i] THEN mem[i][p] ELSE NoEntries

RefreshEvict(t) ==
    LET i == InstanceOf[t] IN
    /\ todo[t] = {}
    /\ mem' = [mem EXCEPT ![i] =
                  [p \in Paths |-> IF p \in listed[t] THEN Evicted(i, p) ELSE mem[i][p]]]
    /\ known' = [known EXCEPT ![i] =
                  [p \in Paths |-> IF p \in listed[t] THEN 0 ELSE known[i][p]]]
    /\ Return(t, "rload")
    /\ UNCHANGED <<shared, up, dirty, generation, budget, history>>

\* A stat or a read that fails (or a file gone since the listing) ends Refresh.
RefreshFails(t) ==
    /\ todo[t] # {}
    /\ \E from \in {"rstat", "rload"} : Return(t, from)
    /\ \/ (\E p \in todo[t] : ~file[p].exists) /\ UNCHANGED budget
       \/ Spend("fault")
    /\ UNCHANGED <<shared, store, history>>

-----------------------------------------------------------------------------
(* Crash and restart: New loads each listed file and then stats it. *)

Crash(i) ==
    /\ up[i]
    /\ Spend("crash")
    /\ up' = [up EXCEPT ![i] = FALSE]
    /\ mem' = [mem EXCEPT ![i] = [p \in Paths |-> NoEntries]]
    /\ known' = [known EXCEPT ![i] = [p \in Paths |-> 0]]
    /\ dirty' = [dirty EXCEPT ![i] = {}]
    /\ generation' = [generation EXCEPT ![i] = [p \in Paths |-> 0]]
    /\ written' = [written EXCEPT ![i] = [p \in Paths |-> 0]]
    \* Mutations that were still dirty are lost by design; nothing else may be.
    /\ intent' = [intent EXCEPT ![i] =
                     [p \in Paths |-> IF p \in dirty[i] THEN file[p].data ELSE intent[i][p]]]
    /\ LET mine == {t \in Threads : InstanceOf[t] = i} IN
       /\ pc' = [t \in Threads |-> IF t \in mine THEN "idle" ELSE pc[t]]
       /\ todo' = [t \in Threads |-> IF t \in mine THEN {} ELSE todo[t]]
       /\ stamp' = [t \in Threads |-> IF t \in mine THEN 0 ELSE stamp[t]]
       /\ buf' = [t \in Threads |-> IF t \in mine THEN NoEntries ELSE buf[t]]
       /\ gen' = [t \in Threads |-> IF t \in mine THEN 0 ELSE gen[t]]
       /\ listed' = [t \in Threads |-> IF t \in mine THEN {} ELSE listed[t]]
       /\ load' = [t \in Threads |-> IF t \in mine THEN [p \in Paths |-> 0] ELSE load[t]]
    /\ UNCHANGED <<shared, cur, removed>>

LoadBegin(t) ==
    /\ ~up[InstanceOf[t]]
    /\ \A u \in Threads : InstanceOf[u] = InstanceOf[t] => pc[u] = "idle"
    /\ Step(t, "idle", "load")
    /\ todo' = [todo EXCEPT ![t] = Existing]
    /\ UNCHANGED <<shared, store, cur, stamp, buf, gen, listed, load, budget, history>>

LoadRead(t) ==
    /\ Step(t, "load", "lstat")
    /\ \E p \in todo[t] :
        /\ file[p].exists
        /\ todo' = [todo EXCEPT ![t] = @ \ {p}]
        /\ cur' = [cur EXCEPT ![t] = p]
        /\ mem' = [mem EXCEPT ![InstanceOf[t]][p] = file[p].data]
    /\ UNCHANGED <<shared, up, known, dirty, generation, stamp, buf, gen, listed, load,
                   budget, history>>

LoadStat(t) ==
    /\ file[cur[t]].exists
    /\ Step(t, "lstat", "load")
    /\ known' = [known EXCEPT ![InstanceOf[t]][cur[t]] = file[cur[t]].mtime]
    /\ UNCHANGED <<shared, up, mem, dirty, generation, todo, cur, stamp, buf, gen,
                   listed, load, budget, history>>

LoadDone(t) ==
    /\ todo[t] = {}
    /\ Return(t, "load")
    /\ up' = [up EXCEPT ![InstanceOf[t]] = TRUE]
    /\ UNCHANGED <<shared, mem, known, dirty, generation, budget, history>>

\* loadAll returns the error of a failed read or stat and the process exits.
LoadFails(t) ==
    LET i == InstanceOf[t] IN
    /\ pc[t] = "lstat" \/ (pc[t] = "load" /\ todo[t] # {})
    /\ \/ /\ \E p \in (IF pc[t] = "lstat" THEN {cur[t]} ELSE todo[t]) : ~file[p].exists
          /\ UNCHANGED budget
       \/ Spend("fault")
    /\ Return(t, pc[t])
    /\ mem' = [mem EXCEPT ![i] = [p \in Paths |-> NoEntries]]
    /\ known' = [known EXCEPT ![i] = [p \in Paths |-> 0]]
    /\ UNCHANGED <<shared, up, dirty, generation, history>>

-----------------------------------------------------------------------------
(* The storage backend (external). *)

\* Writes of one clock tick carry one modification time.
Tick == /\ clock < MaxClock
        /\ clock' = clock + 1
        /\ UNCHANGED <<file, store, locals, budget, history>>

ExternalDelete(p) ==
    /\ file[p].exists
    /\ Spend("delete")
    /\ file' = [file EXCEPT ![p] = [exists |-> FALSE, data |-> NoEntries, mtime |-> 0]]
    /\ UNCHANGED <<clock, store, locals, history>>

-----------------------------------------------------------------------------
Flush(t) ==
    \/ FlushBegin(t) \/ FlushPath(t) \/ FlushStat(t) \/ FlushRead(t) \/ FlushMerge(t)
    \/ FlushCopy(t) \/ FlushWrite(t) \/ FlushWriteFails(t) \/ FlushRestat(t)
    \/ FlushStamp(t) \/ FlushClear(t)

Refresh(t) ==
    \/ RefreshBegin(t) \/ RefreshStat(t) \/ RefreshCompare(t) \/ RefreshScan(t)
    \/ RefreshRead(t) \/ RefreshMerge(t) \/ RefreshStamp(t) \/ RefreshEvict(t)
    \/ RefreshFails(t)

New(t) == LoadBegin(t) \/ LoadRead(t) \/ LoadStat(t) \/ LoadDone(t) \/ LoadFails(t)

Next ==
    \/ \E i \in Instances, p \in Paths, k \in Keys :
          \/ \E c \in Contents : Upsert(i, p, k, c)
          \/ Remove(i, p, k)
    \/ \E i \in Instances : Reset(i) \/ Crash(i)
    \/ \E t \in Threads : Flush(t) \/ Refresh(t) \/ New(t)
    \/ Tick
    \/ \E p \in Paths : ExternalDelete(p)

Spec == Init /\ [][Next]_vars

\* StartPeriodicFlush calls Flush at every tick for as long as the process runs,
\* and a process that exits is started again.
FairSpec == Spec /\ \A t \in Threads : WF_vars(Flush(t)) /\ WF_vars(New(t))

-----------------------------------------------------------------------------
(* Properties *)

\* A file whose dirty mark is clear has had its newest generation written: the
\* generation check that ends Flush never forgets a mutation that raced with
\* the write, whatever other flushes, refreshes and processes do.
CleanMeansWritten ==
    budget["reset"] = Budget["reset"] =>
        \A i \in Instances : \A p \in Paths \ dirty[i] : written[i][p] = generation[i][p]

PendingKept ==
    \A i \in Instances : \A p \in dirty[i] :
        \/ \A k \in Keys : mem[i][p][k] # Absent => mem'[i][p][k] = mem[i][p][k]
        \/ generation'[i][p] # generation[i][p]

\* Memory wins: neither Refresh nor the merge of a flush (nor a clean-up of a
\* file deleted behind the process's back) changes or drops an entry of a file
\* with unflushed mutations.  What does (a mutation of that file, Reset, a crash)
\* also changes the file's generation.
PendingWritesKept == [][PendingKept]_vars

\* A clean file that no flush is busy with holds on storage exactly what the
\* process serves: a mutation is never marked clean without being persisted.
CleanMeansPersisted ==
    \A i \in Instances : up[i] =>
        \A p \in Paths \ dirty[i] :
            \/ file[p].data = mem[i][p]
            \/ \E t \in Threads : pc[t] \in FlushPCs /\ cur[t] = p

\* A process serves what its callers asked it to hold: no flush, refresh, crash
\* or restart loses a clean entry or brings back a removed one.
MemoryIsIntended == \A i \in Instances : up[i] => mem[i] = intent[i]

\* Refresh evicts a file's entries only when the file is gone from storage.
EvictsMissing ==
    \A t \in Threads : RefreshEvict(t) =>
        \A p \in Paths : file[p].exists => mem'[InstanceOf[t]][p] = mem[InstanceOf[t]][p]
EvictsOnlyMissing == [][EvictsMissing]_vars

\* Once storage records that a source's files were downloaded, no later write of
\* the index takes that back for an entry nobody removed.
DownloadedKept ==
    \A p \in SourcePaths, k \in Keys :
        file[p].data[k] = "files" /\ <<p, k>> \notin removed => file'[p].data[k] # "meta"
DownloadedIsSticky == [][DownloadedKept]_vars

\* Every mutation eventually reaches storage: a dirty file becomes clean.
EventuallyClean ==
    \A i \in Instances : \A p \in Paths : (up[i] /\ p \in dirty[i]) ~> (p \notin dirty[i])

=============================================================================
