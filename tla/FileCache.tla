----------------------------- MODULE FileCache -----------------------------
(***************************************************************************)
(* The in-process LRU cache that filecache.Store keeps in front of a       *)
(* storage backend (internal/storage/filecache/filecache.go): reads that   *)
(* stat, read and then cache, local writes that invalidate what they       *)
(* wrote, and the PurgePrefix that another replica's snapshot notice       *)
(* triggers (cmd/debproxy/main.go).                                        *)
(*                                                                         *)
(* The content of a file is a version number, 0 where there is no file;    *)
(* Size(v) is the number of bytes of version v.                            *)
(***************************************************************************)
EXTENDS Integers, Sequences, FiniteSets, SequencesExt

CONSTANTS Paths,        \* the files
          Current,      \* those under current/, which other replicas rewrite
          Readers,      \* concurrent requests
          MaxVersion,   \* bound on the versions of one file
          MaxBytes,     \* storage.file_cache.size
          MaxEntryBytes,\* maxEntryBytes()
          MaxFaults     \* bound on the kinds of fault of one behaviour

Size(v) == v

VARIABLES
    file,      \* version of each file in the backend
    order,     \* cached entries, most recently used first
    curBytes,
    reader,    \* the requests inside cachedOpen
    writer,    \* the local write between its backend call and its invalidation
    notice,    \* a snapshot notice of another replica is on its way
    seen       \* faults and overlaps that have happened

cached == <<order, curBytes>>
vars == <<file, cached, reader, writer, notice, seen>>

Entry == [path : Paths, data : 1 .. MaxVersion, info : 1 .. MaxVersion]
NoRead == [pc |-> "idle", path |-> "none", info |-> 0, data |-> 0]

\* The type of every variable.
TypeOK ==
    /\ file \in [Paths -> 0 .. MaxVersion]
    /\ order \in Seq(Entry) /\ curBytes \in Int
    /\ reader \in [Readers -> [pc : {"idle", "stat", "read", "put"}, path : Paths \union {"none"},
                               info : 0 .. MaxVersion, data : 0 .. MaxVersion]]
    /\ writer \in Paths \union {"none"} /\ notice \in BOOLEAN
    /\ seen \subseteq {"lost", "unclear", "overlap"}

Faults == seen \ {"overlap"}
Fault(k) == /\ k \in Faults \/ Cardinality(Faults) < MaxFaults
            /\ seen' = seen \union {k}

Init ==
    /\ file = [p \in Paths |-> 1]
    /\ order = <<>> /\ curBytes = 0
    /\ reader = [r \in Readers |-> NoRead]
    /\ writer = "none" /\ notice = FALSE /\ seen = {}

-----------------------------------------------------------------------------
\* The entry that byPath has for p, as a sequence of at most one element.
ByPath(p) == SelectSeq(order, LAMBDA e : e.path = p)
Others(p) == SelectSeq(order, LAMBDA e : e.path # p)
Bytes(es) == FoldSeq(LAMBDA e, n : Size(e.data) + n, 0, es)

\* removeLocked.
RemoveLocked(p) == /\ order' = Others(p)
                   /\ curBytes' = curBytes - Bytes(ByPath(p))

\* The entries left once the eviction loop has made room for size bytes.
Evict(es, size) ==
    LET fits == {n \in 0 .. Len(es) : Bytes(SubSeq(es, 1, n)) + size <= MaxBytes}
    IN  IF fits = {} THEN <<>> ELSE SubSeq(es, 1, Max(fits))

\* Mutant of Put: forgets the bytes of an entry that it replaces.
PutUncounted(p, d, i) ==
    IF Size(d) > MaxEntryBytes THEN UNCHANGED cached
    ELSE LET kept == Evict(Others(p), Size(d))
         IN  /\ order' = <<[path |-> p, data |-> d, info |-> i]>> \o kept
             /\ curBytes' = curBytes - (Bytes(Others(p)) - Bytes(kept)) + Size(d)

\* put.
Put(p, d, i) ==
    IF Size(d) > MaxEntryBytes THEN UNCHANGED cached
    ELSE LET kept == Evict(Others(p), Size(d))
         IN  /\ order' = <<[path |-> p, data |-> d, info |-> i]>> \o kept
             /\ curBytes' = curBytes - (Bytes(order) - Bytes(kept)) + Size(d)

\* get on a hit: Open, Stat and Exists answer from the entry and move it to the front.
Get(p) ==
    /\ ByPath(p) # <<>>
    /\ order' = ByPath(p) \o Others(p)
    /\ UNCHANGED <<file, curBytes, reader, writer, notice, seen>>

\* cachedOpen on a miss: first the stat; a file that is too large, or that cannot be
\* statted, is not cached.
CachedOpen(r, p) ==
    /\ reader[r].pc = "idle" /\ ByPath(p) = <<>>
    /\ file[p] # 0 /\ Size(file[p]) <= MaxEntryBytes
    /\ reader' = [reader EXCEPT ![r] = [pc |-> "read", path |-> p, info |-> file[p], data |-> 0]]
    /\ UNCHANGED <<file, cached, writer, notice, seen>>

\* openFn and ReadAll; a file that has gone meanwhile ends the request.
ReadAll(r) ==
    LET p == reader[r].path
    IN  /\ reader[r].pc = "read"
        /\ reader' = [reader EXCEPT ![r] = IF file[p] = 0 THEN NoRead
                                           ELSE [@ EXCEPT !.pc = "put", !.data = file[p]]]
        /\ UNCHANGED <<file, cached, writer, notice, seen>>

CachePut(r) ==
    /\ reader[r].pc = "put"
    /\ Put(reader[r].path, reader[r].data, reader[r].info)
    /\ reader' = [reader EXCEPT ![r] = NoRead]
    /\ UNCHANGED <<file, writer, notice, seen>>

-----------------------------------------------------------------------------
\* A new version, or none, of a file in the backend.  A request inside cachedOpen for
\* that file overlaps with the change.
Overlapped(p) == IF \E r \in Readers : reader[r].path = p THEN {"overlap"} ELSE {}
Change(p) == \E v \in {0, file[p] + 1} \intersect (0 .. MaxVersion) : file' = [file EXCEPT ![p] = v]

\* The backend call of PutFile, WriteFile, Delete or DeletePublished.  A call that
\* fails may have had its effect (a lost answer of an object store): nothing is invalidated.
WriteFile(p) ==
    /\ writer = "none"
    /\ Change(p)
    /\ \/ writer' = p /\ seen' = seen \union Overlapped(p)
       \/ UNCHANGED writer /\ Fault("unclear")
    /\ UNCHANGED <<cached, reader, notice>>

\* Mutant of Invalidate: the write leaves the cached entry alone.
InvalidateNothing ==
    /\ writer # "none"
    /\ writer' = "none"
    /\ UNCHANGED <<file, cached, reader, notice, seen>>

\* invalidate, once the backend call has succeeded.
Invalidate ==
    /\ writer # "none"
    /\ RemoveLocked(writer)
    /\ writer' = "none"
    /\ UNCHANGED <<file, reader, notice, seen>>

\* Another replica rewrites a file of current/ and then publishes its notice, unless
\* the notice is lost.
RemoteWrite(p) ==
    /\ p \in Current /\ file[p] < MaxVersion
    /\ file' = [file EXCEPT ![p] = @ + 1]
    /\ \/ notice' = TRUE /\ seen' = seen \union Overlapped(p)
       \/ UNCHANGED notice /\ Fault("lost")
    /\ UNCHANGED <<cached, reader, writer>>

\* PurgePrefix("current/").
PurgePrefix ==
    /\ notice
    /\ order' = SelectSeq(order, LAMBDA e : e.path \notin Current)
    /\ curBytes' = curBytes - Bytes(SelectSeq(order, LAMBDA e : e.path \in Current))
    /\ notice' = FALSE
    /\ UNCHANGED <<file, reader, writer, seen>>

Next == \/ \E p \in Paths : Get(p) \/ WriteFile(p) \/ RemoteWrite(p)
        \/ \E r \in Readers : (\E p \in Paths : CachedOpen(r, p)) \/ ReadAll(r) \/ CachePut(r)
        \/ Invalidate \/ PurgePrefix

Spec == Init /\ [][Next]_vars

-----------------------------------------------------------------------------
\* The byte count that drives eviction is the size of what is cached, whatever the order
\* of puts, replacements, invalidations and purges; it stays within maxBytes, and a path
\* is cached at most once.
BytesAccounted ==
    /\ curBytes = Bytes(order) /\ curBytes <= MaxBytes
    /\ \A i, j \in 1 .. Len(order) : order[i].path = order[j].path => i = j

Pending(p) == writer = p \/ (notice /\ p \in Current)

\* A cached entry differs from its file, or carries the FileInfo of another version,
\* only while the write's invalidation or the purge is still to come: unless a read
\* overlapped a write, a notice was lost or a write failed after its effect.
EntryIsCurrent ==
    seen = {} => \A i \in 1 .. Len(order) :
        \/ order[i].data = file[order[i].path] /\ order[i].info = order[i].data
        \/ Pending(order[i].path)
=============================================================================
