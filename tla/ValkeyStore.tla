---------------------------- MODULE ValkeyStore ----------------------------
(***************************************************************************)
(* The metadata index in Valkey (internal/metadata/valkeystore), shared by *)
(* all replicas: every upsert and removal is a sequence of separate Valkey *)
(* commands, any of which may fail and end it; listings, lookups, Backup   *)
(* to storage and the Restore of a replica that finds the index empty.     *)
(*                                                                         *)
(* A placement is one upstream's package or source at one version.  Of an  *)
(* entry's value only FilesDownloaded of a source matters.                 *)
(***************************************************************************)
EXTENDS Naturals, FiniteSets

CONSTANTS Packages, Sources,   \* placements
          Bucket,              \* bucket of each placement (os, codename, component, arch)
          Name,                \* upstream and package name of each placement, in its bucket
          Version,             \* version of each placement, a number
          Digest,              \* SHA-256 of each package placement
          Workers,             \* goroutines, of any replica, that change the index
          MaxOps,              \* bound on the operations and backups of one behaviour
          MaxFaults,           \* bound on the kinds of fault of one behaviour
          None

Ids == Packages \union Sources
Buckets == {Bucket[i] : i \in Ids}
Names == {Name[i] : i \in Ids}
Digests == {Digest[i] : i \in Packages}
Values == {"listed", "downloaded"}

\* What the constants stand for: a placement is a package or a source, and of one upstream
\* and package name a bucket has one placement of a version.  Versions that
\* debversion.Compare takes for equal are one.
Placements ==
    /\ None \notin Ids \union Values \union Buckets /\ Packages \intersect Sources = {}
    /\ Version \in [Ids -> Nat \ {0}] /\ MaxOps \in Nat
    /\ \A i, j \in Ids : Name[i] = Name[j] /\ Version[i] = Version[j] => i = j
ASSUME PlacementAssumption == Placements

VARIABLES
    key,      \* value of each entry key, or None
    member,   \* members of the bucket sets
    bucket,   \* the registered buckets
    digest,   \* the placement each digest points to, or None
    latest,   \* the latest-version hash: a version for each name, 0 if none
    work,     \* the operation of each worker
    file,     \* the backup in storage: entries of each bucket
    back,     \* the running Backup
    restore,  \* entries that Restore still has to upsert
    acked,    \* placements whose last undisturbed change was an upsert that succeeded
    touched,  \* buckets changed since their last backup began
    seen,     \* faults and overlaps that have happened
    ops       \* operations begun

valkey == <<key, member, bucket, digest, latest>>
history == <<acked, touched, seen, ops>>
vars == <<valkey, work, file, back, restore, history>>

Idle == [pc |-> "idle", id |-> None, val |-> None, got |-> 0, clean |-> FALSE]
NoBack == [pc |-> "idle", bucket |-> None, todo |-> {}, got |-> {}]

\* The type of every variable.
TypeOK ==
    /\ key \in [Ids -> Values \union {None}]
    /\ member \subseteq Ids /\ bucket \subseteq Buckets
    /\ digest \in [Digests -> Packages \union {None}]
    /\ latest \in [Names -> Nat]
    /\ work \in [Workers ->
         [pc : {"idle", "get", "set", "sadd", "register", "digest", "hget", "hset",
                "del", "srem", "pointer", "undigest"},
          id : Ids \union {None}, val : Values \union {None}, got : Nat, clean : BOOLEAN]]
    /\ file \in [Buckets -> SUBSET (Ids \X Values)]
    /\ back \in [pc : {"idle", "mget"}, bucket : Buckets \union {None},
                 todo : SUBSET Ids, got : SUBSET (Ids \X Values)]
    /\ restore \subseteq Ids \X Values /\ acked \subseteq Ids /\ touched \subseteq Buckets
    /\ seen \subseteq {"error", "wipe", "removed", "overlap"}
    /\ ops \in 0 .. MaxOps

Faults == seen \intersect {"error", "wipe"}
Fault(k, also) == /\ k \in Faults \/ Cardinality(Faults) < MaxFaults
                  /\ seen' = seen \union {k} \union also

Init ==
    /\ key = [i \in Ids |-> None] /\ member = {} /\ bucket = {}
    /\ digest = [d \in Digests |-> None] /\ latest = [n \in Names |-> 0]
    /\ work = [w \in Workers |-> Idle]
    /\ file = [b \in Buckets |-> {}] /\ back = NoBack /\ restore = {}
    /\ acked = {} /\ touched = {} /\ seen = {} /\ ops = 0

-----------------------------------------------------------------------------
Id(w) == work[w].id
At(w, pc) == work[w].pc = pc
Goto(w, pc) == work' = [work EXCEPT ![w].pc = pc]
Removing(w) == work[w].pc \in {"del", "srem", "pointer", "undigest"}

\* Another worker is inside an operation on the same placement, or on the same name.
Disturb(i) == [w \in Workers |-> IF Id(w) = i THEN [work[w] EXCEPT !.clean = FALSE] ELSE work[w]]
Overlap(i) == IF \E w \in Workers : work[w].pc # "idle" /\ Name[Id(w)] = Name[i]
              THEN {"overlap"} ELSE {}

\* UpsertEntry or UpsertSourceEntry is called.  A removal in progress on the same
\* placement disturbs it.
Upsert(w, i, val) ==
    /\ At(w, "idle")
    /\ work' = [work EXCEPT ![w] = [pc |-> IF i \in Sources THEN "get" ELSE "set", id |-> i,
                  val |-> val, got |-> 0, clean |-> ~\E x \in Workers : Id(x) = i /\ Removing(x)]]
    /\ touched' = touched \union {Bucket[i]}
    /\ seen' = seen \union Overlap(i)
    /\ UNCHANGED <<valkey, file, back, acked>>

StartUpsert(w) == /\ \E i \in Ids : \E val \in IF i \in Sources THEN Values ELSE {"listed"} :
                        Upsert(w, i, val)
                  /\ ops < MaxOps /\ ops' = ops + 1
                  /\ UNCHANGED restore

\* Mutant of GetSourceEntry: FilesDownloaded of the existing entry is not kept.
GetSourceEntryForgetting(w) ==
    /\ At(w, "get")
    /\ Goto(w, "set")
    /\ UNCHANGED <<valkey, file, back, restore, history>>

\* FilesDownloaded is sticky: an existing entry's is kept.
GetSourceEntry(w) ==
    /\ At(w, "get")
    /\ work' = [work EXCEPT ![w].pc = "set",
                            ![w].val = IF key[Id(w)] = "downloaded" THEN "downloaded" ELSE @]
    /\ UNCHANGED <<valkey, file, back, restore, history>>

\* The SET of the entry key.
SetEntry(w) ==
    /\ At(w, "set")
    /\ key' = [key EXCEPT ![Id(w)] = work[w].val]
    /\ Goto(w, "sadd")
    /\ UNCHANGED <<member, bucket, digest, latest, file, back, restore, history>>

\* Mutant of AddMember: skipped for a placement that a bucket listing may already have.
AddMemberOfNewBucket(w) ==
    /\ At(w, "sadd")
    /\ member' = IF Bucket[Id(w)] \in bucket THEN member ELSE member \union {Id(w)}
    /\ Goto(w, "register")
    /\ UNCHANGED <<key, bucket, digest, latest, file, back, restore, history>>

\* The SADD of the bucket member.
AddMember(w) ==
    /\ At(w, "sadd")
    /\ member' = member \union {Id(w)}
    /\ Goto(w, "register")
    /\ UNCHANGED <<key, bucket, digest, latest, file, back, restore, history>>

\* The SADD to the index of buckets.
RegisterBucket(w) ==
    /\ At(w, "register")
    /\ bucket' = bucket \union {Bucket[Id(w)]}
    /\ Goto(w, IF Id(w) \in Packages THEN "digest" ELSE "hget")
    /\ UNCHANGED <<key, member, digest, latest, file, back, restore, history>>

\* The SET of the digest pointer.
IndexDigest(w) ==
    /\ At(w, "digest")
    /\ digest' = [digest EXCEPT ![Digest[Id(w)]] = Id(w)]
    /\ Goto(w, "hget")
    /\ UNCHANGED <<key, member, bucket, latest, file, back, restore, history>>

\* An upsert succeeds.
Succeed(w) == /\ work' = [work EXCEPT ![w] = Idle]
              /\ acked' = IF work[w].clean THEN acked \union {Id(w)} ELSE acked

\* bumpLatest: the HGET, which ends the upsert unless the version is a higher one.
ReadLatest(w) ==
    /\ At(w, "hget")
    /\ IF Version[Id(w)] <= latest[Name[Id(w)]]
       THEN Succeed(w) ELSE Goto(w, "hset") /\ UNCHANGED acked
    /\ UNCHANGED <<valkey, file, back, restore, touched, seen, ops>>

\* Mutant of BumpLatest: the version is not recorded.
BumpNothing(w) ==
    /\ At(w, "hset")
    /\ Succeed(w)
    /\ UNCHANGED <<valkey, file, back, restore, touched, seen, ops>>

\* bumpLatest: the HSET.
BumpLatest(w) ==
    /\ At(w, "hset")
    /\ latest' = [latest EXCEPT ![Name[Id(w)]] = Version[Id(w)]]
    /\ Succeed(w)
    /\ UNCHANGED <<key, member, bucket, digest, file, back, restore, touched, seen, ops>>

UpsertEntry(w) == \/ SetEntry(w) \/ AddMember(w) \/ RegisterBucket(w) \/ IndexDigest(w)
                  \/ ReadLatest(w) \/ BumpLatest(w)

-----------------------------------------------------------------------------
\* RemoveEntry or RemoveSourceEntry is called.
StartRemove(w) ==
    \E i \in Ids :
        /\ At(w, "idle") /\ ops < MaxOps
        /\ ops' = ops + 1
        /\ work' = [Disturb(i) EXCEPT ![w] = [Idle EXCEPT !.pc = "del", !.id = i]]
        /\ acked' = acked \ {i} /\ touched' = touched \union {Bucket[i]}
        /\ seen' = seen \union {"removed"} \union Overlap(i)
        /\ UNCHANGED <<valkey, file, back, restore>>

\* The DEL of the entry key.
DeleteEntry(w) ==
    /\ At(w, "del")
    /\ key' = [key EXCEPT ![Id(w)] = None]
    /\ Goto(w, "srem")
    /\ UNCHANGED <<member, bucket, digest, latest, file, back, restore, history>>

Finish(w) == work' = [work EXCEPT ![w] = Idle]

\* The SREM of the bucket member, which ends the removal of a source.
RemoveMember(w) ==
    /\ At(w, "srem")
    /\ member' = member \ {Id(w)}
    /\ IF Id(w) \in Packages THEN Goto(w, "pointer") ELSE Finish(w)
    /\ UNCHANGED <<key, bucket, digest, latest, file, back, restore, history>>

\* The digest pointer is cleared if it still points at this entry: the GET ...
ReadDigest(w) ==
    /\ At(w, "pointer")
    /\ IF digest[Digest[Id(w)]] = Id(w) THEN Goto(w, "undigest") ELSE Finish(w)
    /\ UNCHANGED <<valkey, file, back, restore, history>>

\* Mutant of ClearDigest: the pointer is left behind.
ClearNoDigest(w) ==
    /\ At(w, "undigest")
    /\ Finish(w)
    /\ UNCHANGED <<valkey, file, back, restore, history>>

\* ... and the DEL.
ClearDigest(w) ==
    /\ At(w, "undigest")
    /\ digest' = [digest EXCEPT ![Digest[Id(w)]] = None]
    /\ Finish(w)
    /\ UNCHANGED <<key, member, bucket, latest, file, back, restore, history>>

RemoveEntry(w) == DeleteEntry(w) \/ RemoveMember(w) \/ ReadDigest(w) \/ ClearDigest(w)

\* A command fails, or the process dies: the operation ends where it is.
Fail(w) == /\ ~At(w, "idle")
           /\ Fault("error", {})
           /\ Finish(w)
           /\ UNCHANGED <<valkey, file, back, acked, touched, ops>>
           /\ restore' = {}

-----------------------------------------------------------------------------
\* ListEntries and ListSourceEntries of one bucket: nothing for a bucket that is not
\* registered, else the members (SSCAN) ...
ScanMembers(b) == IF b \in bucket THEN {i \in member : Bucket[i] = b} ELSE {}

\* Mutant of MgetEntries: the last batch is not read.
MgetAllButLast ==
    /\ back.pc = "mget"
    /\ \E i \in back.todo :
          back' = [back EXCEPT !.todo = @ \ {i},
                               !.got = IF key[i] = None \/ back.todo = {i} THEN @ ELSE @ \union {<<i, key[i]>>}]
    /\ UNCHANGED <<valkey, work, file, restore, history>>

\* ... and the values of their keys; one that has vanished is skipped.
MgetEntries ==
    /\ back.pc = "mget"
    /\ \E i \in back.todo :
          back' = [back EXCEPT !.todo = @ \ {i},
                               !.got = IF key[i] = None THEN @ ELSE @ \union {<<i, key[i]>>}]
    /\ UNCHANGED <<valkey, work, file, restore, history>>

\* Backup of the component of one bucket begins with its listing.
BackupStart ==
    /\ back.pc = "idle" /\ ops < MaxOps
    /\ ops' = ops + 1
    /\ \E b \in Buckets :
          /\ back' = [pc |-> "mget", bucket |-> b, todo |-> ScanMembers(b), got |-> {}]
          /\ touched' = {c \in touched : c # b \/ \E w \in Workers : Id(w) # None /\ Bucket[Id(w)] = b}
    /\ UNCHANGED <<valkey, work, file, restore, acked, seen>>

\* The groups of the listing are written, one file each; there is no group, and no
\* write, for a bucket that has no entry.
BackupEntries ==
    /\ back.pc = "mget" /\ back.todo = {}
    /\ file' = IF back.got = {} THEN file ELSE [file EXCEPT ![back.bucket] = back.got]
    /\ back' = NoBack
    /\ UNCHANGED <<valkey, work, restore, history>>

\* Valkey loses its data, or Reset deletes every key.
Reset ==
    /\ Fault("wipe", IF \E w \in Workers : ~At(w, "idle") THEN {"overlap"} ELSE {})
    /\ key' = [i \in Ids |-> None] /\ member' = {} /\ bucket' = {}
    /\ digest' = [d \in Digests |-> None] /\ latest' = [n \in Names |-> 0]
    /\ work' = [w \in Workers |-> [work[w] EXCEPT !.clean = FALSE]]
    /\ acked' = {} /\ touched' = Buckets
    /\ UNCHANGED <<file, back, restore, ops>>

\* reconcileIndexIfEmpty: a replica that starts and finds no entry upserts every one of
\* the backup.
RestoreStart ==
    /\ \A b \in Buckets : \A i \in ScanMembers(b) : key[i] = None
    /\ restore = {} /\ restore' = UNION {file[b] : b \in Buckets}
    /\ restore' # {}
    /\ UNCHANGED <<valkey, work, file, back, history>>

Restore(w) == \E e \in restore :
                  /\ Upsert(w, e[1], e[2])
                  /\ restore' = restore \ {e}
                  /\ UNCHANGED ops

Next == \/ \E w \in Workers : \/ StartUpsert(w) \/ GetSourceEntry(w) \/ UpsertEntry(w)
                              \/ StartRemove(w) \/ RemoveEntry(w) \/ Fail(w) \/ Restore(w)
        \/ BackupStart \/ MgetEntries \/ BackupEntries \/ Reset \/ RestoreStart

Spec == Init /\ [][Next]_vars

-----------------------------------------------------------------------------
Quiet(i) == \A w \in Workers : Id(w) # i
QuietName(n) == \A w \in Workers : Id(w) = None \/ Name[Id(w)] # n
Live(i) == key[i] # None
Entries(b) == {<<i, key[i]>> : i \in {i \in Ids : Bucket[i] = b /\ Live(i)}}
Highest(S) == IF S = {} THEN None ELSE CHOOSE i \in S : \A j \in S : Version[j] <= Version[i]

\* FindEntry of a name and no version, scoped to its upstream: the placement that the
\* latest-version hash names, if its key is there.
FindEntry(n) ==
    LET found == {i \in Ids : Name[i] = n /\ Version[i] = latest[n] /\ Live(i) /\ Bucket[i] \in bucket}
    IN  IF found = {} THEN None ELSE CHOOSE i \in found : TRUE

\* The same without an upstream: the highest version among the bucket's members.
ScanPkgBucketByUpstream(n) ==
    LET best == Highest({i \in member : Name[i] = n /\ Bucket[i] \in bucket})
    IN  IF best # None /\ Live(best) THEN best ELSE None

\* An upsert that has succeeded undisturbed by a removal of the same placement is seen by
\* every later listing, until the placement is removed or the index wiped: whatever
\* other upserts, failed ones included, run before, beside or after it.
AckedIsListed == \A i \in acked : Live(i) /\ i \in ScanMembers(Bucket[i])

\* Both ways of FindEntry to the highest version, through the latest-version hash and
\* by scanning the bucket, find the highest entry there is, as long as nothing was
\* removed, no operation failed and no two upserts of a name overlapped.
FindsHighest ==
    \A n \in Names : seen = {} /\ QuietName(n) =>
        /\ FindEntry(n) = Highest({i \in Ids : Name[i] = n /\ Live(i)})
        /\ ScanPkgBucketByUpstream(n) = FindEntry(n)

\* A digest never points at a placement that was removed, unless operations on a name
\* overlapped or one failed half way.
DigestResolves ==
    seen \intersect {"error", "overlap"} = {} =>
        \A d \in Digests : digest[d] # None /\ Quiet(digest[d]) => Live(digest[d])

\* FilesDownloaded of a source is never lost by an upsert, unless upserts of the same
\* name overlap: the read and the write of UpsertSourceEntry are separate commands.
DownloadedStays ==
    \A i \in Sources : key[i] = "downloaded" /\ "overlap" \notin seen => key'[i] # "listed"
DownloadedSticks == [][DownloadedStays]_vars

\* A backup holds exactly the entries of a bucket that has not been touched since it was
\* taken: unless the bucket has become empty.
BackupHolds ==
    \A b \in Buckets \ touched :
        back.bucket # b /\ seen \intersect {"error", "overlap"} = {} =>
            file[b] = Entries(b) \/ Entries(b) = {}

\* The index on Valkey is safe: its types, and what UpsertEntry, FindEntry, RemoveEntry and
\* Backup promise, together.
ValkeyIndexSafe == TypeOK /\ AckedIsListed /\ FindsHighest /\ DigestResolves /\ BackupHolds

=============================================================================
