------------------------- MODULE ValkeyStoreProofs -------------------------
(***************************************************************************)
(* Proofs about ValkeyStore for any number of placements, buckets, workers *)
(* and operations: what an acknowledged upsert, a lookup, a digest, a      *)
(* backup and FilesDownloaded can be relied on for, while every change is  *)
(* a sequence of commands that interleave.                                 *)
(***************************************************************************)
EXTENDS ValkeyStore, TLAPS

PCs == {"idle", "get", "set", "sadd", "register", "digest", "hget", "hset",
        "del", "srem", "pointer", "undigest"}
Work == [pc : PCs, id : Ids \union {None}, val : Values \union {None}, got : Nat, clean : BOOLEAN]
Busy(w) == work[w].pc # "idle"

\* An upsert past its SET, past the SADD of the member, and past that of the bucket; a
\* removal past its DEL.
PastSet(w) == work[w].pc \in {"sadd", "register", "digest", "hget", "hset"}
PastAdd(w) == work[w].pc \in {"register", "digest", "hget", "hset"}
PastRegister(w) == work[w].pc \in {"digest", "hget", "hset"}
PastDel(w) == work[w].pc \in {"srem", "pointer", "undigest"}

\* What a worker carries at each command.
WorkInv ==
    \A w \in Workers :
        /\ ~Busy(w) => Id(w) = None /\ ~work[w].clean
        /\ Busy(w) => Id(w) \in Ids
        /\ work[w].pc \in {"get", "set"} => work[w].val \in Values
        /\ work[w].pc \in {"digest", "pointer", "undigest"} => Id(w) \in Packages
        /\ Removing(w) => ~work[w].clean

\* No removal is under way of a placement that is acknowledged or about to be.
Unremoved(i) == \A x \in Workers : Id(x) = i => ~Removing(x)
AckInv ==
    /\ \A w \in Workers : work[w].clean =>
          /\ Unremoved(Id(w))
          /\ PastSet(w) => Live(Id(w))
          /\ PastAdd(w) => Id(w) \in member
          /\ PastRegister(w) => Bucket[Id(w)] \in bucket
    /\ \A i \in acked : Live(i) /\ i \in member /\ Bucket[i] \in bucket /\ Unremoved(i)

\* Until operations on a name have overlapped, each name has one worker, and what an
\* upsert of a source is about to write keeps FilesDownloaded.
AloneInv ==
    "overlap" \notin seen =>
        /\ \A w, x \in Workers : Busy(w) /\ Busy(x) /\ w # x => Name[Id(w)] # Name[Id(x)]
        /\ \A w \in Workers : At(w, "set") /\ Id(w) \in Sources /\ key[Id(w)] = "downloaded"
              => work[w].val = "downloaded"

\* While no operation failed half way and none overlapped: what a worker has done so far is
\* there to see; an entry that no worker is at is listed; and a digest points at an entry,
\* or at one whose removal has not got to the digest yet.
Smooth == seen \intersect {"error", "overlap"} = {}
Done(w) ==
    /\ PastSet(w) => Live(Id(w))
    /\ PastAdd(w) => Id(w) \in member
    /\ PastRegister(w) => Bucket[Id(w)] \in bucket
    /\ PastDel(w) => ~Live(Id(w))
Kept(i) == Live(i) /\ Quiet(i) => i \in member /\ Bucket[i] \in bucket
Pointed(d) ==
    digest[d] # None =>
        /\ Digest[digest[d]] = d
        /\ Live(digest[d]) \/ \E x \in Workers : Id(x) = digest[d] /\ PastDel(x)
LiveInv ==
    Smooth => /\ \A w \in Workers : Done(w)
              /\ \A i \in Ids : Kept(i)
              /\ \A d \in Digests : Pointed(d)

\* While nothing at all went wrong and nothing was removed: the latest-version hash has, for
\* every name, the version of an entry there is, and none that is settled is higher.
LatestInv ==
    seen = {} =>
        /\ \A w \in Workers : ~Removing(w)
        /\ \A i \in member : Live(i)
        /\ \A i \in Ids : Live(i) /\ Quiet(i) => Version[i] <= latest[Name[i]]
        /\ \A w \in Workers : At(w, "hset") => latest[Name[Id(w)]] < Version[Id(w)]
        /\ \A n \in Names : latest[n] # 0 =>
              \E i \in Ids : Name[i] = n /\ Version[i] = latest[n] /\ Live(i) /\ Bucket[i] \in bucket

\* No worker is at a bucket that is not touched; and while no operation failed half way and
\* none overlapped, what Backup has read of such a bucket and what it still has to read are
\* its entries.
Ahead == {<<i, key[i]>> : i \in {i \in back.todo : Live(i)}}
BackInv ==
    /\ \A w \in Workers : Busy(w) => Bucket[Id(w)] \in touched
    /\ IF back.pc = "idle" THEN back = NoBack ELSE back.bucket \in Buckets
    /\ \A i \in back.todo : Bucket[i] = back.bucket
    /\ Smooth /\ back.pc = "mget" /\ back.bucket \notin touched =>
          back.got \union Ahead = Entries(back.bucket)
    /\ BackupHolds

-----------------------------------------------------------------------------
(* What the steps change *)

\* A worker's commands are those of an operation it is in.
LEMMA StepsAreBusy ==
    ASSUME NEW w \in Workers, GetSourceEntry(w) \/ UpsertEntry(w) \/ RemoveEntry(w) \/ Fail(w)
    PROVE  Busy(w)
<1>1. CASE GetSourceEntry(w) \/ UpsertEntry(w)
  BY Zenon, <1>1 DEF GetSourceEntry, UpsertEntry, SetEntry, AddMember, RegisterBucket, IndexDigest, ReadLatest,
              BumpLatest, At, Busy
<1>2. CASE RemoveEntry(w) \/ Fail(w)
  BY Zenon, <1>2 DEF RemoveEntry, DeleteEntry, RemoveMember, ReadDigest, ClearDigest, Fail, At, Busy
<1> QED
  BY Zenon, <1>1, <1>2

\* The commands of an upsert.
LEMMA UpsertChanges ==
    ASSUME NEW w \in Workers, UpsertEntry(w)
    PROVE  /\ UNCHANGED <<file, back, restore, touched, seen, ops>>
           /\ ~SetEntry(w) => key' = key
           /\ \/ work' = [work EXCEPT ![w] = Idle]
              \/ \E pc \in {"sadd", "register", "digest", "hget", "hset"} : Goto(w, pc)
<1>1. CASE SetEntry(w)
  BY Zenon, <1>1 DEF SetEntry, history
<1>2. CASE AddMember(w)
  BY Zenon, <1>2 DEF AddMember, history
<1>3. CASE RegisterBucket(w)
  BY Zenon, <1>3 DEF RegisterBucket, history
<1>4. CASE IndexDigest(w)
  BY Zenon, <1>4 DEF IndexDigest, history
<1>5. CASE ReadLatest(w)
  BY Zenon, <1>5 DEF ReadLatest, Succeed, valkey
<1>6. CASE BumpLatest(w)
  BY Zenon, <1>6 DEF BumpLatest, Succeed
<1> QED
  BY Zenon, <1>1, <1>2, <1>3, <1>4, <1>5, <1>6 DEF UpsertEntry

\* The commands of a removal.
LEMMA RemoveChanges ==
    ASSUME NEW w \in Workers, RemoveEntry(w)
    PROVE  /\ UNCHANGED <<bucket, latest, file, back, restore, acked, touched, seen, ops>>
           /\ ~DeleteEntry(w) => key' = key
           /\ Removing(w)
           /\ \/ work' = [work EXCEPT ![w] = Idle] /\ ~At(w, "del")
              \/ \E pc \in {"srem", "pointer", "undigest"} : Goto(w, pc)
<1>1. CASE DeleteEntry(w)
  BY Zenon, <1>1 DEF DeleteEntry, history, At, Removing
<1>2. CASE RemoveMember(w)
  BY Zenon, <1>2 DEF RemoveMember, Finish, history, At, Removing
<1>3. CASE ReadDigest(w)
  BY Zenon, <1>3 DEF ReadDigest, Finish, valkey, history, At, Removing
<1>4. CASE ClearDigest(w)
  BY Zenon, <1>4 DEF ClearDigest, Finish, history, At, Removing
<1> QED
  BY Zenon, <1>1, <1>2, <1>3, <1>4 DEF RemoveEntry

\* The end of an operation whose command fails.
LEMMA FailChanges ==
    ASSUME NEW w \in Workers, Fail(w)
    PROVE  /\ UNCHANGED <<key, member, bucket, digest, latest, file, back, acked, touched, ops>>
           /\ work' = [work EXCEPT ![w] = Idle]
           /\ restore' = {} /\ seen' = seen \union {"error"}
BY Zenon DEF Fail, Fault, Finish, valkey

\* Backup and the start of Restore leave the index and the workers alone.
LEMMA BackupChanges ==
    ASSUME BackupStart \/ MgetEntries \/ BackupEntries \/ RestoreStart \/ UNCHANGED vars
    PROVE  UNCHANGED <<key, member, bucket, digest, latest, work, acked, seen>>
<1>1. CASE BackupStart
  BY Zenon, <1>1 DEF BackupStart, valkey
<1>2. CASE MgetEntries
  BY Zenon, <1>2 DEF MgetEntries, valkey, history
<1>3. CASE BackupEntries
  BY Zenon, <1>3 DEF BackupEntries, valkey, history
<1>4. CASE RestoreStart
  BY Zenon, <1>4 DEF RestoreStart, valkey, history
<1>5. CASE UNCHANGED vars
  BY Zenon, <1>5 DEF vars, valkey, history
<1> QED
  BY Zenon, <1>1, <1>2, <1>3, <1>4, <1>5

\* An upsert is started by a caller or by Restore.
LEMMA UpsertStarts ==
    ASSUME TypeOK, NEW w \in Workers, StartUpsert(w) \/ Restore(w)
    PROVE  \E i \in Ids, val \in Values : Upsert(w, i, val)
<1>1. CASE StartUpsert(w)
  BY Zenon, <1>1 DEF StartUpsert, Values
<1>2. CASE Restore(w)
  BY Zenon, <1>2 DEF Restore, TypeOK
<1> QED
  BY Zenon, <1>1, <1>2

\* The faults and overlaps of the past stay.
LEMMA SeenGrows ==
    ASSUME [Next]_vars
    PROVE  seen \subseteq seen'
<1>1. ASSUME NEW w \in Workers, StartUpsert(w) \/ Restore(w) PROVE seen \subseteq seen'
  BY Zenon, <1>1 DEF StartUpsert, Restore, Upsert
<1>2. ASSUME NEW w \in Workers, GetSourceEntry(w) \/ UpsertEntry(w) \/ RemoveEntry(w) \/ Fail(w)
      PROVE  seen \subseteq seen'
  BY Zenon, <1>2, UpsertChanges, RemoveChanges, FailChanges DEF GetSourceEntry, history
<1>3. ASSUME NEW w \in Workers, StartRemove(w) PROVE seen \subseteq seen'
  BY Zenon, <1>3 DEF StartRemove
<1>4. CASE Reset
  BY Zenon, <1>4 DEF Reset, Fault
<1>5. CASE BackupStart \/ MgetEntries \/ BackupEntries \/ RestoreStart \/ UNCHANGED vars
  BY Zenon, <1>5, BackupChanges
<1> QED
  BY Zenon, <1>1, <1>2, <1>3, <1>4, <1>5 DEF Next

-----------------------------------------------------------------------------
(* Types *)

\* What a worker's steps do to the workers.
LEMMA GotoMoves ==
    ASSUME TypeOK, NEW w \in Workers, NEW pc \in PCs, Goto(w, pc)
    PROVE  /\ work' \in [Workers -> Work]
           /\ work'[w].pc = pc /\ work'[w].id = work[w].id /\ work'[w].val = work[w].val
           /\ work'[w].clean = work[w].clean
           /\ \A x \in Workers \ {w} : work'[x] = work[x]
<1>1. work \in [Workers -> Work]
  BY Zenon DEF TypeOK, Work, PCs
<1>2. work[w] \in Work /\ work'[w] = [work[w] EXCEPT !.pc = pc]
  BY Zenon, <1>1 DEF Goto
<1>3. \A x \in Workers \ {w} : work'[x] = work[x]
  BY Zenon, <1>1 DEF Goto
<1>4. /\ work'[w].pc = pc /\ work'[w].id = work[w].id /\ work'[w].val = work[w].val
      /\ work'[w] \in Work
  BY Zenon, <1>2 DEF Work
<1>5. work'[w].clean = work[w].clean
  BY Zenon, <1>2 DEF Work
<1>6. work' \in [Workers -> Work]
  BY Zenon, <1>1, <1>3, <1>4 DEF Goto
<1> QED
  BY Zenon, <1>3, <1>4, <1>5, <1>6

\* The end of an operation.
LEMMA IdleMoves ==
    ASSUME TypeOK, NEW w \in Workers, work' = [work EXCEPT ![w] = Idle]
    PROVE  /\ work' \in [Workers -> Work]
           /\ work'[w] = Idle
           /\ \A x \in Workers \ {w} : work'[x] = work[x]
<1>1. Idle \in Work
  BY Zenon DEF Idle, Work, PCs
<1>2. work \in [Workers -> Work]
  BY Zenon DEF TypeOK, Work, PCs
<1> QED
  BY Zenon, <1>1, <1>2

\* The start of an upsert, by a caller or by Restore.
LEMMA UpsertMoves ==
    ASSUME TypeOK, NEW w \in Workers, NEW i \in Ids, NEW val \in Values, Upsert(w, i, val)
    PROVE  /\ work' \in [Workers -> Work]
           /\ work'[w].pc = (IF i \in Sources THEN "get" ELSE "set")
           /\ work'[w].id = i /\ work'[w].val = val
           /\ work'[w].clean => Unremoved(i)
           /\ \A x \in Workers \ {w} : work'[x] = work[x]
<1> DEFINE alone == ~\E x \in Workers : Id(x) = i /\ Removing(x)
           new == [pc |-> IF i \in Sources THEN "get" ELSE "set", id |-> i, val |-> val,
                   got |-> 0, clean |-> alone]
<1>1. work \in [Workers -> Work]
  BY Zenon DEF TypeOK, Work, PCs
<1>2. alone \in BOOLEAN /\ (alone => Unremoved(i))
  BY Zenon DEF Unremoved
<1>3. work' = [work EXCEPT ![w] = new]
  BY Zenon DEF Upsert
<1> HIDE DEF alone
<1>4. new \in Work
  BY Zenon, <1>2 DEF Work, PCs
<1>5. new.pc = (IF i \in Sources THEN "get" ELSE "set") /\ new.id = i /\ new.val = val /\ new.clean = alone
  BY Zenon
<1> HIDE DEF new
<1> QED
  BY Zenon, <1>1, <1>2, <1>3, <1>4, <1>5

\* The GET of a source's upsert.
LEMMA GetMoves ==
    ASSUME TypeOK, NEW w \in Workers, GetSourceEntry(w)
    PROVE  /\ work' \in [Workers -> Work]
           /\ work'[w].pc = "set" /\ work'[w].id = work[w].id
           /\ work'[w].val = (IF key[Id(w)] = "downloaded" THEN "downloaded" ELSE work[w].val)
           /\ work'[w].clean = work[w].clean
           /\ \A x \in Workers \ {w} : work'[x] = work[x]
<1> DEFINE v == IF key[Id(w)] = "downloaded" THEN "downloaded" ELSE work[w].val
<1>1. work \in [Workers -> Work]
  BY Zenon DEF TypeOK, Work, PCs
<1>2. /\ work' = [work EXCEPT ![w] = [work[w] EXCEPT !.pc = "set", !.val = v]]
      /\ v \in Values \union {None}
  BY <1>1, Zenon DEF GetSourceEntry, Work, Values
<1> HIDE DEF v
<1>3. work'[w] = [work[w] EXCEPT !.pc = "set", !.val = v] /\ work[w] \in Work
  BY Zenon, <1>1, <1>2
<1>4. /\ work'[w] \in Work /\ work'[w].pc = "set" /\ work'[w].id = work[w].id /\ work'[w].val = v
  <2>1. v \in Values \union {None} /\ "set" \in PCs
    BY Zenon, <1>2 DEF PCs
  <2>2. /\ work'[w].pc = "set" /\ work'[w].id = work[w].id /\ work'[w].val = v
    BY Zenon, <1>3 DEF Work
  <2>3. work'[w] \in Work
    BY <1>3, <2>1, Zenon DEF Work
  <2> QED
    BY Zenon, <2>2, <2>3
<1>5. work'[w].clean = work[w].clean
  BY Zenon, <1>3 DEF Work
<1>6. \A x \in Workers \ {w} : work'[x] = work[x]
  BY Zenon, <1>1, <1>2
<1>7. work' \in [Workers -> Work]
  BY Zenon, <1>1, <1>2, <1>3, <1>4
<1> QED
  BY Zenon, <1>4, <1>5, <1>6, <1>7 DEF v

\* The start of a removal disturbs the upserts of its placement.
LEMMA RemoveMoves ==
    ASSUME TypeOK, NEW w \in Workers, StartRemove(w)
    PROVE  \E i \in Ids :
           /\ ~Busy(w)
           /\ work' \in [Workers -> Work]
           /\ work'[w].pc = "del" /\ work'[w].id = i /\ ~work'[w].clean
           /\ \A x \in Workers \ {w} :
                 /\ work'[x].pc = work[x].pc /\ work'[x].id = work[x].id
                 /\ work'[x].val = work[x].val
                 /\ work'[x].clean => work[x].clean /\ Id(x) # i
           /\ acked' = acked \ {i} /\ touched' = touched \union {Bucket[i]}
           /\ seen' = seen \union {"removed"} \union Overlap(i)
           /\ UNCHANGED <<key, member, bucket, digest, latest, file, back, restore>>
           /\ ops' = ops + 1 /\ ops < MaxOps
<1> PICK i \in Ids :
        /\ At(w, "idle") /\ ops < MaxOps
        /\ ops' = ops + 1
        /\ work' = [Disturb(i) EXCEPT ![w] = [Idle EXCEPT !.pc = "del", !.id = i]]
        /\ acked' = acked \ {i} /\ touched' = touched \union {Bucket[i]}
        /\ seen' = seen \union {"removed"} \union Overlap(i)
        /\ UNCHANGED <<valkey, file, back, restore>>
  BY Zenon DEF StartRemove
<1> DEFINE new == [Idle EXCEPT !.pc = "del", !.id = i]
<1>1. work \in [Workers -> Work]
  BY Zenon DEF TypeOK, Work, PCs
<1>2. new \in Work /\ new.pc = "del" /\ new.id = i /\ ~new.clean
  BY Zenon DEF Idle, Work, PCs
<1> HIDE DEF new
<1>3. \A x \in Workers : [work[x] EXCEPT !.clean = FALSE] \in Work
  BY <1>1, Zenon DEF Work
<1>4. Disturb(i) \in [Workers -> Work]
  BY Zenon, <1>1, <1>3 DEF Disturb
<1>5. work' \in [Workers -> Work] /\ work'[w] = new
  BY Zenon, <1>2, <1>4 DEF new
<1>6. ASSUME NEW x \in Workers \ {w}
      PROVE  /\ work'[x].pc = work[x].pc /\ work'[x].id = work[x].id
             /\ work'[x].val = work[x].val
             /\ work'[x].clean => work[x].clean /\ Id(x) # i
  <2>1. work'[x] = IF Id(x) = i THEN [work[x] EXCEPT !.clean = FALSE] ELSE work[x]
    BY <1>4, Zenon DEF Disturb
  <2>2. CASE Id(x) = i
    <3>1. work'[x] = [work[x] EXCEPT !.clean = FALSE] /\ work[x] \in Work
      BY Zenon, <1>1, <2>1, <2>2
    <3>2. ~work'[x].clean
      BY Zenon, <3>1 DEF Work
    <3> QED
      BY <3>1, <3>2 DEF Work
  <2>3. CASE Id(x) # i
    BY Zenon, <2>1, <2>3
  <2> QED
    BY Zenon, <2>2, <2>3
<1>7. ~Busy(w) /\ UNCHANGED <<key, member, bucket, digest, latest, file, back, restore>>
  BY Zenon DEF At, Busy, valkey
<1> QED
  BY <1>2, <1>5, <1>6, <1>7, Zenon

\* A wipe disturbs every operation.
LEMMA ResetMoves ==
    ASSUME TypeOK, Reset
    PROVE  /\ work' \in [Workers -> Work]
           /\ \A x \in Workers : /\ work'[x].pc = work[x].pc /\ work'[x].id = work[x].id
                                 /\ work'[x].val = work[x].val /\ ~work'[x].clean
<1>1. work \in [Workers -> Work]
  BY Zenon DEF TypeOK, Work, PCs
<1>2. \A x \in Workers : work'[x] = [work[x] EXCEPT !.clean = FALSE]
  BY Zenon DEF Reset
<1>3. ASSUME NEW x \in Workers
      PROVE  /\ work'[x].pc = work[x].pc /\ work'[x].id = work[x].id
             /\ work'[x].val = work[x].val /\ work'[x] \in Work
  <2>1. work[x] \in Work /\ work'[x] = [work[x] EXCEPT !.clean = FALSE]
    BY Zenon, <1>1, <1>2
  <2> QED
    BY <2>1, Zenon DEF Work
<1>4. \A x \in Workers : ~work'[x].clean
  BY <1>1, <1>2, Zenon DEF Work
<1>5. work' \in [Workers -> Work]
  BY Zenon, <1>3 DEF Reset
<1> QED
  BY Zenon, <1>3, <1>4, <1>5

\* Every step keeps the types, and what the workers carry.
LEMMA WorkStep ==
    ASSUME Placements, TypeOK, WorkInv, [Next]_vars
    PROVE  TypeOK' /\ WorkInv'
<1> USE DEF TypeOK
<1>0. work \in [Workers -> Work] /\ None \notin Ids
  BY Zenon DEF Work, PCs, Placements
<1>b. ASSUME work' \in [Workers -> Work],
             UNCHANGED <<key, member, bucket, digest, latest, file, back, restore, acked, touched, seen, ops>>
      PROVE  TypeOK'
  BY Zenon, <1>b DEF Work, PCs
<1>1. ASSUME NEW w \in Workers, NEW i \in Ids, NEW val \in Values, Upsert(w, i, val),
             restore' \subseteq restore, ops' \in 0 .. MaxOps
      PROVE  TypeOK' /\ WorkInv'
  <2>1. TypeOK'
    <3>1. work' \in [Workers -> Work]
      BY Zenon, <1>1, UpsertMoves
    <3>2. touched' \subseteq Buckets
      BY Zenon, <1>1 DEF Upsert, Buckets
    <3>3. seen' \subseteq {"error", "wipe", "removed", "overlap"}
      BY Zenon, <1>1 DEF Upsert, Overlap
    <3>4. UNCHANGED <<key, member, bucket, digest, latest, file, back, acked>>
      BY Zenon, <1>1 DEF Upsert, valkey
    <3> QED
      BY Zenon, <1>1, <3>1, <3>2, <3>3, <3>4 DEF Work, PCs
  <2>2. WorkInv'
    BY <1>0, <1>1, UpsertMoves DEF WorkInv, Busy, Id, Removing
  <2> QED
    BY Zenon, <2>1, <2>2
<1>2. ASSUME NEW w \in Workers, StartUpsert(w) \/ Restore(w) PROVE TypeOK' /\ WorkInv'
  <2>1. CASE StartUpsert(w)
    <3>1. PICK i \in Ids : \E val \in IF i \in Sources THEN Values ELSE {"listed"} : Upsert(w, i, val)
      BY Zenon, <2>1 DEF StartUpsert
    <3>2. PICK val \in Values : Upsert(w, i, val)
      BY Zenon, <3>1 DEF Values
    <3>3. restore' = restore /\ ops' \in 0 .. MaxOps
      BY <2>1 DEF StartUpsert, Placements
    <3> QED
      BY Zenon, <1>1, <3>2, <3>3
  <2>2. CASE Restore(w)
    <3>1. PICK e \in restore : Upsert(w, e[1], e[2]) /\ restore' = restore \ {e} /\ ops' = ops
      BY Zenon, <2>2 DEF Restore
    <3> QED
      BY Zenon, <1>1, <3>1
  <2> QED
    BY Zenon, <1>2, <2>1, <2>2
<1>3. ASSUME NEW w \in Workers, GetSourceEntry(w) PROVE TypeOK' /\ WorkInv'
  <2>1. TypeOK'
    BY Zenon, <1>3, <1>b, GetMoves DEF GetSourceEntry, valkey, history
  <2>2. work[w].pc = "get" /\ work[w].id \in Ids /\ work[w].val \in Values
    BY Zenon, <1>3 DEF WorkInv, Busy, Id, GetSourceEntry, At
  <2>3. /\ work'[w].pc = "set" /\ work'[w].id \in Ids /\ work'[w].val \in Values
        /\ \A x \in Workers \ {w} : work'[x] = work[x]
    BY Zenon, <1>3, <2>2, GetMoves DEF Values
  <2>4. WorkInv'
    BY <2>3 DEF WorkInv, Busy, Id, Removing
  <2> QED
    BY Zenon, <2>1, <2>4
<1>4. ASSUME NEW w \in Workers, NEW pc \in PCs, Goto(w, pc), Busy(w), pc \notin {"idle", "get", "set", "del"},
             pc \in {"digest", "pointer", "undigest"} => Id(w) \in Packages,
             pc \in {"srem", "pointer", "undigest"} => Removing(w)
      PROVE  work' \in [Workers -> Work] /\ WorkInv'
  BY <1>0, <1>4, GotoMoves DEF WorkInv, Busy, Id, Removing
<1>5. ASSUME NEW w \in Workers, work' = [work EXCEPT ![w] = Idle]
      PROVE  work' \in [Workers -> Work] /\ WorkInv'
  <2>1. work' \in [Workers -> Work] /\ work'[w] = Idle /\ \A x \in Workers \ {w} : work'[x] = work[x]
    BY <1>5, IdleMoves, Zenon
  <2>2. Idle.pc = "idle" /\ Idle.id = None /\ ~Idle.clean
    BY Zenon DEF Idle
  <2> QED
    BY <1>0, <2>1, <2>2 DEF WorkInv, Busy, Id, Removing
<1>6. ASSUME NEW w \in Workers, UpsertEntry(w) PROVE TypeOK' /\ WorkInv'
  <2>0. work[w].pc \in PCs \ {"idle"} => Busy(w)
    BY Zenon DEF Busy
  <2>1. CASE SetEntry(w)
    <3>1. work' \in [Workers -> Work] /\ WorkInv'
      BY Zenon, <1>4, <2>0, <2>1 DEF SetEntry, At, PCs
    <3>2. key' \in [Ids -> Values \union {None}]
      BY Zenon, <2>1 DEF SetEntry, WorkInv, At, Busy, Id
    <3> QED
      BY Zenon, <2>1, <3>1, <3>2 DEF SetEntry, Work, PCs, history
  <2>2. CASE AddMember(w)
    <3>1. work' \in [Workers -> Work] /\ WorkInv'
      BY Zenon, <1>4, <2>0, <2>2 DEF AddMember, At, PCs
    <3>2. Id(w) \in Ids
      BY Zenon, <2>2 DEF AddMember, WorkInv, At, Busy
    <3> QED
      BY Zenon, <2>2, <3>1, <3>2 DEF AddMember, Work, PCs, history
  <2>3. CASE RegisterBucket(w)
    <3>1. work' \in [Workers -> Work] /\ WorkInv'
      BY Zenon, <1>4, <2>0, <2>3 DEF RegisterBucket, At, PCs
    <3>2. Bucket[Id(w)] \in Buckets
      BY Zenon, <2>3 DEF RegisterBucket, WorkInv, At, Busy, Buckets
    <3> QED
      BY Zenon, <2>3, <3>1, <3>2 DEF RegisterBucket, Work, PCs, history
  <2>4. CASE IndexDigest(w)
    <3>1. work' \in [Workers -> Work] /\ WorkInv'
      BY Zenon, <1>4, <2>0, <2>4 DEF IndexDigest, At, PCs
    <3>2. Id(w) \in Packages
      BY Zenon, <2>4 DEF IndexDigest, WorkInv, At
    <3>3. digest' \in [Digests -> Packages \union {None}]
      BY <2>4, <3>2, Zenon DEF IndexDigest
    <3> QED
      BY Zenon, <2>4, <3>1, <3>3 DEF IndexDigest, Work, PCs, history
  <2>5. CASE ReadLatest(w) \/ BumpLatest(w)
    <3>1. work' \in [Workers -> Work] /\ WorkInv'
      BY Zenon, <1>4, <1>5, <2>0, <2>5 DEF ReadLatest, BumpLatest, Succeed, At, PCs
    <3>2. Id(w) \in Ids /\ Name[Id(w)] \in Names
      BY Zenon, <2>5 DEF ReadLatest, BumpLatest, WorkInv, At, Busy, Names
    <3>3. acked' \subseteq Ids
      BY <2>5, <3>2 DEF ReadLatest, BumpLatest, Succeed
    <3>4. latest' \in [Names -> Nat]
      BY <2>5, <3>2 DEF ReadLatest, BumpLatest, Placements, valkey
    <3>5. UNCHANGED <<key, member, bucket, digest, file, back, restore, touched, seen, ops>>
      BY Zenon, <2>5 DEF ReadLatest, BumpLatest, valkey
    <3> QED
      BY Zenon, <3>1, <3>3, <3>4, <3>5 DEF Work, PCs
  <2> QED
    BY Zenon, <1>6, <2>1, <2>2, <2>3, <2>4, <2>5 DEF UpsertEntry
<1>7. ASSUME NEW w \in Workers, StartRemove(w) PROVE TypeOK' /\ WorkInv'
  <2>1. PICK i \in Ids :
           /\ work' \in [Workers -> Work]
           /\ work'[w].pc = "del" /\ work'[w].id = i /\ ~work'[w].clean
           /\ \A x \in Workers \ {w} :
                 /\ work'[x].pc = work[x].pc /\ work'[x].id = work[x].id
                 /\ work'[x].val = work[x].val
                 /\ work'[x].clean => work[x].clean /\ Id(x) # i
           /\ acked' = acked \ {i} /\ touched' = touched \union {Bucket[i]}
           /\ seen' = seen \union {"removed"} \union Overlap(i)
           /\ UNCHANGED <<key, member, bucket, digest, latest, file, back, restore>>
           /\ ops' = ops + 1 /\ ops < MaxOps
    BY <1>7, RemoveMoves
  <2>2. TypeOK'
    <3>1. touched' \subseteq Buckets /\ ops' \in 0 .. MaxOps
      BY <2>1 DEF Buckets, Placements
    <3>2. seen' \subseteq {"error", "wipe", "removed", "overlap"}
      BY Zenon, <2>1 DEF Overlap
    <3> QED
      BY Zenon, <2>1, <3>1, <3>2 DEF Work, PCs
  <2>3. WorkInv'
    BY <2>1 DEF WorkInv, Busy, Id, Removing
  <2> QED
    BY Zenon, <2>2, <2>3
<1>8. ASSUME NEW w \in Workers, RemoveEntry(w) \/ Fail(w) PROVE TypeOK' /\ WorkInv'
  <2>1. Busy(w) /\ Id(w) \in Ids
    BY Zenon, <1>8, StepsAreBusy DEF WorkInv
  <2>2. work' \in [Workers -> Work] /\ WorkInv'
    <3>1. CASE work' = [work EXCEPT ![w] = Idle]
      BY <1>5, <3>1, Zenon
    <3>2. CASE DeleteEntry(w) \/ (RemoveMember(w) /\ Id(w) \in Packages /\ Goto(w, "pointer"))
               \/ (ReadDigest(w) /\ Goto(w, "undigest"))
      <4>1. Removing(w) /\ (ReadDigest(w) => Id(w) \in Packages)
        BY Zenon, <3>2 DEF DeleteEntry, RemoveMember, ReadDigest, At, Removing, WorkInv
      <4> QED
        BY Zenon, <1>4, <2>1, <3>2, <4>1 DEF DeleteEntry, PCs
    <3> QED
      BY Zenon, <1>8, <3>1, <3>2, FailChanges DEF RemoveEntry, RemoveMember, ReadDigest, ClearDigest, Finish
  <2>3. key' \in [Ids -> Values \union {None}] /\ member' \subseteq Ids /\ digest' \in [Digests -> Packages \union {None}]
    BY Zenon, <1>8 DEF RemoveEntry, DeleteEntry, RemoveMember, ReadDigest, ClearDigest, Fail, valkey
  <2>4. seen' \subseteq {"error", "wipe", "removed", "overlap"} /\ restore' \subseteq Ids \X Values
    BY <1>8, RemoveChanges, FailChanges, Zenon
  <2>5. UNCHANGED <<bucket, latest, file, back, acked, touched, ops>>
    BY Zenon, <1>8, RemoveChanges, FailChanges
  <2> QED
    BY Zenon, <2>2, <2>3, <2>4, <2>5 DEF Work, PCs
<1>9. CASE Reset
  <2>1. work' \in [Workers -> Work] /\ WorkInv'
    BY <1>9, ResetMoves DEF WorkInv, Busy, Id, Removing
  <2>2. seen' \subseteq {"error", "wipe", "removed", "overlap"}
    BY Zenon, <1>9 DEF Reset, Fault
  <2> QED
    BY Zenon, <1>9, <2>1, <2>2 DEF Reset, Work, PCs
<1>10. CASE BackupStart \/ MgetEntries \/ BackupEntries \/ RestoreStart \/ UNCHANGED vars
  <2>1. UNCHANGED <<key, member, bucket, digest, latest, work, acked, seen>>
    BY Zenon, <1>10, BackupChanges
  <2>2. WorkInv'
    BY <2>1, Zenon DEF WorkInv, Busy, Id, Removing
  <2>3. touched' \subseteq Buckets /\ ops' \in 0 .. MaxOps
    <3>1. CASE BackupStart
      <4>1. touched' \subseteq touched
        BY Zenon, <3>1 DEF BackupStart
      <4>2. ops' = ops + 1 /\ ops < MaxOps /\ MaxOps \in Nat
        BY Zenon, <3>1 DEF BackupStart, Placements
      <4> QED
        BY <4>1, <4>2
    <3>2. CASE UNCHANGED history
      BY <3>2, Zenon DEF history
    <3> QED
      BY <1>10, <3>1, <3>2, Zenon DEF MgetEntries, BackupEntries, RestoreStart, vars
  <2>4. restore' \subseteq Ids \X Values
    <3>1. CASE RestoreStart
      <4>1. restore' = UNION {file[b] : b \in Buckets}
        BY Zenon, <3>1 DEF RestoreStart
      <4>2. \A b \in Buckets : file[b] \subseteq Ids \X Values
        BY Zenon
      <4> HIDE DEF TypeOK
      <4> QED
        BY Zenon, <4>1, <4>2
    <3>2. CASE restore' = restore
      BY <3>2, Zenon
    <3> QED
      BY <1>10, <3>1, <3>2, Zenon DEF BackupStart, MgetEntries, BackupEntries, vars
  <2>5. file' \in [Buckets -> SUBSET (Ids \X Values)]
    BY <1>10, Zenon DEF BackupStart, MgetEntries, BackupEntries, RestoreStart, vars
  <2>6. back' \in [pc : {"idle", "mget"}, bucket : Buckets \union {None},
                   todo : SUBSET Ids, got : SUBSET (Ids \X Values)]
    <3>1. CASE BackupStart
      BY <3>1 DEF BackupStart, ScanMembers
    <3>2. CASE MgetEntries
      <4>1. PICK i \in back.todo :
               back' = [back EXCEPT !.todo = @ \ {i},
                                    !.got = IF key[i] = None THEN @ ELSE @ \union {<<i, key[i]>>}]
        BY Zenon, <3>2 DEF MgetEntries
      <4>2. (IF key[i] = None THEN back.got ELSE back.got \union {<<i, key[i]>>}) \in SUBSET (Ids \X Values)
        OBVIOUS
      <4> QED
        BY <4>1, <4>2, Zenon
    <3>3. CASE BackupEntries
      BY <3>3, Zenon DEF BackupEntries, NoBack
    <3>4. CASE UNCHANGED back
      BY Zenon, <3>4
    <3> QED
      BY Zenon, <1>10, <3>1, <3>2, <3>3, <3>4 DEF RestoreStart, vars
  <2> QED
    BY Zenon, <2>1, <2>2, <2>3, <2>4, <2>5, <2>6
<1> QED
  BY Zenon, <1>2, <1>3, <1>6, <1>7, <1>8, <1>9, <1>10 DEF Next

-----------------------------------------------------------------------------
(* Acknowledged upserts *)

\* Every step keeps what an acknowledged upsert rests on: a removal of its placement would
\* have taken the acknowledgement back first.
LEMMA AckStep ==
    ASSUME Placements, TypeOK, WorkInv, AckInv, [Next]_vars
    PROVE  AckInv'
<1>0. None \notin Ids /\ None \notin Values
  BY Zenon DEF Placements
<1>1. ASSUME NEW w \in Workers, NEW i \in Ids, NEW val \in Values, Upsert(w, i, val)
      PROVE  AckInv'
  <2>1. /\ work'[w].pc \in {"get", "set"} /\ work'[w].id = i /\ (work'[w].clean => Unremoved(i))
        /\ \A x \in Workers \ {w} : work'[x] = work[x]
    BY Zenon, <1>1, UpsertMoves
  <2>2. UNCHANGED <<key, member, bucket, acked>>
    BY Zenon, <1>1 DEF Upsert, valkey
  <2>3. \A j : Unremoved(j) => Unremoved(j)'
    BY Zenon, <2>1 DEF Unremoved, Id, Removing
  <2> QED
    BY Zenon, <2>1, <2>2, <2>3 DEF AckInv, PastSet, PastAdd, PastRegister, Id, Live
<1>2. ASSUME NEW w \in Workers, NEW pc \in PCs,
             work'[w].pc = pc /\ work'[w].id = work[w].id /\ work'[w].clean = work[w].clean,
             \A x \in Workers \ {w} : work'[x] = work[x],
             pc \in {"del", "srem", "pointer", "undigest"} => Removing(w),
             work[w].clean => /\ PastSet(w)' => Live(Id(w))'
                              /\ PastAdd(w)' => Id(w) \in member'
                              /\ PastRegister(w)' => Bucket[Id(w)] \in bucket',
             \A i \in Ids : Unremoved(i) => /\ Live(i) => Live(i)'
                                            /\ i \in member => i \in member',
             bucket \subseteq bucket', acked' = acked, Busy(w)
      PROVE  AckInv'
  <2>1. \A i : Unremoved(i) => Unremoved(i)'
    BY Zenon, <1>2 DEF Unremoved, Id, Removing
  <2>2. \A x \in Workers : work[x].clean => Id(x) \in Ids
    BY Zenon DEF WorkInv
  <2>3. ASSUME NEW x \in Workers, work'[x].clean
        PROVE  /\ Unremoved(Id(x))' /\ (PastSet(x)' => Live(Id(x))')
               /\ (PastAdd(x)' => Id(x)' \in member') /\ (PastRegister(x)' => Bucket[Id(x)'] \in bucket')
    <3>1. Id(x)' = Id(x) /\ work[x].clean
      BY Zenon, <1>2, <2>3 DEF Id
    <3>2. Unremoved(Id(x)) /\ Id(x) \in Ids
      BY Zenon, <2>2, <3>1 DEF AckInv
    <3>3. CASE x = w
      BY Zenon, <1>2, <2>1, <3>1, <3>2, <3>3 DEF Live, Unremoved
    <3>4. CASE x # w
      BY Zenon, <1>2, <2>1, <3>1, <3>2, <3>4 DEF AckInv, Live, Unremoved, PastSet, PastAdd, PastRegister
    <3> QED
      BY Zenon, <3>3, <3>4
  <2>4. \A i \in acked : Live(i)' /\ i \in member' /\ Bucket[i] \in bucket' /\ Unremoved(i)'
    BY Zenon, <1>2, <2>1 DEF AckInv, TypeOK
  <2> QED
    BY Zenon, <1>2, <2>3, <2>4 DEF AckInv
<1>3. ASSUME NEW w \in Workers, work' = [work EXCEPT ![w] = Idle],
             acked' \subseteq acked \union (IF work[w].clean /\ PastRegister(w) THEN {Id(w)} ELSE {}),
             \A i \in Ids : Unremoved(i) => /\ Live(i) => Live(i)'
                                            /\ i \in member => i \in member',
             bucket \subseteq bucket', Busy(w)
      PROVE  AckInv'
  <2>1. work'[w] = Idle /\ \A x \in Workers \ {w} : work'[x] = work[x]
    BY <1>3, IdleMoves, Zenon
  <2>2. work'[w].pc = "idle" /\ ~work'[w].clean
    BY <2>1 DEF Idle
  <2>3. \A i : Unremoved(i) => Unremoved(i)'
    BY Zenon, <2>1, <2>2 DEF Unremoved, Id, Removing
  <2>4. \A x \in Workers : work[x].clean => Id(x) \in Ids
    BY Zenon DEF WorkInv
  <2>5. ASSUME NEW x \in Workers, work'[x].clean
        PROVE  /\ Unremoved(Id(x))' /\ (PastSet(x)' => Live(Id(x))')
               /\ (PastAdd(x)' => Id(x)' \in member') /\ (PastRegister(x)' => Bucket[Id(x)'] \in bucket')
    <3>1. Id(x)' = Id(x) /\ work[x].clean /\ x # w /\ work'[x] = work[x]
      BY Zenon, <2>1, <2>2, <2>5 DEF Id
    <3>2. Unremoved(Id(x)) /\ Id(x) \in Ids
      BY Zenon, <2>4, <3>1 DEF AckInv
    <3> QED
      BY Zenon, <1>3, <2>3, <3>1, <3>2 DEF AckInv, Live, Unremoved, PastSet, PastAdd, PastRegister
  <2>6. ASSUME NEW i \in acked'
        PROVE  Live(i)' /\ i \in member' /\ Bucket[i] \in bucket' /\ Unremoved(i)'
    <3>1. i \in Ids /\ Live(i) /\ i \in member /\ Bucket[i] \in bucket /\ Unremoved(i)
      <4>1. CASE i \in acked
        BY Zenon, <4>1 DEF AckInv, TypeOK
      <4>2. CASE i = Id(w) /\ work[w].clean /\ PastRegister(w)
        <5>1. PastSet(w) /\ PastAdd(w)
          BY Zenon, <4>2 DEF PastSet, PastAdd, PastRegister
        <5> QED
          BY Zenon, <1>3, <2>4, <4>2, <5>1 DEF AckInv
      <4> QED
        BY Zenon, <1>3, <2>6, <4>1, <4>2
    <3> QED
      BY Zenon, <1>3, <2>3, <3>1
  <2> QED
    BY Zenon, <2>5, <2>6 DEF AckInv
<1>4. ASSUME NEW w \in Workers, GetSourceEntry(w) PROVE AckInv'
  <2>1. UNCHANGED <<key, member, bucket, acked>> /\ Busy(w)
    BY Zenon, <1>4 DEF GetSourceEntry, valkey, history, At, Busy
  <2> QED
    BY Zenon, <1>2, <1>4, <2>1, GetMoves DEF PCs, PastSet, PastAdd, PastRegister, Live
<1>5. ASSUME NEW w \in Workers, UpsertEntry(w) PROVE AckInv'
  <2>0. Busy(w) /\ Id(w) \in Ids
    BY Zenon, <1>5, StepsAreBusy DEF WorkInv
  <2>1. CASE SetEntry(w)
    <3>1. Goto(w, "sadd") /\ UNCHANGED <<member, bucket, acked>>
      BY Zenon, <2>1 DEF SetEntry, history
    <3>2. Live(Id(w))' /\ \A i \in Ids : Live(i) => Live(i)'
      <4>1. key' = [key EXCEPT ![Id(w)] = work[w].val] /\ work[w].val \in Values
        BY Zenon, <2>1 DEF SetEntry, At, WorkInv
      <4>2. key'[Id(w)] # None /\ \A i \in Ids : key[i] # None => key'[i] # None
        BY Zenon, <1>0, <2>0, <4>1 DEF TypeOK
      <4>3. Id(w)' = Id(w)
        BY Zenon, <3>1, GotoMoves DEF PCs, Id
      <4> QED
        BY Zenon, <4>2, <4>3 DEF Live
    <3> QED
      BY Zenon, <1>2, <2>0, <3>1, <3>2, GotoMoves DEF PCs, PastSet, PastAdd, PastRegister
  <2>2. CASE AddMember(w)
    <3>1. Goto(w, "register") /\ member' = member \union {Id(w)} /\ UNCHANGED <<key, bucket, acked>>
      BY Zenon, <2>2 DEF AddMember, history
    <3>2. work[w].clean => Live(Id(w))
      BY Zenon, <2>2 DEF AddMember, At, AckInv, PastSet
    <3>3. Id(w)' = Id(w)
      BY Zenon, <3>1, GotoMoves DEF PCs, Id
    <3> QED
      BY Zenon, <1>2, <2>0, <3>1, <3>2, <3>3, GotoMoves DEF PCs, PastSet, PastAdd, PastRegister, Live
  <2>3. CASE RegisterBucket(w)
    <3>1. PICK pc \in {"digest", "hget"} :
             Goto(w, pc) /\ bucket' = bucket \union {Bucket[Id(w)]} /\ UNCHANGED <<key, member, acked>>
      BY Zenon, <2>3 DEF RegisterBucket, history
    <3>2. work[w].clean => Live(Id(w)) /\ Id(w) \in member
      BY Zenon, <2>3 DEF RegisterBucket, At, AckInv, PastSet, PastAdd
    <3>3. Id(w)' = Id(w)
      BY Zenon, <3>1, GotoMoves DEF PCs, Id
    <3> QED
      BY Zenon, <1>2, <2>0, <3>1, <3>2, <3>3, GotoMoves DEF PCs, PastSet, PastAdd, PastRegister, Live
  <2>4. CASE IndexDigest(w) \/ (ReadLatest(w) /\ Goto(w, "hset") /\ acked' = acked)
    <3>1. PICK pc \in {"hget", "hset"} : Goto(w, pc) /\ UNCHANGED <<key, member, bucket, acked>>
      BY Zenon, <2>4 DEF IndexDigest, ReadLatest, valkey, history
    <3>2. work[w].clean => Live(Id(w)) /\ Id(w) \in member /\ Bucket[Id(w)] \in bucket
      BY Zenon, <2>4 DEF IndexDigest, ReadLatest, At, AckInv, PastSet, PastAdd, PastRegister
    <3>3. Id(w)' = Id(w)
      BY Zenon, <3>1, GotoMoves DEF PCs, Id
    <3> QED
      BY Zenon, <1>2, <2>0, <3>1, <3>2, <3>3, GotoMoves DEF PCs, PastSet, PastAdd, PastRegister, Live
  <2>5. CASE (ReadLatest(w) \/ BumpLatest(w)) /\ Succeed(w)
    <3>1. UNCHANGED <<key, member, bucket>> /\ PastRegister(w)
      BY Zenon, <2>5 DEF ReadLatest, BumpLatest, At, PastRegister, valkey
    <3> QED
      BY <1>3, <2>0, <2>5, <3>1, Zenon DEF Succeed, Live
  <2> QED
    BY Zenon, <1>5, <2>1, <2>2, <2>3, <2>4, <2>5 DEF UpsertEntry, ReadLatest, BumpLatest
<1>6. ASSUME NEW w \in Workers, StartRemove(w) PROVE AckInv'
  <2>1. PICK i \in Ids :
           /\ work'[w].pc = "del" /\ work'[w].id = i /\ ~work'[w].clean
           /\ \A x \in Workers \ {w} :
                 /\ work'[x].pc = work[x].pc /\ work'[x].id = work[x].id
                 /\ work'[x].clean => work[x].clean /\ Id(x) # i
           /\ acked' = acked \ {i}
           /\ UNCHANGED <<key, member, bucket>>
    BY <1>6, RemoveMoves
  <2>2. \A j : j # i /\ Unremoved(j) => Unremoved(j)'
    BY Zenon, <2>1 DEF Unremoved, Id, Removing
  <2>3. \A x \in Workers : work'[x].clean => x # w /\ work[x].clean /\ Id(x)' = Id(x) /\ Id(x) # i
    BY Zenon, <2>1 DEF Id
  <2>4. \A x \in Workers : work'[x].clean =>
           /\ Unremoved(Id(x)') /\ (PastSet(x)' => Live(Id(x)'))
           /\ (PastAdd(x)' => Id(x)' \in member) /\ (PastRegister(x)' => Bucket[Id(x)'] \in bucket)
    BY Zenon, <2>1, <2>3 DEF AckInv, PastSet, PastAdd, PastRegister
  <2>5. \A x \in Workers : work'[x].clean => Unremoved(Id(x))'
    <3>1. \A x \in Workers : work'[x].clean => Unremoved(Id(x)) /\ Id(x) # i
      BY Zenon, <2>3 DEF AckInv
    <3> QED
      BY Zenon, <2>2, <2>3, <3>1 DEF Unremoved
  <2> QED
    BY Zenon, <2>1, <2>2, <2>4, <2>5 DEF AckInv, Live
<1>7. ASSUME NEW w \in Workers, RemoveEntry(w) \/ Fail(w) PROVE AckInv'
  <2>1. Busy(w) /\ Id(w) \in Ids
    BY Zenon, <1>7, StepsAreBusy DEF WorkInv
  <2>2. RemoveEntry(w) => Removing(w) /\ ~Unremoved(Id(w)) /\ ~work[w].clean
    <3>1. RemoveEntry(w) => Removing(w)
      BY RemoveChanges, Zenon
    <3> QED
      BY Zenon, <3>1 DEF Unremoved, WorkInv
  <2>3. \A i \in Ids : Unremoved(i) => (Live(i) => Live(i)') /\ (i \in member => i \in member')
    BY <1>7, <2>1, <2>2, Zenon DEF RemoveEntry, DeleteEntry, RemoveMember, ReadDigest, ClearDigest, Fail, Live, valkey, TypeOK
  <2>4. bucket' = bucket /\ acked' = acked
    BY Zenon, <1>7, RemoveChanges, FailChanges
  <2>5. CASE work' = [work EXCEPT ![w] = Idle]
    <3>1. /\ acked' \subseteq acked \union (IF work[w].clean /\ PastRegister(w) THEN {Id(w)} ELSE {})
          /\ bucket \subseteq bucket'
      BY Zenon, <2>4
    <3> QED
      BY <1>3, <2>1, <2>3, <2>5, <3>1, Zenon
  <2>6. CASE RemoveEntry(w) /\ \E pc \in {"srem", "pointer", "undigest"} : Goto(w, pc)
    <3>1. PICK pc \in {"srem", "pointer", "undigest"} : Goto(w, pc)
      BY Zenon, <2>6
    <3>2. /\ pc \in PCs
          /\ work'[w].pc = pc /\ work'[w].id = work[w].id /\ work'[w].clean = work[w].clean
          /\ \A x \in Workers \ {w} : work'[x] = work[x]
      BY Zenon, <3>1, GotoMoves DEF PCs
    <3>3. bucket \subseteq bucket'
      BY Zenon, <2>4
    <3> QED
      BY Zenon, <1>2, <2>1, <2>2, <2>3, <2>4, <2>6, <3>2, <3>3
  <2> QED
    BY Zenon, <1>7, <2>5, <2>6, RemoveChanges, FailChanges
<1>8. CASE Reset
  <2>1. acked' = {} /\ \A x \in Workers : ~work'[x].clean
    BY Zenon, <1>8, ResetMoves DEF Reset
  <2> QED
    BY <2>1, Zenon DEF AckInv
<1>9. CASE BackupStart \/ MgetEntries \/ BackupEntries \/ RestoreStart \/ UNCHANGED vars
  <2>1. UNCHANGED <<key, member, bucket, work, acked>>
    BY Zenon, <1>9, BackupChanges
  <2> QED
    BY Zenon, <2>1 DEF AckInv, Unremoved, PastSet, PastAdd, PastRegister, Id, Live, Removing
<1>10. ASSUME NEW w \in Workers, StartUpsert(w) \/ Restore(w) PROVE AckInv'
  <2>1. \E i \in Ids, val \in Values : Upsert(w, i, val)
    BY Zenon, <1>10, UpsertStarts
  <2> QED
    BY Zenon, <1>1, <2>1
<1> QED
  BY Zenon, <1>4, <1>5, <1>6, <1>7, <1>8, <1>9, <1>10 DEF Next

-----------------------------------------------------------------------------
(* Operations that do not overlap *)

\* Every step keeps AloneInv, and writes no "listed" over a "downloaded".
LEMMA AloneStep ==
    ASSUME Placements, TypeOK, WorkInv, AloneInv, [Next]_vars
    PROVE  AloneInv' /\ DownloadedStays
<1> SUFFICES ASSUME "overlap" \notin seen PROVE AloneInv' /\ DownloadedStays
  BY Zenon, SeenGrows DEF AloneInv, DownloadedStays
<1> DEFINE One == \A w, x \in Workers : Busy(w) /\ Busy(x) /\ w # x => Name[Id(w)] # Name[Id(x)]
           Keeps == \A w \in Workers : At(w, "set") /\ Id(w) \in Sources /\ key[Id(w)] = "downloaded"
                        => work[w].val = "downloaded"
<1>0. One /\ Keeps /\ Packages \intersect Sources = {} /\ None \notin Values
  BY Zenon DEF AloneInv, Placements
<1>a. One' /\ Keeps' => AloneInv'
  BY Zenon DEF AloneInv
<1>1. ASSUME NEW w \in Workers, NEW i \in Ids, NEW val \in Values, Upsert(w, i, val)
      PROVE  AloneInv' /\ DownloadedStays
  <2>1. /\ work'[w].pc = (IF i \in Sources THEN "get" ELSE "set") /\ work'[w].id = i
        /\ \A x \in Workers \ {w} : work'[x] = work[x]
    BY Zenon, <1>1, UpsertMoves
  <2>2. key' = key /\ seen' = seen \union Overlap(i)
    BY Zenon, <1>1 DEF Upsert, valkey
  <2>3. "overlap" \notin seen' => \A x \in Workers : Busy(x) => Name[Id(x)] # Name[i]
    BY Zenon, <2>2 DEF Overlap, Busy
  <2>4. "overlap" \notin seen' => One'
    BY <1>0, <2>1, <2>3 DEF Busy, Id
  <2>5. Keeps'
    BY Zenon, <1>0, <2>1, <2>2 DEF At, Id
  <2>6. DownloadedStays
    BY Zenon, <2>2 DEF DownloadedStays
  <2> QED
    BY Zenon, <2>4, <2>5, <2>6 DEF AloneInv
<1>2. ASSUME \A x \in Workers : Busy(x)' => Busy(x) /\ Id(x)' = Id(x) PROVE One'
  BY Zenon, <1>0, <1>2
<1>3. ASSUME NEW w \in Workers, GetSourceEntry(w) PROVE AloneInv' /\ DownloadedStays
  <2>1. key' = key /\ Busy(w)
    BY Zenon, <1>3 DEF GetSourceEntry, valkey, At, Busy
  <2>2. One'
    BY Zenon, <1>2, <1>3, <2>1, GetMoves DEF Busy, Id
  <2>3. Keeps'
    BY <1>0, <1>3, <2>1, GetMoves DEF At, Id
  <2> QED
    BY Zenon, <1>a, <2>1, <2>2, <2>3 DEF DownloadedStays
<1>4. ASSUME NEW w \in Workers, SetEntry(w) PROVE AloneInv' /\ DownloadedStays
  <2>1. /\ work'[w].pc = "sadd" /\ Id(w)' = Id(w) /\ Busy(w) /\ Id(w) \in Ids
        /\ \A x \in Workers \ {w} : work'[x] = work[x]
    BY Zenon, <1>4, GotoMoves DEF SetEntry, At, PCs, Busy, Id, WorkInv
  <2>2. key' = [key EXCEPT ![Id(w)] = work[w].val] /\ key \in [Ids -> Values \union {None}]
    BY Zenon, <1>4 DEF SetEntry, TypeOK
  <2>3. One'
    BY Zenon, <1>2, <2>1 DEF Busy, Id
  <2>4. ASSUME NEW x \in Workers, At(x, "set")', Id(x)' \in Sources, key'[Id(x)'] = "downloaded"
        PROVE  work'[x].val = "downloaded"
    <3>1. x # w /\ work'[x] = work[x] /\ Id(x)' = Id(x) /\ At(x, "set") /\ Busy(x)
      BY Zenon, <2>1, <2>4 DEF At, Id, Busy
    <3>2. Id(x) # Id(w) /\ Id(x) \in Ids
      BY Zenon, <1>0, <2>1, <3>1 DEF WorkInv
    <3>3. key[Id(x)] = "downloaded"
      BY Zenon, <2>2, <2>4, <3>1, <3>2
    <3> QED
      BY Zenon, <1>0, <2>4, <3>1, <3>3
  <2>5. DownloadedStays
    <3> SUFFICES ASSUME NEW i \in Sources, key[i] = "downloaded" PROVE key'[i] # "listed"
      BY Zenon DEF DownloadedStays
    <3>1. i \in Ids
      BY Zenon DEF Ids
    <3>2. i = Id(w) => work[w].val = "downloaded"
      BY Zenon, <1>0, <1>4 DEF SetEntry
    <3> QED
      BY Zenon, <2>2, <3>1, <3>2
  <2> QED
    BY Zenon, <1>a, <2>3, <2>4, <2>5
<1>5. ASSUME \A i \in Ids : key'[i] = key[i] \/ key'[i] = None,
             \A x \in Workers : Busy(x)' => Busy(x) /\ Id(x)' = Id(x) /\ work'[x].val = work[x].val,
             \A x \in Workers : At(x, "set")' => At(x, "set")
      PROVE  AloneInv' /\ DownloadedStays
  <2>1. One'
    BY Zenon, <1>2, <1>5
  <2>2. None # "downloaded" /\ None # "listed" /\ Sources \subseteq Ids
    BY Zenon, <1>0 DEF Values, Ids
  <2>3. Keeps'
    BY Zenon, <1>0, <1>5, <2>2 DEF At, Busy
  <2>4. DownloadedStays
    BY Zenon, <1>5, <2>2 DEF DownloadedStays
  <2> QED
    BY Zenon, <1>a, <2>1, <2>3, <2>4
<1>6. ASSUME NEW w \in Workers, NEW pc \in PCs \ {"set"}, Goto(w, pc), Busy(w),
             \A i \in Ids : key'[i] = key[i] \/ key'[i] = None
      PROVE  AloneInv' /\ DownloadedStays
  BY <1>5, <1>6, GotoMoves DEF Busy, Id, At
<1>7. ASSUME NEW w \in Workers, work' = [work EXCEPT ![w] = Idle], key' = key
      PROVE  AloneInv' /\ DownloadedStays
  BY Zenon, <1>5, <1>7, IdleMoves DEF Idle, Busy, Id, At
<1>8. ASSUME NEW w \in Workers, UpsertEntry(w) PROVE AloneInv' /\ DownloadedStays
  <2>1. CASE ~SetEntry(w)
    <3>1. key' = key /\ Busy(w)
      BY Zenon, <1>8, <2>1, UpsertChanges, StepsAreBusy
    <3>2. work' = [work EXCEPT ![w] = Idle] \/ \E pc \in PCs \ {"set"} : Goto(w, pc)
      BY Zenon, <1>8, UpsertChanges DEF PCs
    <3> QED
      BY Zenon, <1>6, <1>7, <3>1, <3>2
  <2> QED
    BY Zenon, <1>4, <2>1
<1>9. ASSUME NEW w \in Workers, StartRemove(w) PROVE AloneInv' /\ DownloadedStays
  <2>1. PICK i \in Ids :
           /\ work'[w].pc = "del" /\ work'[w].id = i
           /\ \A x \in Workers \ {w} : /\ work'[x].pc = work[x].pc /\ work'[x].id = work[x].id
                                       /\ work'[x].val = work[x].val
           /\ seen' = seen \union {"removed"} \union Overlap(i) /\ key' = key
    BY <1>9, RemoveMoves
  <2>2. "overlap" \notin seen' => \A x \in Workers : Busy(x) => Name[Id(x)] # Name[i]
    BY Zenon, <2>1 DEF Overlap, Busy
  <2>3. "overlap" \notin seen' => One'
    BY <1>0, <2>1, <2>2 DEF Busy, Id
  <2>4. Keeps'
    BY <1>0, <2>1 DEF At, Id
  <2> QED
    BY Zenon, <2>1, <2>3, <2>4 DEF AloneInv, DownloadedStays
<1>10. ASSUME NEW w \in Workers, RemoveEntry(w) \/ Fail(w) PROVE AloneInv' /\ DownloadedStays
  <2>1. CASE DeleteEntry(w)
    <3>1. Goto(w, "srem") /\ Busy(w) /\ \A i \in Ids : key'[i] = key[i] \/ key'[i] = None
      BY Zenon, <2>1 DEF DeleteEntry, At, Busy, TypeOK
    <3> QED
      BY Zenon, <1>6, <3>1 DEF PCs
  <2>2. CASE ~DeleteEntry(w)
    <3>1. key' = key /\ Busy(w)
      BY Zenon, <1>10, <2>2, RemoveChanges, FailChanges, StepsAreBusy
    <3>2. work' = [work EXCEPT ![w] = Idle] \/ \E pc \in PCs \ {"set"} : Goto(w, pc)
      BY Zenon, <1>10, RemoveChanges, FailChanges DEF PCs
    <3> QED
      BY <1>6, <1>7, <3>1, <3>2
  <2> QED
    BY Zenon, <2>1, <2>2
<1>11. CASE Reset
  <2>1. \A i \in Ids : key'[i] = None
    BY Zenon, <1>11 DEF Reset
  <2> QED
    BY Zenon, <1>5, <1>11, <2>1, ResetMoves DEF Busy, Id, At
<1>12. CASE BackupStart \/ MgetEntries \/ BackupEntries \/ RestoreStart \/ UNCHANGED vars
  <2>1. UNCHANGED <<key, work>>
    BY Zenon, <1>12, BackupChanges
  <2> QED
    BY Zenon, <1>5, <2>1 DEF Busy, Id, At
<1>13. ASSUME NEW w \in Workers, StartUpsert(w) \/ Restore(w) PROVE AloneInv' /\ DownloadedStays
  <2>1. \E i \in Ids, val \in Values : Upsert(w, i, val)
    BY Zenon, <1>13, UpsertStarts
  <2> QED
    BY Zenon, <1>1, <2>1
<1> QED
  BY Zenon, <1>3, <1>8, <1>9, <1>10, <1>11, <1>12, <1>13 DEF Next

-----------------------------------------------------------------------------
(* Entries, listings and digests *)

\* Without overlaps, no other worker is at a worker's placement.
LEMMA Solo ==
    ASSUME Placements, WorkInv, AloneInv, "overlap" \notin seen, NEW w \in Workers, Busy(w),
           NEW x \in Workers, x # w
    PROVE  Id(x) # Id(w)
BY Zenon DEF Placements, WorkInv, AloneInv

\* Every step keeps LiveInv: a worker alone at its placement changes that placement only, and
\* its digest pointer last.
LEMMA LiveStep ==
    ASSUME Placements, TypeOK, TypeOK', WorkInv, AloneInv, LiveInv, [Next]_vars
    PROVE  LiveInv'
<1> SUFFICES ASSUME Smooth' PROVE LiveInv'
  BY Zenon DEF LiveInv
<1>0. Smooth /\ "overlap" \notin seen /\ "error" \notin seen' /\ "overlap" \notin seen'
  BY Zenon, SeenGrows DEF Smooth
<1>a. /\ \A w \in Workers : Done(w)
      /\ \A i \in Ids : Kept(i)
      /\ \A d \in Digests : Pointed(d)
  BY Zenon, <1>0 DEF LiveInv
<1>b. None \notin Ids /\ None \notin Values
  BY Zenon DEF Placements
<1>1. ASSUME NEW w \in Workers, ~Busy(w), work'[w].pc \in {"get", "set", "del"}, work'[w].id \in Ids,
             \A x \in Workers \ {w} : work'[x].pc = work[x].pc /\ work'[x].id = work[x].id,
             UNCHANGED <<key, member, bucket, digest>>
      PROVE  LiveInv'
  <2>1. Id(w) = None
    BY Zenon, <1>1 DEF WorkInv
  <2>2. \A x \in Workers : Done(x)'
    BY Zenon, <1>1, <1>a DEF Done, PastSet, PastAdd, PastRegister, PastDel, Id, Live
  <2>3. \A i \in Ids : Quiet(i)' => Quiet(i)
    BY Zenon, <1>1, <1>b, <2>1 DEF Quiet, Id
  <2>4. \A i \in Ids : Kept(i)'
    BY Zenon, <1>1, <1>a, <2>3 DEF Kept, Live
  <2>5. \A d \in Digests : Pointed(d)'
    <3>1. \A x \in Workers : PastDel(x) => PastDel(x)' /\ Id(x)' = Id(x)
      BY Zenon, <1>1 DEF PastDel, Busy, Id
    <3> QED
      BY <1>1, <1>a, <3>1 DEF Pointed, Live
  <2> QED
    BY Zenon, <2>2, <2>4, <2>5 DEF LiveInv
<1>2. ASSUME NEW w \in Workers, Busy(w), \A x \in Workers \ {w} : work'[x] = work[x],
             \A i \in Ids \ {Id(w)} : key'[i] = key[i] /\ (i \in member' <=> i \in member),
             bucket \subseteq bucket',
             \/ work'[w].id = Id(w) /\ Done(w)'
             \/ work'[w] = Idle /\ (Live(Id(w)) => Id(w) \in member' /\ Bucket[Id(w)] \in bucket')
                /\ key' = key,
             \A d \in Digests : Pointed(d)'
      PROVE  LiveInv'
  <2>0. Id(w) \in Ids /\ \A x \in Workers \ {w} : Id(x) # Id(w)
    BY Zenon, <1>0, <1>2, Solo DEF WorkInv
  <2>1. ASSUME NEW x \in Workers PROVE Done(x)'
    <3>1. CASE x = w /\ work'[w] = Idle
      BY <3>1 DEF Done, PastSet, PastAdd, PastRegister, PastDel, Idle
    <3>2. CASE x # w /\ Busy(x)
      <4>1. Id(x) \in Ids \ {Id(w)} /\ Done(x) /\ work'[x] = work[x]
        BY Zenon, <1>2, <1>a, <2>0, <3>2 DEF WorkInv
      <4> QED
        BY Zenon, <1>2, <4>1 DEF Done, PastSet, PastAdd, PastRegister, PastDel, Id, Live
    <3>3. CASE x # w /\ ~Busy(x)
      BY Zenon, <1>2, <3>3 DEF Done, PastSet, PastAdd, PastRegister, PastDel, Busy
    <3> QED
      BY Zenon, <1>2, <3>1, <3>2, <3>3
  <2>2. ASSUME NEW i \in Ids PROVE Kept(i)'
    <3>1. CASE i # Id(w)
      <4>1. Quiet(i)' => Quiet(i)
        BY Zenon, <1>2, <3>1 DEF Quiet, Id
      <4> QED
        BY Zenon, <1>2, <1>a, <3>1, <4>1 DEF Kept, Live
    <3>2. CASE i = Id(w)
      BY Zenon, <1>2, <3>2 DEF Kept, Live, Quiet, Id
    <3> QED
      BY Zenon, <3>1, <3>2
  <2> QED
    BY Zenon, <1>2, <2>1, <2>2 DEF LiveInv
<1>3. ASSUME NEW w \in Workers, Busy(w), \A x \in Workers \ {w} : work'[x] = work[x], digest' = digest,
             \A i \in Ids \ {Id(w)} : key'[i] = key[i],
             Live(Id(w)) => Live(Id(w))' \/ (PastDel(w)' /\ Id(w)' = Id(w)),
             PastDel(w) => (PastDel(w)' /\ Id(w)' = Id(w)) \/ \A d \in Digests : digest[d] # Id(w),
             Id(w)' = Id(w) \/ key' = key
      PROVE  \A d \in Digests : Pointed(d)'
  <2> SUFFICES ASSUME NEW d \in Digests, digest[d] # None
               PROVE  /\ Digest[digest[d]] = d
                      /\ Live(digest[d])' \/ \E x \in Workers : Id(x)' = digest[d] /\ PastDel(x)'
    BY Zenon, <1>3 DEF Pointed, Live
  <2>1. /\ digest[d] \in Ids /\ Digest[digest[d]] = d
        /\ Live(digest[d]) \/ \E x \in Workers : Id(x) = digest[d] /\ PastDel(x)
    BY <1>a DEF Pointed, TypeOK, Ids
  <2>2. CASE Live(digest[d])
    <3>1. CASE digest[d] # Id(w)
      BY Zenon, <1>3, <2>1, <2>2, <3>1 DEF Live
    <3>2. CASE digest[d] = Id(w)
      BY Zenon, <1>3, <2>1, <2>2, <3>2 DEF Live
    <3> QED
      BY Zenon, <3>1, <3>2
  <2>3. ASSUME NEW x \in Workers, Id(x) = digest[d], PastDel(x)
        PROVE  \E y \in Workers : Id(y)' = digest[d] /\ PastDel(y)'
    BY Zenon, <1>3, <2>3 DEF PastDel, Id
  <2> QED
    BY Zenon, <2>1, <2>2, <2>3

<1>4. ASSUME NEW w \in Workers, GetSourceEntry(w) PROVE LiveInv'
  <2>1. UNCHANGED <<key, member, bucket, digest>> /\ Busy(w) /\ ~PastDel(w)
    BY Zenon, <1>4 DEF GetSourceEntry, valkey, At, Busy, PastDel
  <2>2. /\ work'[w].id = Id(w) /\ Id(w)' = Id(w) /\ work'[w].pc = "set"
        /\ \A x \in Workers \ {w} : work'[x] = work[x]
    BY Zenon, <1>4, GetMoves DEF Id
  <2>3. Done(w)'
    BY Zenon, <2>2 DEF Done, PastSet, PastAdd, PastRegister, PastDel
  <2>4. \A d \in Digests : Pointed(d)'
    BY Zenon, <1>3, <2>1, <2>2 DEF Live
  <2> QED
    BY Zenon, <1>2, <2>1, <2>2, <2>3, <2>4
<1>5. ASSUME NEW w \in Workers, UpsertEntry(w) PROVE LiveInv'
  <2>0. Busy(w) /\ Id(w) \in Ids /\ ~PastDel(w)
    BY Zenon, <1>5 DEF UpsertEntry, SetEntry, AddMember, RegisterBucket, IndexDigest, ReadLatest, BumpLatest,
                At, Busy, WorkInv, PastDel
  <2>a. ASSUME NEW pc \in PCs, Goto(w, pc)
        PROVE  /\ work'[w].id = Id(w) /\ Id(w)' = Id(w) /\ work'[w].pc = pc
               /\ \A x \in Workers \ {w} : work'[x] = work[x]
    BY Zenon, <2>a, GotoMoves DEF Id
  <2>1. CASE SetEntry(w)
    <3>1. Goto(w, "sadd") /\ UNCHANGED <<member, bucket, digest>>
      BY Zenon, <2>1 DEF SetEntry
    <3>2. key'[Id(w)] # None /\ \A i \in Ids \ {Id(w)} : key'[i] = key[i]
      <4>1. key' = [key EXCEPT ![Id(w)] = work[w].val] /\ work[w].val \in Values
        BY Zenon, <2>1 DEF SetEntry, At, WorkInv
      <4> QED
        BY <1>b, <2>0, <4>1 DEF TypeOK
    <3>3. /\ work'[w].id = Id(w) /\ Id(w)' = Id(w) /\ work'[w].pc = "sadd"
          /\ \A x \in Workers \ {w} : work'[x] = work[x]
      BY Zenon, <2>a, <3>1 DEF PCs
    <3>4. Done(w)'
      BY Zenon, <3>2, <3>3 DEF Done, PastSet, PastAdd, PastRegister, PastDel, Live
    <3>5. \A d \in Digests : Pointed(d)'
      BY Zenon, <1>3, <2>0, <3>1, <3>2, <3>3 DEF Live
    <3> QED
      BY Zenon, <1>2, <2>0, <3>1, <3>2, <3>3, <3>4, <3>5
  <2>2. CASE AddMember(w)
    <3>1. Goto(w, "register") /\ member' = member \union {Id(w)} /\ UNCHANGED <<key, bucket, digest>>
      BY Zenon, <2>2 DEF AddMember
    <3>2. Live(Id(w))
      BY Zenon, <1>a, <2>2 DEF AddMember, At, Done, PastSet
    <3>3. /\ work'[w].id = Id(w) /\ Id(w)' = Id(w) /\ work'[w].pc = "register"
          /\ \A x \in Workers \ {w} : work'[x] = work[x]
      BY Zenon, <2>a, <3>1 DEF PCs
    <3>4. Done(w)'
      BY Zenon, <3>1, <3>2, <3>3 DEF Done, PastSet, PastAdd, PastRegister, PastDel, Live
    <3>5. \A d \in Digests : Pointed(d)'
      BY Zenon, <1>3, <2>0, <3>1, <3>2, <3>3 DEF Live
    <3> QED
      BY Zenon, <1>2, <2>0, <3>1, <3>3, <3>4, <3>5
  <2>3. CASE RegisterBucket(w)
    <3>1. PICK pc \in {"digest", "hget"} :
             Goto(w, pc) /\ bucket' = bucket \union {Bucket[Id(w)]} /\ UNCHANGED <<key, member, digest>>
      BY Zenon, <2>3 DEF RegisterBucket
    <3>2. Live(Id(w)) /\ Id(w) \in member
      BY Zenon, <1>a, <2>3 DEF RegisterBucket, At, Done, PastSet, PastAdd
    <3>3. /\ work'[w].id = Id(w) /\ Id(w)' = Id(w) /\ work'[w].pc = pc
          /\ \A x \in Workers \ {w} : work'[x] = work[x]
      BY Zenon, <2>a, <3>1 DEF PCs
    <3>4. Done(w)'
      BY Zenon, <3>1, <3>2, <3>3 DEF Done, PastSet, PastAdd, PastRegister, PastDel, Live
    <3>5. \A d \in Digests : Pointed(d)'
      BY Zenon, <1>3, <2>0, <3>1, <3>2, <3>3 DEF Live
    <3> QED
      BY Zenon, <1>2, <2>0, <3>1, <3>3, <3>4, <3>5
  <2>4. CASE IndexDigest(w)
    <3>1. /\ Goto(w, "hget") /\ UNCHANGED <<key, member, bucket>>
          /\ digest' = [digest EXCEPT ![Digest[Id(w)]] = Id(w)]
      BY Zenon, <2>4 DEF IndexDigest
    <3>2. Live(Id(w)) /\ Id(w) \in member /\ Bucket[Id(w)] \in bucket
      BY Zenon, <1>a, <2>4 DEF IndexDigest, At, Done, PastSet, PastAdd, PastRegister
    <3>3. /\ work'[w].id = Id(w) /\ Id(w)' = Id(w) /\ work'[w].pc = "hget"
          /\ \A x \in Workers \ {w} : work'[x] = work[x]
      BY Zenon, <2>a, <3>1 DEF PCs
    <3>4. Done(w)'
      BY Zenon, <3>1, <3>2, <3>3 DEF Done, PastSet, PastAdd, PastRegister, PastDel, Live
    <3>5. ASSUME NEW d \in Digests PROVE Pointed(d)'
      <4>1. CASE digest'[d] = digest[d]
        <5>1. \A x \in Workers : PastDel(x) => PastDel(x)' /\ Id(x)' = Id(x)
          BY Zenon, <2>0, <3>3 DEF PastDel, Id
        <5> QED
          BY Zenon, <1>a, <3>1, <4>1, <5>1 DEF Pointed, Live
      <4>2. CASE d = Digest[Id(w)] /\ digest'[d] = Id(w)
        BY Zenon, <3>1, <3>2, <4>2 DEF Pointed, Live
      <4> QED
        BY Zenon, <3>1, <4>1, <4>2 DEF TypeOK
    <3> QED
      BY Zenon, <1>2, <2>0, <3>1, <3>3, <3>4, <3>5
  <2>5. CASE ReadLatest(w) /\ Goto(w, "hset")
    <3>1. UNCHANGED <<key, member, bucket, digest>>
      BY Zenon, <2>5 DEF ReadLatest, valkey
    <3>2. Live(Id(w)) /\ Id(w) \in member /\ Bucket[Id(w)] \in bucket
      BY Zenon, <1>a, <2>5 DEF ReadLatest, At, Done, PastSet, PastAdd, PastRegister
    <3>3. /\ work'[w].id = Id(w) /\ Id(w)' = Id(w) /\ work'[w].pc = "hset"
          /\ \A x \in Workers \ {w} : work'[x] = work[x]
      BY Zenon, <2>a, <2>5 DEF PCs
    <3>4. Done(w)'
      BY Zenon, <3>1, <3>2, <3>3 DEF Done, PastSet, PastAdd, PastRegister, PastDel, Live
    <3>5. \A d \in Digests : Pointed(d)'
      BY Zenon, <1>3, <2>0, <3>1, <3>2, <3>3 DEF Live
    <3> QED
      BY Zenon, <1>2, <2>0, <3>1, <3>3, <3>4, <3>5
  <2>6. CASE (ReadLatest(w) \/ BumpLatest(w)) /\ Succeed(w)
    <3>1. UNCHANGED <<key, member, bucket, digest>>
      BY Zenon, <2>6 DEF ReadLatest, BumpLatest, valkey
    <3>2. Live(Id(w)) /\ Id(w) \in member /\ Bucket[Id(w)] \in bucket
      <4>1. work[w].pc \in {"hget", "hset"} /\ Done(w)
        BY Zenon, <1>a, <2>6 DEF ReadLatest, BumpLatest, At
      <4> QED
        BY Zenon, <4>1 DEF Done, PastSet, PastAdd, PastRegister
    <3>3. work'[w] = Idle /\ \A x \in Workers \ {w} : work'[x] = work[x]
      <4>1. work' = [work EXCEPT ![w] = Idle]
        BY Zenon, <2>6 DEF Succeed
      <4> QED
        BY <4>1, IdleMoves, Zenon
    <3>4. \A d \in Digests : Pointed(d)'
      <4>1. \A x \in Workers : PastDel(x) => PastDel(x)' /\ Id(x)' = Id(x)
        BY Zenon, <2>0, <3>3 DEF PastDel, Id
      <4> QED
        BY Zenon, <1>a, <3>1, <4>1 DEF Pointed, Live
    <3> QED
      BY Zenon, <1>2, <2>0, <3>1, <3>2, <3>3, <3>4
  <2> QED
    BY Zenon, <1>5, <2>1, <2>2, <2>3, <2>4, <2>5, <2>6 DEF UpsertEntry, ReadLatest, BumpLatest

<1>6. ASSUME NEW w \in Workers, RemoveEntry(w) PROVE LiveInv'
  <2>0. Busy(w) /\ Id(w) \in Ids /\ (work[w].pc \in {"pointer", "undigest"} => Id(w) \in Packages)
    BY Zenon, <1>6, StepsAreBusy DEF WorkInv
  <2>a. ASSUME NEW pc \in PCs, Goto(w, pc)
        PROVE  /\ work'[w].id = Id(w) /\ Id(w)' = Id(w) /\ work'[w].pc = pc
               /\ \A x \in Workers \ {w} : work'[x] = work[x]
    BY <2>a, GotoMoves DEF Id
  <2>1. CASE DeleteEntry(w)
    <3>1. Goto(w, "srem") /\ UNCHANGED <<member, bucket, digest>>
      BY Zenon, <2>1 DEF DeleteEntry
    <3>2. key'[Id(w)] = None /\ \A i \in Ids \ {Id(w)} : key'[i] = key[i]
      BY Zenon, <2>0, <2>1 DEF DeleteEntry, TypeOK
    <3>3. /\ work'[w].id = Id(w) /\ Id(w)' = Id(w) /\ work'[w].pc = "srem"
          /\ \A x \in Workers \ {w} : work'[x] = work[x]
      BY Zenon, <2>a, <3>1 DEF PCs
    <3>4. Done(w)' /\ PastDel(w)'
      BY Zenon, <3>2, <3>3 DEF Done, PastSet, PastAdd, PastRegister, PastDel, Live
    <3>5. \A d \in Digests : Pointed(d)'
      BY Zenon, <1>3, <2>0, <3>1, <3>2, <3>3, <3>4
    <3> QED
      BY Zenon, <1>2, <2>0, <3>1, <3>2, <3>3, <3>4, <3>5
  <2>2. CASE (RemoveMember(w) /\ Goto(w, "pointer")) \/ (ReadDigest(w) /\ Goto(w, "undigest"))
    <3>1. PICK pc \in {"pointer", "undigest"} : Goto(w, pc)
      BY Zenon, <2>2
    <3>2. /\ PastDel(w) /\ ~Live(Id(w)) /\ UNCHANGED <<key, bucket, digest>>
          /\ \A i \in Ids \ {Id(w)} : i \in member' <=> i \in member
      BY Zenon, <1>a, <2>2 DEF RemoveMember, ReadDigest, At, PastDel, Done, valkey
    <3>3. /\ work'[w].id = Id(w) /\ Id(w)' = Id(w) /\ work'[w].pc = pc
          /\ \A x \in Workers \ {w} : work'[x] = work[x]
      BY Zenon, <2>a, <3>1 DEF PCs
    <3>4. Done(w)' /\ PastDel(w)'
      BY Zenon, <3>2, <3>3 DEF Done, PastSet, PastAdd, PastRegister, PastDel, Live
    <3>5. \A d \in Digests : Pointed(d)'
      BY Zenon, <1>3, <2>0, <3>2, <3>3, <3>4
    <3> QED
      BY Zenon, <1>2, <2>0, <3>2, <3>3, <3>4, <3>5
  <2>3. CASE Finish(w)
    <3>1. /\ PastDel(w) /\ ~Live(Id(w)) /\ UNCHANGED <<key, bucket>>
          /\ \A i \in Ids \ {Id(w)} : i \in member' <=> i \in member
      <4>1. ~DeleteEntry(w)
        <5>1. work'[w].pc = "idle" /\ (Goto(w, "srem") => work'[w].pc = "srem")
          BY <2>3, IdleMoves, GotoMoves, Zenon DEF Finish, Idle, PCs
        <5> QED
          BY Zenon, <5>1 DEF DeleteEntry
      <4> QED
        BY Zenon, <1>6, <1>a, <4>1 DEF RemoveEntry, RemoveMember, ReadDigest, ClearDigest, At, PastDel, Done, valkey
    <3>2. work'[w] = Idle /\ \A x \in Workers \ {w} : work'[x] = work[x]
      BY <2>3, IdleMoves, Zenon DEF Finish
    <3>3. \A d \in Digests : digest'[d] # Id(w) /\ digest'[d] \in {digest[d], None}
      <4>1. CASE RemoveMember(w)
        <5>1. Id(w) \notin Packages /\ digest' = digest
          <6>1. work'[w].pc = "idle"
            BY <3>2 DEF Idle
          <6>2. Goto(w, "pointer") => work'[w].pc = "pointer"
            BY Zenon, GotoMoves DEF PCs
          <6> QED
            BY Zenon, <4>1, <6>1, <6>2 DEF RemoveMember
        <5> QED
          BY <1>b, <2>0, <5>1 DEF TypeOK
      <4>2. CASE ReadDigest(w)
        <5>1. digest[Digest[Id(w)]] # Id(w) /\ digest' = digest
          <6>1. work'[w].pc = "idle"
            BY <3>2 DEF Idle
          <6>2. Goto(w, "undigest") => work'[w].pc = "undigest"
            BY Zenon, GotoMoves DEF PCs
          <6> QED
            BY Zenon, <4>2, <6>1, <6>2 DEF ReadDigest, valkey
        <5> QED
          BY Zenon, <1>a, <1>b, <2>0, <5>1 DEF Pointed
      <4>3. CASE ClearDigest(w)
        <5>1. digest' = [digest EXCEPT ![Digest[Id(w)]] = None]
          BY Zenon, <4>3 DEF ClearDigest
        <5>2. \A d \in Digests : digest[d] = Id(w) => d = Digest[Id(w)]
          BY Zenon, <1>a, <1>b, <2>0 DEF Pointed
        <5> QED
          BY Zenon, <1>b, <2>0, <5>1, <5>2 DEF TypeOK
      <4>4. CASE DeleteEntry(w)
        BY Zenon, <3>1, <4>4 DEF DeleteEntry, At, PastDel
      <4> QED
        BY Zenon, <1>6, <4>1, <4>2, <4>3, <4>4 DEF RemoveEntry
    <3>4. ASSUME NEW d \in Digests PROVE Pointed(d)'
      <4> SUFFICES ASSUME digest'[d] # None, digest'[d] = digest[d], digest[d] # Id(w)
                   PROVE  Pointed(d)'
        BY Zenon, <3>3 DEF Pointed
      <4>1. \A x \in Workers : PastDel(x) /\ Id(x) # Id(w) => PastDel(x)' /\ Id(x)' = Id(x)
        BY Zenon, <3>2 DEF PastDel, Id
      <4> QED
        BY Zenon, <1>a, <3>1, <4>1 DEF Pointed, Live
    <3> QED
      BY Zenon, <1>2, <2>0, <3>1, <3>2, <3>4
  <2> QED
    BY Zenon, <1>6, <2>1, <2>2, <2>3 DEF RemoveEntry, RemoveMember, ReadDigest, ClearDigest
<1>7. ASSUME NEW w \in Workers, StartRemove(w) PROVE LiveInv'
  <2>1. /\ ~Busy(w) /\ work'[w].pc = "del" /\ work'[w].id \in Ids
        /\ \A x \in Workers \ {w} : work'[x].pc = work[x].pc /\ work'[x].id = work[x].id
        /\ UNCHANGED <<key, member, bucket, digest>>
    BY <1>7, RemoveMoves
  <2> QED
    BY Zenon, <1>1, <2>1
<1>8. ASSUME NEW w \in Workers, StartUpsert(w) \/ Restore(w) PROVE LiveInv'
  <2>1. PICK i \in Ids, val \in Values : Upsert(w, i, val)
    BY Zenon, <1>8, UpsertStarts
  <2>2. ~Busy(w) /\ UNCHANGED <<key, member, bucket, digest>>
    BY Zenon, <2>1 DEF Upsert, At, Busy, valkey
  <2> QED
    BY Zenon, <1>1, <2>1, <2>2, UpsertMoves
<1>9. ASSUME NEW w \in Workers, Fail(w) PROVE FALSE
  BY Zenon, <1>0, <1>9, FailChanges
<1>10. CASE Reset
  <2>1. \A x \in Workers : ~Busy(x)
    BY Zenon, <1>0, <1>10 DEF Reset, Fault, At, Busy
  <2>2. \A x \in Workers : work'[x].pc = "idle"
    BY Zenon, <1>10, <2>1, ResetMoves DEF Busy
  <2>3. /\ \A i \in Ids : key'[i] = None
        /\ \A d \in Digests : digest'[d] = None
    BY Zenon, <1>10 DEF Reset
  <2> QED
    BY Zenon, <2>2, <2>3 DEF LiveInv, Done, Kept, Pointed, PastSet, PastAdd, PastRegister, PastDel, Live
<1>11. CASE BackupStart \/ MgetEntries \/ BackupEntries \/ RestoreStart \/ UNCHANGED vars
  <2>1. UNCHANGED <<key, member, bucket, digest, work>>
    BY Zenon, <1>11, BackupChanges
  <2> QED
    BY Zenon, <1>a, <2>1 DEF LiveInv, Done, Kept, Pointed, PastSet, PastAdd, PastRegister, PastDel, Live, Id, Quiet
<1> QED
  BY Zenon, <1>4, <1>5, <1>6, <1>7, <1>8, <1>9, <1>10, <1>11 DEF Next

-----------------------------------------------------------------------------
(* The latest-version hash *)

\* Every step keeps LatestInv: the version that bumpLatest read is still the one of the hash
\* when it writes a higher one.
LEMMA LatestStep ==
    ASSUME Placements, TypeOK, TypeOK', WorkInv, AloneInv, LiveInv, LatestInv, [Next]_vars
    PROVE  LatestInv'
<1> SUFFICES ASSUME seen' = {} PROVE LatestInv'
  BY Zenon DEF LatestInv
<1>0. seen = {} /\ "overlap" \notin seen
  BY Zenon, SeenGrows
<1>a. /\ \A w \in Workers : ~Removing(w)
      /\ \A i \in member : Live(i)
      /\ \A i \in Ids : Live(i) /\ Quiet(i) => Version[i] <= latest[Name[i]]
      /\ \A w \in Workers : At(w, "hset") => latest[Name[Id(w)]] < Version[Id(w)]
      /\ \A n \in Names : latest[n] # 0 =>
            \E i \in Ids : Name[i] = n /\ Version[i] = latest[n] /\ Live(i) /\ Bucket[i] \in bucket
  BY Zenon, <1>0 DEF LatestInv
<1>b. /\ None \notin Ids /\ None \notin Values /\ \A w \in Workers : Done(w)
      /\ latest \in [Names -> Nat] /\ \A i \in Ids : Name[i] \in Names /\ Version[i] \in Nat
  BY <1>0 DEF Placements, LiveInv, Smooth, TypeOK, Names
<1>1. ASSUME NEW w \in Workers, work'[w].pc \notin {"idle", "del", "srem", "pointer", "undigest"},
             work'[w].id \in Ids, Busy(w) => work'[w].id = Id(w),
             \A x \in Workers \ {w} : work'[x] = work[x],
             work'[w].pc = "hset" => latest[Name[work'[w].id]] < Version[work'[w].id],
             \A i \in Ids : Live(i) => Live(i)', \A i \in Ids \ {work'[w].id} : key'[i] = key[i],
             member' \subseteq member \/ (member' \subseteq member \union {Id(w)} /\ Live(Id(w)) /\ Busy(w)),
             bucket \subseteq bucket', latest' = latest
      PROVE  LatestInv'
  <2>1. \A x \in Workers : ~Removing(x)'
    BY ZenonT(30), <1>1, <1>a DEF Removing
  <2>2. \A i \in member' : Live(i)'
    BY <1>1, <1>a DEF TypeOK, WorkInv
  <2>3. ASSUME NEW i \in Ids, Live(i)', Quiet(i)' PROVE Version[i] <= latest[Name[i]]
    <3>1. i # work'[w].id
      BY Zenon, <2>3 DEF Quiet, Id
    <3>2. Live(i)
      BY Zenon, <1>1, <2>3, <3>1 DEF Live
    <3>3. Quiet(i)
      <4>1. Id(w) # i
        BY Zenon, <1>1, <1>b, <3>1 DEF WorkInv
      <4> QED
        BY Zenon, <1>1, <2>3, <4>1 DEF Quiet, Id
    <3> QED
      BY Zenon, <1>a, <3>2, <3>3
  <2>4. \A x \in Workers : At(x, "hset")' => latest[Name[Id(x)']] < Version[Id(x)']
    BY Zenon, <1>1, <1>a DEF At, Id
  <2>5. \A n \in Names : latest[n] # 0 =>
           \E i \in Ids : Name[i] = n /\ Version[i] = latest[n] /\ Live(i)' /\ Bucket[i] \in bucket'
    BY Zenon, <1>1, <1>a
  <2> QED
    BY Zenon, <1>1, <2>1, <2>2, <2>3, <2>4, <2>5 DEF LatestInv
<1>2. ASSUME NEW w \in Workers, PastRegister(w), work' = [work EXCEPT ![w] = Idle],
             UNCHANGED <<key, member, bucket>>,
             \/ latest' = latest /\ Version[Id(w)] <= latest[Name[Id(w)]]
             \/ latest' = [latest EXCEPT ![Name[Id(w)]] = Version[Id(w)]]
                /\ latest[Name[Id(w)]] < Version[Id(w)]
      PROVE  LatestInv'
  <2>0. Busy(w) /\ Id(w) \in Ids /\ Name[Id(w)] \in Names /\ Live(Id(w)) /\ Bucket[Id(w)] \in bucket
    BY Zenon, <1>2, <1>b DEF PastRegister, PastSet, Busy, WorkInv, Done
  <2>1. work'[w].pc = "idle" /\ \A x \in Workers \ {w} : work'[x] = work[x]
    BY <1>2, IdleMoves, Zenon DEF Idle
  <2>2. \A n \in Names : n # Name[Id(w)] => latest'[n] = latest[n]
    BY ZenonT(30), <1>2, <1>b
  <2>3. latest[Name[Id(w)]] <= latest'[Name[Id(w)]] /\ Version[Id(w)] <= latest'[Name[Id(w)]]
    BY <1>2, <1>b, <2>0
  <2>4. ASSUME NEW i \in Ids, Live(i)', Quiet(i)' PROVE Version[i] <= latest'[Name[i]]
    <3>1. CASE i = Id(w)
      BY Zenon, <2>3, <3>1
    <3>2. CASE i # Id(w)
      <4>1. Live(i) /\ Quiet(i)
        BY Zenon, <1>2, <2>1, <2>4, <3>2 DEF Live, Quiet, Id
      <4>2. Version[i] <= latest[Name[i]] /\ latest'[Name[i]] \in Nat
        BY Zenon, <1>a, <1>b, <4>1 DEF TypeOK
      <4>3. latest[Name[i]] <= latest'[Name[i]]
        BY <1>b, <2>2, <2>3
      <4> QED
        BY <1>b, <4>2, <4>3
    <3> QED
      BY Zenon, <3>1, <3>2
  <2>5. ASSUME NEW x \in Workers, At(x, "hset")' PROVE latest'[Name[Id(x)']] < Version[Id(x)']
    <3>1. x # w /\ At(x, "hset") /\ Id(x)' = Id(x) /\ Busy(x)
      BY Zenon, <2>1, <2>5 DEF At, Id, Busy
    <3>2. Name[Id(x)] # Name[Id(w)] /\ Name[Id(x)] \in Names
      BY Zenon, <1>0, <1>b, <2>0, <3>1 DEF AloneInv, WorkInv
    <3> QED
      BY <1>a, <2>2, <3>1, <3>2
  <2>6. ASSUME NEW n \in Names, latest'[n] # 0
        PROVE  \E i \in Ids : Name[i] = n /\ Version[i] = latest'[n] /\ Live(i)' /\ Bucket[i] \in bucket'
    <3>1. CASE latest'[n] = latest[n]
      BY Zenon, <1>2, <1>a, <2>6, <3>1 DEF Live
    <3>2. CASE n = Name[Id(w)] /\ latest'[n] = Version[Id(w)]
      BY Zenon, <1>2, <2>0, <3>2 DEF Live
    <3> QED
      BY Zenon, <1>2, <1>b, <2>2, <3>1, <3>2
  <2>7. (\A x \in Workers : ~Removing(x)') /\ \A i \in member' : Live(i)'
    BY Zenon, <1>2, <1>a, <2>1 DEF Removing, Live
  <2> QED
    BY Zenon, <2>4, <2>5, <2>6, <2>7 DEF LatestInv
<1>3. ASSUME NEW w \in Workers, StartUpsert(w) \/ Restore(w) PROVE LatestInv'
  <2>1. PICK i \in Ids, val \in Values : Upsert(w, i, val)
    BY Zenon, <1>3, UpsertStarts
  <2>2. ~Busy(w) /\ UNCHANGED <<key, member, bucket, latest>>
    BY Zenon, <2>1 DEF Upsert, At, Busy, valkey
  <2>3. /\ work'[w].pc \in {"get", "set"} /\ work'[w].id = i
        /\ \A x \in Workers \ {w} : work'[x] = work[x]
    BY Zenon, <2>1, UpsertMoves
  <2> QED
    BY Zenon, <1>1, <2>2, <2>3 DEF Live
<1>4. ASSUME NEW w \in Workers, GetSourceEntry(w) PROVE LatestInv'
  <2>1. UNCHANGED <<key, member, bucket, latest>> /\ Busy(w) /\ Id(w) \in Ids
    BY Zenon, <1>4 DEF GetSourceEntry, valkey, At, Busy, WorkInv
  <2>2. /\ work'[w].id = Id(w) /\ work'[w].pc = "set"
        /\ \A x \in Workers \ {w} : work'[x] = work[x]
    BY Zenon, <1>4, GetMoves DEF Id
  <2> QED
    BY Zenon, <1>1, <2>1, <2>2 DEF Live
<1>5. ASSUME NEW w \in Workers, UpsertEntry(w) PROVE LatestInv'
  <2>0. Busy(w) /\ Id(w) \in Ids
    BY Zenon, <1>5, StepsAreBusy DEF WorkInv
  <2>a. ASSUME NEW pc \in PCs, Goto(w, pc)
        PROVE  /\ work'[w].id = Id(w) /\ work'[w].pc = pc
               /\ \A x \in Workers \ {w} : work'[x] = work[x]
    BY Zenon, <2>a, GotoMoves DEF Id
  <2>1. CASE SetEntry(w)
    <3>1. Goto(w, "sadd") /\ UNCHANGED <<member, bucket, latest>>
      BY Zenon, <2>1 DEF SetEntry
    <3>2. key' = [key EXCEPT ![Id(w)] = work[w].val] /\ work[w].val \in Values
      BY Zenon, <2>1 DEF SetEntry, At, WorkInv
    <3>3. (\A i \in Ids : Live(i) => Live(i)') /\ \A i \in Ids \ {Id(w)} : key'[i] = key[i]
      BY <1>b, <2>0, <3>2 DEF TypeOK, Live
    <3>4. /\ work'[w].id = Id(w) /\ work'[w].pc = "sadd" /\ \A x \in Workers \ {w} : work'[x] = work[x]
      BY Zenon, <2>a, <3>1 DEF PCs
    <3> QED
      BY Zenon, <1>1, <2>0, <3>1, <3>3, <3>4
  <2>2. CASE AddMember(w) \/ RegisterBucket(w) \/ IndexDigest(w)
    <3>1. PICK pc \in {"register", "digest", "hget"} : Goto(w, pc)
      BY Zenon, <2>2 DEF AddMember, RegisterBucket, IndexDigest
    <3>2. /\ UNCHANGED <<key, latest>> /\ bucket \subseteq bucket' /\ member' \subseteq member \union {Id(w)}
          /\ Live(Id(w))
      BY Zenon, <1>b, <2>2 DEF AddMember, RegisterBucket, IndexDigest, At, Done, PastSet
    <3>3. /\ work'[w].id = Id(w) /\ work'[w].pc = pc /\ \A x \in Workers \ {w} : work'[x] = work[x]
      BY Zenon, <2>a, <3>1 DEF PCs
    <3> QED
      BY Zenon, <1>1, <2>0, <3>2, <3>3 DEF Live
  <2>3. CASE ReadLatest(w) /\ Goto(w, "hset") /\ ~(Version[Id(w)] <= latest[Name[Id(w)]])
    <3>1. UNCHANGED <<key, member, bucket, latest>>
      BY Zenon, <2>3 DEF ReadLatest, valkey
    <3>2. /\ work'[w].id = Id(w) /\ work'[w].pc = "hset" /\ \A x \in Workers \ {w} : work'[x] = work[x]
      BY Zenon, <2>a, <2>3 DEF PCs
    <3>3. latest[Name[Id(w)]] < Version[Id(w)]
      BY <1>b, <2>0, <2>3
    <3> QED
      BY Zenon, <1>1, <2>0, <3>1, <3>2, <3>3 DEF Live
  <2>4. CASE ReadLatest(w) /\ Succeed(w) /\ Version[Id(w)] <= latest[Name[Id(w)]]
    <3>1. UNCHANGED <<key, member, bucket, latest>> /\ PastRegister(w) /\ work' = [work EXCEPT ![w] = Idle]
      BY Zenon, <2>4 DEF ReadLatest, valkey, At, PastRegister, Succeed
    <3> QED
      BY <1>2, <2>4, <3>1, Zenon
  <2>5. CASE BumpLatest(w)
    <3>1. /\ UNCHANGED <<key, member, bucket>> /\ PastRegister(w) /\ work' = [work EXCEPT ![w] = Idle]
          /\ latest' = [latest EXCEPT ![Name[Id(w)]] = Version[Id(w)]]
          /\ latest[Name[Id(w)]] < Version[Id(w)]
      BY Zenon, <1>a, <2>5 DEF BumpLatest, At, PastRegister, Succeed
    <3> QED
      BY <1>2, <3>1, Zenon
  <2> QED
    BY Zenon, <1>5, <2>1, <2>2, <2>3, <2>4, <2>5 DEF UpsertEntry, ReadLatest
<1>6. ASSUME NEW w \in Workers, StartRemove(w) \/ RemoveEntry(w) \/ Fail(w) PROVE FALSE
  <2>1. ~RemoveEntry(w)
    BY Zenon, <1>a, RemoveChanges
  <2>2. StartRemove(w) => "removed" \in seen'
    BY Zenon DEF StartRemove
  <2>3. Fail(w) => "error" \in seen'
    BY Zenon, FailChanges
  <2> QED
    BY Zenon, <1>6, <2>1, <2>2, <2>3
<1>7. ~Reset
  BY Zenon DEF Reset, Fault
<1>8. CASE BackupStart \/ MgetEntries \/ BackupEntries \/ RestoreStart \/ UNCHANGED vars
  <2>1. UNCHANGED <<key, member, bucket, latest, work>>
    BY Zenon, <1>8, BackupChanges
  <2> QED
    BY Zenon, <1>a, <2>1 DEF LatestInv, Live, Quiet, Id, Removing, At
<1> QED
  BY Zenon, <1>3, <1>4, <1>5, <1>6, <1>7, <1>8 DEF Next

\* With the hash as it is, both lookups find the highest entry.
LEMMA LatestFinds ==
    ASSUME Placements, TypeOK, LiveInv, LatestInv
    PROVE  FindsHighest
<1> SUFFICES ASSUME NEW n \in Names, seen = {}, QuietName(n)
             PROVE  /\ FindEntry(n) = Highest({i \in Ids : Name[i] = n /\ Live(i)})
                    /\ ScanPkgBucketByUpstream(n) = FindEntry(n)
  BY Zenon DEF FindsHighest
<1> DEFINE S == {i \in Ids : Name[i] = n /\ Live(i)}
           T == {i \in member : Name[i] = n /\ Bucket[i] \in bucket}
           found == {i \in Ids : Name[i] = n /\ Version[i] = latest[n] /\ Live(i) /\ Bucket[i] \in bucket}
<1>1. \A i \in S : Version[i] <= latest[n] /\ i \in T
  <2>1. \A i \in S : Quiet(i)
    BY Zenon DEF QuietName, Quiet, Placements
  <2> QED
    BY Zenon, <2>1 DEF LatestInv, LiveInv, Kept, Smooth
<1>2. T \subseteq S
  BY Zenon DEF LatestInv, TypeOK
<1>3. \A U : U = {} => Highest(U) = None
  BY Zenon DEF Highest
<1>4. FindEntry(n) = IF found = {} THEN None ELSE CHOOSE i \in found : TRUE
  BY Zenon DEF FindEntry
<1>5. ScanPkgBucketByUpstream(n) = IF Highest(T) # None /\ Live(Highest(T)) THEN Highest(T) ELSE None
  BY Zenon DEF ScanPkgBucketByUpstream
<1>6. CASE S = {}
  <2>1. found = {} /\ T = {}
    BY Zenon, <1>2, <1>6
  <2> QED
    BY Zenon, <1>3, <1>4, <1>5, <1>6, <2>1
<1>7. ASSUME NEW k \in S PROVE \E j \in found : TRUE
  <2>1. latest[n] \in Nat /\ Version[k] \in Nat \ {0} /\ Version[k] <= latest[n]
    BY Zenon, <1>1 DEF TypeOK, Placements
  <2>2. latest[n] # 0
    BY <2>1
  <2> QED
    BY Zenon, <2>2 DEF LatestInv
<1>8. CASE S # {}
  <2>1. PICK j \in found : TRUE
    BY Zenon, <1>7, <1>8
  <2>2. j \in S /\ Version[j] = latest[n] /\ j \in T /\ j # None /\ Live(j)
    BY Zenon, <1>1, <2>1 DEF Placements
  <2>3. \A i \in Ids : Name[i] = n /\ Version[i] = latest[n] => i = j
    BY Zenon, <2>1 DEF Placements
  <2>4. FindEntry(n) = j
    BY Zenon, <1>4, <2>1, <2>3
  <2>5. ASSUME NEW U, U \subseteq S, j \in U PROVE Highest(U) = j
    <3>1. \A i \in U : Version[i] <= Version[j]
      BY Zenon, <1>1, <2>2, <2>5
    <3>2. ASSUME NEW h \in U, \A i \in U : Version[i] <= Version[h] PROVE h = j
      <4>1. Version[j] <= Version[h] /\ Version[h] <= Version[j] /\ Version[h] \in Nat /\ Version[j] \in Nat
        BY Zenon, <2>2, <2>5, <3>1, <3>2 DEF Placements
      <4>2. Version[h] = latest[n]
        BY <2>2, <4>1
      <4> QED
        BY Zenon, <2>3, <2>5, <4>2
    <3>3. Highest(U) = CHOOSE i \in U : \A k \in U : Version[k] <= Version[i]
      BY Zenon, <2>5 DEF Highest
    <3> QED
      BY Zenon, <2>5, <3>1, <3>2, <3>3
  <2>6. Highest(S) = j /\ Highest(T) = j
    BY Zenon, <1>2, <2>2, <2>5
  <2> QED
    BY Zenon, <1>5, <2>2, <2>4, <2>6
<1> QED
  BY Zenon, <1>6, <1>8

-----------------------------------------------------------------------------
(* Backups *)

\* Every step keeps BackInv: a command changes an entry of a touched bucket only, and what
\* Backup reads moves from the entries ahead of it to those it has got.
LEMMA BackStep ==
    ASSUME Placements, TypeOK, TypeOK', WorkInv, LiveInv, BackInv, [Next]_vars
    PROVE  BackInv'
<1>0. Smooth' => Smooth
  BY Zenon, SeenGrows DEF Smooth
<1>a. /\ \A w \in Workers : Busy(w) => Bucket[Id(w)] \in touched
      /\ IF back.pc = "idle" THEN back = NoBack ELSE back.bucket \in Buckets
      /\ \A i \in back.todo : Bucket[i] = back.bucket
      /\ Smooth /\ back.pc = "mget" /\ back.bucket \notin touched =>
            back.got \union Ahead = Entries(back.bucket)
      /\ \A b \in Buckets \ touched :
            back.bucket # b /\ Smooth => file[b] = Entries(b) \/ Entries(b) = {}
  BY Zenon DEF BackInv, BackupHolds, Smooth
<1>b. ASSUME \A b \in Buckets \ touched' :
                back.bucket' # b /\ Smooth' => file'[b] = Entries(b)' \/ Entries(b)' = {}
      PROVE  BackupHolds'
  BY Zenon, <1>b DEF BackupHolds, Smooth
<1>c. back.pc = "mget" => back.bucket \in Buckets
  BY Zenon, <1>a
<1>1. ASSUME touched \subseteq touched', UNCHANGED <<file, back>>,
             \A i \in Ids : key'[i] = key[i] \/ Bucket[i] \in touched',
             \A w \in Workers : Busy(w)' => Bucket[Id(w)'] \in touched'
      PROVE  BackInv'
  <2>1. ASSUME NEW b \in Buckets \ touched' PROVE Entries(b)' = Entries(b)
    BY Zenon, <1>1 DEF Entries, Live
  <2>2. ASSUME Smooth', back.pc = "mget", back.bucket \notin touched'
        PROVE  (back.got \union Ahead = Entries(back.bucket))'
    <3>1. back.got \union Ahead = Entries(back.bucket) /\ back.bucket \in Buckets \ touched'
      BY Zenon, <1>0, <1>1, <1>a, <1>c, <2>2
    <3>2. Entries(back.bucket)' = Entries(back.bucket)
      <4>1. back.bucket' = back.bucket
        BY Zenon, <1>1
      <4> QED
        BY Zenon, <1>1, <3>1, <4>1 DEF Entries, Live
    <3>3. Ahead' = Ahead
      <4>1. back.todo' = back.todo /\ \A i \in back.todo : key'[i] = key[i]
        BY Zenon, <1>1, <1>a, <2>2 DEF TypeOK
      <4> QED
        BY Zenon, <4>1 DEF Ahead, Live
    <3> QED
      BY Zenon, <1>1, <3>1, <3>2, <3>3
  <2>3. BackupHolds'
    <3> SUFFICES ASSUME NEW b \in Buckets \ touched', back.bucket' # b, Smooth'
                 PROVE  file'[b] = Entries(b)' \/ Entries(b)' = {}
      BY Zenon, <1>b
    <3>1. file[b] = Entries(b) \/ Entries(b) = {}
      BY Zenon, <1>0, <1>1, <1>a
    <3> QED
      BY Zenon, <1>1, <2>1, <3>1
  <2> QED
    BY Zenon, <1>1, <1>a, <2>2, <2>3 DEF BackInv, NoBack
<1>2. ASSUME NEW w \in Workers, StartUpsert(w) \/ Restore(w) PROVE BackInv'
  <2>1. PICK i \in Ids, val \in Values : Upsert(w, i, val)
    BY Zenon, <1>2, UpsertStarts
  <2>2. UNCHANGED <<key, file, back>> /\ touched' = touched \union {Bucket[i]}
    BY Zenon, <2>1 DEF Upsert, valkey
  <2>3. work'[w].id = i /\ \A x \in Workers \ {w} : work'[x] = work[x]
    BY Zenon, <2>1, UpsertMoves
  <2>4. \A x \in Workers : Busy(x)' => Bucket[Id(x)'] \in touched'
    BY Zenon, <1>a, <2>2, <2>3 DEF Busy, Id
  <2> QED
    BY Zenon, <1>1, <2>2, <2>4
<1>3. ASSUME NEW w \in Workers, StartRemove(w) PROVE BackInv'
  <2>1. PICK i \in Ids :
           /\ work'[w].id = i
           /\ \A x \in Workers \ {w} : work'[x].pc = work[x].pc /\ work'[x].id = work[x].id
           /\ touched' = touched \union {Bucket[i]} /\ UNCHANGED <<key, file, back>>
    BY <1>3, RemoveMoves
  <2>2. \A x \in Workers : Busy(x)' => Bucket[Id(x)'] \in touched'
    BY Zenon, <1>a, <2>1 DEF Busy, Id
  <2> QED
    BY Zenon, <1>1, <2>1, <2>2
<1>4. ASSUME NEW w \in Workers, GetSourceEntry(w) PROVE BackInv'
  <2>1. UNCHANGED <<key, file, back, touched>> /\ Busy(w)
    BY Zenon, <1>4 DEF GetSourceEntry, valkey, history, At, Busy
  <2>2. \A x \in Workers : Busy(x)' => Bucket[Id(x)'] \in touched'
    BY <1>4, <1>a, <2>1, GetMoves DEF Busy, Id
  <2> QED
    BY Zenon, <1>1, <2>1, <2>2
<1>5. ASSUME NEW w \in Workers, UpsertEntry(w) \/ RemoveEntry(w) \/ Fail(w) PROVE BackInv'
  <2>0. Busy(w) /\ Id(w) \in Ids /\ Bucket[Id(w)] \in touched
    <3>1. Busy(w)
      BY Zenon, <1>5, StepsAreBusy
    <3> QED
      BY Zenon, <1>a, <3>1 DEF WorkInv
  <2>1. UNCHANGED <<file, back, touched>>
    BY Zenon, <1>5, UpsertChanges, RemoveChanges, FailChanges
  <2>2. \A i \in Ids : key'[i] = key[i] \/ i = Id(w)
    <3>1. SetEntry(w) \/ DeleteEntry(w) \/ key' = key
      BY Zenon, <1>5, UpsertChanges, RemoveChanges, FailChanges
    <3> QED
      BY Zenon, <2>0, <3>1 DEF SetEntry, DeleteEntry, TypeOK
  <2>3. work' = [work EXCEPT ![w] = Idle] \/ \E pc \in PCs : Goto(w, pc)
    BY Zenon, <1>5, UpsertChanges, RemoveChanges, FailChanges DEF PCs
  <2>4. CASE work' = [work EXCEPT ![w] = Idle]
    <3>1. work'[w].pc = "idle" /\ \A x \in Workers \ {w} : work'[x] = work[x]
      BY <2>4, IdleMoves, Zenon DEF Idle
    <3>2. \A x \in Workers : Busy(x)' => Bucket[Id(x)'] \in touched'
      BY Zenon, <1>a, <2>1, <3>1 DEF Busy, Id
    <3> QED
      BY Zenon, <1>1, <2>0, <2>1, <2>2, <3>2
  <2>5. ASSUME NEW pc \in PCs, Goto(w, pc) PROVE BackInv'
    <3>1. work'[w].id = Id(w) /\ \A x \in Workers \ {w} : work'[x] = work[x]
      BY Zenon, <2>5, GotoMoves DEF Id
    <3>2. \A x \in Workers : Busy(x)' => Bucket[Id(x)'] \in touched'
      BY Zenon, <1>a, <2>0, <2>1, <3>1 DEF Busy, Id
    <3> QED
      BY Zenon, <1>1, <2>0, <2>1, <2>2, <3>2
  <2> QED
    BY Zenon, <2>3, <2>4, <2>5
<1>6. CASE Reset
  <2>1. touched' = Buckets /\ UNCHANGED <<file, back>>
    BY Zenon, <1>6 DEF Reset
  <2>2. \A x \in Workers : Busy(x)' => Bucket[Id(x)'] \in touched'
    BY Zenon, <1>6, <1>a, <2>1, ResetMoves DEF Busy, Id, TypeOK
  <2>3. touched \subseteq touched' /\ \A i \in Ids : Bucket[i] \in touched'
    BY Zenon, <2>1 DEF TypeOK, Buckets
  <2> QED
    BY Zenon, <1>1, <2>1, <2>2, <2>3
<1>7. CASE UNCHANGED vars \/ RestoreStart
  <2>1. UNCHANGED <<key, work, file, back, touched>>
    BY Zenon, <1>7 DEF RestoreStart, vars, valkey, history
  <2> QED
    BY Zenon, <1>1, <1>a, <2>1 DEF Busy, Id
<1>8. CASE BackupStart
  <2>1. PICK b \in Buckets :
           /\ back' = [pc |-> "mget", bucket |-> b, todo |-> ScanMembers(b), got |-> {}]
           /\ touched' = {c \in touched : c # b \/ \E w \in Workers : Id(w) # None /\ Bucket[Id(w)] = b}
           /\ back = NoBack /\ UNCHANGED <<key, member, bucket, work, file, seen>>
    BY Zenon, <1>8, <1>a DEF BackupStart, valkey
  <2>2. \A w \in Workers : Busy(w)' => Bucket[Id(w)'] \in touched'
    <3>1. \A w \in Workers : Busy(w) => Bucket[Id(w)] \in touched /\ Id(w) # None
      BY Zenon, <1>a DEF WorkInv, Placements
    <3> QED
      BY Zenon, <2>1, <3>1 DEF Busy, Id
  <2>3. /\ back'.pc = "mget" /\ back'.bucket = b /\ back'.got = {} /\ back'.todo = ScanMembers(b)
        /\ \A i \in ScanMembers(b) : Bucket[i] = b /\ i \in member
    BY Zenon, <2>1 DEF ScanMembers
  <2>4. ASSUME Smooth, b \notin touched' PROVE {<<i, key[i]>> : i \in {i \in ScanMembers(b) : Live(i)}} = Entries(b)
    <3>1. \A w \in Workers : Id(w) # None => Bucket[Id(w)] # b
      <4>1. \A w \in Workers : Busy(w) => Bucket[Id(w)] # b
        BY Zenon, <2>2, <2>1, <2>4 DEF Busy, Id
      <4> QED
        BY Zenon, <4>1 DEF WorkInv
    <3>2. \A i \in Ids : Bucket[i] = b => Quiet(i)
      BY Zenon, <3>1 DEF Quiet, Placements
    <3>3. \A i \in Ids : Bucket[i] = b /\ Live(i) => i \in ScanMembers(b)
      BY Zenon, <2>4, <3>2 DEF LiveInv, Kept, ScanMembers
    <3>4. \A i \in ScanMembers(b) : i \in Ids /\ Bucket[i] = b
      BY Zenon DEF ScanMembers, TypeOK
    <3>5. {i \in ScanMembers(b) : Live(i)} = {i \in Ids : Bucket[i] = b /\ Live(i)}
      BY Zenon, <3>3, <3>4
    <3> QED
      BY Zenon, <3>5 DEF Entries
  <2>5. (Smooth /\ back.bucket \notin touched => back.got \union Ahead = Entries(back.bucket))'
    <3>1. Smooth' <=> Smooth
      BY Zenon, <2>1 DEF Smooth
    <3>2. Ahead' = {<<i, key[i]>> : i \in {i \in ScanMembers(b) : Live(i)}}
      BY Zenon, <2>1, <2>3 DEF Ahead, Live
    <3>3. Entries(back.bucket)' = Entries(b)
      BY Zenon, <2>1, <2>3 DEF Entries, Live
    <3> QED
      BY Zenon, <2>3, <2>4, <3>1, <3>2, <3>3
  <2>6. BackupHolds'
    <3> SUFFICES ASSUME NEW c \in Buckets \ touched', back.bucket' # c, Smooth'
                 PROVE  file'[c] = Entries(c)' \/ Entries(c)' = {}
      BY Zenon, <1>b
    <3>1. c # b /\ c \notin touched /\ back.bucket # c
      BY Zenon, <2>1, <2>3 DEF NoBack, Placements
    <3>2. Entries(c)' = Entries(c)
      BY Zenon, <2>1 DEF Entries, Live
    <3> QED
      BY Zenon, <1>0, <1>a, <2>1, <3>1, <3>2
  <2> QED
    BY Zenon, <2>2, <2>3, <2>5, <2>6 DEF BackInv
<1>9. CASE MgetEntries
  <2>1. PICK i \in back.todo :
           back' = [back EXCEPT !.todo = @ \ {i},
                                !.got = IF key[i] = None THEN @ ELSE @ \union {<<i, key[i]>>}]
    BY Zenon, <1>9 DEF MgetEntries
  <2>2. UNCHANGED <<key, work, file, touched, seen>> /\ back.pc = "mget"
    BY Zenon, <1>9 DEF MgetEntries, valkey, history
  <2>3. /\ back'.pc = "mget" /\ back'.bucket = back.bucket /\ back'.todo = back.todo \ {i}
        /\ back'.got = IF key[i] = None THEN back.got ELSE back.got \union {<<i, key[i]>>}
    BY Zenon, <2>1, <2>2 DEF TypeOK
  <2>4. \A w \in Workers : Busy(w)' => Bucket[Id(w)'] \in touched'
    BY Zenon, <1>a, <2>2 DEF Busy, Id
  <2>5. (back.got \union Ahead)' = back.got \union Ahead
    <3>1. Ahead' = {<<j, key[j]>> : j \in {j \in back.todo \ {i} : key[j] # None}}
      BY Zenon, <2>2, <2>3 DEF Ahead, Live
    <3>2. Ahead = Ahead' \union (IF key[i] = None THEN {} ELSE {<<i, key[i]>>})
      BY Zenon, <2>1, <3>1 DEF Ahead, Live
    <3> QED
      BY Zenon, <2>3, <3>2
  <2>6. (Smooth' <=> Smooth) /\ Entries(back.bucket)' = Entries(back.bucket)
    BY Zenon, <2>2, <2>3 DEF Smooth, Entries, Live
  <2>7. BackupHolds'
    <3>1. \A b \in Buckets : Entries(b)' = Entries(b)
      BY Zenon, <2>2 DEF Entries, Live
    <3> QED
      BY Zenon, <1>0, <1>a, <1>b, <2>2, <2>3, <3>1
  <2>8. (Smooth /\ back.pc = "mget" /\ back.bucket \notin touched =>
            back.got \union Ahead = Entries(back.bucket))'
    BY Zenon, <1>a, <2>2, <2>3, <2>5, <2>6
  <2> QED
    BY Zenon, <1>a, <1>c, <2>2, <2>3, <2>4, <2>7, <2>8 DEF BackInv
<1>10. CASE BackupEntries
  <2>1. /\ file' = IF back.got = {} THEN file ELSE [file EXCEPT ![back.bucket] = back.got]
        /\ back' = NoBack /\ back.pc = "mget" /\ back.todo = {} /\ UNCHANGED <<key, work, touched, seen>>
    BY Zenon, <1>10 DEF BackupEntries, valkey, history
  <2>2. \A w \in Workers : Busy(w)' => Bucket[Id(w)'] \in touched'
    BY Zenon, <1>a, <2>1 DEF Busy, Id
  <2>3. back'.pc = "idle" /\ back'.todo = {}
    BY Zenon, <2>1 DEF NoBack
  <2>4. BackupHolds'
    <3> SUFFICES ASSUME NEW b \in Buckets \ touched, Smooth PROVE file'[b] = Entries(b) \/ Entries(b) = {}
      <4>1. \A b \in Buckets : Entries(b)' = Entries(b)
        BY Zenon, <2>1 DEF Entries, Live
      <4> QED
        BY Zenon, <1>0, <1>b, <2>1, <4>1
    <3>1. CASE b # back.bucket
      <4>1. file'[b] = file[b]
        BY Zenon, <2>1, <3>1 DEF TypeOK
      <4> QED
        BY Zenon, <1>a, <3>1, <4>1
    <3>2. CASE b = back.bucket
      <4>1. Ahead = {}
        BY Zenon, <2>1 DEF Ahead
      <4>2. back.got = Entries(b)
        BY Zenon, <1>a, <2>1, <3>2, <4>1
      <4>3. back.got # {} => file'[b] = back.got
        BY <2>1, <3>2 DEF TypeOK
      <4> QED
        BY Zenon, <4>2, <4>3
    <3> QED
      BY Zenon, <3>1, <3>2
  <2> QED
    BY Zenon, <2>1, <2>2, <2>3, <2>4 DEF BackInv
<1> QED
  BY Zenon, <1>2, <1>3, <1>4, <1>5, <1>6, <1>7, <1>8, <1>9, <1>10 DEF Next

-----------------------------------------------------------------------------
(* The theorems *)

\* Nothing is indexed, listed or backed up at the start.
LEMMA AllInit ==
    ASSUME Placements, Init
    PROVE  TypeOK /\ WorkInv /\ AckInv /\ AloneInv /\ LiveInv /\ LatestInv /\ BackInv
<1>1. \A w \in Workers : work[w] = Idle
  BY Zenon DEF Init
<1>2. /\ Idle \in Work /\ Idle.pc = "idle" /\ Idle.id = None /\ ~Idle.clean
  BY Zenon DEF Idle, Work, PCs
<1>3. TypeOK
  <2>1. work \in [Workers -> Work]
    BY Zenon, <1>2 DEF Init
  <2>2. back \in [pc : {"idle", "mget"}, bucket : Buckets \union {None},
                  todo : SUBSET Ids, got : SUBSET (Ids \X Values)]
    BY Zenon DEF Init, NoBack
  <2>3. /\ key \in [Ids -> Values \union {None}] /\ member \subseteq Ids /\ bucket \subseteq Buckets
        /\ digest \in [Digests -> Packages \union {None}] /\ latest \in [Names -> Nat]
    BY Zenon DEF Init
  <2>4. /\ file \in [Buckets -> SUBSET (Ids \X Values)] /\ restore \subseteq Ids \X Values
        /\ acked \subseteq Ids /\ touched \subseteq Buckets /\ seen = {} /\ ops \in 0 .. MaxOps
    BY DEF Init, Placements
  <2> QED
    BY Zenon, <2>1, <2>2, <2>3, <2>4 DEF TypeOK, Work, PCs
<1>4. WorkInv
  BY Zenon, <1>1, <1>2 DEF WorkInv, Busy, Id, Removing
<1>5. AckInv
  BY Zenon, <1>1, <1>2 DEF AckInv, Init
<1>6. AloneInv
  BY Zenon, <1>1, <1>2 DEF AloneInv, Busy, At
<1>7. /\ \A i \in Ids : key[i] = None
      /\ \A d \in Digests : digest[d] = None
      /\ \A n \in Names : latest[n] = 0
      /\ \A b \in Buckets : file[b] = {}
      /\ member = {} /\ touched = {} /\ back = NoBack
  BY Zenon DEF Init
<1>8. LiveInv
  BY Zenon, <1>1, <1>2, <1>7 DEF LiveInv, Done, Kept, Pointed, PastSet, PastAdd, PastRegister, PastDel, Live
<1>9. LatestInv
  BY Zenon, <1>1, <1>2, <1>7 DEF LatestInv, Removing, Live, At
<1>10. BackInv
  <2>1. \A b \in Buckets : Entries(b) = {}
    BY Zenon, <1>7 DEF Entries, Live
  <2>2. back.pc = "idle" /\ back.todo = {}
    BY Zenon, <1>7 DEF NoBack
  <2> QED
    BY Zenon, <1>1, <1>2, <1>7, <2>1, <2>2 DEF BackInv, BackupHolds, Busy
<1> QED
  BY Zenon, <1>3, <1>4, <1>5, <1>6, <1>8, <1>9, <1>10

\* Types, of the commands of UpsertEntry, RemoveEntry, Backup and Restore.
THEOREM IndexTypeCorrect == Spec => []TypeOK
<1>1. Init => TypeOK /\ WorkInv
  BY Zenon, PlacementAssumption, AllInit
<1>2. TypeOK /\ WorkInv /\ [Next]_vars => (TypeOK /\ WorkInv)'
  BY Zenon, PlacementAssumption, WorkStep
<1> QED
  BY <1>1, <1>2, PTL DEF Spec

\* An upsert that succeeded, and that no removal of the same placement came between, is in
\* every later listing, whatever else runs or fails: the commands of UpsertEntry are in an
\* order that leaves nothing to be found only by the next one.
THEOREM AcknowledgedIsListed == Spec => []AckedIsListed
<1> DEFINE IInv == TypeOK /\ WorkInv /\ AckInv
<1>1. Init => IInv
  BY Zenon, PlacementAssumption, AllInit
<1>2. IInv /\ [Next]_vars => IInv'
  BY Zenon, PlacementAssumption, WorkStep, AckStep
<1>3. IInv => AckedIsListed
  BY Zenon DEF AckInv, AckedIsListed, ScanMembers
<1> QED
  BY <1>1, <1>2, <1>3, PTL DEF Spec

\* FilesDownloaded of a source is never lost by an upsert while operations on a name do not
\* overlap, failed ones, removals and wipes of the index included: what UpsertSourceEntry
\* read is still there when it writes.
THEOREM DownloadedIsKept == Spec => DownloadedSticks
<1> DEFINE IInv == TypeOK /\ WorkInv /\ AloneInv
<1>1. Init => IInv
  BY Zenon, PlacementAssumption, AllInit
<1>2. IInv /\ [Next]_vars => IInv' /\ DownloadedStays
  BY Zenon, PlacementAssumption, WorkStep, AloneStep
<1>3. IInv /\ [Next]_vars => [DownloadedStays]_vars
  BY Zenon, <1>2
<1> QED
  BY <1>1, <1>2, <1>3, PTL DEF Spec, DownloadedSticks

\* What the last three rest on, together.
Smoothly == TypeOK /\ WorkInv /\ AloneInv /\ LiveInv

\* Every step keeps them.
LEMMA SmoothlyStep ==
    ASSUME Placements, Smoothly, [Next]_vars PROVE Smoothly'
BY Zenon, WorkStep, AloneStep, LiveStep DEF Smoothly

\* A digest points at an entry that is there, whatever removals run: RemoveEntry clears the
\* pointer last, and only if it is still its own.
THEOREM DigestsResolve == Spec => []DigestResolves
<1>1. Init => Smoothly
  BY Zenon, PlacementAssumption, AllInit DEF Smoothly
<1>2. Smoothly /\ [Next]_vars => Smoothly'
  BY Zenon, PlacementAssumption, SmoothlyStep
<1>3. Smoothly => DigestResolves
  BY Zenon DEF Smoothly, LiveInv, Smooth, Pointed, Quiet, DigestResolves
<1> QED
  BY <1>1, <1>2, <1>3, PTL DEF Spec

\* Both lookups of FindEntry find the highest version there is, while nothing was removed,
\* failed or overlapped: bumpLatest only ever raises what the hash has.
THEOREM LookupsFindHighest == Spec => []FindsHighest
<1> DEFINE IInv == Smoothly /\ LatestInv
<1>1. Init => IInv
  BY Zenon, PlacementAssumption, AllInit DEF Smoothly
<1>2. IInv /\ [Next]_vars => IInv'
  BY Zenon, PlacementAssumption, SmoothlyStep, LatestStep DEF Smoothly
<1>3. IInv => FindsHighest
  BY Zenon, PlacementAssumption, LatestFinds DEF Smoothly
<1> QED
  BY <1>1, <1>2, <1>3, PTL DEF Spec

\* A backup holds exactly the entries of a bucket that no operation has touched since it
\* began, while none failed half way and none overlapped, although Backup reads the members
\* and each value with separate commands: unless the bucket has become empty.
THEOREM BackupIsExact == Spec => []BackupHolds
<1> DEFINE IInv == Smoothly /\ BackInv
<1>1. Init => IInv
  BY Zenon, PlacementAssumption, AllInit DEF Smoothly
<1>2. IInv /\ [Next]_vars => IInv'
  BY Zenon, PlacementAssumption, SmoothlyStep, BackStep DEF Smoothly
<1>3. IInv => BackupHolds
  BY Zenon DEF BackInv
<1> QED
  BY <1>1, <1>2, <1>3, PTL DEF Spec

\* The index on Valkey as a whole, for any number of placements, buckets, workers, operations
\* and faults.
THEOREM ValkeyIndexIsSafe == Spec => []ValkeyIndexSafe
BY IndexTypeCorrect, AcknowledgedIsListed, LookupsFindHighest, DigestsResolve, BackupIsExact, PTL
   DEF ValkeyIndexSafe

=============================================================================
