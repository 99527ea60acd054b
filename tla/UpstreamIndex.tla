--------------------------- MODULE UpstreamIndex ---------------------------
(***************************************************************************)
(* How a replica comes by the index of one upstream suite and component:   *)
(* its local IndexCache, the copy all replicas share in Valkey, the fetch  *)
(* lock and the mirror itself (internal/upstream/fetch.go, valkey.go and   *)
(* cache.go), driven by the refresh loop of cmd/debproxy/main.go and by    *)
(* internal/avail's Build.                                                 *)
(*                                                                         *)
(* The mirror publishes generations of its Release.  Index[g] maps the     *)
(* architectures that generation g lists to their packages; two            *)
(* generations list the same digest for an architecture exactly when its   *)
(* packages are the same.  SrcsOf[g] identifies the content of the Sources *)
(* file of g, 0 when g lists none.  A fault of each kind happens at most   *)
(* once and "seen" remembers it.                                           *)
(***************************************************************************)
EXTENDS Naturals, Sequences, FiniteSets

CONSTANTS Replicas,
          Archs,      \* configured architectures
          Pkgs,       \* package stanzas
          Index,      \* the mirror's generations
          SrcsOf,     \* Sources content of each generation
          MaxFaults,  \* bound on the faults of one behaviour
          MaxRounds,  \* bound on its builds, of all replicas together; 0 for no bound
          ByHash      \* does the mirror serve indexes of superseded Releases by hash

Gens == 1 .. Len(Index)
Kinds == {"mirror", "read", "lock", "write", "download", "variant", "crash", "purge"}
Nobody == "nobody"
Dead == "dead"  \* a holder that crashed; the lock's TTL has not run out yet

\* A sparse map from architectures to packages: fetched or read ones only.
Map == UNION {[S -> SUBSET Pkgs] : S \in SUBSET Archs}
Empty == [a \in {} |-> {}]
With(m, a, ps) == [c \in DOMAIN m \union {a} |-> IF c = a THEN ps ELSE m[c]]

ASSUME MirrorAssumption ==
    /\ Index \in Seq(Map) /\ Index # <<>> /\ SrcsOf \in [Gens -> Nat]
    /\ MaxFaults \in Nat /\ MaxRounds \in Nat

\* An indexCacheEntry.  gen is the Release's generation, 0 for a nil Release;
\* sgen and srcs are the Release and the content of the Sources side.
Entry == [gen : 0 .. Len(Index), pkgs : Map, complete : BOOLEAN, fresh : BOOLEAN,
          sgen : 0 .. Len(Index), srcs : Nat]
NoEntry == [gen |-> 0, pkgs |-> Empty, complete |-> FALSE, fresh |-> FALSE,
            sgen |-> 0, srcs |-> 0]

VARIABLES
    shared,   \* is the cache backed by Valkey
    mirror,   \* generation the mirror serves
    meta,     \* UpstreamMeta: the Release's generation and whether Expires is ahead
    members,  \* UpstreamPkgBucket of each architecture
    stored,   \* UpstreamPkgEntry keys of each architecture
    vsrcs,    \* UpstreamSrcs, 0 when there is no such key
    flag,     \* LayoutFresh
    lock,     \* FetchLock
    local,    \* the IndexCache entry of each replica
    b,        \* the build each replica is running
    view,     \* what the last Build of each replica returned
    rounds,   \* builds begun, counted when there is a bound
    seen      \* faults that have happened, and "torn": the buckets were read or replaced
              \* by one replica while another replaced them, or left half replaced by a
              \* crash under a meta that vouched for them or belongs to a later Release

valkey == <<meta, members, stored, vsrcs, flag, lock>>
vars == <<shared, mirror, valkey, local, b, view, rounds, seen>>

Phases == {"idle", "begin", "outright", "fetch", "basis", "scan", "mget", "lock", "release",
           "archs", "publish", "mset", "sadd", "srem", "del", "srcs", "srcmeta", "srcget",
           "srcbasis", "srclock", "srcrelease", "srcfile", "srcput", "done"}

\* warm: a FetchIndex of the refresh loop, before its Build; trusted: Build saw
\* LayoutFresh; why, from: what a read of Valkey is for and the meta it began with;
\* how: the ways its data was come by, of which all but "outright" set didRealFetch
\* or, for "failed", realFetchFailed.
Build == [pc : Phases, warm : BOOLEAN, trusted : BOOLEAN, basis : Entry,
          why : {"adopt", "compare", "outright"}, from : 0 .. Len(Index), fresh : BOOLEAN,
          gen : 0 .. Len(Index), todo : SUBSET Archs, acc : Map, whole : BOOLEAN,
          arch : Archs \union {"none"}, add : SUBSET Pkgs, drop : SUBSET Pkgs,
          out : Entry, how : SUBSET {"outright", "real", "stale", "failed"}]
NoBuild == [pc |-> "idle", warm |-> FALSE, trusted |-> FALSE, basis |-> NoEntry,
            why |-> "adopt", from |-> 0, fresh |-> FALSE, gen |-> 0, todo |-> {},
            acc |-> Empty, whole |-> TRUE, arch |-> "none", add |-> {}, drop |-> {},
            out |-> NoEntry, how |-> {}]

TypeOK ==
    /\ shared \in BOOLEAN /\ mirror \in Gens
    /\ meta \in [gen : 0 .. Len(Index), fresh : BOOLEAN]
    /\ members \in [Archs -> SUBSET Pkgs] /\ stored \in [Archs -> SUBSET Pkgs]
    /\ vsrcs \in Nat /\ flag \in BOOLEAN /\ lock \in Replicas \union {Nobody, Dead}
    /\ local \in [Replicas -> Entry] /\ b \in [Replicas -> Build]
    /\ view \in [Replicas -> Entry] /\ rounds \in 0 .. MaxRounds /\ seen \subseteq Kinds \union {"torn"}

Init ==
    /\ shared \in BOOLEAN /\ mirror = 1
    /\ meta = [gen |-> 0, fresh |-> FALSE]
    /\ members = [a \in Archs |-> {}] /\ stored = [a \in Archs |-> {}]
    /\ vsrcs = 0 /\ flag = FALSE /\ lock = Nobody
    /\ local = [r \in Replicas |-> NoEntry] /\ b = [r \in Replicas |-> NoBuild]
    /\ view = [r \in Replicas |-> NoEntry] /\ rounds = 0 /\ seen = {}

\* A fault of the given kind happens now, or none does.
Fault(kind) == kind \notin seen /\ Cardinality(seen \cap Kinds) < MaxFaults /\ seen' = seen \union {kind}
NoFault == UNCHANGED seen
\* The mirror no longer serves a file its Release lists: no variant can be used.
MidSync == seen' = seen \union {"variant"}

\* Replica r takes a step that overlaps with another one's in the given phases.
Reading == {"scan", "mget"}
Publishing == {"publish", "mset", "sadd", "srem", "del"}
Overlap(r, phases) ==
    seen' = IF \E q \in Replicas \ {r} : b[q].pc \in phases THEN seen \union {"torn"} ELSE seen

At(r, phase) == b[r].pc = phase
Unlocked(r) == IF lock = r THEN Nobody ELSE lock

\* IndexCache.store keeps the Sources side an entry already has.
Stored(r, e) ==
    LET old == local[r]
    IN  [local EXCEPT ![r] =
            IF old.sgen # 0 \/ old.srcs # 0
            THEN [e EXCEPT !.sgen = old.sgen, !.srcs = old.srcs] ELSE e]

\* IndexCache.updateSrcs.
SrcsStored(r, g, s) == [local EXCEPT ![r].sgen = g, ![r].srcs = s]

\* FetchIndex or AdoptFromValkeyOutright returns e, or FetchIndex an error: the
\* deferred stopLock runs and the caller goes on.
Answer(r, e, how) ==
    /\ lock' = Unlocked(r)
    /\ b' = [b EXCEPT ![r] = [NoBuild EXCEPT
                 !.pc = IF b[r].warm THEN "begin" ELSE "srcs", !.trusted = b[r].trusted,
                 !.out = e, !.how = {how}]]
Fail(r) == Answer(r, NoEntry, "failed")

-----------------------------------------------------------------------------
Round == /\ MaxRounds = 0 \/ rounds < MaxRounds
         /\ rounds' = IF MaxRounds = 0 THEN 0 ELSE rounds + 1

\* The refresh loop fetches the index first; a live rebuild calls Build at once.
Refresh(r) ==
    /\ At(r, "idle") /\ Round
    /\ b' = [b EXCEPT ![r] = [NoBuild EXCEPT !.pc = "fetch", !.warm = TRUE]]
    /\ UNCHANGED <<shared, mirror, valkey, local, view, seen>>

Rebuild(r) ==
    /\ At(r, "idle") /\ Round
    /\ b' = [b EXCEPT ![r].pc = "begin"]
    /\ UNCHANGED <<shared, mirror, valkey, local, view, seen>>

\* IndexCache.LayoutDataFresh: a replica has marked the layout fresh, for schedule.refresh.
LayoutDataFresh == shared /\ flag

\* Build asks Valkey once for the whole layout.
BuildStart(r) ==
    /\ At(r, "begin")
    /\ LET trusted == LayoutDataFresh
       IN  b' = [b EXCEPT ![r] = [NoBuild EXCEPT !.trusted = trusted,
                                      !.pc = IF trusted THEN "outright" ELSE "fetch"]]
    /\ UNCHANGED <<rounds, shared, mirror, valkey, local, view, seen>>

\* Start reading the buckets that go with the meta just read.
StartRead(r, why) ==
    b' = [b EXCEPT ![r].pc = "scan", ![r].why = why, ![r].from = meta.gen,
                   ![r].fresh = meta.fresh, ![r].todo = Archs, ![r].acc = Empty,
                   ![r].whole = TRUE]

AdoptFromValkeyOutright(r) ==
    /\ At(r, "outright")
    /\ \/ local[r].gen # 0 /\ local[r].complete /\ NoFault
          /\ Answer(r, local[r], "outright")
       \/ local[r].gen # 0 /\ ~local[r].complete /\ NoFault
          /\ b' = [b EXCEPT ![r].pc = "fetch"] /\ UNCHANGED lock
       \/ local[r].gen = 0 /\ meta.gen # 0 /\ NoFault
          /\ StartRead(r, "outright") /\ UNCHANGED lock
       \/ local[r].gen = 0 /\ ((meta.gen = 0 /\ NoFault) \/ Fault("read"))
          /\ b' = [b EXCEPT ![r].pc = "fetch"] /\ UNCHANGED lock
    /\ UNCHANGED <<rounds, shared, mirror, meta, members, stored, vsrcs, flag, local, view>>

\* The fast paths of FetchIndex: a fresh local entry, then a fresh one in Valkey.
FetchIndex(r) ==
    /\ At(r, "fetch")
    /\ \/ local[r].fresh /\ NoFault /\ Answer(r, local[r], "real")
       \/ ~local[r].fresh /\ shared /\ meta.fresh /\ NoFault
          /\ StartRead(r, "adopt") /\ UNCHANGED lock
       \/ ~local[r].fresh /\ ((~(shared /\ meta.fresh) /\ NoFault) \/ (shared /\ Fault("read")))
          /\ b' = [b EXCEPT ![r].pc = "basis"] /\ UNCHANGED lock
    /\ UNCHANGED <<rounds, shared, mirror, meta, members, stored, vsrcs, flag, local, view>>

CachedForComparison(r) ==
    /\ At(r, "basis")
    /\ \/ local[r].gen # 0 /\ NoFault
          /\ b' = [b EXCEPT ![r].pc = "lock", ![r].basis = local[r]]
       \/ local[r].gen = 0 /\ shared /\ meta.gen # 0 /\ NoFault /\ StartRead(r, "compare")
       \/ local[r].gen = 0 /\ ((~(shared /\ meta.gen # 0) /\ NoFault) \/ (shared /\ Fault("read")))
          /\ b' = [b EXCEPT ![r].pc = "lock", ![r].basis = NoEntry]
    /\ UNCHANGED <<rounds, shared, mirror, valkey, local, view>>

\* Mutant of ReadFailed: a failed read is taken for an empty architecture.
ReadFailedIgnored(whole) == whole
\* fetchArchPkgs marks what it returns incomplete when a read fails.
ReadFailed(whole) == FALSE

\* fetchOneArchPkgs: SSCAN the bucket, then MGET the entries of its members.
ScanArch(r) ==
    /\ At(r, "scan")
    /\ \E a \in b[r].todo :
          \/ NoFault /\ members[a] = {}
             /\ b' = [b EXCEPT ![r].todo = @ \ {a}]
          \/ NoFault /\ members[a] # {}
             /\ b' = [b EXCEPT ![r].todo = @ \ {a}, ![r].pc = "mget", ![r].arch = a,
                               ![r].add = members[a]]
          \/ Fault("read")
             /\ b' = [b EXCEPT ![r].todo = @ \ {a}, ![r].whole = ReadFailed(@)]
    /\ UNCHANGED <<rounds, shared, mirror, valkey, local, view>>

MgetArch(r) ==
    /\ At(r, "mget")
    /\ LET a == b[r].arch
       IN  \/ NoFault
              /\ b' = [b EXCEPT ![r].acc = With(@, a, b[r].add \cap stored[a]),
                                ![r].pc = "scan", ![r].arch = "none", ![r].add = {}]
           \/ Fault("read")
              /\ b' = [b EXCEPT ![r].whole = ReadFailed(@), ![r].pc = "scan", ![r].arch = "none",
                                ![r].add = {}]
    /\ UNCHANGED <<rounds, shared, mirror, valkey, local, view>>

\* Every bucket is read.
ReadFor(r, why) == At(r, "scan") /\ b[r].todo = {} /\ b[r].why = why
ReadEntry(r) ==
    [NoEntry EXCEPT !.gen = b[r].from, !.fresh = b[r].fresh, !.pkgs = b[r].acc,
                    !.complete = b[r].whole]

\* adoptFromValkey keeps the entry even when it declines it as incomplete.
AdoptFromValkey(r) ==
    /\ ReadFor(r, "adopt")
    /\ Overlap(r, Publishing)
    /\ local' = Stored(r, ReadEntry(r))
    /\ IF b[r].whole THEN Answer(r, local'[r], "real")
       ELSE b' = [b EXCEPT ![r].pc = "basis", ![r].acc = Empty] /\ UNCHANGED lock
    /\ UNCHANGED <<rounds, shared, mirror, meta, members, stored, vsrcs, flag, view>>

AdoptFromValkeyForComparison(r) ==
    /\ ReadFor(r, "compare")
    /\ Overlap(r, Publishing)
    /\ b' = [b EXCEPT ![r].pc = "lock", ![r].basis = ReadEntry(r), ![r].acc = Empty]
    /\ UNCHANGED <<rounds, shared, mirror, valkey, local, view>>

\* The end of AdoptFromValkeyOutright; Build takes nil for a miss and fetches.
AdoptedOutright(r) ==
    /\ ReadFor(r, "outright")
    /\ Overlap(r, Publishing)
    /\ IF b[r].whole
       THEN local' = Stored(r, ReadEntry(r)) /\ Answer(r, local'[r], "outright")
       ELSE /\ b' = [b EXCEPT ![r].pc = "fetch", ![r].acc = Empty]
            /\ UNCHANGED <<local, lock>>
    /\ UNCHANGED <<rounds, shared, mirror, meta, members, stored, vsrcs, flag, view>>

-----------------------------------------------------------------------------
\* Only one replica is to fetch; without anything to serve the others fetch too.
AcquireFetchLock(r) ==
    /\ At(r, "lock")
    /\ \/ ~shared /\ NoFault
          /\ b' = [b EXCEPT ![r].pc = "release"] /\ UNCHANGED lock
       \/ shared /\ lock = Nobody /\ NoFault
          /\ b' = [b EXCEPT ![r].pc = "release"] /\ lock' = r
       \/ shared /\ lock # Nobody /\ b[r].basis.gen # 0 /\ NoFault /\ Answer(r, b[r].basis, "stale")
       \/ shared /\ lock # Nobody /\ b[r].basis.gen = 0 /\ NoFault
          /\ b' = [b EXCEPT ![r].pc = "release"] /\ UNCHANGED lock
       \/ shared /\ Fault("lock")
          /\ b' = [b EXCEPT ![r].pc = "release"] /\ UNCHANGED lock
    /\ UNCHANGED <<rounds, shared, mirror, meta, members, stored, vsrcs, flag, local, view>>

\* A 200 with a verified body, or the full fetch after a 304 that proves too little.
StartArchs(r) ==
    /\ b' = [b EXCEPT ![r].pc = "archs", ![r].gen = mirror, ![r].todo = DOMAIN Index[mirror],
                      ![r].acc = Empty, ![r].whole = TRUE]
    /\ UNCHANGED <<local, lock>>

\* getConditional: the status of a GET with the validators of generation g.
GetConditional(g) == {"200", "404", "other", "error"} \union (IF g = mirror THEN {"304"} ELSE {})

\* Release and Release.gpg: both are there and verify, or it is an error.
FetchDetachedRelease == {"body", "error"}

\* A body that does not verify, and an InRelease that is not there, send the fetch to
\* the detached signature.
FetchVerifiedRelease(g) ==
    UNION {CASE status = "304" -> {"304"}
             [] status = "200" -> {"body"} \union FetchDetachedRelease
             [] status = "404" -> FetchDetachedRelease
             [] OTHER -> {"error"} : status \in GetConditional(g)}

\* Without validators there is no 304, and any answer but a 200 goes to the detached one.
FetchVerifiedReleaseFull ==
    UNION {IF status = "error" THEN {"error"} ELSE FetchDetachedRelease :
           status \in GetConditional(0)}

\* The Release of FetchIndex: an error is answered with the basis; a 304 with a complete
\* basis ends the fetch, with an incomplete one it only leads to a full fetch.
FetchRelease(r) ==
    /\ At(r, "release")
    /\ LET basis == b[r].basis
       IN  \E got \in FetchVerifiedRelease(basis.gen) :
           \/ got = "error" /\ basis.gen # 0 /\ Fault("mirror")
              /\ Answer(r, basis, "stale") /\ UNCHANGED local
           \/ got = "error" /\ basis.gen = 0 /\ Fault("mirror") /\ Fail(r) /\ UNCHANGED local
           \/ got = "304" /\ basis.complete /\ NoFault
              /\ local' = Stored(r, [basis EXCEPT !.fresh = TRUE])
              /\ Answer(r, basis, "real")
           \/ got = "304" /\ ~basis.complete
              /\ \E full \in FetchVerifiedReleaseFull :
                    \/ full = "error" /\ Fault("mirror") /\ Fail(r) /\ UNCHANGED local
                    \/ full = "body" /\ NoFault /\ StartArchs(r)
           \/ got = "body" /\ NoFault /\ StartArchs(r)
    /\ UNCHANGED <<rounds, shared, mirror, meta, members, stored, vsrcs, flag, view>>

\* Mutant of Reusable: the digests are not compared.
ReusableAlways(r, a) == a \in DOMAIN b[r].basis.pkgs

\* The packages behind a digest that has not changed need no fetch.
Reusable(r, a) ==
    LET basis == b[r].basis
    IN  /\ a \in DOMAIN basis.pkgs /\ a \in DOMAIN Index[basis.gen]
        /\ Index[basis.gen][a] = Index[b[r].gen][a]

\* fetchPackagesMaybeReuse returns pkgs without an error: what it has, or what the Release
\* lists, which a mirror that moved on still has only by hash; or, when no variant could be
\* used, no packages.
FetchPackagesMaybeReuse(r, a, pkgs) ==
    LET want == Index[b[r].gen][a]
        there == ByHash \/ (a \in DOMAIN Index[mirror] /\ Index[mirror][a] = want)
    IN  \/ Reusable(r, a) /\ pkgs = b[r].basis.pkgs[a] /\ NoFault
        \/ ~Reusable(r, a) /\ there /\ pkgs = want /\ NoFault
        \/ ~Reusable(r, a) /\ pkgs = {} /\ ((~there /\ MidSync) \/ Fault("variant"))

\* One architecture: a lost connection falls back to stale packages, or leaves it out.
FetchArch(r) ==
    /\ At(r, "archs")
    /\ \E a \in b[r].todo :
          LET basis == b[r].basis
              Got(pkgs) == b' = [b EXCEPT ![r].todo = @ \ {a}, ![r].acc = With(@, a, pkgs)]
          IN  \/ \E pkgs \in SUBSET Pkgs : FetchPackagesMaybeReuse(r, a, pkgs) /\ Got(pkgs)
              \/ ~Reusable(r, a) /\ a \in DOMAIN basis.pkgs /\ Fault("download") /\ Got(basis.pkgs[a])
              \/ ~Reusable(r, a) /\ a \notin DOMAIN basis.pkgs /\ Fault("download")
                 /\ b' = [b EXCEPT ![r].todo = @ \ {a}, ![r].whole = FALSE]
    /\ UNCHANGED <<rounds, shared, mirror, valkey, local, view>>

StoreIndex(r) ==
    /\ At(r, "archs") /\ b[r].todo = {}
    /\ LET e == [NoEntry EXCEPT !.gen = b[r].gen, !.pkgs = b[r].acc, !.complete = b[r].whole,
                                !.fresh = TRUE]
       IN  /\ local' = Stored(r, e)
           /\ IF shared
              THEN /\ b' = [b EXCEPT ![r].pc = "publish", ![r].todo = DOMAIN e.pkgs]
                   /\ UNCHANGED lock
              ELSE Answer(r, local'[r], "real")
    /\ UNCHANGED <<rounds, shared, mirror, meta, members, stored, vsrcs, flag, view, seen>>

\* findMembersMissingEntries: members the diff would never write again.
Missing(pkgs, a) == (pkgs \cap members[a]) \ stored[a]

\* publishArchPkgs plans one bucket: new members and unchanged ones whose entry is
\* missing are added, members the index no longer has are removed.
PublishScan(r) ==
    /\ At(r, "publish")
    /\ \E a \in b[r].todo :
          \/ Overlap(r, Reading \union Publishing) /\ UNCHANGED lock
             /\ LET pkgs == b[r].acc[a]
                    add == (pkgs \ members[a]) \union Missing(pkgs, a)
                    drop == members[a] \ pkgs
                IN  b' = [b EXCEPT ![r].todo = @ \ {a}, ![r].arch = a,
                                   ![r].add = add, ![r].drop = drop,
                                   ![r].pc = IF add # {} THEN "mset"
                                             ELSE IF drop # {} THEN "srem" ELSE "publish"]
          \/ Fault("write") /\ Answer(r, local[r], "real")
    /\ UNCHANGED <<rounds, shared, mirror, meta, members, stored, vsrcs, flag, local, view>>

\* One command of the plan; an error leaves the rest of the publish undone.
PublishCommand(r, from, to, newMembers, newStored) ==
    /\ At(r, from)
    /\ \/ Overlap(r, Reading \union Publishing) /\ members' = newMembers /\ stored' = newStored
          /\ b' = [b EXCEPT ![r].pc = to] /\ UNCHANGED lock
       \/ Fault("write") /\ Answer(r, local[r], "real") /\ UNCHANGED <<members, stored>>
    /\ UNCHANGED <<rounds, shared, mirror, meta, vsrcs, flag, local, view>>

PublishMset(r) ==
    PublishCommand(r, "mset", "sadd", members, [stored EXCEPT ![b[r].arch] = @ \union b[r].add])
\* Mutant of PublishSadd: after additions the members that are gone stay.
PublishSaddKeeps(r) ==
    PublishCommand(r, "sadd", "publish", [members EXCEPT ![b[r].arch] = @ \union b[r].add], stored)
PublishSadd(r) ==
    PublishCommand(r, "sadd", IF b[r].drop # {} THEN "srem" ELSE "publish",
                   [members EXCEPT ![b[r].arch] = @ \union b[r].add], stored)
PublishSrem(r) ==
    PublishCommand(r, "srem", "del", [members EXCEPT ![b[r].arch] = @ \ b[r].drop], stored)
PublishDel(r) ==
    PublishCommand(r, "del", "publish", members, [stored EXCEPT ![b[r].arch] = @ \ b[r].drop])

\* The meta goes last: it vouches for every bucket.
PublishMeta(r) ==
    /\ At(r, "publish") /\ b[r].todo = {}
    /\ \/ Overlap(r, Reading \union Publishing) /\ meta' = [gen |-> b[r].gen, fresh |-> TRUE]
       \/ Fault("write") /\ UNCHANGED meta
    /\ Answer(r, local[r], "real")
    /\ UNCHANGED <<rounds, shared, mirror, members, stored, vsrcs, flag, local, view>>

-----------------------------------------------------------------------------
\* The Sources half of Build: the same ladder over one key instead of buckets.
EndSrcs(r, srcs, how) ==
    /\ lock' = Unlocked(r)
    /\ b' = [b EXCEPT ![r] = [b[r] EXCEPT !.pc = "done", !.basis = NoEntry, !.gen = 0,
                                          !.from = 0, !.why = "adopt", !.out.srcs = srcs,
                                          !.how = b[r].how \union {how}]]

ReadSrcs(r, why) ==
    b' = [b EXCEPT ![r].pc = "srcget", ![r].why = why, ![r].from = meta.gen]

\* AdoptSourcesFromValkeyOutright, which Build takes for a miss when it returns nil.
SrcsOutright(r) ==
    /\ At(r, "srcs")
    /\ LET held == b[r].trusted /\ local[r].sgen # 0
           ask == b[r].trusted /\ local[r].sgen = 0 /\ meta.gen # 0
       IN  \/ held /\ local[r].srcs # 0 /\ NoFault /\ EndSrcs(r, local[r].srcs, "outright")
           \/ ask /\ NoFault /\ ReadSrcs(r, "outright") /\ UNCHANGED lock
           \/ ((~ask /\ ~(held /\ local[r].srcs # 0) /\ NoFault) \/ (ask /\ Fault("read")))
              /\ b' = [b EXCEPT ![r].pc = "srcmeta"] /\ UNCHANGED lock
    /\ UNCHANGED <<rounds, shared, mirror, meta, members, stored, vsrcs, flag, local, view>>

\* FetchSources: adopt from Valkey while its meta is fresh, else find a basis.
FetchSources(r) ==
    /\ At(r, "srcmeta")
    /\ \/ shared /\ meta.fresh /\ NoFault /\ ReadSrcs(r, "adopt")
       \/ ((~(shared /\ meta.fresh) /\ NoFault) \/ (shared /\ Fault("read")))
          /\ b' = [b EXCEPT ![r].pc = "srcbasis"]
    /\ UNCHANGED <<rounds, shared, mirror, valkey, local, view>>

SrcsCachedForComparison(r) ==
    /\ At(r, "srcbasis")
    /\ \/ local[r].sgen # 0 /\ NoFault
          /\ b' = [b EXCEPT ![r].pc = "srclock", ![r].basis = local[r]]
       \/ local[r].sgen = 0 /\ shared /\ meta.gen # 0 /\ NoFault /\ ReadSrcs(r, "compare")
       \/ local[r].sgen = 0 /\ ((~(shared /\ meta.gen # 0) /\ NoFault) \/ (shared /\ Fault("read")))
          /\ b' = [b EXCEPT ![r].pc = "srclock", ![r].basis = NoEntry]
    /\ UNCHANGED <<rounds, shared, mirror, valkey, local, view>>

\* fetchSrcs answers with the stored Sources, whichever Release they came from; none
\* stored is an answer too when the Release of the meta lists none.
FetchSrcs(r, why, s) ==
    /\ At(r, "srcget") /\ b[r].why = why
    /\ (s = vsrcs /\ NoFault) \/ (s = 0 /\ vsrcs # 0 /\ Fault("read"))
SrcsKnown(r, s) == s # 0 \/ SrcsOf[b[r].from] = 0

AdoptSrcsFromValkey(r) ==
    /\ \E s \in {vsrcs, 0} :
          /\ FetchSrcs(r, "adopt", s)
          /\ IF SrcsKnown(r, s)
             THEN local' = SrcsStored(r, b[r].from, s) /\ EndSrcs(r, s, "real")
             ELSE b' = [b EXCEPT ![r].pc = "srcbasis"] /\ UNCHANGED <<local, lock>>
    /\ UNCHANGED <<rounds, shared, mirror, meta, members, stored, vsrcs, flag, view>>

AdoptSrcsFromValkeyForComparison(r) ==
    /\ \E s \in {vsrcs, 0} :
          /\ FetchSrcs(r, "compare", s)
          /\ b' = [b EXCEPT ![r].pc = "srclock", ![r].basis =
                       IF SrcsKnown(r, s) THEN [NoEntry EXCEPT !.sgen = b[r].from, !.srcs = s]
                       ELSE NoEntry]
    /\ UNCHANGED <<rounds, shared, mirror, valkey, local, view>>

\* An empty answer is stored, but Build takes its nil for a miss.
SrcsAdoptedOutright(r) ==
    /\ \E s \in {vsrcs, 0} :
          /\ FetchSrcs(r, "outright", s)
          /\ local' = IF SrcsKnown(r, s) THEN SrcsStored(r, b[r].from, s) ELSE local
          /\ IF s # 0 THEN EndSrcs(r, s, "outright")
             ELSE b' = [b EXCEPT ![r].pc = "srcmeta"] /\ UNCHANGED lock
    /\ UNCHANGED <<rounds, shared, mirror, meta, members, stored, vsrcs, flag, view>>

SrcsLock(r) ==
    /\ At(r, "srclock")
    /\ \/ ~shared /\ NoFault
          /\ b' = [b EXCEPT ![r].pc = "srcrelease"] /\ UNCHANGED lock
       \/ shared /\ lock = Nobody /\ NoFault
          /\ b' = [b EXCEPT ![r].pc = "srcrelease"] /\ lock' = r
       \/ shared /\ lock # Nobody /\ b[r].basis.srcs # 0 /\ NoFault
          /\ EndSrcs(r, b[r].basis.srcs, "stale")
       \/ shared /\ ((lock # Nobody /\ b[r].basis.srcs = 0 /\ NoFault) \/ Fault("lock"))
          /\ b' = [b EXCEPT ![r].pc = "srcrelease"] /\ UNCHANGED lock
    /\ UNCHANGED <<rounds, shared, mirror, meta, members, stored, vsrcs, flag, local, view>>

\* The Release again, then the shortcuts: a 304, or the digest of the basis.
SrcsRelease(r) ==
    /\ At(r, "srcrelease")
    /\ LET basis == b[r].basis
           same == basis.srcs # 0 /\ (basis.gen = mirror \/ SrcsOf[basis.sgen] = SrcsOf[mirror])
       IN  \/ Fault("mirror") /\ EndSrcs(r, basis.srcs, IF basis.srcs # 0 THEN "stale" ELSE "failed")
           \/ NoFault /\ same /\ EndSrcs(r, basis.srcs, "real")
           \/ NoFault /\ ~same /\ UNCHANGED lock
              /\ b' = [b EXCEPT ![r].pc = "srcfile", ![r].gen = mirror]
    /\ UNCHANGED <<rounds, shared, mirror, meta, members, stored, vsrcs, flag, local, view>>

FetchSourcesFile(r) ==
    /\ At(r, "srcfile")
    /\ LET want == SrcsOf[b[r].gen]
           there == want # 0 /\ (ByHash \/ SrcsOf[mirror] = want)
           old == b[r].basis.srcs
       IN  \/ there /\ NoFault /\ local' = SrcsStored(r, b[r].gen, want)
              /\ IF shared THEN b' = [b EXCEPT ![r].pc = "srcput"] /\ UNCHANGED lock
                 ELSE EndSrcs(r, want, "real")
           \/ ((~there /\ NoFault) \/ (there /\ Fault("variant")))
              /\ EndSrcs(r, 0, "real") /\ UNCHANGED local
           \/ want # 0 /\ Fault("download") /\ EndSrcs(r, old, IF old # 0 THEN "stale" ELSE "failed")
              /\ UNCHANGED local
    /\ UNCHANGED <<rounds, shared, mirror, meta, members, stored, vsrcs, flag, view>>

PublishSrcs(r) ==
    /\ At(r, "srcput")
    /\ \/ NoFault /\ vsrcs' = SrcsOf[b[r].gen]
       \/ Fault("write") /\ UNCHANGED vsrcs
    /\ EndSrcs(r, SrcsOf[b[r].gen], "real")
    /\ UNCHANGED <<rounds, shared, mirror, meta, members, stored, flag, local, view>>

\* Mutant of MarksFresh: adopting outright extends the trust it relied on.
MarksFreshAlways(how) == "failed" \notin how
\* At least one job did not adopt outright and none failed.
MarksFresh(how) == "failed" \notin how /\ how # {"outright"}

\* EvictUpstream: a no-op unless Valkey keeps a copy.
EvictUpstream(r) == IF shared THEN [local EXCEPT ![r] = NoEntry] ELSE local
\* MarkLayoutDataFresh.
MarkLayoutDataFresh(how) == flag \/ (shared /\ MarksFresh(how))

\* Build evicts what Valkey also has and marks the layout fresh.
BuildEnd(r) ==
    /\ At(r, "done")
    /\ view' = [view EXCEPT ![r] = b[r].out]
    /\ local' = EvictUpstream(r)
    /\ \/ NoFault /\ flag' = MarkLayoutDataFresh(b[r].how)
       \/ Fault("write") /\ UNCHANGED flag
    /\ b' = [b EXCEPT ![r] = NoBuild]
    /\ UNCHANGED <<rounds, shared, mirror, meta, members, stored, vsrcs, lock>>

-----------------------------------------------------------------------------
\* The mirror, the clocks and the failures around the replicas.
MirrorPublishes ==
    /\ mirror < Len(Index) /\ mirror' = mirror + 1
    /\ UNCHANGED <<rounds, shared, valkey, local, b, view, seen>>

MetaExpires ==
    /\ meta.fresh /\ meta' = [meta EXCEPT !.fresh = FALSE]
    /\ UNCHANGED <<rounds, shared, mirror, members, stored, vsrcs, flag, lock, local, b, view, seen>>

\* Expires passes, or an API refresh calls ExpireAll.
LocalExpires(r) ==
    /\ local[r].fresh /\ local' = [local EXCEPT ![r].fresh = FALSE]
    /\ UNCHANGED <<rounds, shared, mirror, valkey, b, view, seen>>

FlagExpires ==
    /\ flag /\ flag' = FALSE
    /\ UNCHANGED <<rounds, shared, mirror, meta, members, stored, vsrcs, lock, local, b, view, seen>>

LockExpires ==
    /\ lock = Dead /\ lock' = Nobody
    /\ UNCHANGED <<rounds, shared, mirror, meta, members, stored, vsrcs, flag, local, b, view, seen>>

\* A replica stops at any point and starts again with an empty IndexCache.
Restart(r) ==
    /\ "crash" \notin seen /\ Cardinality(seen \cap Kinds) < MaxFaults /\ ~At(r, "idle")
    /\ seen' = seen \union {"crash"}
                    \union (IF b[r].pc \in Publishing /\ (meta.fresh \/ b[r].gen < meta.gen)
                           THEN {"torn"} ELSE {})
    /\ lock' = IF lock = r THEN Dead ELSE lock
    /\ b' = [b EXCEPT ![r] = NoBuild]
    /\ local' = [local EXCEPT ![r] = NoEntry] /\ view' = [view EXCEPT ![r] = NoEntry]
    /\ UNCHANGED <<rounds, shared, mirror, meta, members, stored, vsrcs, flag>>

\* Keys deleted by hand between two builds, the sets of members overlooked.
Purge ==
    /\ Fault("purge") /\ \A r \in Replicas : At(r, "idle")
    /\ meta' = [gen |-> 0, fresh |-> FALSE] /\ stored' = [a \in Archs |-> {}]
    /\ UNCHANGED <<rounds, shared, mirror, members, vsrcs, flag, lock, local, b, view>>

BuildStep(r) ==
    \/ Refresh(r) \/ Rebuild(r) \/ BuildStart(r) \/ AdoptFromValkeyOutright(r) \/ FetchIndex(r)
    \/ CachedForComparison(r) \/ ScanArch(r) \/ MgetArch(r) \/ AdoptFromValkey(r)
    \/ AdoptFromValkeyForComparison(r) \/ AdoptedOutright(r)
    \/ AcquireFetchLock(r) \/ FetchRelease(r) \/ FetchArch(r) \/ StoreIndex(r)
    \/ PublishScan(r) \/ PublishMset(r) \/ PublishSadd(r) \/ PublishSrem(r) \/ PublishDel(r)
    \/ PublishMeta(r) \/ SrcsOutright(r) \/ FetchSources(r) \/ SrcsCachedForComparison(r)
    \/ AdoptSrcsFromValkey(r) \/ AdoptSrcsFromValkeyForComparison(r)
    \/ SrcsAdoptedOutright(r) \/ SrcsLock(r) \/ SrcsRelease(r) \/ FetchSourcesFile(r) \/ PublishSrcs(r)
    \/ BuildEnd(r)

Next ==
    \/ \E r \in Replicas : BuildStep(r) \/ LocalExpires(r) \/ Restart(r)
    \/ MirrorPublishes \/ MetaExpires \/ FlagExpires \/ LockExpires \/ Purge

\* Builds keep being run and go on to their end; expiries come.
Fairness ==
    /\ \A r \in Replicas : WF_vars(BuildStep(r)) /\ WF_vars(LocalExpires(r))
    /\ WF_vars(MetaExpires) /\ WF_vars(FlagExpires) /\ WF_vars(LockExpires)

Spec == Init /\ [][Next]_vars
FairSpec == Spec /\ Fairness

-----------------------------------------------------------------------------
\* What the mirror does in the two invariants: its Releases list the same architectures, and
\* do not go back to the index an architecture had before another one.
SameArchs == \A g, h \in Gens : DOMAIN Index[g] = DOMAIN Index[h]
NeverBack ==
    \A g, h, k \in Gens : \A a \in DOMAIN Index[g] :
        g <= k /\ k <= h /\ Index[g][a] = Index[h][a] => Index[k][a] = Index[g][a]

\* e holds exactly the packages its Release lists for every architecture.
Whole(e) ==
    \A a \in Archs :
        (IF a \in DOMAIN e.pkgs THEN e.pkgs[a] ELSE {})
            = (IF a \in DOMAIN Index[e.gen] THEN Index[e.gen][a] ELSE {})

\* Faults after which the code promises no more than to serve something: a failed
\* write leaves buckets half replaced, and failed downloads or undecodable variants
\* leave stale or empty architectures under a new Release.
Degrading == {"write", "download", "variant"}

\* An entry marked archsComplete holds all its Release lists, in the local cache and
\* as the answer to a Build: outages, failed Valkey reads and locks and a purge never
\* make a partial index pass for whole.  It takes a mirror whose Releases do not drop an
\* architecture: publishToValkey leaves its bucket as it was.
CompleteIsWhole ==
    SameArchs /\ seen \cap (Degrading \union {"crash", "torn"}) = {} =>
        \A r \in Replicas : \A e \in {local[r], b[r].out} :
            e.gen # 0 /\ e.complete => Whole(e)

\* While no replica is replacing buckets, a meta whose Expires is ahead vouches for
\* buckets that hold, entry by entry, what its Release lists (publishToValkey writes
\* it last).  It takes a mirror whose Releases neither drop an architecture nor go back to
\* an earlier digest: after a crash over an expired meta, adoptFromValkeyForComparison
\* takes a half-replaced bucket for that digest's.
FreshMetaVouches ==
    SameArchs /\ NeverBack /\ seen \cap (Degrading \union {"torn"}) = {} /\ meta.fresh
        /\ (\A r \in Replicas : b[r].pc \notin Publishing)
        => Whole([NoEntry EXCEPT !.gen = meta.gen,
                                 !.pkgs = [a \in Archs |-> members[a] \cap stored[a]]])

\* Once the mirror has published its last generation every replica comes to serve it
\* and keeps serving it, whichever single outage, read error, crash or purge happened.
EventuallyCurrent ==
    <>[](seen \cap Degrading # {} \/
         \A r \in Replicas : view[r].gen = mirror /\ Whole(view[r]))

\* An architecture that the new Release still fills and for which older packages are at
\* hand is not emptied by a mirror in the middle of a sync: HasStaleMismatch is "true if
\* any arch fell back to stale due to a digest mismatch" (fetch.go).
MidSyncKeepsPackages ==
    \A r \in Replicas : At(r, "archs") =>
        \A a \in DOMAIN b[r].acc :
            b[r].acc[a] = {} /\ Index[b[r].gen][a] # {} => a \notin DOMAIN b[r].basis.pkgs

=============================================================================
