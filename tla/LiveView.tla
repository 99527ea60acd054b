------------------------------ MODULE LiveView ------------------------------
(***************************************************************************)
(* The /live view of one layout on every replica: the generation a replica *)
(* serves, the one it has staged, the ones it retired, the goroutines that *)
(* build, adopt and promote generations, and the notices by which replicas *)
(* tell each other of a new one (internal/server/server.go and valkey.go). *)
(*                                                                         *)
(* A generation is an identity with Files hashed files.  Release and its   *)
(* signatures travel in the notice and are there as soon as the last       *)
(* hashed file is.  Time is counted in units of which liveSwitchoverDelay  *)
(* is Delay, liveMaxAge is MaxAge and liveRetiredRetention is Retention.   *)
(***************************************************************************)
EXTENDS Integers, FiniteSets

CONSTANTS Replicas,
          Warm,       \* replicas that already serve the first generation
          NumGens,    \* number of generation identities
          Files,      \* number of hashed files of a generation
          MaxVersion, \* bound on the versions of the upstream data
          Delay, MaxAge, Retention,
          MaxFaults,  \* bound on failed fetches, builds, locks and publishes, and on new data
          Prompt,     \* do messages and fetches beat the switchover deadline
          Unraced     \* is nothing promoted between the lock sections of an extension

ASSUME SwitchAssumption == Prompt \in BOOLEAN /\ Unraced \in BOOLEAN

ASSUME LiveAssumption ==
    /\ Warm \subseteq Replicas
    /\ NumGens \in Nat \ {0} /\ Files \in Nat \ {0} /\ MaxVersion \in Nat \ {0}
    /\ Delay \in Nat /\ MaxAge \in Nat /\ Retention \in Nat /\ MaxFaults \in Nat
    /\ MaxAge <= Retention

Gens == 1 .. NumGens
NoGen == 0
Nobody == "nobody"
ASSUME NobodyAssumption == Nobody \notin Replicas

\* Each replica has a goroutine that rebuilds and one that retries a mismatch.
Builders == Replicas \X {"rebuild", "retry"}
Entry == [gen : Gens \union {NoGen}, files : 0 .. Files, fp : 0 .. MaxVersion]
NoEntry == [gen |-> NoGen, files |-> 0, fp |-> 0]
Slot == [entry : Entry, complete : BOOLEAN, left : 0 .. Delay, checked : BOOLEAN]
NoSlot == [entry |-> NoEntry, complete |-> FALSE, left |-> 0, checked |-> FALSE]
Data == [ver : 0 .. MaxVersion, whole : BOOLEAN]

VARIABLES
    upstream,  \* version of the upstream data the index cache holds
    made,      \* what each generation was made of; version 0 is not made
    maker,     \* which replica made it
    current,   \* liveCache
    stale,     \* is the current entry past its expiry
    expired,   \* generations past the expiry their notice carries
    staged,    \* stagedLive; checked once its timer has passed the first lock
    retired,   \* retiredLive: time each generation still answers by hash
    timers,    \* entries whose timer has passed the check and will promote
    pc, work, data, mismatch,  \* the builders
    lock,      \* LiveBuildLock
    outbox, inbox, notice,     \* announcements, their deliveries, the last seen
    adopt, got, due, pending, cancelled,  \* the adopting goroutines
    advertised, \* history: time a client may still use each Release it fetched
    faults

gens == <<made, maker, expired>>
view == <<current, stale, staged, retired, advertised>>
builders == <<pc, work, data, mismatch, lock>>
notices == <<outbox, inbox, notice>>
adopters == <<adopt, got, due, pending, cancelled>>
vars == <<upstream, gens, view, timers, builders, notices, adopters, faults>>

BuilderPCs == {"idle", "wait", "quick", "extend", "lock", "build", "files", "generate",
               "swap"}

TypeOK ==
    /\ upstream \in 1 .. MaxVersion
    /\ made \in [Gens -> Data] /\ maker \in [Gens -> Replicas \union {Nobody}]
    /\ expired \subseteq Gens
    /\ current \in [Replicas -> Entry] /\ stale \in [Replicas -> BOOLEAN]
    /\ staged \in [Replicas -> Slot]
    /\ retired \in [Replicas -> [Gens -> 0 .. Retention]]
    /\ timers \in [Replicas -> SUBSET Entry]
    /\ pc \in [Builders -> BuilderPCs] /\ work \in [Builders -> Entry]
    /\ data \in [Builders -> Data] /\ mismatch \in [Builders -> BOOLEAN]
    /\ lock \in Replicas \union {Nobody}
    /\ outbox \subseteq Gens /\ inbox \in [Replicas -> SUBSET Gens]
    /\ notice \in [Replicas -> Gens \union {NoGen}]
    /\ adopt \in [Replicas -> [Gens -> {"none", "jitter", "fetch", "land"}]]
    /\ got \in [Replicas -> [Gens -> 0 .. Files]] /\ due \in [Replicas -> [Gens -> 0 .. Delay]]
    /\ pending \in [Replicas -> Gens \union {NoGen}]
    /\ cancelled \in [Replicas -> SUBSET Gens]
    /\ advertised \in [Replicas -> [Gens -> 0 .. MaxAge]]
    /\ faults \in 0 .. MaxFaults

\* The warm replicas adopted generation 1 from one of them, which made it.
Init ==
    /\ upstream = 1
    /\ made = [g \in Gens |-> [ver |-> IF g = 1 /\ Warm # {} THEN 1 ELSE 0, whole |-> TRUE]]
    /\ \E r \in Replicas :
          /\ Warm # {} => r \in Warm
          /\ maker = [g \in Gens |-> IF g = 1 /\ Warm # {} THEN r ELSE Nobody]
          /\ notice = [s \in Replicas |-> IF Warm # {} /\ s \in Warm \ {r} THEN 1 ELSE NoGen]
    /\ current = [r \in Replicas |->
                     IF r \in Warm THEN [gen |-> 1, files |-> Files, fp |-> 1] ELSE NoEntry]
    /\ stale = [r \in Replicas |-> FALSE] /\ expired = {}
    /\ staged = [r \in Replicas |-> NoSlot]
    /\ retired = [r \in Replicas |-> [g \in Gens |-> 0]]
    /\ timers = [r \in Replicas |-> {}]
    /\ pc = [b \in Builders |-> "idle"]
    /\ work = [b \in Builders |-> NoEntry]
    /\ data = [b \in Builders |-> [ver |-> 0, whole |-> TRUE]]
    /\ mismatch = [b \in Builders |-> FALSE]
    /\ lock = Nobody
    /\ outbox = {} /\ inbox = [r \in Replicas |-> {}]
    /\ adopt = [r \in Replicas |-> [g \in Gens |-> "none"]]
    /\ got = [r \in Replicas |-> [g \in Gens |-> 0]]
    /\ due = [r \in Replicas |-> [g \in Gens |-> 0]]
    /\ pending = [r \in Replicas |-> NoGen]
    /\ cancelled = [r \in Replicas |-> {}]
    /\ advertised = [r \in Replicas |-> [g \in Gens |-> IF r \in Warm /\ g = 1 THEN MaxAge ELSE 0]]
    /\ faults = MaxFaults

Fault == faults > 0 /\ faults' = faults - 1
Serving(r) == current[r].gen # NoGen

\* How many files of g the replica resolves by hash: all of a generation that is
\* current or retired within the retention, the ones fetched of a staged one.
Has(r, g) ==
    IF current[r].gen = g \/ retired[r][g] > 0 THEN Files
    ELSE IF staged[r].entry.gen = g THEN staged[r].entry.files ELSE 0

\* Mutant of Install: nothing is retired.
InstallForgets(r, e, wasStaged) ==
    /\ current' = [current EXCEPT ![r] = e]
    /\ stale' = [stale EXCEPT ![r] = e.gen \in expired]
    /\ staged' = IF wasStaged /\ staged[r].checked /\ staged[r].entry = e
                 THEN [staged EXCEPT ![r] = NoSlot] ELSE staged
    /\ advertised' = [advertised EXCEPT ![r][e.gen] = MaxAge]
    /\ UNCHANGED retired

\* promoteLiveEntry: retire what was current, clear the slot if e was in it,
\* install e.  The layout is configured, so the sweep leaves it alone.
Install(r, e, wasStaged) ==
    /\ current' = [current EXCEPT ![r] = e]
    /\ stale' = [stale EXCEPT ![r] = e.gen \in expired]
    /\ retired' = IF Serving(r) THEN [retired EXCEPT ![r][current[r].gen] = Retention] ELSE retired
    /\ staged' = IF wasStaged /\ staged[r].checked /\ staged[r].entry = e
                 THEN [staged EXCEPT ![r] = NoSlot] ELSE staged
    /\ advertised' = [advertised EXCEPT ![r][e.gen] = MaxAge]

\* stageLiveEntry: a cold replica, or one past the deadline, promotes at once; a
\* staged generation replaces the one that waits in the slot.
StageLiveEntry(r, e, left) ==
    IF ~Serving(r) \/ left = 0
    THEN Install(r, e, FALSE)
    ELSE /\ staged' = [staged EXCEPT ![r] =
                          [entry |-> e, complete |-> TRUE, left |-> left, checked |-> FALSE]]
         /\ UNCHANGED <<current, stale, retired, advertised>>

-----------------------------------------------------------------------------
(* getLive: the requests that start a build. *)

\* A stale entry is served and rebuilt in the background, unless a build or a
\* pending adoption is there already.
Request(r) ==
    /\ Serving(r) /\ stale[r] /\ pc[<<r, "rebuild">>] = "idle" /\ pending[r] = NoGen
    /\ pc' = [pc EXCEPT ![<<r, "rebuild">>] = "quick"]
    /\ UNCHANGED <<upstream, gens, view, timers, work, data, mismatch, lock, notices, adopters,
                   faults>>

\* The first request builds while the client waits; later ones wait with it.
ColdRequest(r) ==
    /\ ~Serving(r) /\ pc[<<r, "rebuild">>] = "idle"
    /\ pc' = [pc EXCEPT ![<<r, "rebuild">>] = "build"]
    /\ UNCHANGED <<upstream, gens, view, timers, work, data, mismatch, lock, notices, adopters,
                   faults>>

-----------------------------------------------------------------------------
(* rebuildLive, and startMismatchRetry for the builder "retry". *)

\* The builder is done: its deferred calls release the build lock and remove the
\* building marker; arm says whether a mismatch starts the retries.
Done(b, arm) ==
    /\ pc' = [pc EXCEPT ![b] = "idle",
                        ![<<b[1], "retry">>] = IF arm /\ mismatch[b] /\ @ = "idle" THEN "wait" ELSE @]
    /\ work' = [work EXCEPT ![b] = NoEntry]
    /\ data' = [data EXCEPT ![b] = [ver |-> 0, whole |-> TRUE]]
    /\ mismatch' = [mismatch EXCEPT ![b] = FALSE]
    /\ lock' = IF b[2] = "rebuild" /\ lock = b[1] THEN Nobody ELSE lock

\* An attempt of the retries ends without a result and the next one waits.
TryAgain(b) ==
    /\ pc' = [pc EXCEPT ![b] = "wait"]
    /\ UNCHANGED <<work, data, mismatch, lock>>

\* QuickFingerprint against the entry that is current now; without a cached
\* Release there is no fingerprint.
QuickCheck(b) ==
    /\ pc[b] = "quick"
    /\ \/ /\ current[b[1]].fp = upstream
          /\ pc' = [pc EXCEPT ![b] = "extend"]
          /\ work' = [work EXCEPT ![b] = current[b[1]]]
          /\ UNCHANGED faults
       \/ /\ (current[b[1]].fp # upstream /\ UNCHANGED faults) \/ Fault
          /\ pc' = [pc EXCEPT ![b] = "lock"]
          /\ UNCHANGED work
    /\ UNCHANGED <<upstream, gens, view, timers, data, mismatch, lock, notices, adopters>>

\* The second lock section: a copy of the entry read in the first, with a new
\* expiry, becomes current.  The code does not look whether the current entry
\* changed in between; Unraced is the assumption that it did not.
Extend(b) ==
    /\ pc[b] = "extend"
    /\ Unraced => current[b[1]].gen = work[b].gen
    /\ current' = [current EXCEPT ![b[1]] = work[b]]
    /\ stale' = [stale EXCEPT ![b[1]] = FALSE]
    /\ advertised' = [advertised EXCEPT ![b[1]][work[b].gen] = MaxAge]
    /\ Done(b, FALSE)
    /\ UNCHANGED <<upstream, gens, staged, retired, timers, notices, adopters, faults>>

\* AcquireLock: a replica that does not get it leaves the build to the holder;
\* one that cannot ask builds without it.
TakeLock(b) ==
    /\ pc[b] = "lock"
    /\ \/ /\ lock = Nobody
          /\ lock' = b[1]
          /\ pc' = [pc EXCEPT ![b] = "build"]
          /\ UNCHANGED <<work, data, mismatch, faults>>
       \/ lock # Nobody /\ Done(b, FALSE) /\ UNCHANGED faults
       \/ Fault /\ pc' = [pc EXCEPT ![b] = "build"] /\ UNCHANGED <<work, data, mismatch, lock>>
    /\ UNCHANGED <<upstream, gens, view, timers, notices, adopters>>

\* buildAvail: the data may lack an upstream (HasFetchFailure) or pair files that
\* do not match (HasStaleMismatch).  Only rebuildLive minds the former.
Build(b) ==
    /\ pc[b] = "build"
    /\ \E whole, mis \in BOOLEAN :
          /\ (whole /\ ~mis /\ UNCHANGED faults) \/ (whole = mis /\ Fault)
          /\ IF b[2] = "retry" /\ mis
             THEN TryAgain(b)
             ELSE IF b[2] = "rebuild" /\ ~whole /\ Serving(b[1])
             THEN /\ pc' = [pc EXCEPT ![b] = "extend"]
                  /\ work' = [work EXCEPT ![b] = current[b[1]]]
                  /\ UNCHANGED <<data, mismatch, lock>>
             ELSE /\ pc' = [pc EXCEPT ![b] = "files"]
                  /\ data' = [data EXCEPT ![b] = [ver |-> upstream, whole |-> whole]]
                  /\ mismatch' = [mismatch EXCEPT ![b] = mis]
                  /\ UNCHANGED <<work, lock>>
    /\ UNCHANGED <<upstream, gens, view, timers, notices, adopters>>

\* adoptLiveFromPeer finds the notice fresh and fetches every file by hash.
AdoptFromPeer(b) ==
    /\ pc[b] = "files"
    /\ LET g == notice[b[1]] IN
       /\ g # NoGen /\ g \notin expired
       /\ Has(maker[g], g) = Files
       /\ work' = [work EXCEPT ![b] = [gen |-> g, files |-> Files, fp |-> 0]]
    /\ pc' = [pc EXCEPT ![b] = "swap"]
    /\ UNCHANGED <<upstream, gens, view, timers, data, mismatch, lock, notices, adopters, faults>>

\* There is no fresh notice, or the fetch fails: the files are made here.
BuildLocally(b) ==
    /\ pc[b] = "files"
    /\ LET g == notice[b[1]] IN
       \/ (g = NoGen \/ g \in expired) /\ UNCHANGED faults
       \/ g # NoGen /\ Has(maker[g], g) < Files /\ UNCHANGED faults
       \/ g # NoGen /\ Fault
    /\ pc' = [pc EXCEPT ![b] = "generate"]
    /\ UNCHANGED <<upstream, gens, view, timers, work, data, mismatch, lock, notices, adopters>>

Unused == {g \in Gens : made[g].ver = 0}

\* generateLiveFiles; the identity is new, the bytes may be anybody's.
Generate(b) ==
    /\ pc[b] = "generate"
    /\ \E g \in Unused :
       /\ \A x \in Unused : g <= x
       /\ made' = [made EXCEPT ![g] = data[b]]
       /\ maker' = [maker EXCEPT ![g] = b[1]]
       /\ work' = [work EXCEPT ![b] = [gen |-> g, files |-> Files, fp |-> 0]]
    /\ pc' = [pc EXCEPT ![b] = "swap"]
    /\ UNCHANGED <<upstream, expired, view, timers, data, mismatch, lock, notices, adopters, faults>>

\* It fails: rebuildLive keeps the stale entry and a cold start the error, the
\* retries try again.
GenerateFails(b) ==
    /\ pc[b] = "generate" /\ Fault
    /\ IF b[2] = "retry" THEN TryAgain(b) ELSE Done(b, Serving(b[1]))
    /\ UNCHANGED <<upstream, gens, view, timers, notices, adopters>>

\* QuickFingerprint again, for the new entry; then swapLiveEntry, which announces
\* a generation made here and stages it.  The retries record no fingerprint.
Swap(b) ==
    /\ pc[b] = "swap"
    /\ LET e == [work[b] EXCEPT !.fp = IF b[2] = "rebuild" THEN upstream ELSE 0] IN
       /\ outbox' = IF maker[e.gen] = b[1] THEN outbox \union {e.gen} ELSE outbox
       /\ StageLiveEntry(b[1], e, Delay)
    /\ Done(b, TRUE)
    /\ UNCHANGED <<upstream, gens, timers, inbox, notice, adopters, faults>>

\* The next attempt of startMismatchRetry, or the end of its deadline.
RetryWakes(b) ==
    /\ pc[b] = "wait"
    /\ pc' = [pc EXCEPT ![b] = "build"]
    /\ UNCHANGED <<upstream, gens, view, timers, work, data, mismatch, lock, notices, adopters,
                   faults>>

RetriesEnd(b) ==
    /\ pc[b] = "wait"
    /\ Done(b, FALSE)
    /\ UNCHANGED <<upstream, gens, view, timers, notices, adopters, faults>>

-----------------------------------------------------------------------------
(* The promotion timer of a staged entry. *)

\* Mutant of PromoteCheck: a partial slot is promoted too.
PromoteCheckPartial(r) ==
    /\ staged[r].entry.gen # NoGen /\ staged[r].left = 0 /\ ~staged[r].checked
    /\ staged' = [staged EXCEPT ![r].checked = TRUE]
    /\ timers' = [timers EXCEPT ![r] = @ \union {staged[r].entry}]
    /\ UNCHANGED <<upstream, gens, current, stale, retired, advertised, builders, notices,
                   adopters, faults>>

\* Mutant of PromoteCheck: only a generation made here has a timer.
PromoteCheckOwn(r) ==
    /\ staged[r].complete /\ staged[r].left = 0 /\ ~staged[r].checked
    /\ maker[staged[r].entry.gen] = r
    /\ staged' = [staged EXCEPT ![r].checked = TRUE]
    /\ timers' = [timers EXCEPT ![r] = @ \union {staged[r].entry}]
    /\ UNCHANGED <<upstream, gens, current, stale, retired, advertised, builders, notices,
                   adopters, faults>>

\* promoteStagedEntry looks whether its entry is still the staged one, complete.
PromoteCheck(r) ==
    /\ staged[r].complete /\ staged[r].left = 0 /\ ~staged[r].checked
    /\ staged' = [staged EXCEPT ![r].checked = TRUE]
    /\ timers' = [timers EXCEPT ![r] = @ \union {staged[r].entry}]
    /\ UNCHANGED <<upstream, gens, current, stale, retired, advertised, builders, notices,
                   adopters, faults>>

\* Then promoteLiveEntry takes the mutex again.
Promote(r) ==
    \E e \in timers[r] :
        /\ Install(r, e, TRUE)
        /\ timers' = [timers EXCEPT ![r] = @ \ {e}]
        /\ UNCHANGED <<upstream, gens, builders, notices, adopters, faults>>

-----------------------------------------------------------------------------
(* publishLiveUpdate and handleLiveUpdatedMessage. *)

\* Pub/sub reaches the replicas that are subscribed at that moment.
Announce(g) ==
    /\ g \in outbox
    /\ outbox' = outbox \ {g}
    /\ \E S \in SUBSET (Replicas \ {maker[g]}) :
          /\ IF S = Replicas \ {maker[g]} THEN UNCHANGED faults ELSE Fault
          /\ inbox' = [r \in Replicas |-> IF r \in S THEN inbox[r] \union {g} ELSE inbox[r]]
    /\ UNCHANGED <<upstream, gens, view, timers, builders, notice, adopters>>

\* The notice is kept; a pending adoption is cancelled and, unless nothing is
\* cached here, a new one is pending.
Receive(r, g) ==
    /\ g \in inbox[r]
    /\ inbox' = [inbox EXCEPT ![r] = @ \ {g}]
    /\ notice' = [notice EXCEPT ![r] = g]
    /\ cancelled' = IF pending[r] = NoGen THEN cancelled
                    ELSE [cancelled EXCEPT ![r] = @ \union {pending[r]}]
    /\ IF Serving(r)
       THEN /\ pending' = [pending EXCEPT ![r] = g]
            /\ adopt' = [adopt EXCEPT ![r][g] = "jitter"]
            /\ due' = [due EXCEPT ![r][g] = Delay]
       ELSE pending' = [pending EXCEPT ![r] = NoGen] /\ UNCHANGED <<adopt, due>>
    /\ UNCHANGED <<upstream, gens, view, timers, builders, outbox, got, faults>>

\* The goroutine of g is done.
AdoptEnds(r, g) ==
    /\ adopt' = [adopt EXCEPT ![r][g] = "none"]
    /\ got' = [got EXCEPT ![r][g] = 0]
    /\ due' = [due EXCEPT ![r][g] = 0]
    /\ cancelled' = [cancelled EXCEPT ![r] = @ \ {g}]

\* After the jitter the cancel function is removed from pendingPeerAdopt and the
\* fetch begins.
AdoptBegins(r, g) ==
    /\ adopt[r][g] = "jitter" /\ g \notin cancelled[r]
    /\ pending' = [pending EXCEPT ![r] = NoGen]
    /\ adopt' = [adopt EXCEPT ![r][g] = "fetch"]
    /\ UNCHANGED <<upstream, gens, view, timers, builders, notices, got, due, cancelled, faults>>

\* A cancelled one ends; when its jitter is over as well, select may take that
\* branch, which removes the entry before the fetch sees the cancelled context.
AdoptCancelled(r, g) ==
    /\ adopt[r][g] = "jitter" /\ g \in cancelled[r]
    /\ AdoptEnds(r, g)
    /\ pending' \in {pending, [pending EXCEPT ![r] = NoGen]}
    /\ UNCHANGED <<upstream, gens, view, timers, builders, notices, faults>>

\* fetchLiveFilesFrom: the publisher answers the next file's by-hash request.
FetchFile(r, g) ==
    /\ adopt[r][g] = "fetch" /\ got[r][g] < Files
    /\ Has(maker[g], g) > got[r][g]
    /\ adopt' = [adopt EXCEPT ![r][g] = "land"]
    /\ got' = [got EXCEPT ![r][g] = @ + 1]
    /\ UNCHANGED <<upstream, gens, view, timers, builders, notices, due, pending, cancelled,
                   faults>>

\* It does not have the file any more, or the request fails.  The files that
\* arrived stay staged.
FetchFails(r, g) ==
    /\ adopt[r][g] = "fetch" /\ got[r][g] < Files
    /\ (Has(maker[g], g) <= got[r][g] /\ UNCHANGED faults) \/ Fault
    /\ AdoptEnds(r, g)
    /\ UNCHANGED <<upstream, gens, view, timers, builders, notices, pending>>

\* stagePartialLiveEntry, for each file that arrives.
StagePartial(r, g) ==
    /\ adopt[r][g] = "land"
    /\ staged' = [staged EXCEPT ![r] =
                     [entry |-> [gen |-> g, files |-> got[r][g], fp |-> 0],
                      complete |-> FALSE, left |-> due[r][g], checked |-> FALSE]]
    /\ adopt' = [adopt EXCEPT ![r][g] = "fetch"]
    /\ UNCHANGED <<upstream, gens, current, stale, retired, advertised, timers, builders,
                   notices, got, due, pending, cancelled, faults>>

\* All files are there: the entry takes the fingerprint of the one it replaces.
StageAdopted(r, g) ==
    /\ adopt[r][g] = "fetch" /\ got[r][g] = Files
    /\ StageLiveEntry(r, [gen |-> g, files |-> Files, fp |-> current[r].fp], due[r][g])
    /\ AdoptEnds(r, g)
    /\ UNCHANGED <<upstream, gens, timers, builders, notices, pending, faults>>

-----------------------------------------------------------------------------
(* The environment. *)

\* The background refresher brings new upstream data into the index cache.
NewData ==
    /\ upstream < MaxVersion /\ Fault
    /\ upstream' = upstream + 1
    /\ UNCHANGED <<gens, view, timers, builders, notices, adopters>>

\* The expiry of the current entry passes; it is the one its notice carries, or,
\* for an extended entry, a later one.
Expire(r) ==
    /\ Serving(r) /\ ~stale[r]
    /\ stale' = [stale EXCEPT ![r] = TRUE]
    /\ expired' = expired \union {current[r].gen}
    /\ UNCHANGED <<upstream, made, maker, current, staged, retired, advertised, timers, builders,
                   notices, adopters, faults>>

\* The build lock is not renewed: a build that outlasts its TTL loses it.
LockExpires ==
    /\ lock # Nobody
    /\ lock' = Nobody
    /\ UNCHANGED <<upstream, gens, view, timers, pc, work, data, mismatch, notices, adopters,
                   faults>>

Less(n) == IF n = 0 THEN 0 ELSE n - 1

\* With Prompt, messages are delivered, fetches reach their end and timers fire
\* before the time they are due has passed.
OnTime ==
    /\ outbox = {}
    /\ \A r \in Replicas :
          /\ inbox[r] = {} /\ timers[r] = {}
          /\ ~(staged[r].complete /\ staged[r].left = 0)
          /\ \A g \in Gens : adopt[r][g] # "none" => due[r][g] > 1

Tick ==
    /\ Prompt => OnTime
    /\ staged' = [r \in Replicas |-> [staged[r] EXCEPT !.left = Less(@)]]
    /\ due' = [r \in Replicas |-> [g \in Gens |-> Less(due[r][g])]]
    /\ retired' = [r \in Replicas |-> [g \in Gens |-> Less(retired[r][g])]]
    /\ advertised' = [r \in Replicas |-> [g \in Gens |->
                         IF current[r].gen = g THEN MaxAge ELSE Less(advertised[r][g])]]
    /\ UNCHANGED <<upstream, gens, current, stale, timers, builders, notices, adopt, got, pending,
                   cancelled, faults>>

-----------------------------------------------------------------------------
Builder(b) ==
    \/ QuickCheck(b) \/ Extend(b) \/ TakeLock(b) \/ Build(b) \/ AdoptFromPeer(b)
    \/ BuildLocally(b) \/ Generate(b) \/ GenerateFails(b) \/ Swap(b) \/ RetryWakes(b)
    \/ RetriesEnd(b)

Adopter(r, g) ==
    \/ Receive(r, g) \/ AdoptBegins(r, g) \/ AdoptCancelled(r, g) \/ FetchFile(r, g)
    \/ FetchFails(r, g) \/ StagePartial(r, g) \/ StageAdopted(r, g)

Next ==
    \/ \E b \in Builders : Builder(b)
    \/ \E r \in Replicas : Request(r) \/ ColdRequest(r) \/ PromoteCheck(r) \/ Promote(r) \/ Expire(r)
    \/ \E r \in Replicas, g \in Gens : Adopter(r, g)
    \/ \E g \in Gens : Announce(g)
    \/ NewData \/ LockExpires \/ Tick

Spec == Init /\ [][Next]_vars

\* Every goroutine that can move does, and time passes.
FairSpec ==
    /\ Spec /\ WF_vars(Tick)
    /\ \A b \in Builders : WF_vars(Builder(b))
    /\ \A r \in Replicas :
          /\ WF_vars(PromoteCheck(r)) /\ WF_vars(Promote(r))
          /\ \A g \in Gens : WF_vars(Adopter(r, g))
    /\ \A g \in Gens : WF_vars(Announce(g))

-----------------------------------------------------------------------------
(* Properties *)

\* A client may use a Release for MaxAge after it fetched it: for that long the
\* replica it came from resolves every file the Release names by hash, whatever
\* was built, adopted, staged or promoted since (liveRetiredRetention).
AdvertisedResolves ==
    \A r \in Replicas, g \in Gens : advertised[r][g] > 0 => Has(r, g) = Files

\* What a replica serves is whole: a generation of which only some files were
\* fetched answers by hash but is never promoted.
WholeGenerations == \A r \in Replicas : Serving(r) => current[r].files = Files

\* Once the builders rest, a complete staged generation is promoted: neither a
\* late fetch nor a slot that was replaced leaves it staged.
SwitchoverWhenQuiet ==
    <>[](\A b \in Builders : pc[b] = "idle") => \A r \in Replicas : []<>~staged[r].complete

=============================================================================
