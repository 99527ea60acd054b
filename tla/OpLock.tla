------------------------------- MODULE OpLock -------------------------------
(***************************************************************************)
(* The operation lock of internal/api/oplock.go over valkeycache.Lock: one *)
(* Valkey key with a TTL, set if absent, renewed and deleted by scripts    *)
(* that compare its token.  Its users are the job worker, the snapshot     *)
(* handler and the schedulers of every replica.                            *)
(*                                                                         *)
(* Time is counted in units of which OperationLockTTL is TTL and           *)
(* OperationLockRenewInterval is Interval.  A step that the code takes     *)
(* without blocking happens before time passes; only waiting for the index *)
(* build lock, running the operation and polling take time.                *)
(***************************************************************************)
EXTENDS Integers

CONSTANTS Users,      \* goroutines, of any replica, that take the lock
          IndexFirst, \* those that wait for the build lock before they renew
          TTL, Interval,
          BuildWait,  \* bound on the time the build lock is waited for
          MaxFaults,  \* bound on lost replies and failed calls to Valkey
          MaxWipes    \* bound on metadata resets while an operation runs

ASSUME LockAssumption ==
    /\ IndexFirst \subseteq Users
    /\ TTL \in Nat \ {0} /\ Interval \in Nat \ {0}
    /\ BuildWait \in Nat /\ MaxFaults \in Nat /\ MaxWipes \in Nat
    /\ "free" \notin Users /\ "orphan" \notin Users

VARIABLES
    token,   \* whose token the key holds: a user's, "orphan", or "free" (no key)
    ttl,     \* time the key has left
    pc,      \* idle, poll (in Acquire), held (acquired, not renewing), run
    due,     \* time to the next renewal
    waited,  \* time spent waiting for the build lock
    lost,    \* has the renewer found the lock lost and stopped
    faults, wipes

vars == <<token, ttl, pc, due, waited, lost, faults, wipes>>

TypeOK ==
    /\ token \in Users \union {"free", "orphan"}
    /\ ttl \in 0 .. TTL
    /\ pc \in [Users -> {"idle", "poll", "held", "run"}]
    /\ due \in [Users -> 0 .. Interval]
    /\ waited \in [Users -> 0 .. BuildWait]
    /\ lost \in [Users -> BOOLEAN]
    /\ faults \in 0 .. MaxFaults
    /\ wipes \in 0 .. MaxWipes

Init ==
    /\ token = "free" /\ ttl = 0
    /\ pc = [u \in Users |-> "idle"]
    /\ due = [u \in Users |-> 0]
    /\ waited = [u \in Users |-> 0]
    /\ lost = [u \in Users |-> FALSE]
    /\ faults = MaxFaults
    /\ wipes = MaxWipes

Fault == faults > 0 /\ faults' = faults - 1

\* OpLock.Acquire is called.
Request(u) ==
    /\ pc[u] = "idle"
    /\ pc' = [pc EXCEPT ![u] = "poll"]
    /\ UNCHANGED <<token, ttl, due, waited, lost, faults, wipes>>

\* SET NX PX finds no key.
Acquire(u) ==
    /\ pc[u] = "poll" /\ token = "free"
    /\ token' = u /\ ttl' = TTL
    /\ pc' = [pc EXCEPT ![u] = "held"]
    /\ waited' = [waited EXCEPT ![u] = 0]
    /\ UNCHANGED <<due, lost, faults, wipes>>

\* The key is set but the reply is lost; withRetry's next SET NX finds the key
\* and reports the lock as held by somebody else.
AcquireReplyLost(u) ==
    /\ pc[u] = "poll" /\ token = "free"
    /\ Fault
    /\ token' = "orphan" /\ ttl' = TTL
    /\ UNCHANGED <<pc, due, waited, lost, wipes>>

\* maxWait is over, the context is done or every attempt failed.
GiveUp(u) ==
    /\ pc[u] = "poll"
    /\ pc' = [pc EXCEPT ![u] = "idle"]
    /\ UNCHANGED <<token, ttl, due, waited, lost, faults, wipes>>

\* The operation starts together with its renewals; a job of indexLockedKinds
\* gets here only once it has the index build lock.
StartRenewing(u) ==
    /\ pc[u] = "held"
    /\ pc' = [pc EXCEPT ![u] = "run"]
    /\ due' = [due EXCEPT ![u] = Interval]
    /\ lost' = [lost EXCEPT ![u] = FALSE]
    /\ UNCHANGED <<token, ttl, waited, faults, wipes>>

RenewalDue(u) == pc[u] = "run" /\ due[u] = 0 /\ ~lost[u]

\* Mutant of RenewedTTL: a renewal has no effect.
RenewedNever(u) == ttl

\* renewLockScript: the TTL is extended only if the key holds this user's token.
RenewedTTL(u) == IF token = u THEN TTL ELSE ttl

Renew(u) ==
    /\ RenewalDue(u)
    /\ ttl' = RenewedTTL(u)
    /\ lost' = [lost EXCEPT ![u] = token # u]
    /\ due' = [due EXCEPT ![u] = Interval]
    /\ UNCHANGED <<token, pc, waited, faults, wipes>>

\* A renewal that fails is logged and tried again at the next tick.
RenewFails(u) ==
    /\ RenewalDue(u)
    /\ Fault
    /\ due' = [due EXCEPT ![u] = Interval]
    /\ UNCHANGED <<token, ttl, pc, waited, lost, wipes>>

\* Mutant of Released: the key is deleted whoever holds it.
ReleasedAlways(u) == "free"

\* releaseLockScript: the key is deleted only if it holds this user's token.
Released(u) == IF token = u THEN "free" ELSE token

\* Mutant of Finish: a panic unwinds past the release and leaves the renewer.
FinishPanics(u) == pc[u] = "run" /\ UNCHANGED vars

\* The operation ends; nobody asks whether the lock was lost meanwhile.
Finish(u) ==
    /\ pc[u] = "run"
    /\ token' = Released(u)
    /\ ttl' = IF token' = "free" THEN 0 ELSE ttl
    /\ pc' = [pc EXCEPT ![u] = "idle"]
    /\ due' = [due EXCEPT ![u] = 0]
    /\ waited' = [waited EXCEPT ![u] = 0]
    /\ lost' = [lost EXCEPT ![u] = FALSE]
    /\ UNCHANGED <<faults, wipes>>

\* Release fails for good: the key stays until its TTL ends.
FinishReleaseFails(u) ==
    /\ pc[u] = "run"
    /\ Fault
    /\ token' = IF token = u THEN "orphan" ELSE token
    /\ pc' = [pc EXCEPT ![u] = "idle"]
    /\ due' = [due EXCEPT ![u] = 0]
    /\ waited' = [waited EXCEPT ![u] = 0]
    /\ lost' = [lost EXCEPT ![u] = FALSE]
    /\ UNCHANGED <<ttl, wipes>>

\* A rebuild with reset:true on the Valkey index runs valkeystore.Reset, which
\* deletes every key under the prefix, the lock's included.
ResetWipesKey(u) ==
    /\ pc[u] = "run"
    /\ wipes > 0 /\ wipes' = wipes - 1
    /\ token' = "free" /\ ttl' = 0
    /\ UNCHANGED <<pc, due, waited, lost, faults>>

\* One unit of time.  Due renewals and steps that do not block come first.
Tick ==
    /\ \A u \in Users : ~RenewalDue(u)
    /\ \A u \in Users : pc[u] = "held" => u \in IndexFirst /\ waited[u] < BuildWait
    /\ ttl' = IF ttl > 0 THEN ttl - 1 ELSE 0
    /\ token' = IF ttl <= 1 THEN "free" ELSE token
    /\ due' = [u \in Users |-> IF due[u] > 0 THEN due[u] - 1 ELSE 0]
    /\ waited' = [u \in Users |-> IF pc[u] = "held" THEN waited[u] + 1 ELSE waited[u]]
    /\ UNCHANGED <<pc, lost, faults, wipes>>

UserStep(u) ==
    \/ Request(u) \/ Acquire(u) \/ AcquireReplyLost(u) \/ GiveUp(u) \/ StartRenewing(u)
    \/ Renew(u) \/ RenewFails(u) \/ Finish(u) \/ FinishReleaseFails(u) \/ ResetWipesKey(u)

Next == Tick \/ \E u \in Users : UserStep(u)

Spec == Init /\ [][Next]_vars

\* Time passes, operations end, and a user that keeps polling is not always
\* beaten to the free key.
FairSpec ==
    /\ Spec
    /\ WF_vars(Tick)
    /\ \A u \in Users :
        /\ WF_vars(StartRenewing(u)) /\ WF_vars(Finish(u))
        /\ WF_vars(Renew(u) \/ RenewFails(u)) /\ SF_vars(Acquire(u))

-----------------------------------------------------------------------------
(* Properties *)

\* No two operations run at the same time, on one replica or on two, as long as
\* no reset has deleted the key under a running one.
MutualExclusion ==
    wipes = MaxWipes =>
        \A u, v \in Users : pc[u] = "run" /\ pc[v] = "run" => u = v

\* The timing under which the lock excludes: the wait for the build lock and the
\* failed renewals together fit into the TTL.
Timely == BuildWait + (MaxFaults + 1) * Interval < TTL

\* A key changes hands only by its own holder's release, by expiry or by a wipe:
\* an operation that outlived its lock neither renews nor deletes the key of the
\* user that has it now.
KeyChangesHands ==
    token \in Users /\ token' # token =>
        \/ pc[token] = "run" /\ pc'[token] = "idle"
        \/ ttl <= 1 /\ pc' = pc
        \/ wipes' # wipes
ForeignKeySafe == [][KeyChangesHands]_vars

\* A user that keeps polling gets the lock: an orphaned key never blocks for
\* longer than its TTL.
PollersGetLock ==
    \A u \in Users : (pc[u] = "poll") ~> (pc[u] # "poll")

=============================================================================
