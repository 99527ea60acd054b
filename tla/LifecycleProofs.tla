-------------------------- MODULE LifecycleProofs --------------------------
(***************************************************************************)
(* Proofs about what runs beside the serving of packages: the operation    *)
(* lock (OpLock), the resolving of an unlisted path (ResolveFlight) and    *)
(* the source files between download and collection (SourceLifecycle),     *)
(* each for any value of its constants.                                    *)
(*                                                                         *)
(* The lock's inductive invariant says how much of the key's TTL is left   *)
(* compared with the next renewal and the failures still to come.  The     *)
(* other two are instances with variables of their own.                    *)
(***************************************************************************)
EXTENDS OpLock, WellFoundedInduction, TLAPS

CONSTANTS Requests, MaxChanges                                    \* ResolveFlight
CONSTANTS MaxVersion, FilesOf, SameRoot, RatioFiles, MaxSourceFaults  \* SourceLifecycle

VARIABLES listed, upstream, changes, inflight, miss, flightPc, result, follows, done, known
VARIABLES stored, flag, first, exists, offered, current, work, clean, seen

Flight == INSTANCE ResolveFlight WITH pc <- flightPc
Source == INSTANCE SourceLifecycle WITH MaxFaults <- MaxSourceFaults

-----------------------------------------------------------------------------
(* The lock: no two operations overlap, for any users and any Timely timing *)

\* The type invariant is preserved by every step.
LEMMA TypeStep == TypeOK /\ [Next]_vars => TypeOK'
<1> SUFFICES ASSUME TypeOK, [Next]_vars PROVE TypeOK'
  BY Zenon
<1> USE LockAssumption DEF TypeOK
<1>1. ASSUME NEW u \in Users, Request(u) PROVE TypeOK'
  BY Zenon, <1>1 DEF Request
<1>2. ASSUME NEW u \in Users, Acquire(u) PROVE TypeOK'
  BY <1>2 DEF Acquire
<1>3. ASSUME NEW u \in Users, AcquireReplyLost(u) PROVE TypeOK'
  BY <1>3 DEF AcquireReplyLost, Fault
<1>4. ASSUME NEW u \in Users, GiveUp(u) PROVE TypeOK'
  BY Zenon, <1>4 DEF GiveUp
<1>5. ASSUME NEW u \in Users, StartRenewing(u) PROVE TypeOK'
  BY <1>5 DEF StartRenewing
<1>6. ASSUME NEW u \in Users, Renew(u) PROVE TypeOK'
  BY <1>6 DEF Renew, RenewedTTL
<1>7. ASSUME NEW u \in Users, RenewFails(u) PROVE TypeOK'
  BY <1>7 DEF RenewFails, Fault
<1>8. ASSUME NEW u \in Users, Finish(u) PROVE TypeOK'
  BY <1>8 DEF Finish, Released
<1>9. ASSUME NEW u \in Users, FinishReleaseFails(u) PROVE TypeOK'
  BY <1>9 DEF FinishReleaseFails, Fault
<1>10. ASSUME NEW u \in Users, ResetWipesKey(u) PROVE TypeOK'
  BY <1>10 DEF ResetWipesKey
<1>11. CASE Tick
  <2>1. waited' \in [Users -> 0 .. BuildWait]
    BY <1>11 DEF Tick
  <2>2. due' \in [Users -> 0 .. Interval]
    BY <1>11 DEF Tick
  <2>3. ttl' \in 0 .. TTL /\ token' \in Users \union {"free", "orphan"}
    BY <1>11 DEF Tick
  <2> QED
    BY Zenon, <1>11, <2>1, <2>2, <2>3 DEF Tick
<1>12. CASE UNCHANGED vars
  BY Zenon, <1>12 DEF vars
<1> QED
  BY Zenon, <1>1, <1>2, <1>3, <1>4, <1>5, <1>6, <1>7, <1>8, <1>9, <1>10, <1>11, <1>12
     DEF Next, UserStep

\* The variables of the lock and of its users keep their types.
THEOREM LockTypeCorrect == Spec => []TypeOK
<1>1. Init => TypeOK
  BY LockAssumption DEF Init, TypeOK
<1> QED
  BY <1>1, TypeStep, PTL DEF Spec

\* What is left of the TTL covers the next renewal and every failure to come.
Covered(u) ==
    /\ pc[u] = "held" =>
        /\ token = u
        /\ ttl > BuildWait - waited[u] + (faults + 1) * Interval
    /\ pc[u] = "run" =>
        /\ token = u /\ ~lost[u]
        /\ ttl > due[u] + faults * Interval

ExclusionInv == TypeOK /\ wipes = MaxWipes /\ \A u \in Users : Covered(u)

\* The failures left, in units of time.
LEMMA FaultBound ==
    ASSUME TypeOK
    PROVE  /\ faults * Interval \in Nat
           /\ (faults + 1) * Interval = faults * Interval + Interval
           /\ faults <= MaxFaults
           /\ (faults + 1) * Interval <= (MaxFaults + 1) * Interval
<1>1. faults \in Nat /\ MaxFaults \in Nat /\ Interval \in Nat /\ faults <= MaxFaults
  BY LockAssumption DEF TypeOK
<1>2. ASSUME NEW a \in Nat, NEW b \in Nat, NEW c \in Nat, a <= b
      PROVE  a * c \in Nat /\ (a + 1) * c = a * c + c /\ (a + 1) * c <= (b + 1) * c
  BY <1>2
<1> QED
  BY Zenon, <1>1, <1>2

\* Every step but a reset keeps the invariant when the timing is right.
LEMMA ExclusionStep ==
    ASSUME Timely, ExclusionInv, [Next]_vars, wipes' = wipes
    PROVE  ExclusionInv'
<1>0. TypeOK /\ TypeOK'
  BY Zenon, TypeStep DEF ExclusionInv
<1>f. /\ faults * Interval \in Nat
      /\ (faults + 1) * Interval = faults * Interval + Interval
      /\ (faults + 1) * Interval <= (MaxFaults + 1) * Interval
  BY Zenon, <1>0, FaultBound
<1>g. ASSUME Fault
      PROVE  /\ faults' * Interval + Interval = faults * Interval
             /\ faults' * Interval \in Nat
             /\ (faults' + 1) * Interval = faults * Interval
  <2>1. faults' \in Nat /\ Interval \in Nat /\ faults = faults' + 1
    BY <1>0, <1>g, LockAssumption DEF Fault, TypeOK
  <2>2. ASSUME NEW a \in Nat, NEW c \in Nat
        PROVE  (a + 1) * c = a * c + c /\ a * c \in Nat
    OBVIOUS
  <2> QED
    BY Zenon, <2>1, <2>2
<1>t. BuildWait + (MaxFaults + 1) * Interval < TTL
  BY Zenon DEF Timely
<1> USE LockAssumption, <1>0 DEF TypeOK, ExclusionInv, Covered
<1>1. ASSUME NEW u \in Users, Request(u) \/ GiveUp(u) PROVE ExclusionInv'
  BY <1>1 DEF Request, GiveUp
<1>2. ASSUME NEW u \in Users, Acquire(u) PROVE ExclusionInv'
  <2>1. \A v \in Users : v # u => pc'[v] \notin {"held", "run"}
    BY <1>2 DEF Acquire
  <2>2. pc'[u] = "held" /\ token' = u /\ ttl' = TTL /\ waited'[u] = 0 /\ UNCHANGED <<faults, wipes>>
    BY <1>2 DEF Acquire
  <2>3. TTL > BuildWait + (faults + 1) * Interval
    BY <1>f, <1>t
  <2> QED
    BY <2>1, <2>2, <2>3
<1>3. ASSUME NEW u \in Users, AcquireReplyLost(u) PROVE ExclusionInv'
  <2>1. \A v \in Users : pc'[v] \notin {"held", "run"}
    BY <1>3 DEF AcquireReplyLost
  <2> QED
    BY Zenon, <1>3, <2>1 DEF AcquireReplyLost
<1>4. ASSUME NEW u \in Users, StartRenewing(u) PROVE ExclusionInv'
  <2>1. \A v \in Users : v # u => pc'[v] \notin {"held", "run"}
    BY <1>4 DEF StartRenewing
  <2>2. /\ pc'[u] = "run" /\ due'[u] = Interval /\ ~lost'[u]
        /\ UNCHANGED <<token, ttl, faults, wipes>>
    BY <1>4 DEF StartRenewing
  <2>3. token = u /\ ttl > Interval + faults * Interval
    BY <1>4, <1>f DEF StartRenewing
  <2> QED
    BY Zenon, <2>1, <2>2, <2>3
<1>5. ASSUME NEW u \in Users, Renew(u) PROVE ExclusionInv'
  <2>1. \A v \in Users : v # u => pc'[v] \notin {"held", "run"}
    BY <1>5 DEF Renew, RenewalDue
  <2>2. /\ pc'[u] = "run" /\ due'[u] = Interval /\ ~lost'[u] /\ ttl' = TTL
        /\ token = u /\ UNCHANGED <<token, faults, wipes>>
    BY <1>5 DEF Renew, RenewalDue, RenewedTTL
  <2>3. TTL > Interval + faults * Interval
    BY <1>f, <1>t
  <2> QED
    BY Zenon, <2>1, <2>2, <2>3
<1>6. ASSUME NEW u \in Users, RenewFails(u) PROVE ExclusionInv'
  <2>1. \A v \in Users : v # u => pc'[v] \notin {"held", "run"}
    BY Zenon, <1>6 DEF RenewFails, RenewalDue
  <2>2. /\ pc'[u] = "run" /\ due'[u] = Interval /\ ~lost'[u] /\ token = u
        /\ ttl > faults * Interval /\ UNCHANGED <<token, ttl, wipes>>
    BY <1>6 DEF RenewFails, RenewalDue
  <2>3. ttl > Interval + faults' * Interval
    <3>1. Fault
      BY Zenon, <1>6 DEF RenewFails
    <3>2. faults' * Interval + Interval = faults * Interval /\ faults' * Interval \in Nat
      BY Zenon, <1>g, <3>1
    <3> HIDE <1>0
    <3> QED
      BY <2>2, <3>2
  <2> QED
    BY Zenon, <2>1, <2>2, <2>3
<1>7. ASSUME NEW u \in Users, Finish(u) \/ FinishReleaseFails(u) PROVE ExclusionInv'
  <2>1. \A v \in Users : pc'[v] \notin {"held", "run"}
    BY <1>7 DEF Finish, FinishReleaseFails
  <2> QED
    BY Zenon, <1>7, <2>1 DEF Finish, FinishReleaseFails
<1>8. ASSUME NEW u \in Users, ResetWipesKey(u) PROVE ExclusionInv'
  BY <1>8, <1>t DEF ResetWipesKey
<1>9. CASE Tick
  <2> SUFFICES ASSUME NEW v \in Users PROVE Covered(v)'
    BY Zenon, <1>9 DEF Tick
  <2>1. CASE pc[v] = "held"
    <3>1. waited[v] < BuildWait /\ waited'[v] = waited[v] + 1
      BY Zenon, <1>9, <2>1 DEF Tick
    <3>2. token = v /\ ttl > BuildWait - waited[v] + (faults + 1) * Interval
      BY Zenon, <2>1
    <3>3. ttl > 1 /\ ttl' = ttl - 1 /\ token' = v
      BY <1>9, <1>f, <3>1, <3>2 DEF Tick
    <3> QED
      BY <1>9, <1>f, <2>1, <3>1, <3>2, <3>3 DEF Tick
  <2>2. CASE pc[v] = "run"
    <3>1. token = v /\ ~lost[v] /\ ttl > due[v] + faults * Interval
      BY Zenon, <2>2
    <3>2. due[v] > 0 /\ due'[v] = due[v] - 1
      BY <1>9, <2>2, <3>1 DEF Tick, RenewalDue
    <3>3. ttl > 1 /\ ttl' = ttl - 1 /\ token' = v
      BY <1>9, <1>f, <3>1, <3>2 DEF Tick
    <3> QED
      BY <1>9, <1>f, <2>2, <3>1, <3>2, <3>3 DEF Tick
  <2>3. CASE pc[v] \notin {"held", "run"}
    BY Zenon, <1>9, <2>3 DEF Tick
  <2> QED
    BY Zenon, <2>1, <2>2, <2>3
<1>10. CASE UNCHANGED vars
  BY Zenon, <1>10 DEF vars
<1> QED
  BY Zenon, <1>1, <1>2, <1>3, <1>4, <1>5, <1>6, <1>7, <1>8, <1>9, <1>10 DEF Next, UserStep

\* Wipes are only ever used up.
LEMMA WipesFall ==
    ASSUME TypeOK, [Next]_vars
    PROVE  wipes' = wipes \/ wipes' < MaxWipes
<1>1. wipes \in Nat /\ MaxWipes \in Nat /\ wipes <= MaxWipes
  BY LockAssumption DEF TypeOK
<1>2. ASSUME NEW u \in Users, ResetWipesKey(u) PROVE wipes' < MaxWipes
  BY <1>1, <1>2 DEF ResetWipesKey
<1>3. ASSUME NEW u \in Users, UserStep(u), ~ResetWipesKey(u) PROVE wipes' = wipes
  BY Zenon, <1>3 DEF UserStep, Request, Acquire, AcquireReplyLost, GiveUp, StartRenewing,
              Renew, RenewFails, Finish, FinishReleaseFails
<1>4. ASSUME Tick \/ UNCHANGED vars PROVE wipes' = wipes
  BY Zenon, <1>4 DEF Tick, vars
<1> QED
  BY Zenon, <1>2, <1>3, <1>4 DEF Next

\* Until the first reset every lock taken is covered.
UnwipedInv == TypeOK /\ (wipes = MaxWipes => ExclusionInv)

\* Operations never overlap, on one replica or several, as long as the wait for
\* the build lock plus one renewal interval more than there are failed calls
\* fits into the TTL, up to the first reset that deletes the key under a running
\* operation.
THEOREM OperationsExclude ==
    ASSUME Timely
    PROVE  Spec => []MutualExclusion
<1>1. Init => UnwipedInv
  BY LockAssumption DEF Init, TypeOK, ExclusionInv, Covered, UnwipedInv
<1>2. UnwipedInv /\ [Next]_vars => UnwipedInv'
  <2> SUFFICES ASSUME UnwipedInv, [Next]_vars PROVE UnwipedInv'
    BY Zenon
  <2>1. TypeOK /\ TypeOK'
    BY Zenon, TypeStep DEF UnwipedInv
  <2>2. wipes' = MaxWipes => wipes' = wipes
    BY <2>1, WipesFall, LockAssumption DEF TypeOK
  <2>3. wipes' = MaxWipes => ExclusionInv'
    BY Zenon, <2>2, ExclusionStep DEF UnwipedInv
  <2> QED
    BY Zenon, <2>1, <2>3 DEF UnwipedInv
<1>3. UnwipedInv => MutualExclusion
  BY Zenon DEF UnwipedInv, ExclusionInv, Covered, MutualExclusion
<1> QED
  BY <1>1, <1>2, <1>3, PTL DEF Spec

\* Whatever the timing, a user that outlived its lock neither renews nor deletes
\* the key of the user that holds it now: the scripts compare the token.
THEOREM ForeignKeysAreSafe == Spec => ForeignKeySafe
<1>1. TypeOK /\ [Next]_vars => [KeyChangesHands]_vars
  <2> SUFFICES ASSUME TypeOK, Next PROVE KeyChangesHands
    BY Zenon
  <2> USE LockAssumption DEF TypeOK, KeyChangesHands
  <2>1. ASSUME NEW u \in Users,
               Request(u) \/ GiveUp(u) \/ StartRenewing(u) \/ Renew(u) \/ RenewFails(u)
        PROVE  KeyChangesHands
    BY Zenon, <2>1 DEF Request, GiveUp, StartRenewing, Renew, RenewFails
  <2>2. ASSUME NEW u \in Users, Acquire(u) \/ AcquireReplyLost(u) PROVE KeyChangesHands
    BY Zenon, <2>2 DEF Acquire, AcquireReplyLost
  <2>3. ASSUME NEW u \in Users, Finish(u) \/ FinishReleaseFails(u) PROVE KeyChangesHands
    BY Zenon, <2>3 DEF Finish, FinishReleaseFails, Released
  <2>4. ASSUME NEW u \in Users, ResetWipesKey(u) PROVE KeyChangesHands
    BY <2>4 DEF ResetWipesKey
  <2>5. CASE Tick
    BY Zenon, <2>5 DEF Tick
  <2> QED
    BY Zenon, <2>1, <2>2, <2>3, <2>4, <2>5 DEF Next, UserStep
<1> QED
  BY <1>1, LockTypeCorrect, PTL DEF Spec, ForeignKeySafe

-----------------------------------------------------------------------------
(* The requests for one path *)

Asking == {"begin", "lead", "finish", "close", "wait"}

\* A leader past its resolve has a result to record, and a request that began under a
\* remembered miss gets no further than recentMiss while the miss is remembered.
FlightInv ==
    /\ Flight!TypeOK
    /\ Flight!OneResolve
    /\ \A r \in Requests : flightPc[r] = "finish" => result[r] \in Flight!Results
    /\ \A r \in Requests : known[r] => miss # Flight!None /\ flightPc[r] \notin Asking

\* The strengthened invariant holds initially: every request is idle.
LEMMA FlightStarts == Flight!Init => FlightInv
BY DEF Flight!Init, FlightInv, Flight!TypeOK, Flight!OneResolve, Asking, Flight!None

\* The steps of one request keep the strengthened invariant.
LEMMA RequestStep ==
    ASSUME FlightInv, NEW r \in Requests, Flight!Request(r) \/ Flight!LookupLive(r) \/ Flight!RecentMiss(r)
    PROVE  FlightInv'
<1>1. CASE Flight!Request(r)
  BY Zenon, <1>1 DEF FlightInv, Flight!TypeOK, Flight!OneResolve, Asking, Flight!Request, Flight!To
<1>2. CASE Flight!LookupLive(r)
  BY Zenon, <1>2 DEF FlightInv, Flight!TypeOK, Flight!OneResolve, Asking, Flight!LookupLive, Flight!To
<1>3. CASE Flight!RecentMiss(r)
  BY Zenon, <1>3 DEF FlightInv, Flight!TypeOK, Flight!OneResolve, Asking, Flight!RecentMiss, Flight!To
<1> QED BY Zenon, <1>1, <1>2, <1>3

\* The steps of a leader keep the strengthened invariant.
LEMMA LeaderStep ==
    ASSUME FlightInv, NEW r \in Requests,
           Flight!BeginResolve(r) \/ Flight!ResolvePoolPath(r) \/ Flight!FinishResolve(r) \/ Flight!CloseDone(r)
    PROVE  FlightInv'
<1>1. CASE Flight!BeginResolve(r)
  <2>1. CASE /\ Flight!To(r, "wait") /\ UNCHANGED inflight /\ done' = [done EXCEPT ![r] = "running"]
             /\ \E leader \in inflight : follows' = [follows EXCEPT ![r] = leader]
    BY <1>1, <2>1 DEF FlightInv, Flight!TypeOK, Flight!OneResolve, Asking, Flight!BeginResolve, Flight!To
  <2>2. CASE inflight = {} /\ inflight' = {r} /\ Flight!To(r, "lead") /\ UNCHANGED <<follows, done>>
    BY <1>1, <2>2 DEF FlightInv, Flight!TypeOK, Flight!OneResolve, Asking, Flight!BeginResolve, Flight!To
  <2> QED
    BY Zenon, <1>1, <2>1, <2>2 DEF Flight!BeginResolve
<1>2. CASE Flight!ResolvePoolPath(r)
  BY <1>2 DEF FlightInv, Flight!TypeOK, Flight!OneResolve, Asking, Flight!ResolvePoolPath, Flight!To, Flight!Results
<1>3. CASE Flight!FinishResolve(r)
  BY <1>3 DEF FlightInv, Flight!TypeOK, Flight!OneResolve, Asking, Flight!FinishResolve, Flight!To, Flight!Results, Flight!None
<1>4. CASE Flight!CloseDone(r)
  BY <1>4 DEF FlightInv, Flight!TypeOK, Flight!OneResolve, Asking, Flight!CloseDone, Flight!To
<1> QED BY Zenon, <1>1, <1>2, <1>3, <1>4

\* So do the steps of a follower, and the answer.
LEMMA FollowerStep ==
    ASSUME FlightInv, NEW r \in Requests, Flight!Wake(r) \/ Flight!CancelWait(r) \/ Flight!Answer(r)
    PROVE  FlightInv'
<1>1. CASE Flight!Wake(r)
  BY Zenon, <1>1 DEF FlightInv, Flight!TypeOK, Flight!OneResolve, Asking, Flight!Wake, Flight!To
<1>2. CASE Flight!CancelWait(r)
  BY Zenon, <1>2 DEF FlightInv, Flight!TypeOK, Flight!OneResolve, Asking, Flight!CancelWait, Flight!To
<1>3. CASE Flight!Answer(r)
  BY Zenon, <1>3 DEF FlightInv, Flight!TypeOK, Flight!OneResolve, Asking, Flight!Answer, Flight!To
<1> QED BY <1>1, <1>2, <1>3

\* The strengthened invariant is inductive.
LEMMA FlightStep == FlightInv /\ [Flight!Next]_Flight!vars => FlightInv'
<1> SUFFICES ASSUME FlightInv, [Flight!Next]_Flight!vars PROVE FlightInv'
  BY Zenon
<1>1. ASSUME NEW r \in Requests, Flight!Request(r) \/ Flight!Step(r) \/ Flight!CancelWait(r) PROVE FlightInv'
  BY Zenon, <1>1, RequestStep, LeaderStep, FollowerStep DEF Flight!Step
<1>2. CASE Flight!MissExpires
  BY Zenon, <1>2 DEF FlightInv, Flight!TypeOK, Flight!OneResolve, Flight!MissExpires
<1>3. CASE Flight!Change
  <2>1. changes' \in Nat
    BY <1>3 DEF FlightInv, Flight!TypeOK, Flight!Change
  <2>2. listed' \in BOOLEAN /\ upstream' \in BOOLEAN
    BY <1>3, Zenon DEF FlightInv, Flight!TypeOK, Flight!Change
  <2>3. UNCHANGED <<inflight, miss, flightPc, result, follows, done, known>>
    BY Zenon, <1>3 DEF Flight!Change
  <2> QED BY Zenon, <2>1, <2>2, <2>3 DEF FlightInv, Flight!TypeOK, Flight!OneResolve
<1>4. CASE UNCHANGED Flight!vars
  BY Zenon, <1>4 DEF FlightInv, Flight!TypeOK, Flight!OneResolve, Flight!vars
<1> QED BY Zenon, <1>1, <1>2, <1>3, <1>4 DEF Flight!Next

\* The strengthened invariant holds throughout.
THEOREM FlightInvariant == Flight!Spec => []FlightInv
BY FlightStarts, FlightStep, PTL DEF Flight!Spec

\* beginResolve and finishResolve: at any number of concurrent requests for a path, the one
\* that asks the upstream is the one resolveInflight names.
THEOREM OneResolveHolds == Flight!Spec => []Flight!OneResolve
<1>1. FlightInv => Flight!OneResolve BY Zenon DEF FlightInv
<1> QED BY <1>1, FlightInvariant, PTL

\* recentMiss: a request that comes under a remembered miss never reaches the upstream, nor
\* waits for another that does, before the miss runs out.
THEOREM RememberedMissHolds == Flight!Spec => []Flight!RememberedMissIsCheap
<1>1. FlightInv => Flight!RememberedMissIsCheap BY Zenon DEF FlightInv, Flight!RememberedMissIsCheap, Asking
<1> QED BY <1>1, FlightInvariant, PTL

\* Resolution as a whole: its types, one resolve per path, and remembered misses, for any
\* number of requests.
THEOREM FlightIsSafe == Flight!Spec => []Flight!FlightSafe
<1>1. FlightInv => Flight!TypeOK BY Zenon DEF FlightInv
<1> QED BY <1>1, FlightInvariant, OneResolveHolds, RememberedMissHolds, PTL DEF Flight!FlightSafe

-----------------------------------------------------------------------------
(* Source packages: SourceLifecycle, for any versions and files *)

\* While orphans are being deleted, none of them is listed by the Sources of current/.
CollectInv ==
    clean.pc = "delete" /\ current # 0 => \A f \in clean.todo : f \notin FilesOf[current]

\* A step keeps this: Snapshot waits for Cleanup, and gcSrc leaves out what it lists.
LEMMA CollectStep ==
    ASSUME CollectInv, [Source!Next]_(Source!vars) PROVE CollectInv'
<1>1. CASE UNCHANGED <<clean, current>>
  BY Zenon, <1>1 DEF CollectInv
<1>2. CASE Source!Snapshot
  BY Zenon, <1>2 DEF CollectInv, Source!Snapshot
<1>3. CASE clean'.pc # "delete"
  BY Zenon, <1>3 DEF CollectInv
<1>4. CASE Source!GcSrc
  <2>1. UNCHANGED current
    BY Zenon, <1>4 DEF Source!GcSrc, Source!index
  <2>2. current # 0 => FilesOf[current] \subseteq Source!BuildSrcRefSet
    BY Zenon DEF Source!BuildSrcRefSet
  <2>3. clean'.pc = "delete" => \A f \in clean'.todo : f \notin Source!BuildSrcRefSet
    <3> DEFINE orphans == Source!Listed \ Source!BuildSrcRefSet
               T == IF Source!CheckOrphanRatio(Source!Cardinality(Source!Listed),
                                             Source!Cardinality(orphans)) THEN {}
                    ELSE {f \in orphans : stored[f] = "old"}
    <3>1. \A f \in T : f \notin Source!BuildSrcRefSet
      BY Zenon
    <3>2. \/ clean' = [Source!NoClean EXCEPT !.pc = "delete", !.todo = T]
          \/ clean' = Source!NoClean
      BY Zenon, <1>4 DEF Source!GcSrc
    <3> HIDE DEF T
    <3>3. [Source!NoClean EXCEPT !.pc = "delete", !.todo = T].todo = T
      BY Zenon DEF Source!NoClean
    <3>4. Source!NoClean.pc # "delete"
      BY Zenon DEF Source!NoClean
    <3> QED
      BY Zenon, <3>1, <3>2, <3>3, <3>4
  <2> QED
    BY Zenon, <2>1, <2>2, <2>3 DEF CollectInv
<1>5. ASSUME Source!PruneMissingSrcEntries \/ Source!RemoveSourceEntry \/ Source!DeleteOrphans
               \/ Source!Forget
      PROVE  clean'.pc # "delete"
  <2>1. Source!NoClean.pc # "delete"
    BY Zenon DEF Source!NoClean
  <2>2. CASE Source!PruneMissingSrcEntries
    BY Zenon, <2>2 DEF Source!PruneMissingSrcEntries, Source!NoClean
  <2>3. CASE Source!RemoveSourceEntry
    BY Zenon, <2>3 DEF Source!RemoveSourceEntry, Source!NoClean
  <2>4. CASE Source!DeleteOrphans
    BY Zenon, <2>4 DEF Source!DeleteOrphans, Source!NoClean
  <2>5. CASE Source!Forget
    BY Zenon, <2>1, <2>5 DEF Source!Forget
  <2> QED
    BY Zenon, <1>5, <2>2, <2>3, <2>4, <2>5
<1>6. ASSUME \/ \E f \in Source!Files : Source!ServeSrc(f) \/ Source!Vanish(f)
             \/ Source!RunUpdate \/ Source!Working \/ Source!UpstreamMoves \/ Source!GraceEnds
             \/ UNCHANGED Source!vars
      PROVE  UNCHANGED <<clean, current>>
  BY Zenon, <1>6 DEF Source!ServeSrc, Source!Vanish, Source!RunUpdate, Source!Working,
     Source!PullThroughSource, Source!FetchSourceFileStream, Source!CacheSourceFile,
     Source!UpsertDownloaded, Source!RecordSource, Source!AutoUpdateFile,
     Source!MarkDownloaded, Source!UpstreamMoves, Source!GraceEnds, Source!vars
<1> QED
  BY Zenon, <1>1, <1>2, <1>3, <1>4, <1>5, <1>6 DEF Source!Next, Source!Cleaning

\* gcSrc never deletes a file that the Sources of current/ list, whatever requests, updates,
\* failures and losses of files happen beside it.
THEOREM PublishedSourcesAreKept == Source!Spec => Source!KeepsPublished
<1>1. Source!Init => CollectInv
  BY Zenon DEF Source!Init, Source!NoClean, CollectInv
<1>2. CollectInv /\ [Source!Next]_(Source!vars) => CollectInv'
  BY Zenon, CollectStep
<1>3. CollectInv => Source!DeletesNothingPublished
  BY Zenon DEF CollectInv, Source!DeletesNothingPublished, Source!DeleteOrphans
<1> QED
  BY <1>1, <1>2, <1>3, PTL DEF Source!Spec, Source!KeepsPublished


\* A set of versions that is not empty has a highest one.
LEMMA HighestVersion ==
    ASSUME MaxVersion \in Nat, NEW S, S \subseteq 1 .. MaxVersion, S # {}
    PROVE  Source!Max(S) \in S /\ \A v \in S : v <= Source!Max(S)
<1> DEFINE T == {MaxVersion - v : v \in S}
<1>1. T \subseteq Nat /\ T # {}
  <2>1. \A v \in S : MaxVersion - v \in Nat
    OBVIOUS
  <2> QED
    BY Zenon, <2>1
<1>2. PICK t \in T : \A y \in T : ~(<<y, t>> \in OpToRel(<, Nat))
  BY ZenonT(40), <1>1, NatLessThanWellFounded, WFMin
<1>3. \A y \in T : ~(y < t)
  BY <1>1, <1>2 DEF OpToRel
<1>4. PICK m \in S : t = MaxVersion - m
  BY Zenon
<1>5. \A v \in S : m >= v
  <2> TAKE v \in S
  <2>1. MaxVersion - v \in T
    BY Zenon
  <2> QED
    BY <1>3, <1>4, <2>1
<1>6. Source!Max(S) \in S /\ \A v \in S : Source!Max(S) >= v
  BY Zenon, <1>5 DEF Source!Max
<1> QED
  BY <1>6

\* The upstream offers a version.
SomeVersions == MaxVersion \in Nat \ {0}

\* Every step keeps the types of the source package's state.
LEMMA SourceTypes ==
    ASSUME SomeVersions, Source!TypeOK, [Source!Next]_(Source!vars) PROVE Source!TypeOK'
<1> USE DEF Source!TypeOK, Source!index
<1>h. Source!HighestEntry \in Source!VersionOrNone
  <2>1. Source!Indexed \subseteq 1 .. MaxVersion
    BY Zenon DEF Source!Indexed, Source!Versions
  <2>2. Source!Indexed # {} => Source!Max(Source!Indexed) \in Source!Indexed
    BY Zenon, <2>1, HighestVersion DEF SomeVersions
  <2> QED
    BY Zenon, <2>1, <2>2 DEF Source!HighestEntry, Source!VersionOrNone, Source!Versions
<1>i. Source!Idle \in [pc : {"idle", "find", "fetch", "put", "upsert", "record", "cache"},
                 v : Source!VersionOrNone, first : Source!Age, prev : Source!VersionOrNone,
                 todo : SUBSET Source!Files]
  BY Zenon DEF Source!Idle, Source!VersionOrNone, Source!Age
<1>n. Source!NoClean \in [pc : {"idle", "remove", "refs", "delete", "forget"},
                  missing : SUBSET Source!Versions, todo : SUBSET Source!Files]
  BY Zenon DEF Source!NoClean
<1>s. ASSUME Source!NoFault \/ Source!Fault("failure") \/ Source!Fault("vanish")
      PROVE  seen' \subseteq {"failure", "vanish", "overtaken"}
  BY Zenon, <1>s DEF Source!NoFault, Source!Fault
<1>u. ASSUME NEW v, NEW d \in BOOLEAN, NEW a \in Source!Age,
             Source!UpsertSourceEntry(v, d, a)
      PROVE  /\ flag' \in [Source!Versions -> {"none", "listed", "downloaded"}]
             /\ first' \in [Source!Versions -> Source!Age]
  BY Zenon, <1>u DEF Source!UpsertSourceEntry
<1>y. "none" \in Source!Age /\ "young" \in Source!Age /\ "old" \in Source!Age
  BY Zenon DEF Source!Age
<1>p. ASSUME NEW f \in Source!Files, Source!PutFile(f)
      PROVE  stored' \in [Source!Files -> Source!Age]
  BY Zenon, <1>p, <1>y DEF Source!PutFile
<1>1. ASSUME NEW f \in Source!Files, Source!ServeSrc(f) PROVE Source!TypeOK'
  BY Zenon, <1>1, <1>i DEF Source!ServeSrc
<1>2. CASE Source!PullThroughSource
  <2>1. Source!HighestEntry # 0 => first[Source!HighestEntry] \in Source!Age
    BY Zenon, <1>h DEF Source!VersionOrNone
  <2> QED
    BY Zenon, <1>2, <1>h, <1>i, <1>y, <2>1 DEF Source!PullThroughSource
<1>3. CASE Source!FetchSourceFileStream
  BY Zenon, <1>3, <1>i, <1>s DEF Source!FetchSourceFileStream
<1>4. CASE Source!CacheSourceFile
  <2>1. stored' \in [Source!Files -> Source!Age]
    BY Zenon, <1>4, <1>p DEF Source!CacheSourceFile
  <2> QED
    BY Zenon, <1>4, <1>i, <2>1 DEF Source!CacheSourceFile
<1>5. CASE Source!UpsertDownloaded
  <2>1. /\ flag' \in [Source!Versions -> {"none", "listed", "downloaded"}]
        /\ first' \in [Source!Versions -> Source!Age]
    BY Zenon, <1>5, <1>u DEF Source!UpsertDownloaded
  <2> QED
    BY Zenon, <1>5, <1>i, <1>s, <2>1 DEF Source!UpsertDownloaded
<1>6. CASE Source!RunUpdate
  <2> DEFINE D == {v \in Source!Versions : flag[v] = "downloaded"}
             p == IF D = {} THEN 0 ELSE Source!Max(D)
  <2>1. D \subseteq 1 .. MaxVersion
    BY Zenon DEF Source!Versions
  <2>2. p \in Source!VersionOrNone
    <3>1. D # {} => Source!Max(D) \in D
      BY Zenon, <2>1, HighestVersion DEF SomeVersions
    <3> QED
      BY Zenon, <3>1 DEF Source!VersionOrNone
  <2>3. work' = [pc |-> "record", prev |-> p, v |-> offered, first |-> "none",
                 todo |-> FilesOf[offered]]
    BY Zenon, <1>6 DEF Source!RunUpdate
  <2>4. FilesOf[offered] \subseteq Source!Files
    BY Zenon DEF Source!Files
  <2> HIDE DEF p
  <2>5. work' \in [pc : {"idle", "find", "fetch", "put", "upsert", "record", "cache"},
                 v : Source!VersionOrNone, first : Source!Age, prev : Source!VersionOrNone,
                 todo : SUBSET Source!Files]
    BY Zenon, <1>y, <2>2, <2>3, <2>4 DEF Source!VersionOrNone
  <2> QED
    BY Zenon, <1>6, <2>5 DEF Source!RunUpdate
<1>7. CASE Source!RecordSource
  <2>1. /\ flag' \in [Source!Versions -> {"none", "listed", "downloaded"}]
        /\ first' \in [Source!Versions -> Source!Age]
    BY Zenon, <1>7, <1>u, <1>y DEF Source!RecordSource
  <2> QED
    BY Zenon, <1>7, <1>i, <1>s, <2>1 DEF Source!RecordSource
<1>8. CASE Source!AutoUpdateFile
  <2>0. PICK f \in work.todo :
          /\ work' = [work EXCEPT !.todo = @ \ {f}]
          /\ \/ f \in exists /\ UNCHANGED <<stored, exists>> /\ Source!NoFault
             \/ /\ f \notin exists /\ f \in FilesOf[offered] \union Source!Stored
                /\ Source!PutFile(f) /\ exists' = exists \union {f} /\ Source!NoFault
             \/ /\ f \notin exists /\ UNCHANGED <<stored, exists>>
                /\ IF f \in FilesOf[offered] \union Source!Stored THEN Source!Fault("failure")
                   ELSE Source!NoFault
    BY Zenon, <1>8 DEF Source!AutoUpdateFile
  <2>1. /\ f \in Source!Files
        /\ \/ UNCHANGED <<stored, exists>>
           \/ Source!PutFile(f) /\ exists' = exists \union {f}
        /\ Source!NoFault \/ Source!Fault("failure")
    BY Zenon, <2>0
  <2>2. stored' \in [Source!Files -> Source!Age] /\ exists' \subseteq Source!Files
    BY Zenon, <1>p, <2>1
  <2>3. work' \in [pc : {"idle", "find", "fetch", "put", "upsert", "record", "cache"},
                 v : Source!VersionOrNone, first : Source!Age, prev : Source!VersionOrNone,
                 todo : SUBSET Source!Files]
    BY Zenon, <2>0
  <2> QED
    BY Zenon, <1>8, <1>s, <2>1, <2>2, <2>3 DEF Source!AutoUpdateFile
<1>9. CASE Source!MarkDownloaded
  <2>1. /\ flag' \in [Source!Versions -> {"none", "listed", "downloaded"}]
        /\ first' \in [Source!Versions -> Source!Age]
    BY Zenon, <1>9, <1>u, <1>y DEF Source!MarkDownloaded
  <2> QED
    BY Zenon, <1>9, <1>i, <1>s, <2>1 DEF Source!MarkDownloaded
<1>10. CASE Source!Snapshot
  BY Zenon, <1>10, <1>h DEF Source!Snapshot
<1>11. CASE Source!PruneMissingSrcEntries
  <2>1. \E M \in SUBSET Source!Versions :
           clean' = [Source!NoClean EXCEPT !.pc = "remove", !.missing = M]
    BY Zenon, <1>11 DEF Source!PruneMissingSrcEntries
  <2> QED
    BY Zenon, <1>11, <1>n, <2>1 DEF Source!PruneMissingSrcEntries
<1>12. CASE Source!RemoveSourceEntry
  <2>1. PICK removed \in SUBSET clean.missing :
          /\ flag' = [v \in Source!Versions |-> IF v \in removed THEN "none" ELSE flag[v]]
          /\ first' = [v \in Source!Versions |-> IF v \in removed THEN "none" ELSE first[v]]
          /\ \/ seen' \subseteq seen \union {"overtaken"}
             \/ Source!Fault("failure")
    BY Zenon, <1>12 DEF Source!RemoveSourceEntry
  <2>2. /\ flag' \in [Source!Versions -> {"none", "listed", "downloaded"}]
        /\ first' \in [Source!Versions -> Source!Age]
    BY Zenon, <1>y, <2>1
  <2>3. seen' \subseteq {"failure", "vanish", "overtaken"}
    BY Zenon, <1>s, <2>1
  <2> QED
    BY Zenon, <1>12, <1>n, <2>2, <2>3 DEF Source!RemoveSourceEntry
<1>13. CASE Source!GcSrc
  <2>1. \/ \E T \in SUBSET Source!Files :
              clean' = [Source!NoClean EXCEPT !.pc = "delete", !.todo = T]
        \/ clean' = Source!NoClean
    BY Zenon, <1>13 DEF Source!GcSrc, Source!Listed, Source!Stored
  <2> QED
    BY Zenon, <1>13, <1>n, <1>s, <2>1 DEF Source!GcSrc
<1>14. CASE Source!DeleteOrphans
  <2>1. PICK deleted \in SUBSET clean.todo :
          /\ stored' = [f \in Source!Files |-> IF f \in deleted THEN "none" ELSE stored[f]]
          /\ clean' = [Source!NoClean EXCEPT !.pc = "forget", !.todo = deleted]
          /\ Source!NoFault \/ Source!Fault("failure")
    BY Zenon, <1>14 DEF Source!DeleteOrphans
  <2>2. stored' \in [Source!Files -> Source!Age]
    BY Zenon, <1>y, <2>1
  <2> QED
    BY Zenon, <1>14, <1>n, <1>s, <2>1, <2>2 DEF Source!DeleteOrphans
<1>15. CASE Source!Forget
  BY Zenon, <1>15, <1>n DEF Source!Forget
<1>16. CASE Source!UpstreamMoves
  <2>1. offered' \in Source!Versions
    BY <1>16 DEF Source!UpstreamMoves, Source!Versions, SomeVersions
  <2> QED
    BY Zenon, <1>16, <2>1 DEF Source!UpstreamMoves
<1>17. ASSUME NEW f \in Source!Files, Source!Vanish(f) PROVE Source!TypeOK'
  BY Zenon, <1>17, <1>s, <1>y DEF Source!Vanish
<1>18. CASE Source!GraceEnds
  <2>1. \A a \in Source!Age : Source!Older(a) \in Source!Age
    BY Zenon, <1>y DEF Source!Older
  <2> QED
    BY Zenon, <1>18, <2>1 DEF Source!GraceEnds
<1>19. CASE UNCHANGED Source!vars
  BY Zenon, <1>19 DEF Source!vars
<1> QED
  BY Zenon, <1>1, <1>2, <1>3, <1>4, <1>5, <1>6, <1>7, <1>8, <1>9, <1>10, <1>11, <1>12, <1>13,
     <1>14, <1>15, <1>16, <1>17, <1>18, <1>19 DEF Source!Next, Source!Working, Source!Cleaning


\* The source package's variables keep their types.
THEOREM SourceTypeCorrect == ASSUME SomeVersions PROVE Source!Spec => []Source!TypeOK
<1>1. Source!Init => Source!TypeOK
  <2>1. 1 \in Source!Versions
    BY DEF SomeVersions, Source!Versions
  <2>2. Source!Idle \in [pc : {"idle", "find", "fetch", "put", "upsert", "record", "cache"},
                 v : Source!VersionOrNone, first : Source!Age, prev : Source!VersionOrNone,
                 todo : SUBSET Source!Files]
    BY Zenon DEF Source!Idle, Source!VersionOrNone, Source!Age
  <2>3. Source!NoClean \in [pc : {"idle", "remove", "refs", "delete", "forget"},
                  missing : SUBSET Source!Versions, todo : SUBSET Source!Files]
    BY Zenon DEF Source!NoClean
  <2>4. "none" \in Source!Age /\ 0 \in Source!VersionOrNone
    BY Zenon DEF Source!Age, Source!VersionOrNone
  <2> QED
    BY Zenon, <2>1, <2>2, <2>3, <2>4 DEF Source!Init, Source!TypeOK
<1> QED
  BY <1>1, SourceTypes, PTL DEF Source!Spec

\* No entry is above v, which the upstream has offered.
Top(v, entry, upto) ==
    v <= upto /\ \A u \in Source!Versions : entry[u] # "none" => u <= v

\* The version that a request or an update works on is the highest one; what an update
\* took for the highest downloaded entry still is, unless pruning overtook it.
WorkOK(x, entry, upto, failed) ==
    /\ x.pc \in {"record", "cache", "upsert"} => x.v # 0
    /\ x.pc \in {"fetch", "put", "upsert", "record", "cache"} /\ x.v # 0 => Top(x.v, entry, upto)
    /\ x.pc = "record" =>
          /\ x.prev <= x.v
          /\ \A u \in Source!Versions : entry[u] = "downloaded" => x.prev # 0
          /\ x.prev # 0 /\ entry[x.prev] # "downloaded" => failed # {}

\* A version that is only listed above a downloaded one is about to be downloaded.
Follows(x, entry) ==
    \A u, v \in Source!Versions :
        u < v /\ entry[u] = "downloaded" /\ entry[v] = "listed" => x.pc = "cache" /\ v = x.v

FollowInv ==
    /\ Source!TypeOK
    /\ \A v \in Source!Versions : flag[v] # "none" => v <= offered
    /\ WorkOK(work, flag, offered, seen)
    /\ seen = {} => Follows(work, flag)

\* Faults are remembered.
LEMMA SourceSeen ==
    ASSUME [Source!Next]_(Source!vars) PROVE seen \subseteq seen'
<1> USE DEF Source!NoFault, Source!Fault
<1>1. ASSUME \/ \E f \in Source!Files : Source!ServeSrc(f) \/ Source!Vanish(f)
             \/ Source!RunUpdate \/ Source!Snapshot \/ Source!PruneMissingSrcEntries
             \/ Source!UpstreamMoves \/ Source!GraceEnds \/ UNCHANGED Source!vars
      PROVE  seen \subseteq seen'
  BY Zenon, <1>1 DEF Source!ServeSrc, Source!Vanish, Source!RunUpdate, Source!Snapshot,
     Source!PruneMissingSrcEntries, Source!UpstreamMoves, Source!GraceEnds, Source!vars
<1>2. CASE Source!Working
  <2>1. CASE Source!AutoUpdateFile
    <3>1. Source!NoFault \/ Source!Fault("failure")
      BY Zenon, <2>1 DEF Source!AutoUpdateFile
    <3> QED
      BY Zenon, <3>1
  <2> QED
    BY Zenon, <1>2, <2>1 DEF Source!Working, Source!PullThroughSource,
       Source!FetchSourceFileStream, Source!CacheSourceFile, Source!UpsertDownloaded,
       Source!RecordSource, Source!MarkDownloaded
<1>3. CASE Source!Cleaning
  <2>1. CASE Source!RemoveSourceEntry
    BY Zenon, <2>1 DEF Source!RemoveSourceEntry
  <2> QED
    BY Zenon, <1>3, <2>1 DEF Source!Cleaning, Source!GcSrc, Source!DeleteOrphans, Source!Forget
<1> QED
  BY Zenon, <1>1, <1>2, <1>3 DEF Source!Next

\* Steps of the cleanup that remove no entry, and of storage.
LEMMA CleanupFollows ==
    ASSUME SomeVersions, FollowInv, [Source!Next]_(Source!vars), UNCHANGED <<work, flag, offered>>
    PROVE  FollowInv'
<1>1. Source!TypeOK' /\ seen \subseteq seen'
  BY Zenon, SourceTypes, SourceSeen DEF FollowInv
<1>2. WorkOK(work, flag, offered, seen')
  BY Zenon, <1>1 DEF FollowInv, WorkOK
<1>3. seen' = {} => Follows(work, flag)
  BY Zenon, <1>1 DEF FollowInv
<1> QED
  BY Zenon, <1>1, <1>2, <1>3 DEF FollowInv

\* Steps of a request or an update that change no entry.
LEMMA WorkFollows ==
    ASSUME SomeVersions, FollowInv, [Source!Next]_(Source!vars), UNCHANGED <<flag, offered>>,
           WorkOK(work', flag, offered, seen),
           work.pc = "cache" => work'.pc = "cache" /\ work'.v = work.v
    PROVE  FollowInv'
<1>1. Source!TypeOK' /\ seen \subseteq seen'
  BY Zenon, SourceTypes, SourceSeen DEF FollowInv
<1>2. WorkOK(work', flag, offered, seen')
  BY Zenon, <1>1 DEF WorkOK
<1>3. seen' = {} => Follows(work', flag)
  BY Zenon, <1>1 DEF FollowInv, Follows
<1> QED
  BY Zenon, <1>1, <1>2, <1>3 DEF FollowInv

\* A request reads the highest entry, or an update the highest downloaded one, before it works.
LEMMA BeginFollows ==
    ASSUME SomeVersions, FollowInv,
           \/ \E f \in Source!Files : Source!ServeSrc(f)
           \/ Source!PullThroughSource \/ Source!RunUpdate
    PROVE  FollowInv'
<1>0. [Source!Next]_(Source!vars) /\ UNCHANGED <<flag, offered>> /\ work.pc # "cache"
  BY Zenon DEF Source!Next, Source!Working, Source!ServeSrc, Source!PullThroughSource,
     Source!RunUpdate, Source!index
<1>i. Source!Idle.pc = "idle"
  BY Zenon DEF Source!Idle
<1>1. ASSUME NEW f \in Source!Files, Source!ServeSrc(f) PROVE WorkOK(work', flag, offered, seen)
  BY Zenon, <1>1 DEF Source!ServeSrc, Source!Idle, WorkOK
<1>2. ASSUME Source!PullThroughSource PROVE WorkOK(work', flag, offered, seen)
  <2> DEFINE h == Source!HighestEntry
  <2>1. h # 0 => Top(h, flag, offered)
    <3>1. Source!Indexed \subseteq 1 .. MaxVersion
      BY Zenon DEF Source!Indexed, Source!Versions
    <3>2. Source!Indexed # {} => /\ Source!Max(Source!Indexed) \in Source!Indexed
                                /\ \A v \in Source!Indexed : v <= Source!Max(Source!Indexed)
      BY Zenon, <3>1, HighestVersion DEF SomeVersions
    <3>3. h # 0 => h \in Source!Indexed /\ \A v \in Source!Indexed : v <= h
      BY Zenon, <3>2 DEF Source!HighestEntry
    <3> QED
      BY Zenon, <3>3 DEF FollowInv, Top, Source!Indexed
  <2>2. \/ work' = Source!Idle
        \/ work'.v = h /\ work'.pc = "upsert" /\ h # 0
        \/ work'.v = h /\ work'.pc = "fetch"
    <3>1. work \in [pc : {"idle", "find", "fetch", "put", "upsert", "record", "cache"},
                 v : Source!VersionOrNone, first : Source!Age, prev : Source!VersionOrNone,
                 todo : SUBSET Source!Files]
      BY Zenon DEF FollowInv, Source!TypeOK
    <3> HIDE DEF h
    <3> DEFINE a == IF h = 0 THEN "none" ELSE first[IF h # 0 THEN h ELSE offered]
               p == IF work.todo \subseteq Source!Stored THEN "upsert" ELSE "fetch"
    <3>2. \/ work' = Source!Idle
          \/ ~(h = 0 /\ p = "upsert") /\ work' = [work EXCEPT !.pc = p, !.v = h, !.first = a]
      BY Zenon, <1>2 DEF Source!PullThroughSource, h
    <3>3. p = "upsert" \/ p = "fetch"
      BY Zenon
    <3> HIDE DEF a, p
    <3>4. [work EXCEPT !.pc = p, !.v = h, !.first = a].v = h
             /\ [work EXCEPT !.pc = p, !.v = h, !.first = a].pc = p
      BY Zenon, <3>1
    <3> QED
      BY Zenon, <3>2, <3>3, <3>4
  <2> HIDE DEF h
  <2>3. CASE work' = Source!Idle
    BY Zenon, <1>i, <2>3 DEF WorkOK
  <2>4. CASE work'.v = h /\ ((work'.pc = "upsert" /\ h # 0) \/ work'.pc = "fetch")
    BY Zenon, <2>1, <2>4 DEF WorkOK
  <2> QED
    BY Zenon, <2>2, <2>3, <2>4
<1>3. ASSUME Source!RunUpdate PROVE WorkOK(work', flag, offered, seen)
  <2> DEFINE D == {v \in Source!Versions : flag[v] = "downloaded"}
             p == IF D = {} THEN 0 ELSE Source!Max(D)
  <2>1. D \subseteq 1 .. MaxVersion
    BY Zenon DEF Source!Versions
  <2>2. D # {} => Source!Max(D) \in D
    BY Zenon, <2>1, HighestVersion DEF SomeVersions
  <2>3. work' = [pc |-> "record", prev |-> p, v |-> offered, first |-> "none",
                 todo |-> FilesOf[offered]]
    BY Zenon, <1>3 DEF Source!RunUpdate
  <2>4. work'.pc = "record" /\ work'.prev = p /\ work'.v = offered
    BY Zenon, <2>3
  <2>5. offered \in 1 .. MaxVersion
    BY Zenon DEF FollowInv, Source!TypeOK, Source!Versions
  <2>6. p <= offered /\ (D # {} => p # 0 /\ flag[p] = "downloaded") /\ (D = {} => p = 0)
    <3>1. CASE D = {}
      BY <2>5, <3>1
    <3>2. CASE D # {}
      <4>1. p \in D
        BY Zenon, <2>2, <3>2
      <4>2. p \in 1 .. MaxVersion /\ flag[p] = "downloaded" /\ p <= offered
        BY Zenon, <4>1 DEF FollowInv, Source!Versions
      <4> HIDE DEF p
      <4> QED
        BY <3>2, <4>2
    <3> QED
      BY Zenon, <3>1, <3>2
  <2>7. offered # 0 /\ offered <= offered
    BY <2>5
  <2> HIDE DEF p
  <2>8. Top(offered, flag, offered)
    BY Zenon, <2>7 DEF FollowInv, Top
  <2> QED
    BY <2>4, <2>6, <2>7, <2>8 DEF WorkOK
<1> QED
  BY Zenon, <1>0, <1>1, <1>2, <1>3, WorkFollows

\* It downloads files.
LEMMA DownloadFollows ==
    ASSUME SomeVersions, FollowInv,
           Source!FetchSourceFileStream \/ Source!CacheSourceFile \/ Source!AutoUpdateFile
    PROVE  FollowInv'
<1>0. [Source!Next]_(Source!vars) /\ UNCHANGED <<flag, offered>>
  BY Zenon DEF Source!Next, Source!Working, Source!FetchSourceFileStream,
     Source!CacheSourceFile, Source!AutoUpdateFile, Source!index
<1>i. Source!Idle.pc = "idle"
  BY Zenon DEF Source!Idle
<1>w. /\ work \in [pc : {"idle", "find", "fetch", "put", "upsert", "record", "cache"},
                 v : Source!VersionOrNone, first : Source!Age, prev : Source!VersionOrNone,
                 todo : SUBSET Source!Files]
      /\ WorkOK(work, flag, offered, seen)
  BY Zenon DEF FollowInv, Source!TypeOK
<1>1. CASE Source!FetchSourceFileStream
  <2>1. work' = [work EXCEPT !.pc = "put"] \/ work' = Source!Idle
    BY Zenon, <1>1 DEF Source!FetchSourceFileStream
  <2>2. (work'.pc = "put" /\ work'.v = work.v) \/ work'.pc = "idle"
    BY Zenon, <1>i, <1>w, <2>1
  <2>3. work.pc = "fetch"
    BY Zenon, <1>1 DEF Source!FetchSourceFileStream
  <2>4. WorkOK(work', flag, offered, seen)
    BY Zenon, <1>w, <2>2, <2>3 DEF WorkOK
  <2> QED
    BY Zenon, <1>0, <2>3, <2>4, WorkFollows
<1>2. CASE Source!CacheSourceFile
  <2>1. work' = Source!Idle \/ (work.v # 0 /\ work' = [work EXCEPT !.pc = "upsert"])
    BY Zenon, <1>2 DEF Source!CacheSourceFile
  <2>2. \/ work'.pc = "upsert" /\ work'.v = work.v /\ work.v # 0
        \/ work'.pc = "idle"
    BY Zenon, <1>i, <1>w, <2>1
  <2>3. work.pc = "put"
    BY Zenon, <1>2 DEF Source!CacheSourceFile
  <2>4. WorkOK(work', flag, offered, seen)
    BY Zenon, <1>w, <2>2, <2>3 DEF WorkOK
  <2> QED
    BY Zenon, <1>0, <2>3, <2>4, WorkFollows
<1>3. CASE Source!AutoUpdateFile
  <2>1. \E T : work' = [work EXCEPT !.todo = T]
    BY Zenon, <1>3 DEF Source!AutoUpdateFile
  <2>2. work'.pc = work.pc /\ work'.v = work.v /\ work.pc = "cache"
    BY Zenon, <1>3, <1>w, <2>1 DEF Source!AutoUpdateFile
  <2>3. WorkOK(work', flag, offered, seen)
    BY Zenon, <1>w, <2>2 DEF WorkOK
  <2> QED
    BY Zenon, <1>0, <2>2, <2>3, WorkFollows
<1> QED
  BY Zenon, <1>1, <1>2, <1>3


\* What UpsertSourceEntry does to the entries.
LEMMA Upserted ==
    ASSUME Source!TypeOK, NEW v \in Source!Versions, NEW d \in BOOLEAN, NEW a,
           Source!UpsertSourceEntry(v, d, a)
    PROVE  /\ \A u \in Source!Versions : u # v => flag'[u] = flag[u]
           /\ d \/ flag[v] = "downloaded" => flag'[v] = "downloaded"
           /\ ~d /\ flag[v] # "downloaded" => flag'[v] = "listed"
<1>1. flag \in [Source!Versions -> {"none", "listed", "downloaded"}]
  BY Zenon DEF Source!TypeOK
<1>2. flag' = [flag EXCEPT ![v] = IF d \/ flag[v] = "downloaded" THEN "downloaded" ELSE "listed"]
  BY Zenon DEF Source!UpsertSourceEntry
<1> QED
  BY Zenon, <1>1, <1>2

\* The highest version gets an entry, downloaded or not.
LEMMA UpsertFollows ==
    ASSUME SomeVersions, FollowInv,
           Source!UpsertDownloaded \/ Source!RecordSource \/ Source!MarkDownloaded
    PROVE  FollowInv'
<1>0. [Source!Next]_(Source!vars) /\ UNCHANGED offered
  BY Zenon DEF Source!Next, Source!Working, Source!UpsertDownloaded, Source!RecordSource,
     Source!MarkDownloaded
<1>t. Source!TypeOK /\ Source!TypeOK' /\ seen \subseteq seen'
  BY Zenon, <1>0, SourceTypes, SourceSeen DEF FollowInv
<1>i. Source!Idle.pc = "idle"
  BY Zenon DEF Source!Idle
<1>w. /\ work \in [pc : {"idle", "find", "fetch", "put", "upsert", "record", "cache"},
                 v : Source!VersionOrNone, first : Source!Age, prev : Source!VersionOrNone,
                 todo : SUBSET Source!Files]
      /\ WorkOK(work, flag, offered, seen)
  BY Zenon DEF FollowInv, Source!TypeOK
<1>p. work.pc \in {"record", "cache", "upsert"}
  BY Zenon DEF Source!UpsertDownloaded, Source!RecordSource, Source!MarkDownloaded
<1>v. work.v \in Source!Versions /\ Top(work.v, flag, offered)
  BY Zenon, <1>p, <1>w DEF WorkOK, Source!VersionOrNone
<1>n. \A u \in Source!Versions : u \in Int
  BY DEF Source!Versions, SomeVersions
<1>1. \/ UNCHANGED flag /\ seen' # {}
      \/ /\ work.pc \in {"upsert", "cache"} /\ flag'[work.v] = "downloaded"
         /\ \A u \in Source!Versions : u # work.v => flag'[u] = flag[u]
      \/ /\ work.pc = "record"
         /\ flag[work.v] = "downloaded" => flag'[work.v] = "downloaded"
         /\ flag[work.v] # "downloaded" => flag'[work.v] = "listed"
         /\ \A u \in Source!Versions : u # work.v => flag'[u] = flag[u]
  <2>1. ASSUME Source!Fault("failure") PROVE seen' # {}
    BY Zenon, <2>1 DEF Source!Fault
  <2>2. CASE Source!UpsertDownloaded
    BY Zenon, <1>t, <1>v, <2>1, <2>2, Upserted DEF Source!UpsertDownloaded, Source!index
  <2>3. CASE Source!MarkDownloaded
    BY Zenon, <1>t, <1>v, <2>1, <2>3, Upserted DEF Source!MarkDownloaded, Source!index
  <2>4. CASE Source!RecordSource
    BY Zenon, <1>t, <1>v, <2>1, <2>4, Upserted DEF Source!RecordSource, Source!index
  <2> QED
    BY Zenon, <2>2, <2>3, <2>4
<1>2. \A u \in Source!Versions : flag'[u] # "none" => u <= work.v /\ u <= offered
  <2>1. \A u \in Source!Versions : flag[u] # "none" => u <= work.v /\ u <= offered
    BY Zenon, <1>v DEF Top, FollowInv
  <2>2. work.v <= work.v /\ work.v <= offered
    BY <1>n, <1>v DEF Top
  <2> QED
    BY Zenon, <1>1, <2>1, <2>2
<1>3. Top(work.v, flag', offered)
  BY Zenon, <1>v, <1>2 DEF Top
<1>4. \/ work'.pc = "idle" /\ (work.pc = "record" => work.prev = 0 \/ ~(work.v > work.prev))
      \/ work.pc = "record" /\ work'.pc = "cache" /\ work'.v = work.v
  <2>1. ASSUME work' = [work EXCEPT !.pc = "cache"] PROVE work'.pc = "cache" /\ work'.v = work.v
    BY Zenon, <1>w, <2>1
  <2> QED
    BY Zenon, <1>i, <2>1 DEF Source!UpsertDownloaded, Source!RecordSource, Source!MarkDownloaded
<1>5. WorkOK(work', flag', offered, seen')
  <2>1. work.pc = "record" => work.v # 0
    BY Zenon, <1>w DEF WorkOK
  <2> QED
    BY Zenon, <1>3, <1>4, <2>1 DEF WorkOK
<1>6. ASSUME seen' = {}, NEW u \in Source!Versions, NEW v \in Source!Versions, u < v,
             flag'[u] = "downloaded", flag'[v] = "listed"
      PROVE  work'.pc = "cache" /\ v = work'.v
  <2>0. seen = {} /\ Follows(work, flag)
    BY Zenon, <1>t, <1>6 DEF FollowInv
  <2>1. u <= work.v /\ v <= work.v
    BY Zenon, <1>2, <1>6
  <2>2. u # work.v
    BY <1>n, <1>v, <1>6, <2>1
  <2>3. flag[u] = "downloaded"
    BY Zenon, <1>1, <1>6, <2>2
  <2>4. CASE v # work.v
    <3>1. flag[v] = "listed"
      BY Zenon, <1>1, <1>6, <2>4
    <3> QED
      BY Zenon, <1>6, <2>0, <2>3, <2>4, <3>1 DEF Follows
  <2>5. CASE v = work.v
    <3>1. work.pc = "record" /\ flag[work.v] # "downloaded"
      BY Zenon, <1>1, <1>6, <2>5
    <3>2. /\ work.prev <= work.v /\ work.prev # 0
          /\ flag[work.prev] = "downloaded"
      BY Zenon, <1>w, <2>0, <2>3, <3>1 DEF WorkOK
    <3>3. work.prev \in Source!Versions /\ work.prev # work.v
      BY Zenon, <1>w, <3>1, <3>2 DEF Source!VersionOrNone
    <3>4. work.v > work.prev
      BY <1>n, <1>v, <3>2, <3>3
    <3> QED
      BY Zenon, <1>4, <2>5, <3>1, <3>2, <3>4
  <2> QED
    BY Zenon, <2>4, <2>5
<1>7. seen' = {} => Follows(work', flag')
  BY Zenon, <1>6 DEF Follows
<1> QED
  BY Zenon, <1>0, <1>t, <1>2, <1>5, <1>7 DEF FollowInv

\* Pruning takes entries away, maybe one that an update has read.
LEMMA PruneFollows ==
    ASSUME SomeVersions, FollowInv, Source!RemoveSourceEntry
    PROVE  FollowInv'
<1>0. [Source!Next]_(Source!vars) /\ UNCHANGED <<offered, work>>
  BY Zenon DEF Source!Next, Source!Cleaning, Source!RemoveSourceEntry
<1>t. Source!TypeOK /\ Source!TypeOK' /\ seen \subseteq seen'
  BY Zenon, <1>0, SourceTypes, SourceSeen DEF FollowInv
<1>1. PICK removed \in SUBSET clean.missing :
        /\ flag' = [v \in Source!Versions |-> IF v \in removed THEN "none" ELSE flag[v]]
        /\ work.pc = "record" /\ work.prev \in removed => seen' # {}
  BY Zenon DEF Source!RemoveSourceEntry, Source!Fault
<1>2. \A v \in Source!Versions : v \notin removed => flag'[v] = flag[v]
  BY Zenon, <1>1
<1>3. \A v \in Source!Versions : v \in removed => flag'[v] = "none"
  BY Zenon, <1>1
<1>4. \A v \in Source!Versions : flag'[v] # "none" => flag'[v] = flag[v]
  BY Zenon, <1>2, <1>3
<1>5. WorkOK(work, flag, offered, seen) /\ work.prev \in Source!VersionOrNone
  BY Zenon DEF FollowInv, Source!TypeOK
<1>6. WorkOK(work, flag', offered, seen')
  <2>1. ASSUME work.v # 0, Top(work.v, flag, offered) PROVE Top(work.v, flag', offered)
    BY Zenon, <1>4, <2>1 DEF Top
  <2>2. ASSUME work.pc = "record"
        PROVE  /\ \A u \in Source!Versions : flag'[u] = "downloaded" => work.prev # 0
               /\ work.prev # 0 /\ flag'[work.prev] # "downloaded" => seen' # {}
    <3>1. \A u \in Source!Versions : flag'[u] = "downloaded" => flag[u] = "downloaded"
      BY Zenon, <1>4
    <3>2. \A u \in Source!Versions : flag[u] = "downloaded" => work.prev # 0
      BY Zenon, <1>5, <2>2 DEF WorkOK
    <3>3. ASSUME work.prev # 0, flag'[work.prev] # "downloaded" PROVE seen' # {}
      <4>1. work.prev \in Source!Versions
        BY Zenon, <1>5, <3>3 DEF Source!VersionOrNone
      <4>2. CASE work.prev \in removed
        BY Zenon, <1>1, <2>2, <4>2
      <4>3. CASE work.prev \notin removed
        BY Zenon, <1>2, <1>5, <1>t, <2>2, <3>3, <4>1, <4>3 DEF WorkOK
      <4> QED
        BY Zenon, <4>2, <4>3
    <3> QED
      BY Zenon, <3>1, <3>2, <3>3
  <2> QED
    BY Zenon, <1>5, <2>1, <2>2 DEF WorkOK
<1>7. seen' = {} => Follows(work, flag')
  <2>1. seen' = {} => Follows(work, flag)
    BY Zenon, <1>t DEF FollowInv
  <2> QED
    BY Zenon, <1>4, <2>1 DEF Follows
<1>8. \A v \in Source!Versions : flag'[v] # "none" => v <= offered
  BY Zenon, <1>4 DEF FollowInv
<1> QED
  BY Zenon, <1>0, <1>t, <1>6, <1>7, <1>8 DEF FollowInv

\* The upstream moves on.
LEMMA UpstreamFollows ==
    ASSUME SomeVersions, FollowInv, Source!UpstreamMoves
    PROVE  FollowInv'
<1>0. [Source!Next]_(Source!vars) /\ UNCHANGED <<flag, work, seen>>
  BY Zenon DEF Source!Next, Source!UpstreamMoves, Source!index
<1>t. Source!TypeOK'
  BY Zenon, <1>0, SourceTypes DEF FollowInv
<1>1. \A v \in Source!VersionOrNone : v <= offered => v <= offered'
  BY DEF FollowInv, Source!TypeOK, Source!VersionOrNone, Source!Versions, Source!UpstreamMoves,
     SomeVersions
<1>2. \A v \in Source!Versions : v \in Source!VersionOrNone
  BY Zenon DEF Source!VersionOrNone
<1>3. WorkOK(work, flag, offered, seen) /\ work.v \in Source!VersionOrNone
  BY Zenon DEF FollowInv, Source!TypeOK
<1>4. Top(work.v, flag, offered) => Top(work.v, flag, offered')
  BY Zenon, <1>1, <1>3 DEF Top
<1>5. WorkOK(work, flag, offered', seen)
  BY Zenon, <1>3, <1>4 DEF WorkOK
<1>6. \A v \in Source!Versions : flag[v] # "none" => v <= offered'
  BY Zenon, <1>1, <1>2 DEF FollowInv
<1> QED
  BY Zenon, <1>0, <1>t, <1>5, <1>6 DEF FollowInv

\* A source whose files were downloaded follows the upstream through updates, requests,
\* pruning and collection, until a step fails or pruning overtakes an update.
THEOREM DownloadsAreFollowed == ASSUME SomeVersions PROVE Source!Spec => []Source!DownloadsFollow
<1>1. Source!Init /\ Source!TypeOK => FollowInv
  <2>1. ASSUME Source!Init PROVE WorkOK(work, flag, offered, seen) /\ Follows(work, flag)
    BY Zenon, <2>1 DEF Source!Init, Source!Idle, WorkOK, Follows
  <2> QED
    BY Zenon, <2>1 DEF Source!Init, FollowInv
<1>2. FollowInv /\ [Source!Next]_(Source!vars) => FollowInv'
  <2> SUFFICES ASSUME FollowInv, [Source!Next]_(Source!vars) PROVE FollowInv'
    OBVIOUS
  <2>1. ASSUME \/ Source!Snapshot \/ Source!PruneMissingSrcEntries \/ Source!GcSrc
               \/ Source!DeleteOrphans \/ Source!Forget \/ Source!GraceEnds
               \/ UNCHANGED Source!vars \/ \E f \in Source!Files : Source!Vanish(f)
        PROVE  UNCHANGED <<work, flag, offered>>
    BY Zenon, <2>1 DEF Source!Snapshot, Source!PruneMissingSrcEntries, Source!GcSrc,
       Source!DeleteOrphans, Source!Forget, Source!GraceEnds, Source!vars, Source!index,
       Source!Vanish
  <2> QED
    BY Zenon, <2>1, CleanupFollows, BeginFollows, DownloadFollows, UpsertFollows, PruneFollows,
       UpstreamFollows DEF Source!Next, Source!Working, Source!Cleaning
<1>3. FollowInv => Source!DownloadsFollow
  BY Zenon DEF FollowInv, Follows, Source!DownloadsFollow
<1> QED
  BY <1>1, <1>2, <1>3, SourceTypeCorrect, PTL DEF Source!Spec

=============================================================================
