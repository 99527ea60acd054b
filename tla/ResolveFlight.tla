--------------------------- MODULE ResolveFlight ---------------------------
(***************************************************************************)
(* Requests for one pool path the live view does not list                  *)
(* (internal/server/server.go: resolvePoolPackage, recentMiss,             *)
(* beginResolve, finishResolve; internal/avail/avail.go: ResolvePoolPath). *)
(*                                                                         *)
(* One request leads and asks the upstream; the ones that come meanwhile   *)
(* wait for its answer; a failure is remembered for resolveMissTTL.        *)
(***************************************************************************)
EXTENDS Naturals, FiniteSets

CONSTANTS Requests,   \* concurrent requests; each may come again
          MaxChanges  \* bound on what happens at the upstream and to the live view

VARIABLES
    listed,    \* entry.av.ByPoolPath has the path
    upstream,  \* the upstream has the package
    changes,
    inflight,  \* s.resolveInflight[path]: the request that leads the flight, if there is one
    miss,      \* s.resolveMiss[path]: none, or the result it was recorded for
    pc,        \* idle, live, recent, begin, lead, finish, close, wait, found, error
    result,    \* what ResolvePoolPath returned to a leader
    follows,   \* per waiting request, the leader of the flight it holds
    done,      \* per waiting request, that flight: running, or its result once closed
    known      \* per request, the path was a remembered miss when it began and still is

vars == <<listed, upstream, changes, inflight, miss, pc, result, follows, done, known>>

None == "none"
Results == {"pkg", "absent", "cancelled", "failed", "aborted"}

Init ==
    /\ listed \in BOOLEAN /\ upstream \in BOOLEAN /\ changes = 0
    /\ inflight = {} /\ miss = None
    /\ pc = [r \in Requests |-> "idle"] /\ result = [r \in Requests |-> None]
    /\ follows = [r \in Requests |-> r] /\ done = [r \in Requests |-> None]
    /\ known = [r \in Requests |-> FALSE]

To(r, label) == pc' = [pc EXCEPT ![r] = label]

\* A client asks; each request has a goroutine of its own.
Request(r) ==
    /\ pc[r] = "idle" /\ To(r, "live")
    /\ known' = [known EXCEPT ![r] = miss # None]
    /\ UNCHANGED <<listed, upstream, changes, inflight, miss, result, follows, done>>

\* resolvePoolPackage: the live view first.
LookupLive(r) ==
    /\ pc[r] = "live" /\ To(r, IF listed THEN "found" ELSE "recent")
    /\ UNCHANGED <<listed, upstream, changes, inflight, miss, result, follows, done, known>>

\* Mutant of RecentMiss: the memory is consulted too late to matter.
RecentMissIgnored(r) ==
    /\ pc[r] = "recent" /\ To(r, "begin")
    /\ UNCHANGED <<listed, upstream, changes, inflight, miss, result, follows, done, known>>

\* recentMiss; an entry past its time is deleted, here in MissExpires.
RecentMiss(r) ==
    /\ pc[r] = "recent" /\ To(r, IF miss # None THEN "error" ELSE "begin")
    /\ UNCHANGED <<listed, upstream, changes, inflight, miss, result, follows, done, known>>

\* Mutant of BeginResolve: a request that finds a flight does not wait for it.
BeginResolveAlone(r) ==
    /\ pc[r] = "begin" /\ inflight' = {r} /\ To(r, "lead")
    /\ UNCHANGED <<listed, upstream, changes, miss, result, follows, done, known>>

\* beginResolve: join the flight there is, or start one.
BeginResolve(r) ==
    /\ pc[r] = "begin"
    /\ \/ /\ To(r, "wait")
          /\ \E leader \in inflight : follows' = [follows EXCEPT ![r] = leader]
          /\ done' = [done EXCEPT ![r] = "running"] /\ UNCHANGED inflight
       \/ inflight = {} /\ inflight' = {r} /\ To(r, "lead") /\ UNCHANGED <<follows, done>>
    /\ UNCHANGED <<listed, upstream, changes, miss, result, known>>

\* ResolvePoolPath under the leader's own context: the client may go away, the index fetch
\* may fail, and a panic leaves the error at "resolve aborted".
ResolvePoolPath(r) ==
    /\ pc[r] = "lead" /\ To(r, "finish")
    /\ \E res \in {IF upstream THEN "pkg" ELSE "absent", "cancelled", "failed", "aborted"} :
          result' = [result EXCEPT ![r] = res]
    /\ UNCHANGED <<listed, upstream, changes, inflight, miss, follows, done, known>>

\* finishResolve: under the mutex the flight goes and an error is remembered.
FinishResolve(r) ==
    /\ pc[r] = "finish" /\ To(r, "close")
    /\ inflight' = {}
    /\ miss' = IF result[r] # "pkg" THEN result[r] ELSE miss
    /\ UNCHANGED <<listed, upstream, changes, result, follows, done, known>>

\* Mutant of CloseDone: an error returns before the channel is closed.
CloseDoneOnSuccess(r) ==
    /\ pc[r] = "close" /\ To(r, IF result[r] = "pkg" THEN "found" ELSE "error")
    /\ done' = [q \in Requests |-> IF pc[q] = "wait" /\ follows[q] = r /\ result[r] = "pkg"
                                   THEN result[r] ELSE done[q]]
    /\ UNCHANGED <<listed, upstream, changes, inflight, miss, result, follows, known>>

\* Then done is closed, for all that wait on it.
CloseDone(r) ==
    /\ pc[r] = "close" /\ To(r, IF result[r] = "pkg" THEN "found" ELSE "error")
    /\ done' = [q \in Requests |-> IF pc[q] = "wait" /\ follows[q] = r THEN result[r] ELSE done[q]]
    /\ UNCHANGED <<listed, upstream, changes, inflight, miss, result, follows, known>>

Wake(r) ==
    /\ pc[r] = "wait" /\ done[r] # "running"
    /\ To(r, IF done[r] = "pkg" THEN "found" ELSE "error")
    /\ UNCHANGED <<listed, upstream, changes, inflight, miss, result, follows, done, known>>
CancelWait(r) ==
    /\ pc[r] = "wait" /\ To(r, "error")
    /\ UNCHANGED <<listed, upstream, changes, inflight, miss, result, follows, done, known>>

\* The answer goes out, and the client may ask again.
Answer(r) ==
    /\ pc[r] \in {"found", "error"} /\ To(r, "idle")
    /\ result' = [result EXCEPT ![r] = None] /\ follows' = [follows EXCEPT ![r] = r]
    /\ done' = [done EXCEPT ![r] = None] /\ known' = [known EXCEPT ![r] = FALSE]
    /\ UNCHANGED <<listed, upstream, changes, inflight, miss>>

\* resolveMissTTL goes by.
MissExpires ==
    /\ miss # None /\ miss' = None /\ known' = [r \in Requests |-> FALSE]
    /\ UNCHANGED <<listed, upstream, changes, inflight, pc, result, follows, done>>

\* The upstream publishes or withdraws the package; a rebuild brings the live view up to date.
Change ==
    /\ changes < MaxChanges /\ changes' = changes + 1
    /\ \/ upstream' = ~upstream /\ UNCHANGED listed
       \/ listed' = upstream /\ UNCHANGED upstream
    /\ UNCHANGED <<inflight, miss, pc, result, follows, done, known>>

Step(r) ==
    \/ LookupLive(r) \/ RecentMiss(r) \/ BeginResolve(r) \/ ResolvePoolPath(r)
    \/ FinishResolve(r) \/ CloseDone(r) \/ Wake(r) \/ Answer(r)
Next == (\E r \in Requests : Request(r) \/ Step(r) \/ CancelWait(r)) \/ MissExpires \/ Change
Spec == Init /\ [][Next]_vars

\* Handlers run; an index fetch ends because every request of the HTTP client has a timeout.
Fairness == \A r \in Requests : WF_vars(Step(r))
FairSpec == Spec /\ Fairness

-----------------------------------------------------------------------------
\* The type of every variable.
TypeOK ==
    /\ listed \in BOOLEAN /\ upstream \in BOOLEAN /\ changes \in Nat
    /\ inflight \subseteq Requests /\ miss \in (Results \ {"pkg"}) \union {None}
    /\ pc \in [Requests -> {"idle", "live", "recent", "begin", "lead", "finish", "close",
                            "wait", "found", "error"}]
    /\ result \in [Requests -> Results \union {None}]
    /\ follows \in [Requests -> Requests]
    /\ done \in [Requests -> Results \union {None, "running"}]
    /\ known \in [Requests -> BOOLEAN]

\* Requests for one path share one resolve: whoever asks the upstream is the one the map
\* names, so there is never a second, and the map never names one that has finished.
OneResolve == \A r \in Requests : pc[r] \in {"lead", "finish"} <=> inflight = {r}

\* A request that comes while a miss is remembered costs no index fetch before it runs out.
RememberedMissIsCheap == \A r \in Requests : known[r] => pc[r] \notin {"lead", "wait"}

\* A follower is not parked for ever, even if its leader's resolve panics.
FollowersReturn == \A r \in Requests : pc[r] = "wait" ~> pc[r] \in {"found", "error"}

\* Resolution is safe: its types, one resolve at a time per path, and a remembered miss costs
\* no index fetch (beginResolve, finishResolve and recentMiss), together.
FlightSafe == TypeOK /\ OneResolve /\ RememberedMissIsCheap

=============================================================================
