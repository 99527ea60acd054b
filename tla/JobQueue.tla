------------------------------ MODULE JobQueue ------------------------------
(***************************************************************************)
(* The asynchronous admin operations of internal/api: the bounded queue,   *)
(* its single worker, the job status store and the two locks an operation  *)
(* runs under: the operation lock, which the snapshot handler and the      *)
(* periodic schedulers also take, and the index build lock of the process, *)
(* which the layout refresher also takes.  What the operation lock itself  *)
(* guarantees across replicas is the subject of OpLock; here it is held,   *)
(* free, or orphaned by a lost reply until it expires.                     *)
(***************************************************************************)
EXTENDS Integers, Sequences, FiniteSets

CONSTANTS Clients,    \* request goroutines that submit jobs
          MaxJobs,    \* bound on the jobs submitted
          Max,        \* operationRunner.max
          Requested,  \* kinds of jobs that are submitted
          MaxFaults   \* bound on failed calls to the status store and the lock

AllKinds == {"cleanup", "update", "rebuild", "prime"}

ASSUME QueueAssumption ==
    /\ MaxJobs \in Nat /\ Max \in Nat \ {0} /\ MaxFaults \in Nat
    /\ Requested \subseteq AllKinds

Ids == 1 .. MaxJobs
None == 0
Final == {"succeeded", "failed"}
Dedup == AllKinds \ {"prime"}

\* The kinds that run under the build lock: rebuild and prime because the worker
\* takes it for them (indexLockedKinds), update because Syncer.Update takes it.
BuildLocked == {"rebuild", "prime", "update"}

VARIABLES
    queue,    \* operationRunner.queue
    active,   \* operationRunner.active; None is a missing key
    notify,   \* is there a token in the one-place notify channel
    stopped,  \* operationRunner.stopped
    stopCh,   \* is stopCh closed
    cancelled,\* is runCtx cancelled
    kind,     \* the kind of each accepted job
    accepted, \* number of jobs accepted so far
    wpc, wjob, outcome,   \* the worker: its place, its job, how the job went
    cpc, cjob,            \* each submitting goroutine: its place, its job
    status,   \* the status store
    op,       \* holder of the operation lock
    build,    \* holder of the index build lock
    sync,     \* place of a snapshot handler or scheduler
    faults    \* failed calls left

qvars == <<queue, active, stopped, kind, accepted>>
worker == <<wpc, wjob, outcome>>
clients == <<cpc, cjob>>
locks == <<op, build, sync>>
vars == <<qvars, notify, stopCh, cancelled, worker, clients, status, locks, faults>>

WorkerPCs == {"dequeue", "wait", "running", "oplock", "build", "run", "release", "unlock",
              "final", "clear", "exited"}

TypeOK ==
    /\ queue \in Seq(Ids)
    /\ active \in [Dedup -> {None} \union Ids]
    /\ notify \in BOOLEAN /\ stopped \in BOOLEAN /\ stopCh \in BOOLEAN /\ cancelled \in BOOLEAN
    /\ kind \in [Ids -> AllKinds \union {"none"}]
    /\ accepted \in 0 .. MaxJobs
    /\ wpc \in WorkerPCs /\ wjob \in {None} \union Ids /\ outcome \in Final
    /\ cpc \in [Clients -> {"idle", "save", "notify"}]
    /\ cjob \in [Clients -> {None} \union Ids]
    /\ status \in [Ids -> {"none", "queued", "running"} \union Final]
    /\ op \in {"free", "worker", "sync", "orphan"}
    /\ build \in {"free", "worker", "sync", "refresher"}
    /\ sync \in {"idle", "held", "publish", "unlock"}
    /\ faults \in 0 .. MaxFaults

Init ==
    /\ queue = <<>>
    /\ active = [k \in Dedup |-> None]
    /\ notify = FALSE /\ stopped = FALSE /\ stopCh = FALSE /\ cancelled = FALSE
    /\ kind = [j \in Ids |-> "none"]
    /\ accepted = 0
    /\ wpc = "dequeue" /\ wjob = None /\ outcome = "succeeded"
    /\ cpc = [c \in Clients |-> "idle"]
    /\ cjob = [c \in Clients |-> None]
    /\ status = [j \in Ids |-> "none"]
    /\ op = "free" /\ build = "free" /\ sync = "idle"
    /\ faults = MaxFaults

Fault == faults > 0 /\ faults' = faults - 1

\* store.save: a failed save is logged and leaves the stored status.
Save(j, st) ==
    \/ status' = [status EXCEPT ![j] = st] /\ UNCHANGED faults
    \/ Fault /\ UNCHANGED status

-----------------------------------------------------------------------------
(* enqueue, called by the handlers of the four job kinds. *)

\* Mutant of Duplicate: only queued jobs count, not the running one.
DuplicateQueued(k) == k # "prime" /\ \E n \in 1 .. Len(queue) : kind[queue[n]] = k

\* The duplicate check of enqueue: prime always enqueues.
Duplicate(k) == k # "prime" /\ active[k] # None

Full == Len(queue) >= Max

\* A refused request (shutting down, duplicate, full) changes nothing.
Enqueue(c, k) ==
    /\ cpc[c] = "idle" /\ accepted < MaxJobs
    /\ ~stopped /\ ~Duplicate(k) /\ ~Full
    /\ LET j == accepted + 1 IN
       /\ accepted' = j
       /\ kind' = [kind EXCEPT ![j] = k]
       /\ queue' = Append(queue, j)
       /\ active' = IF k = "prime" THEN active ELSE [active EXCEPT ![k] = j]
       /\ cjob' = [cjob EXCEPT ![c] = j]
    /\ cpc' = [cpc EXCEPT ![c] = "save"]
    /\ UNCHANGED <<notify, stopped, stopCh, cancelled, worker, status, locks, faults>>

\* The queued status is saved after the mutex is released.
SaveQueued(c) ==
    /\ cpc[c] = "save"
    /\ Save(cjob[c], "queued")
    /\ cpc' = [cpc EXCEPT ![c] = "notify"]
    /\ UNCHANGED <<qvars, notify, stopCh, cancelled, worker, cjob, locks>>

\* Mutant of Notify: an unbuffered channel wakes only a worker that has reached
\* its select; one that found the queue empty may not be there yet.
NotifyUnbuffered(c) ==
    /\ cpc[c] = "notify"
    /\ (wpc = "wait" /\ notify' = TRUE) \/ UNCHANGED notify
    /\ cpc' = [cpc EXCEPT ![c] = "idle"]
    /\ cjob' = [cjob EXCEPT ![c] = None]
    /\ UNCHANGED <<qvars, stopCh, cancelled, worker, status, locks, faults>>

\* A full notify channel already holds a wake-up: the token is dropped.
Notify(c) ==
    /\ cpc[c] = "notify"
    /\ notify' = TRUE
    /\ cpc' = [cpc EXCEPT ![c] = "idle"]
    /\ cjob' = [cjob EXCEPT ![c] = None]
    /\ UNCHANGED <<qvars, stopCh, cancelled, worker, status, locks, faults>>

-----------------------------------------------------------------------------
(* run and runOne: the worker. *)

\* Mutant of Dequeue: the stopped flag is not looked at.
DequeueAfterStop ==
    /\ wpc = "dequeue"
    /\ IF queue = <<>>
       THEN wpc' = "wait" /\ UNCHANGED <<queue, wjob>>
       ELSE wpc' = "running" /\ wjob' = Head(queue) /\ queue' = Tail(queue)
    /\ UNCHANGED <<active, stopped, kind, accepted, notify, stopCh, cancelled, outcome,
                   clients, status, locks, faults>>

\* dequeue
Dequeue ==
    /\ wpc = "dequeue"
    /\ IF stopped \/ queue = <<>>
       THEN wpc' = "wait" /\ UNCHANGED <<queue, wjob>>
       ELSE wpc' = "running" /\ wjob' = Head(queue) /\ queue' = Tail(queue)
    /\ UNCHANGED <<active, stopped, kind, accepted, notify, stopCh, cancelled, outcome,
                   clients, status, locks, faults>>

\* Mutant of Wait: the stop channel is not selected on.
WaitForNotify ==
    /\ wpc = "wait"
    /\ notify /\ notify' = FALSE /\ wpc' = "dequeue"
    /\ UNCHANGED <<qvars, stopCh, cancelled, wjob, outcome, clients, status, locks, faults>>

\* run waits for a wake-up or for stop.
Wait ==
    /\ wpc = "wait"
    /\ \/ notify /\ notify' = FALSE /\ wpc' = "dequeue"
       \/ stopCh /\ wpc' = "exited" /\ UNCHANGED notify
    /\ UNCHANGED <<qvars, stopCh, cancelled, wjob, outcome, clients, status, locks, faults>>

SaveRunning ==
    /\ wpc = "running"
    /\ Save(wjob, "running")
    /\ wpc' = "oplock"
    /\ UNCHANGED <<qvars, notify, stopCh, cancelled, wjob, outcome, clients, locks>>

\* OpLock.Acquire without a deadline: it polls until it has the lock, a call
\* fails or runCtx is cancelled.
AcquireOp ==
    /\ wpc = "oplock"
    /\ \/ /\ op = "free"
          /\ op' = "worker"
          /\ wpc' = IF kind[wjob] \in BuildLocked THEN "build" ELSE "run"
          /\ UNCHANGED <<outcome, faults>>
       \/ \* the reply is lost: the retry finds the key set and keeps polling
          op = "free" /\ Fault /\ op' = "orphan" /\ UNCHANGED <<wpc, outcome>>
       \/ \* the call fails for good, or the poll sees the cancelled context
          /\ (cancelled /\ UNCHANGED faults) \/ Fault
          /\ outcome' = "failed" /\ wpc' = "final" /\ UNCHANGED op
    /\ UNCHANGED <<qvars, notify, stopCh, cancelled, wjob, clients, status, build, sync>>

LockBuild ==
    /\ wpc = "build" /\ build = "free"
    /\ build' = "worker"
    /\ wpc' = "run"
    /\ UNCHANGED <<qvars, notify, stopCh, cancelled, wjob, outcome, clients, status, op,
                   sync, faults>>

\* Mutant of Run: a panic unwinds past the deferred release.
RunPanics ==
    /\ wpc = "run"
    /\ outcome' \in Final
    /\ wpc' \in {"release", "final"}
    /\ UNCHANGED <<qvars, notify, stopCh, cancelled, wjob, clients, status, locks, faults>>

\* The operation returns, fails or panics; the panic is recovered as a failure.
\* Syncer.Update gives the build lock back itself.
Run ==
    /\ wpc = "run"
    /\ outcome' \in Final
    /\ wpc' = "release"
    /\ build' = IF kind[wjob] = "update" THEN "free" ELSE build
    /\ UNCHANGED <<qvars, notify, stopCh, cancelled, wjob, clients, status, op, sync, faults>>

\* The deferred calls run in reverse order: Release, then the build unlock.
ReleaseOp ==
    /\ wpc = "release"
    /\ \/ op' = "free" /\ UNCHANGED faults
       \/ op' = "orphan" /\ Fault
    /\ wpc' = IF build = "worker" THEN "unlock" ELSE "final"
    /\ UNCHANGED <<qvars, notify, stopCh, cancelled, wjob, outcome, clients, status, build,
                   sync>>

UnlockBuild ==
    /\ wpc = "unlock"
    /\ build' = "free"
    /\ wpc' = "final"
    /\ UNCHANGED <<qvars, notify, stopCh, cancelled, wjob, outcome, clients, status, op,
                   sync, faults>>

\* Mutant of SaveFinal: the save runs under the cancelled context and is lost.
SaveFinalCancelled ==
    /\ wpc = "final"
    /\ IF cancelled THEN UNCHANGED <<status, faults>> ELSE Save(wjob, outcome)
    /\ wpc' = "clear"
    /\ UNCHANGED <<qvars, notify, stopCh, cancelled, wjob, outcome, clients, locks>>

\* The saves run without the cancellation of runCtx.
SaveFinal ==
    /\ wpc = "final"
    /\ Save(wjob, outcome)
    /\ wpc' = "clear"
    /\ UNCHANGED <<qvars, notify, stopCh, cancelled, wjob, outcome, clients, locks>>

\* Mutant of Cleared: the whole map is made anew.
ClearedMap(k, j) == [x \in AllKinds |-> None]

\* clearActive removes the entry only if it is this job's.
Cleared(k, j) ==
    IF k \in Dedup /\ active[k] = j THEN [active EXCEPT ![k] = None] ELSE active

ClearActive ==
    /\ wpc = "clear"
    /\ active' = Cleared(kind[wjob], wjob)
    /\ wpc' = "dequeue" /\ wjob' = None /\ outcome' = "succeeded"
    /\ UNCHANGED <<queue, stopped, kind, accepted, notify, stopCh, cancelled, clients,
                   status, locks, faults>>

-----------------------------------------------------------------------------
(* stop: intake ends, then the worker is told, then its context is cancelled. *)

StopIntake ==
    /\ ~stopped
    /\ stopped' = TRUE
    /\ UNCHANGED <<queue, active, kind, accepted, notify, stopCh, cancelled, worker, clients,
                   status, locks, faults>>

StopWorker ==
    /\ stopped /\ ~stopCh
    /\ stopCh' = TRUE
    /\ UNCHANGED <<qvars, notify, cancelled, worker, clients, status, locks, faults>>

CancelRun ==
    /\ stopCh /\ ~cancelled
    /\ cancelled' = TRUE
    /\ UNCHANGED <<qvars, notify, stopCh, worker, clients, status, locks, faults>>

-----------------------------------------------------------------------------
(* The other users of the two locks. *)

\* A snapshot request or a scheduler tick takes the operation lock first and
\* the build lock inside it; a busy operation lock skips the cycle.
SyncAcquire ==
    /\ sync = "idle" /\ op = "free"
    /\ op' = "sync" /\ sync' = "held"
    /\ UNCHANGED <<qvars, notify, stopCh, cancelled, worker, clients, status, build, faults>>

\* Not within the debounce window: publish under the build lock.
SyncLockBuild ==
    /\ sync = "held" /\ build = "free"
    /\ build' = "sync" /\ sync' = "publish"
    /\ UNCHANGED <<qvars, notify, stopCh, cancelled, worker, clients, status, op, faults>>

SyncUnlockBuild ==
    /\ sync = "publish"
    /\ build' = "free" /\ sync' = "unlock"
    /\ UNCHANGED <<qvars, notify, stopCh, cancelled, worker, clients, status, op, faults>>

\* After the publish, or at once when debounced, or for a cleanup.
SyncRelease ==
    /\ sync \in {"held", "unlock"}
    /\ sync' = "idle"
    /\ \/ op' = "free" /\ UNCHANGED faults
       \/ op' = "orphan" /\ Fault
    /\ UNCHANGED <<qvars, notify, stopCh, cancelled, worker, clients, status, build>>

\* runLayoutRefreshLoop builds under the build lock alone.
RefresherLock ==
    /\ build = "free"
    /\ build' = "refresher"
    /\ UNCHANGED <<qvars, notify, stopCh, cancelled, worker, clients, status, op, sync, faults>>

RefresherUnlock ==
    /\ build = "refresher"
    /\ build' = "free"
    /\ UNCHANGED <<qvars, notify, stopCh, cancelled, worker, clients, status, op, sync, faults>>

\* The server drops a key nobody renews when its TTL ends.
ExpireOrphan ==
    /\ op = "orphan"
    /\ op' = "free"
    /\ UNCHANGED <<qvars, notify, stopCh, cancelled, worker, clients, status, build, sync,
                   faults>>

-----------------------------------------------------------------------------
Worker ==
    \/ Dequeue \/ Wait \/ SaveRunning \/ AcquireOp \/ LockBuild \/ Run
    \/ ReleaseOp \/ UnlockBuild \/ SaveFinal \/ ClearActive

Sync == SyncAcquire \/ SyncLockBuild \/ SyncUnlockBuild \/ SyncRelease

Next ==
    \/ \E c \in Clients : SaveQueued(c) \/ Notify(c) \/ \E k \in Requested : Enqueue(c, k)
    \/ Worker
    \/ StopIntake \/ StopWorker \/ CancelRun
    \/ Sync \/ RefresherLock \/ RefresherUnlock \/ ExpireOrphan

Spec == Init /\ [][Next]_vars

\* Every goroutine that can move does.  The two contended locks need strong
\* fairness: OpLock.Acquire polls, and a Go mutex is handed to a starving waiter.
FairSpec ==
    /\ Spec
    /\ \A c \in Clients : WF_vars(SaveQueued(c)) /\ WF_vars(Notify(c))
    /\ WF_vars(Worker) /\ SF_vars(AcquireOp) /\ SF_vars(LockBuild)
    /\ WF_vars(StopWorker) /\ WF_vars(CancelRun)
    /\ SF_vars(SyncLockBuild) /\ WF_vars(SyncUnlockBuild) /\ WF_vars(SyncRelease)
    /\ WF_vars(RefresherUnlock) /\ WF_vars(ExpireOrphan)

-----------------------------------------------------------------------------
(* Properties *)

InQueue(j) == \E n \in 1 .. Len(queue) : queue[n] = j
Live(j) == InQueue(j) \/ wjob = j

\* Outside prime, no two jobs of one kind are queued or running, and the
\* duplicate check of enqueue knows the one there is: the id a 409 answers with
\* is always that of a job that is queued or running.
OneLiveJobPerKind ==
    \A k \in Dedup : \A j \in Ids : (kind[j] = k /\ Live(j)) <=> active[k] = j

\* Locks do not leak: a worker between jobs, or gone, holds neither lock, and
\* each lock is held exactly while its holder is inside the section it guards,
\* also after an operation that failed or panicked.
LocksMatchPlaces ==
    /\ op = "worker" <=> wpc \in {"build", "run", "release"}
    /\ build = "worker" => wpc \in {"run", "release", "unlock"}
    /\ op = "sync" <=> sync # "idle"
    /\ build = "sync" <=> sync = "publish"

\* The phase of a job in the abstract ledger.
Phase(j) == IF j > accepted THEN "none"
            ELSE IF InQueue(j) THEN "queued"
            ELSE IF wjob = j THEN "running" ELSE "finished"

Ledger == INSTANCE JobLedger WITH phase <- [j \in Ids |-> Phase(j)], closed <- stopped

\* The queue implements the ledger: one job at a time, first come first served,
\* no second job of a kind, a bounded backlog, nothing started after stop.
ImplementsLedger == Ledger!LedgerSpec

\* A job that was accepted finishes unless the queue is stopped: no wake-up is
\* lost although the notify channel has one place and waits for nobody.
JobsFinish ==
    \A j \in Ids : (accepted >= j) ~> (stopped \/ Phase(j) = "finished")

\* stop returns: the worker exits whatever it was waiting for.
StopReturns == stopped ~> (wpc = "exited")

\* A job whose final status has been saved, or could have been.
Done(j) == Phase(j) = "finished" \/ (wjob = j /\ wpc = "clear")

\* The stored status is never ahead of the job, and a job that is done shows as
\* running, or not at all, only because a save failed: the final save reaches
\* the store also during shutdown.
StatusFollows ==
    \A j \in Ids :
        /\ status[j] \in Final => Done(j)
        /\ status[j] = "running" => Phase(j) \in {"running", "finished"}
        /\ Done(j) /\ status[j] \in {"none", "running"} => faults < MaxFaults

=============================================================================
