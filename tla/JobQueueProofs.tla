--------------------------- MODULE JobQueueProofs ---------------------------
(***************************************************************************)
(* Proofs about JobQueue for any number of clients, jobs and faults: its   *)
(* invariants, and that every step of the queue is a step of JobLedger or  *)
(* changes nothing there.  The invariants say that job numbers are given   *)
(* out in order and that the worker's job is older than every queued one.  *)
(***************************************************************************)
EXTENDS JobQueue, FiniteSetTheorems, SequenceTheorems, TLAPS

\* The jobs in the queue are accepted and in the order of acceptance, and the
\* worker's job, which it has exactly between dequeue and clearActive, is older.
QueueOrder ==
    /\ \A n \in 1 .. Len(queue) : queue[n] <= accepted
    /\ \A m, n \in 1 .. Len(queue) : m < n => queue[m] < queue[n]
    /\ wjob <= accepted /\ \A n \in 1 .. Len(queue) : wjob < queue[n]
    /\ wjob = None <=> wpc \in {"dequeue", "wait", "exited"}
    /\ \A j \in Ids : kind[j] = "none" <=> j > accepted

\* The worker has the build lock exactly where the kind of its job asks for it.
BuildInv ==
    /\ wpc = "run" /\ kind[wjob] \in BuildLocked => build = "worker"
    /\ wpc = "unlock" => build = "worker"

-----------------------------------------------------------------------------
(* Types *)

\* The type invariant is preserved by every step; that the worker has a job
\* while it runs one comes from QueueOrder.
LEMMA QueueTypeStep == TypeOK /\ [Next]_vars => TypeOK'
<1> SUFFICES ASSUME TypeOK, [Next]_vars PROVE TypeOK'
  BY Zenon
<1> USE QueueAssumption DEF TypeOK
<1>1. ASSUME NEW c \in Clients, NEW k \in Requested, Enqueue(c, k) PROVE TypeOK'
  <2>1. accepted + 1 \in Ids /\ k \in AllKinds
    BY <1>1 DEF Enqueue, Ids
  <2>2. queue' \in Seq(Ids)
    BY <1>1, <2>1 DEF Enqueue
  <2>3. active' \in [Dedup -> {None} \union Ids]
    BY Zenon, <1>1, <2>1 DEF Enqueue, Dedup
  <2>4. accepted' \in 0 .. MaxJobs /\ kind' \in [Ids -> AllKinds \union {"none"}]
    BY <1>1, <2>1 DEF Enqueue, Ids
  <2>5. cjob' \in [Clients -> {None} \union Ids]
        /\ cpc' \in [Clients -> {"idle", "save", "notify"}]
    BY Zenon, <1>1, <2>1 DEF Enqueue
  <2> QED
    BY <1>1, <2>2, <2>3, <2>4, <2>5 DEF Enqueue, worker, locks
<1>2. ASSUME NEW c \in Clients, SaveQueued(c) PROVE TypeOK'
  BY <1>2 DEF SaveQueued, Save, Fault, qvars, worker, locks
<1>3. ASSUME NEW c \in Clients, Notify(c) PROVE TypeOK'
  BY <1>3 DEF Notify, qvars, worker, locks
<1>4. CASE Dequeue
  <2>1. CASE stopped \/ queue = <<>>
    BY <1>4, <2>1 DEF Dequeue, WorkerPCs, clients, locks
  <2>2. CASE ~(stopped \/ queue = <<>>)
    <3>1. Head(queue) \in Ids /\ Tail(queue) \in Seq(Ids)
      BY <2>2
    <3> QED
      BY ZenonT(30), <1>4, <2>2, <3>1 DEF Dequeue, WorkerPCs, clients, locks
  <2> QED
    BY Zenon, <2>1, <2>2
<1>5. CASE Wait
  <2>1. notify' \in BOOLEAN
    BY <1>5, Zenon DEF Wait
  <2>2. wpc' \in WorkerPCs
    BY Zenon, <1>5 DEF Wait, WorkerPCs
  <2> QED
    BY <1>5, <2>1, <2>2 DEF Wait, qvars, clients, locks
<1>6. CASE SaveRunning
  BY <1>6 DEF SaveRunning, Save, Fault, WorkerPCs, qvars, clients, locks
<1>7. CASE AcquireOp
  BY <1>7 DEF AcquireOp, Fault, WorkerPCs, Final, qvars, clients
<1>8. CASE LockBuild
  BY <1>8 DEF LockBuild, WorkerPCs, qvars, clients
<1>9. CASE Run
  BY <1>9 DEF Run, WorkerPCs, qvars, clients
<1>10. CASE ReleaseOp
  BY <1>10 DEF ReleaseOp, Fault, WorkerPCs, qvars, clients
<1>11. CASE UnlockBuild
  BY <1>11 DEF UnlockBuild, WorkerPCs, qvars, clients
<1>12. CASE SaveFinal
  BY <1>12 DEF SaveFinal, Save, Fault, WorkerPCs, qvars, clients, locks
<1>13. CASE ClearActive
  BY <1>13 DEF ClearActive, Cleared, WorkerPCs, Final, clients, locks
<1>14. CASE StopIntake \/ StopWorker \/ CancelRun
  <2>1. stopped' \in BOOLEAN /\ stopCh' \in BOOLEAN /\ cancelled' \in BOOLEAN
    BY <1>14, Zenon DEF StopIntake, StopWorker, CancelRun, qvars
  <2> QED
    BY <1>14, <2>1 DEF StopIntake, StopWorker, CancelRun, qvars, worker, clients, locks
<1>15. CASE SyncAcquire \/ SyncLockBuild \/ SyncUnlockBuild
  BY <1>15 DEF SyncAcquire, SyncLockBuild, SyncUnlockBuild, qvars, worker, clients
<1>16. CASE SyncRelease
  BY <1>16 DEF SyncRelease, Fault, qvars, worker, clients
<1>17. CASE RefresherLock \/ RefresherUnlock \/ ExpireOrphan
  BY <1>17 DEF RefresherLock, RefresherUnlock, ExpireOrphan, qvars, worker, clients
<1>18. CASE UNCHANGED vars
  BY <1>18 DEF vars, qvars, worker, clients, locks
<1> QED
  BY ZenonT(30), <1>1, <1>2, <1>3, <1>4, <1>5, <1>6, <1>7, <1>8, <1>9, <1>10, <1>11, <1>12, <1>13,
     <1>14, <1>15, <1>16, <1>17, <1>18 DEF Next, Worker, Sync

\* The variables of the queue, its worker, its clients and its locks keep their types.
THEOREM QueueTypeCorrect == Spec => []TypeOK
<1>1. ASSUME Init PROVE TypeOK
  <2>1. notify \in BOOLEAN /\ stopped \in BOOLEAN /\ stopCh \in BOOLEAN /\ cancelled \in BOOLEAN
    BY <1>1, Zenon DEF Init
  <2>2. queue \in Seq(Ids) /\ accepted \in 0 .. MaxJobs /\ faults \in 0 .. MaxFaults
    BY <1>1, QueueAssumption DEF Init
  <2> QED
    BY Zenon, <1>1, <2>1, <2>2 DEF Init, TypeOK, WorkerPCs, Final
<1> QED
  BY <1>1, QueueTypeStep, PTL DEF Spec

-----------------------------------------------------------------------------
(* The order of the jobs *)

Between == {"dequeue", "wait", "exited"}

\* Only enqueue, dequeue, clearActive and stop change the queue, the active map or
\* the worker's job; all else leaves the worker between jobs, or inside one.
LEMMA QueueSteps ==
    ASSUME [Next]_vars
    PROVE  \/ \E c \in Clients, k \in Requested : Enqueue(c, k)
           \/ Dequeue
           \/ ClearActive
           \/ StopIntake
           \/ /\ UNCHANGED qvars /\ UNCHANGED wjob
              /\ wpc' \in Between <=> wpc \in Between
<1> DEFINE Quiet == UNCHANGED qvars /\ UNCHANGED wjob /\ (wpc' \in Between <=> wpc \in Between)
<1>1. ASSUME NEW c \in Clients, SaveQueued(c) \/ Notify(c) PROVE Quiet
  BY Zenon, <1>1 DEF SaveQueued, Notify, worker
<1>2. CASE Wait
  BY Zenon, <1>2 DEF Wait, Between
<1>3. CASE SaveRunning \/ SaveFinal
  BY Zenon, <1>3 DEF SaveRunning, SaveFinal, Between
<1>4. CASE AcquireOp
  BY Zenon, <1>4 DEF AcquireOp, Between
<1>5. CASE LockBuild \/ Run \/ ReleaseOp \/ UnlockBuild
  BY Zenon, <1>5 DEF LockBuild, Run, ReleaseOp, UnlockBuild, Between
<1>6. CASE StopWorker \/ CancelRun
  BY Zenon, <1>6 DEF StopWorker, CancelRun, worker
<1>7. CASE Sync \/ RefresherLock \/ RefresherUnlock \/ ExpireOrphan
  BY Zenon, <1>7 DEF Sync, SyncAcquire, SyncLockBuild, SyncUnlockBuild, SyncRelease, RefresherLock,
     RefresherUnlock, ExpireOrphan, worker
<1>8. CASE UNCHANGED vars
  BY Zenon, <1>8 DEF vars, worker
<1> QED
  BY Zenon, <1>1, <1>2, <1>3, <1>4, <1>5, <1>6, <1>7, <1>8 DEF Next, Worker

\* Job numbers stay in order through every step.
LEMMA QueueOrderStep == TypeOK /\ QueueOrder /\ [Next]_vars => QueueOrder'
<1> SUFFICES ASSUME TypeOK, QueueOrder, [Next]_vars PROVE QueueOrder'
  BY Zenon
<1> USE QueueAssumption DEF Ids, None
<1>1. ASSUME NEW c \in Clients, NEW k \in Requested, Enqueue(c, k) PROVE QueueOrder'
  <2>1. /\ Len(queue') = Len(queue) + 1 /\ Len(queue) \in Nat
        /\ queue'[Len(queue) + 1] = accepted + 1
        /\ \A n \in 1 .. Len(queue) : queue'[n] = queue[n] /\ queue[n] \in Ids
    BY <1>1 DEF Enqueue, TypeOK
  <2>2. accepted' = accepted + 1 /\ accepted \in Nat /\ wjob' = wjob /\ wjob \in Nat /\ wpc' = wpc
    BY <1>1 DEF Enqueue, TypeOK, worker
  <2>3. \A n \in 1 .. Len(queue') : queue'[n] <= accepted'
    BY <2>1, <2>2 DEF QueueOrder
  <2>4. ASSUME NEW m \in 1 .. Len(queue'), NEW n \in 1 .. Len(queue'), m < n
        PROVE  queue'[m] < queue'[n]
    <3>1. m \in 1 .. Len(queue)
      BY <2>1, <2>4
    <3>2. CASE n \in 1 .. Len(queue)
      BY Zenon, <2>1, <2>4, <3>1, <3>2 DEF QueueOrder
    <3>3. CASE n = Len(queue) + 1
      BY <2>1, <2>2, <3>1, <3>3 DEF QueueOrder
    <3> QED
      BY <2>1, <3>2, <3>3
  <2>5. wjob' <= accepted' /\ \A n \in 1 .. Len(queue') : wjob' < queue'[n]
    BY <2>1, <2>2 DEF QueueOrder
  <2>6. \A j \in Ids : kind'[j] = "none" <=> j > accepted'
    <3>1. k # "none" /\ kind' = [kind EXCEPT ![accepted + 1] = k]
      BY Zenon, <1>1 DEF Enqueue, AllKinds
    <3> QED
      BY <3>1, <2>2 DEF QueueOrder, TypeOK
  <2> QED
    BY Zenon, <2>2, <2>3, <2>4, <2>5, <2>6 DEF QueueOrder
<1>2. CASE Dequeue
  <2>1. CASE stopped \/ queue = <<>>
    BY Zenon, <1>2, <2>1 DEF Dequeue, QueueOrder
  <2>2. CASE ~(stopped \/ queue = <<>>)
    <3>1. queue' = Tail(queue) /\ wjob' = Head(queue) /\ wpc' = "running" /\ wpc = "dequeue"
      BY Zenon, <1>2, <2>2 DEF Dequeue
    <3>2. accepted' = accepted /\ kind' = kind
      BY Zenon, <1>2 DEF Dequeue
    <3>3. queue \in Seq(Ids) /\ queue # <<>>
      BY Zenon, <2>2 DEF TypeOK
    <3>4. /\ Len(queue) \in Nat /\ Len(queue) # 0 /\ Len(queue') = Len(queue) - 1
          /\ wjob' = queue[1]
      BY <3>1, <3>3, HeadTailProperties
    <3>5. ASSUME NEW n \in 1 .. Len(queue')
          PROVE  n + 1 \in 1 .. Len(queue) /\ queue'[n] = queue[n + 1]
      BY <3>1, <3>3, <3>4, HeadTailProperties
    <3>6. \A n \in 1 .. Len(queue') : queue'[n] <= accepted'
      BY Zenon, <3>2, <3>5 DEF QueueOrder
    <3>7. ASSUME NEW m \in 1 .. Len(queue'), NEW n \in 1 .. Len(queue'), m < n
          PROVE  queue'[m] < queue'[n]
      <4>1. m + 1 < n + 1
        BY <3>4, <3>7
      <4> QED
        BY Zenon, <4>1, <3>5 DEF QueueOrder
    <3>8. 1 \in 1 .. Len(queue) /\ queue[1] \in Ids
      BY <3>3, <3>4, ElementOfSeq
    <3>9. wjob' <= accepted' /\ wjob' # None
      BY <3>2, <3>4, <3>8 DEF QueueOrder
    <3>10. ASSUME NEW n \in 1 .. Len(queue') PROVE wjob' < queue'[n]
      <4>1. 1 < n + 1
        BY <3>4
      <4> QED
        BY Zenon, <4>1, <3>4, <3>5, <3>8 DEF QueueOrder
    <3> QED
      BY Zenon, <3>1, <3>2, <3>6, <3>7, <3>9, <3>10 DEF QueueOrder
  <2> QED
    BY Zenon, <2>1, <2>2
<1>3. CASE ClearActive
  <2>1. \A n \in 1 .. Len(queue) : queue[n] \in Ids
    BY DEF TypeOK
  <2> QED
    BY <1>3, <2>1 DEF ClearActive, QueueOrder, TypeOK
<1>4. CASE StopIntake
  BY Zenon, <1>4 DEF StopIntake, QueueOrder, worker
<1>5. CASE UNCHANGED qvars /\ UNCHANGED wjob /\ (wpc' \in Between <=> wpc \in Between)
  BY Zenon, <1>5 DEF QueueOrder, qvars, Between
<1> QED
  BY Zenon, <1>1, <1>2, <1>3, <1>4, <1>5, QueueSteps

-----------------------------------------------------------------------------
(* The duplicate check *)

\* enqueue puts the new job, and nothing else, into the queue.
LEMMA EnqueueAdds ==
    ASSUME TypeOK, NEW c \in Clients, NEW k \in Requested, Enqueue(c, k), NEW j
    PROVE  InQueue(j)' <=> InQueue(j) \/ j = accepted + 1
<1>1. queue \in Seq(Ids) /\ accepted + 1 \in Ids /\ queue' = Append(queue, accepted + 1)
  BY QueueAssumption DEF Enqueue, TypeOK, Ids
<1>2. /\ Len(queue) \in Nat /\ Len(queue') = Len(queue) + 1
      /\ \A i \in 1 .. Len(queue) : queue'[i] = queue[i]
      /\ queue'[Len(queue) + 1] = accepted + 1
  BY <1>1, AppendProperties
<1>3. 1 .. Len(queue') = 1 .. Len(queue) \union {Len(queue) + 1}
  BY <1>2
<1> QED
  BY Zenon, <1>2, <1>3 DEF InQueue

\* dequeue takes the first job, and nothing else, out of the queue.
LEMMA DequeueTakes ==
    ASSUME TypeOK, QueueOrder, Dequeue, ~stopped, queue # <<>>, NEW j
    PROVE  InQueue(j)' <=> InQueue(j) /\ j # Head(queue)
<1>1. queue \in Seq(Ids) /\ queue' = Tail(queue)
  BY Zenon DEF Dequeue, TypeOK
<1>2. /\ Len(queue) \in Nat /\ Len(queue) # 0 /\ Len(queue') = Len(queue) - 1
      /\ Head(queue) = queue[1]
      /\ \A i \in 1 .. Len(queue') : queue'[i] = queue[i + 1]
  BY <1>1, HeadTailProperties
<1>3. ASSUME NEW n \in 1 .. Len(queue), queue[n] = j, j # Head(queue) PROVE InQueue(j)'
  <2>1. n # 1
    BY Zenon, <1>2, <1>3
  <2>2. n - 1 \in 1 .. Len(queue') /\ queue'[n - 1] = queue[(n - 1) + 1] /\ (n - 1) + 1 = n
    BY <1>2, <2>1
  <2> QED
    BY Zenon, <1>3, <2>2 DEF InQueue
<1>4. ASSUME NEW n \in 1 .. Len(queue'), queue'[n] = j PROVE InQueue(j) /\ j # Head(queue)
  <2>1. n + 1 \in 1 .. Len(queue) /\ queue[n + 1] = j /\ 1 \in 1 .. Len(queue) /\ 1 < n + 1
    BY <1>2, <1>4
  <2>2. queue[1] < j /\ queue[1] \in Ids /\ j \in Ids
    BY Zenon, <2>1, <1>1, ElementOfSeq DEF QueueOrder
  <2>3. queue[1] # j
    BY <2>2, QueueAssumption DEF Ids
  <2> QED
    BY Zenon, <1>2, <2>1, <2>3 DEF InQueue
<1> QED
  BY Zenon, <1>3, <1>4 DEF InQueue

\* A queued job is accepted and is not the worker's.
LEMMA QueuedJobs ==
    ASSUME TypeOK, QueueOrder, NEW j, InQueue(j)
    PROVE  j \in Ids /\ j <= accepted /\ j # wjob
<1>1. PICK n \in 1 .. Len(queue) : queue[n] = j
  BY Zenon DEF InQueue
<1>2. j \in Ids /\ j <= accepted /\ wjob < j
  BY Zenon, <1>1, ElementOfSeq DEF TypeOK, QueueOrder
<1> QED
  BY <1>2, QueueAssumption DEF TypeOK, Ids, None

\* The duplicate check stays exact: enqueue records the job it accepts, dequeue only
\* moves it, and clearActive forgets the job that ends and no other.
LEMMA OneLiveStep ==
    TypeOK /\ QueueOrder /\ OneLiveJobPerKind /\ [Next]_vars => OneLiveJobPerKind'
<1> SUFFICES ASSUME TypeOK, QueueOrder, OneLiveJobPerKind, [Next]_vars,
                    NEW kk \in Dedup, NEW j \in Ids
             PROVE  (kind'[j] = kk /\ Live(j)') <=> active'[kk] = j
  BY Zenon DEF OneLiveJobPerKind
<1>0. ((kind[j] = kk /\ Live(j)) <=> active[kk] = j) /\ j # None /\ kk # "none"
  BY QueueAssumption DEF OneLiveJobPerKind, Ids, None, Dedup, AllKinds
<1>1. ASSUME NEW c \in Clients, NEW k \in Requested, Enqueue(c, k)
      PROVE  (kind'[j] = kk /\ Live(j)') <=> active'[kk] = j
  <2>1. /\ kind' = [kind EXCEPT ![accepted + 1] = k] /\ wjob' = wjob
        /\ active' = IF k = "prime" THEN active ELSE [active EXCEPT ![k] = accepted + 1]
    BY Zenon, <1>1 DEF Enqueue, worker
  <2>2. accepted + 1 \in Ids /\ kind[accepted + 1] = "none"
    BY <1>1, QueueAssumption DEF Enqueue, TypeOK, Ids, QueueOrder
  <2>3. Live(j)' <=> Live(j) \/ j = accepted + 1
    BY Zenon, <1>1, <2>1, EnqueueAdds DEF Live
  <2>4. CASE j = accepted + 1
    <3>1. active[kk] # j
      BY Zenon, <1>0, <2>2, <2>4
    <3>2. kind'[j] = k
      BY Zenon, <2>1, <2>2, <2>4 DEF TypeOK
    <3> QED
      BY <2>1, <2>3, <2>4, <3>1, <3>2 DEF TypeOK, Dedup
  <2>5. CASE j # accepted + 1
    <3>1. kind'[j] = kind[j]
      BY ZenonT(30), <2>1, <2>5 DEF TypeOK
    <3>2. kk = k => active[kk] = None /\ active'[kk] = accepted + 1
      BY <1>1, <2>1 DEF Enqueue, Duplicate, TypeOK, Dedup
    <3>3. kk # k => active'[kk] = active[kk]
      BY Zenon, <2>1 DEF TypeOK
    <3> QED
      BY Zenon, <1>0, <2>3, <2>5, <3>1, <3>2, <3>3
  <2> QED
    BY Zenon, <2>4, <2>5
<1>2. CASE Dequeue
  <2>1. kind' = kind /\ active' = active
    BY Zenon, <1>2 DEF Dequeue
  <2>2. CASE stopped \/ queue = <<>>
    BY Zenon, <1>0, <1>2, <2>1, <2>2 DEF Dequeue, Live, InQueue
  <2>3. CASE ~stopped /\ queue # <<>>
    <3>1. wjob' = Head(queue) /\ wjob = None
      BY Zenon, <1>2, <2>3 DEF Dequeue, QueueOrder
    <3>2. InQueue(Head(queue))
      <4>1. Len(queue) \in Nat /\ Len(queue) # 0 /\ Head(queue) = queue[1]
        BY <2>3, HeadTailProperties DEF TypeOK
      <4> QED
        BY <4>1 DEF InQueue
    <3>3. Live(j)' <=> Live(j)
      BY Zenon, <1>0, <1>2, <2>3, <3>1, <3>2, DequeueTakes DEF Live
    <3> QED
      BY Zenon, <1>0, <2>1, <3>3
  <2> QED
    BY Zenon, <2>2, <2>3
<1>3. CASE ClearActive
  <2>1. /\ kind' = kind /\ queue' = queue /\ wjob' = None /\ wpc = "clear"
        /\ active' = Cleared(kind[wjob], wjob)
    BY Zenon, <1>3 DEF ClearActive
  <2>2. wjob \in Ids
    BY Zenon, <2>1 DEF TypeOK, QueueOrder
  <2>3. kind[wjob] \in Dedup => active[kind[wjob]] = wjob
    BY Zenon, <2>2 DEF OneLiveJobPerKind, Live
  <2>4. active'[kk] = IF kk = kind[wjob] THEN None ELSE active[kk]
    BY Zenon, <2>1, <2>3 DEF Cleared, TypeOK
  <2>5. Live(j)' <=> Live(j) /\ j # wjob
    <3>1. Live(j)' <=> InQueue(j)
      BY Zenon, <1>0, <2>1 DEF Live, InQueue
    <3> QED
      BY Zenon, <3>1, QueuedJobs DEF Live
  <2> QED
    BY Zenon, <1>0, <2>1, <2>3, <2>4, <2>5
<1>4. CASE StopIntake
  BY Zenon, <1>0, <1>4 DEF StopIntake, Live, InQueue, worker
<1>5. CASE UNCHANGED qvars /\ UNCHANGED wjob
  BY Zenon, <1>0, <1>5 DEF Live, InQueue, qvars
<1> QED
  BY Zenon, <1>1, <1>2, <1>3, <1>4, <1>5, QueueSteps

\* Outside prime, no two jobs of one kind are queued or running, and the duplicate check
\* of enqueue knows exactly the one there is.
THEOREM DuplicateCheckExact == Spec => []OneLiveJobPerKind
<1> DEFINE Inv == TypeOK /\ QueueOrder /\ OneLiveJobPerKind
<1>1. Init => QueueOrder /\ OneLiveJobPerKind
  BY QueueAssumption DEF Init, QueueOrder, OneLiveJobPerKind, Live, InQueue, Ids, None, Dedup,
     AllKinds
<1>2. Inv /\ [Next]_vars => Inv'
  BY Zenon, QueueTypeStep, QueueOrderStep, OneLiveStep
<1>3. Spec => []TypeOK
  BY Zenon, QueueTypeCorrect
<1> QED
  BY <1>1, <1>2, <1>3, PTL DEF Spec

-----------------------------------------------------------------------------
(* The locks *)

LockInv == LocksMatchPlaces /\ BuildInv

\* No step leaks a lock or takes one that another holds.
LEMMA LockStep == TypeOK /\ QueueOrder /\ LockInv /\ [Next]_vars => LockInv'
<1> SUFFICES ASSUME TypeOK, QueueOrder, LockInv, [Next]_vars PROVE LockInv'
  BY Zenon
<1> USE DEF LockInv, LocksMatchPlaces, BuildInv
<1>1. ASSUME NEW c \in Clients, NEW k \in Requested, Enqueue(c, k) PROVE LockInv'
  <2>1. wpc = "run" => wjob \in Ids /\ wjob # accepted + 1
    BY QueueAssumption DEF TypeOK, QueueOrder, Ids, None
  <2>2. wpc = "run" => kind'[wjob] = kind[wjob]
    BY Zenon, <1>1, <2>1 DEF Enqueue, TypeOK
  <2> QED
    BY Zenon, <1>1, <2>2 DEF Enqueue, worker, locks
<1>2. ASSUME NEW c \in Clients, SaveQueued(c) \/ Notify(c) PROVE LockInv'
  BY Zenon, <1>2 DEF SaveQueued, Notify, qvars, worker, locks
<1>3. CASE Dequeue
  BY Zenon, <1>3 DEF Dequeue, locks
<1>4. CASE Wait \/ SaveRunning \/ SaveFinal \/ ClearActive
  BY Zenon, <1>4 DEF Wait, SaveRunning, SaveFinal, ClearActive, locks
<1>5. CASE AcquireOp
  BY Zenon, <1>5 DEF AcquireOp, qvars
<1>6. CASE LockBuild
  BY Zenon, <1>6 DEF LockBuild, qvars
<1>7. CASE Run
  BY Zenon, <1>7 DEF Run, BuildLocked
<1>8. CASE ReleaseOp
  BY Zenon, <1>8 DEF ReleaseOp
<1>9. CASE UnlockBuild
  BY Zenon, <1>9 DEF UnlockBuild
<1>10. CASE StopIntake \/ StopWorker \/ CancelRun
  BY Zenon, <1>10 DEF StopIntake, StopWorker, CancelRun, qvars, worker, locks
<1>11. CASE SyncAcquire \/ SyncLockBuild
  BY Zenon, <1>11 DEF SyncAcquire, SyncLockBuild, qvars, worker
<1>12. CASE SyncUnlockBuild \/ SyncRelease
  BY Zenon, <1>12 DEF SyncUnlockBuild, SyncRelease, qvars, worker
<1>13. CASE RefresherLock \/ RefresherUnlock \/ ExpireOrphan
  BY Zenon, <1>13 DEF RefresherLock, RefresherUnlock, ExpireOrphan, qvars, worker
<1>14. CASE UNCHANGED vars
  BY Zenon, <1>14 DEF vars, qvars, worker, locks
<1> QED
  BY ZenonT(30), <1>1, <1>2, <1>3, <1>4, <1>5, <1>6, <1>7, <1>8, <1>9, <1>10, <1>11, <1>12, <1>13,
     <1>14 DEF Next, Worker, Sync

\* Each lock is held exactly while its holder is inside the section it guards, also after
\* an operation that failed or panicked.
THEOREM NoLockLeaks == Spec => []LocksMatchPlaces
<1> DEFINE Inv == TypeOK /\ QueueOrder /\ LockInv
<1>1. Init => QueueOrder /\ LockInv
  BY QueueAssumption DEF Init, QueueOrder, LockInv, LocksMatchPlaces, BuildInv, Ids, None
<1>2. Inv /\ [Next]_vars => Inv'
  BY Zenon, QueueTypeStep, QueueOrderStep, LockStep
<1>3. Inv => LocksMatchPlaces
  BY Zenon DEF LockInv
<1>4. Spec => []TypeOK
  BY QueueTypeCorrect
<1> QED
  BY <1>1, <1>2, <1>3, <1>4, PTL DEF Spec

-----------------------------------------------------------------------------
(* The phase of a job *)

\* enqueue makes the next job queued.
LEMMA EnqueuePhase ==
    ASSUME TypeOK, QueueOrder, NEW c \in Clients, NEW k \in Requested, Enqueue(c, k),
           NEW j \in Ids
    PROVE  /\ accepted + 1 \in Ids /\ Phase(accepted + 1) = "none"
           /\ Phase(j)' = IF j = accepted + 1 THEN "queued" ELSE Phase(j)
<1>1. /\ accepted' = accepted + 1 /\ accepted \in Nat /\ accepted + 1 \in Ids
      /\ wjob' = wjob /\ j \in Nat
  BY QueueAssumption DEF Enqueue, TypeOK, Ids, worker
<1>2. InQueue(j)' <=> InQueue(j) \/ j = accepted + 1
  BY Zenon, EnqueueAdds
<1>3. Phase(accepted + 1) = "none"
  BY <1>1 DEF Phase
<1>4. CASE j = accepted + 1
  BY <1>1, <1>2, <1>3, <1>4 DEF Phase
<1>5. CASE j # accepted + 1
  <2>1. j > accepted' <=> j > accepted
    BY <1>1, <1>5
  <2> QED
    BY <1>1, <1>2, <1>5, <2>1 DEF Phase
<1> QED
  BY Zenon, <1>1, <1>3, <1>4, <1>5

\* dequeue makes the first queued job running.
LEMMA DequeuePhase ==
    ASSUME TypeOK, QueueOrder, Dequeue, ~stopped, queue # <<>>, NEW j \in Ids
    PROVE  /\ Head(queue) \in Ids /\ Phase(Head(queue)) = "queued"
           /\ Phase(j)' = IF j = Head(queue) THEN "running" ELSE Phase(j)
<1>1. wjob' = Head(queue) /\ accepted' = accepted /\ wjob = None
  BY Zenon DEF Dequeue, QueueOrder
<1>2. Len(queue) \in Nat /\ Len(queue) # 0 /\ Head(queue) = queue[1]
  BY HeadTailProperties DEF TypeOK
<1>3. InQueue(Head(queue))
  BY <1>2 DEF InQueue
<1>4. Head(queue) \in Ids /\ Head(queue) <= accepted /\ accepted \in Nat /\ Ids \subseteq Nat \ {0}
  BY <1>3, QueuedJobs, QueueAssumption DEF TypeOK, Ids
<1>5. Phase(Head(queue)) = "queued"
  <2>1. ~(Head(queue) > accepted)
    BY <1>4, QueueAssumption DEF Ids
  <2> QED
    BY <1>3, <2>1, Zenon DEF Phase
<1>6. InQueue(j)' <=> InQueue(j) /\ j # Head(queue)
  BY Zenon, DequeueTakes
<1>7. wjob # j
  BY Zenon, <1>1, <1>4 DEF None
<1>8. Phase(j)' = IF j = Head(queue) THEN "running" ELSE Phase(j)
  BY <1>1, <1>4, <1>6, <1>7 DEF Phase
<1> QED
  BY Zenon, <1>4, <1>5, <1>8

\* clearActive makes the worker's job finished.
LEMMA ClearPhase ==
    ASSUME TypeOK, QueueOrder, ClearActive, NEW j \in Ids
    PROVE  /\ wjob \in Ids /\ Phase(wjob) = "running"
           /\ Phase(j)' = IF j = wjob THEN "finished" ELSE Phase(j)
<1>1. wjob' = None /\ accepted' = accepted /\ queue' = queue /\ wpc = "clear"
  BY Zenon DEF ClearActive
<1>2. wjob \in Ids /\ wjob <= accepted /\ accepted \in Nat /\ Ids \subseteq Nat \ {0}
  BY <1>1, QueueAssumption DEF TypeOK, QueueOrder, Ids
<1>3. ~InQueue(wjob)
  BY Zenon, QueuedJobs
<1>4. InQueue(j)' <=> InQueue(j)
  BY Zenon, <1>1 DEF InQueue
<1>5. Phase(wjob) = "running"
  BY <1>2, <1>3 DEF Phase
<1>6. j # None /\ (j = wjob => j <= accepted)
  BY Zenon, <1>2 DEF None
<1>7. Phase(j)' = IF j = wjob THEN "finished" ELSE Phase(j)
  BY <1>1, <1>2, <1>3, <1>4, <1>6 DEF Phase
<1> QED
  BY Zenon, <1>2, <1>5, <1>7

\* Where queue, accepted and wjob stay, so does every phase.
LEMMA QuietPhase ==
    ASSUME UNCHANGED <<queue, accepted, wjob>>, NEW j
    PROVE  Phase(j)' = Phase(j)
BY Zenon DEF Phase, InQueue

\* The phase of the worker's job is running.
LEMMA WorkerPhase ==
    ASSUME TypeOK, QueueOrder, wjob # None
    PROVE  wjob \in Ids /\ Phase(wjob) = "running"
<1>1. wjob \in Ids /\ ~(wjob > accepted)
  BY QueueAssumption DEF TypeOK, QueueOrder, Ids
<1>2. ~InQueue(wjob)
  BY Zenon, QueuedJobs
<1> QED
  BY Zenon, <1>1, <1>2 DEF Phase

-----------------------------------------------------------------------------
(* The stored status *)

\* What a step leaves of the stored statuses of j, and of the budget of failed calls.
LEMMA StatusStep ==
    TypeOK /\ QueueOrder /\ StatusFollows /\ [Next]_vars => StatusFollows'
<1> SUFFICES ASSUME TypeOK, QueueOrder, StatusFollows, [Next]_vars, NEW j \in Ids
             PROVE  /\ status'[j] \in Final => Done(j)'
                    /\ status'[j] = "running" => Phase(j)' \in {"running", "finished"}
                    /\ Done(j)' /\ status'[j] \in {"none", "running"} => faults' < MaxFaults
  BY Zenon DEF StatusFollows
<1> DEFINE Follows == /\ status'[j] \in Final => Done(j)'
                      /\ status'[j] = "running" => Phase(j)' \in {"running", "finished"}
                      /\ Done(j)' /\ status'[j] \in {"none", "running"} => faults' < MaxFaults
<1>a. /\ status[j] \in Final => Done(j)
      /\ status[j] = "running" => Phase(j) \in {"running", "finished"}
      /\ Done(j) /\ status[j] \in {"none", "running"} => faults < MaxFaults
  BY Zenon DEF StatusFollows
<1>b. faults \in Nat /\ MaxFaults \in Nat /\ faults <= MaxFaults
  BY QueueAssumption DEF TypeOK
<1>c. Fault => faults' < MaxFaults
  BY <1>b DEF Fault
<1>1. ASSUME NEW c \in Clients, NEW k \in Requested, Enqueue(c, k) PROVE Follows
  <2>1. status' = status /\ faults' = faults /\ wpc' = wpc /\ wjob' = wjob
    BY Zenon, <1>1 DEF Enqueue, worker
  <2>2. /\ Phase(accepted + 1) = "none" /\ accepted + 1 \in Ids
        /\ Phase(j)' = IF j = accepted + 1 THEN "queued" ELSE Phase(j)
    BY Zenon, <1>1, EnqueuePhase
  <2>3. j = accepted + 1 => wjob # j
    BY QueueAssumption DEF QueueOrder, TypeOK, Ids, None
  <2> QED
    BY Zenon, <1>a, <2>1, <2>2, <2>3 DEF Done
<1>2. CASE Dequeue
  <2>1. status' = status /\ faults' = faults /\ wpc = "dequeue" /\ wpc' # "clear"
    BY Zenon, <1>2 DEF Dequeue
  <2>2. CASE stopped \/ queue = <<>>
    <3>1. Phase(j)' = Phase(j)
      BY Zenon, <1>2, <2>2, QuietPhase DEF Dequeue
    <3> QED
      BY Zenon, <1>a, <2>1, <3>1 DEF Done
  <2>3. CASE ~stopped /\ queue # <<>>
    <3>1. /\ Phase(Head(queue)) = "queued"
          /\ Phase(j)' = IF j = Head(queue) THEN "running" ELSE Phase(j)
      BY Zenon, <1>2, <2>3, DequeuePhase
    <3> QED
      BY Zenon, <1>a, <2>1, <3>1 DEF Done
  <2> QED
    BY Zenon, <2>2, <2>3
<1>3. CASE ClearActive
  <2>1. status' = status /\ faults' = faults /\ wpc = "clear" /\ wpc' # "clear"
    BY Zenon, <1>3 DEF ClearActive
  <2>2. /\ Phase(wjob) = "running"
        /\ Phase(j)' = IF j = wjob THEN "finished" ELSE Phase(j)
    BY Zenon, <1>3, ClearPhase
  <2> QED
    BY Zenon, <1>a, <2>1, <2>2 DEF Done
<1>4. CASE SaveFinal
  <2>1. wpc = "final" /\ wpc' = "clear" /\ wjob' = wjob /\ Phase(j)' = Phase(j)
    BY Zenon, <1>4, QuietPhase DEF SaveFinal, qvars
  <2>2. wjob \in Ids /\ Phase(wjob) = "running" /\ outcome \in Final
    BY Zenon, <2>1, WorkerPhase DEF QueueOrder, TypeOK
  <2>3. \/ status' = [status EXCEPT ![wjob] = outcome] /\ faults' = faults
        \/ Fault /\ status' = status
    BY Zenon, <1>4 DEF SaveFinal, Save
  <2>4. CASE j = wjob
    <3>1. Done(j)' /\ Phase(j)' = "running" /\ ~Done(j)
      BY Zenon, <2>1, <2>2, <2>4 DEF Done
    <3>2. CASE status' = [status EXCEPT ![wjob] = outcome]
      BY Zenon, <2>2, <2>4, <3>1, <3>2 DEF TypeOK, Final
    <3>3. CASE Fault /\ status' = status
      BY Zenon, <1>b, <1>c, <3>1, <3>3
    <3> QED
      BY Zenon, <2>3, <3>2, <3>3
  <2>5. CASE j # wjob
    <3>1. status'[j] = status[j]
      BY Zenon, <2>3, <2>5 DEF TypeOK
    <3>2. faults < MaxFaults => faults' < MaxFaults
      BY Zenon, <1>b, <1>c, <2>3
    <3>3. Done(j)' <=> Done(j)
      BY Zenon, <2>1, <2>5 DEF Done
    <3> QED
      BY Zenon, <1>a, <2>1, <3>1, <3>2, <3>3
  <2> QED
    BY Zenon, <2>4, <2>5
<1>5. CASE SaveRunning
  <2>1. wpc = "running" /\ wpc' = "oplock" /\ wjob' = wjob /\ Phase(j)' = Phase(j)
    BY Zenon, <1>5, QuietPhase DEF SaveRunning, qvars
  <2>2. wjob \in Ids /\ Phase(wjob) = "running"
    BY Zenon, <2>1, WorkerPhase DEF QueueOrder
  <2>3. \/ status' = [status EXCEPT ![wjob] = "running"] /\ faults' = faults
        \/ Fault /\ status' = status
    BY Zenon, <1>5 DEF SaveRunning, Save
  <2>4. Done(j)' <=> Done(j)
    BY Zenon, <2>1 DEF Done
  <2>5. faults < MaxFaults => faults' < MaxFaults
    BY Zenon, <1>b, <1>c, <2>3
  <2>6. status'[j] = status[j] \/ (j = wjob /\ status'[j] = "running")
    BY Zenon, <2>3 DEF TypeOK
  <2>7. j = wjob => Phase(j) = "running" /\ ~Done(j)
    BY Zenon, <2>1, <2>2 DEF Done
  <2> QED
    BY Zenon, <1>a, <2>1, <2>4, <2>5, <2>6, <2>7 DEF Final
<1>6. ASSUME NEW c \in Clients, SaveQueued(c) PROVE Follows
  <2>1. wpc' = wpc /\ wjob' = wjob /\ Phase(j)' = Phase(j)
    BY Zenon, <1>6, QuietPhase DEF SaveQueued, qvars, worker
  <2>2. \/ status' = [status EXCEPT ![cjob[c]] = "queued"] /\ faults' = faults
        \/ Fault /\ status' = status
    BY Zenon, <1>6 DEF SaveQueued, Save
  <2>3. Done(j)' <=> Done(j)
    BY Zenon, <2>1 DEF Done
  <2>4. faults < MaxFaults => faults' < MaxFaults
    BY Zenon, <1>b, <1>c, <2>2
  <2>5. status'[j] = status[j] \/ status'[j] = "queued"
    BY Zenon, <2>2 DEF TypeOK
  <2> QED
    BY Zenon, <1>a, <2>1, <2>3, <2>4, <2>5 DEF Final
<1>7. ASSUME UNCHANGED <<queue, accepted, wjob>>, UNCHANGED status,
             wpc' = "clear" <=> wpc = "clear", UNCHANGED faults \/ Fault
      PROVE  Follows
  <2>1. Phase(j)' = Phase(j) /\ (Done(j)' <=> Done(j))
    BY Zenon, <1>7, QuietPhase DEF Done
  <2>2. faults < MaxFaults => faults' < MaxFaults
    BY Zenon, <1>b, <1>c, <1>7
  <2> QED
    BY Zenon, <1>a, <1>7, <2>1, <2>2
<1>8. ASSUME NEW c \in Clients, Notify(c) PROVE Follows
  BY Zenon, <1>7, <1>8 DEF Notify, qvars, worker
<1>9. CASE Wait \/ LockBuild \/ Run \/ UnlockBuild
  BY Zenon, <1>7, <1>9 DEF Wait, LockBuild, Run, UnlockBuild, qvars
<1>10. CASE AcquireOp
  BY Zenon, <1>7, <1>10 DEF AcquireOp, qvars
<1>11. CASE ReleaseOp
  BY Zenon, <1>7, <1>11 DEF ReleaseOp, qvars
<1>12. CASE StopIntake \/ StopWorker \/ CancelRun
  BY Zenon, <1>7, <1>12 DEF StopIntake, StopWorker, CancelRun, qvars, worker
<1>13. CASE Sync
  BY Zenon, <1>7, <1>13 DEF Sync, SyncAcquire, SyncLockBuild, SyncUnlockBuild, SyncRelease, qvars,
     worker
<1>14. CASE RefresherLock \/ RefresherUnlock \/ ExpireOrphan \/ UNCHANGED vars
  BY Zenon, <1>7, <1>14 DEF RefresherLock, RefresherUnlock, ExpireOrphan, vars, qvars, worker
<1> QED
  BY ZenonT(30), <1>1, <1>2, <1>3, <1>4, <1>5, <1>6, <1>8, <1>9, <1>10, <1>11, <1>12, <1>13, <1>14
     DEF Next, Worker

\* The stored status is never ahead of the job, and stays behind a job that is done only
\* because a save failed: the final save of runOne reaches the store also during shutdown.
THEOREM StatusIsTrue == Spec => []StatusFollows
<1> DEFINE Inv == TypeOK /\ QueueOrder /\ StatusFollows
<1>1. ASSUME Init PROVE QueueOrder /\ StatusFollows
  <2>1. \A j \in Ids : Phase(j) = "none" /\ status[j] = "none" /\ wjob # j
    BY <1>1, QueueAssumption DEF Init, Phase, Ids, None
  <2>2. QueueOrder
    BY <1>1, QueueAssumption DEF Init, QueueOrder, Ids, None
  <2> QED
    BY Zenon, <2>1, <2>2 DEF StatusFollows, Done, Final
<1>2. Inv /\ [Next]_vars => Inv'
  BY QueueTypeStep, QueueOrderStep, StatusStep
<1>3. Spec => []TypeOK
  BY QueueTypeCorrect
<1> QED
  BY <1>1, <1>2, <1>3, PTL DEF Spec

-----------------------------------------------------------------------------
(* The refinement of JobLedger *)

\* The phases of all jobs, as the ledger sees them.
Phases == [j \in Ids |-> Phase(j)]

\* There are no more queued jobs than places taken in the queue.
LEMMA QueuedCount ==
    ASSUME TypeOK
    PROVE  /\ IsFiniteSet({j \in Ids : Phase(j) = "queued"})
           /\ Cardinality({j \in Ids : Phase(j) = "queued"}) <= Len(queue)
           /\ Cardinality({j \in Ids : Phase(j) = "queued"}) \in Nat
<1> DEFINE Q == {j \in Ids : Phase(j) = "queued"}
           R == {queue[n] : n \in 1 .. Len(queue)}
<1>1. Len(queue) \in Nat /\ queue \in [1 .. Len(queue) -> R]
  BY Zenon, LenProperties DEF TypeOK
<1>2. queue \in Surjection(1 .. Len(queue), R)
  BY Zenon, <1>1 DEF Surjection
<1>3. IsFiniteSet(1 .. Len(queue)) /\ Cardinality(1 .. Len(queue)) = Len(queue)
  BY <1>1, FS_Interval
<1>4. IsFiniteSet(R) /\ Cardinality(R) <= Len(queue)
  <2> HIDE DEF R
  <2>1. IsFiniteSet(R) /\ Cardinality(R) <= Cardinality(1 .. Len(queue))
    BY Zenon, <1>2, <1>3, FS_Surjection
  <2> QED
    BY Zenon, <2>1, <1>3
<1>5. Q \subseteq R
  BY Zenon DEF Phase, InQueue
<1>6. IsFiniteSet(Q) /\ Cardinality(Q) <= Cardinality(R)
  BY Zenon, <1>4, <1>5, FS_Subset
<1>7. Cardinality(Q) \in Nat /\ Cardinality(R) \in Nat
  BY Zenon, <1>4, <1>6, FS_CardinalityType
<1> QED
  BY <1>1, <1>4, <1>6, <1>7

\* The instance counts as this module does.
LEMMA LedgerCardinality == \A S : Ledger!Cardinality(S) = Cardinality(S)
BY Zenon DEF Ledger!Cardinality, Cardinality

\* enqueue is Accept of the ledger.
LEMMA EnqueueAccepts ==
    ASSUME TypeOK, QueueOrder, OneLiveJobPerKind,
           NEW c \in Clients, NEW k \in Requested, Enqueue(c, k)
    PROVE  accepted + 1 \in Ids /\ Ledger!Accept(accepted + 1, k)
<1> DEFINE a == accepted + 1
<1>1. a \in Ids /\ Phase(a) = "none" /\ accepted \in Nat
  <2>1. a \in Ids /\ accepted \in Nat
    BY QueueAssumption DEF TypeOK, Ids, Enqueue
  <2> QED
    BY ZenonT(30), <2>1, EnqueuePhase
<1>2. \A j \in Ids : Phase(j)' = IF j = a THEN "queued" ELSE Phase(j)
  BY Zenon, EnqueuePhase
<1>3. Phases' = [Phases EXCEPT ![a] = "queued"]
  BY Zenon, <1>1, <1>2 DEF Phases
<1>4. ASSUME NEW i \in Ids, i < a PROVE Phase(i) # "none"
  BY <1>1, <1>4, QueueAssumption DEF Phase, Ids
<1>5. ASSUME k # "prime", NEW i \in Ids, Phase(i) \in {"queued", "running"}
      PROVE  kind[i] # k
  <2>1. k \in Dedup /\ active[k] = None
    BY Zenon, <1>5, QueueAssumption DEF Enqueue, Duplicate, Dedup
  <2>2. active[k] # i
    BY <2>1, QueueAssumption DEF Ids, None
  <2>3. Live(i)
    BY Zenon, <1>5, QueueAssumption DEF Phase, Live, None, Ids
  <2> QED
    BY Zenon, <2>1, <2>2, <2>3 DEF OneLiveJobPerKind
<1>6. Cardinality({j \in Ids : Phase(j) = "queued"}) < Max
  <2>1. Len(queue) \in Nat /\ Len(queue) < Max
    BY QueueAssumption, LenProperties DEF Enqueue, Full, TypeOK
  <2> QED
    BY <2>1, QueuedCount, QueueAssumption
<1>7. ~stopped /\ stopped' = stopped /\ kind' = [kind EXCEPT ![a] = k]
  BY Zenon DEF Enqueue
<1>8. Ledger!Cardinality(Ledger!In("queued")) < Max
  <2>1. Ledger!In("queued") = {j \in Ids : Phase(j) = "queued"}
    BY Zenon DEF Ledger!In, Ledger!Ids, Ids
  <2> QED
    BY Zenon, <1>6, <2>1, LedgerCardinality
<1>9. k # "prime" => \A i \in Ledger!In("queued") \union Ledger!In("running") : kind[i] # k
  BY Zenon, <1>5 DEF Ledger!In, Ledger!Ids, Ids
<1>10. \A i \in Ledger!Ids : i < a => Phases[i] # "none"
  BY Zenon, <1>4 DEF Ledger!Ids, Ids, Phases
<1> QED
  BY <1>1, <1>3, <1>7, <1>8, <1>9, <1>10 DEF Ledger!Accept, Phases

\* dequeue is Start of the ledger: the first in the queue is the oldest one queued,
\* and the worker, which calls it between two jobs, runs none.
LEMMA DequeueStarts ==
    ASSUME TypeOK, QueueOrder, Dequeue, ~stopped, queue # <<>>
    PROVE  Head(queue) \in Ids /\ Ledger!Start(Head(queue))
<1> DEFINE h == Head(queue)
<1>0. \A j \in Ids : /\ h \in Ids /\ Phase(h) = "queued"
                     /\ Phase(j)' = IF j = h THEN "running" ELSE Phase(j)
  BY Zenon, DequeuePhase
<1>1. Len(queue) \in Nat /\ Len(queue) # 0 /\ h = queue[1]
  BY HeadTailProperties DEF TypeOK
<1>2. h \in Ids
  BY <1>1, ElementOfSeq DEF TypeOK
<1>3. Phases' = [Phases EXCEPT ![h] = "running"]
  BY Zenon, <1>0, <1>2 DEF Phases
<1>4. ASSUME NEW i \in Ids, Phase(i) = "queued" PROVE h <= i
  <2>1. PICK n \in 1 .. Len(queue) : queue[n] = i
    BY Zenon, <1>4 DEF Phase, InQueue
  <2>2. n = 1 \/ queue[1] < queue[n]
    BY <1>1, <2>1 DEF QueueOrder
  <2> QED
    BY <1>1, <1>2, <2>1, <2>2, QueueAssumption DEF Ids
<1>5. ASSUME NEW i \in Ids PROVE Phase(i) # "running"
  <2>1. wjob = None
    BY Zenon DEF QueueOrder, Dequeue
  <2>2. wjob # i
    BY <2>1, QueueAssumption DEF Ids, None
  <2> QED
    BY Zenon, <2>2 DEF Phase
<1>6. stopped' = stopped /\ kind' = kind
  BY Zenon DEF Dequeue
<1> QED
  BY ZenonT(30), <1>0, <1>2, <1>3, <1>4, <1>5, <1>6 DEF Ledger!Start, Ledger!In, Ledger!Ids, Ids, Phases

\* clearActive is Finish of the ledger.
LEMMA ClearFinishes ==
    ASSUME TypeOK, QueueOrder, ClearActive
    PROVE  wjob \in Ids /\ Ledger!Finish(wjob)
<1>0. \A j \in Ids : /\ wjob \in Ids /\ Phase(wjob) = "running"
                     /\ Phase(j)' = IF j = wjob THEN "finished" ELSE Phase(j)
  BY Zenon, ClearPhase
<1>1. wjob \in Ids
  BY Zenon, WorkerPhase DEF QueueOrder, ClearActive
<1>2. Phases' = [Phases EXCEPT ![wjob] = "finished"]
  BY Zenon, <1>0, <1>1 DEF Phases
<1>3. stopped' = stopped /\ kind' = kind
  BY Zenon DEF ClearActive
<1> QED
  BY Zenon, <1>0, <1>1, <1>2, <1>3 DEF Ledger!Finish, Phases

\* The admin queue implements the ledger: jobs are accepted, run and finished one at a
\* time and in order, with no second job of a kind, within the limit, and none once the
\* intake is closed.
THEOREM QueueImplementsLedger == Spec => ImplementsLedger
<1> DEFINE Inv == TypeOK /\ QueueOrder /\ OneLiveJobPerKind
           lvars == <<Phases, kind, stopped>>
<1>1. ASSUME Init PROVE Ledger!LedgerInit /\ QueueOrder
  <2>1. \A j \in Ids : Phase(j) = "none"
    BY SMTT(30), <1>1, QueueAssumption DEF Init, Phase, Ids
  <2>2. QueueOrder
    BY <1>1, QueueAssumption DEF Init, QueueOrder, Ids, None
  <2> QED
    BY Zenon, <1>1, <2>1, <2>2 DEF Init, Ledger!LedgerInit, Ledger!Ids, Ids
<1>2. ASSUME Inv, [Next]_vars
      PROVE  [Ledger!LedgerNext]_<<[j \in Ids |-> Phase(j)], kind, stopped>>
  <2>1. ASSUME NEW c \in Clients, NEW k \in Requested, Enqueue(c, k)
        PROVE  Ledger!LedgerNext
    <3>1. accepted + 1 \in Ids /\ Ledger!Accept(accepted + 1, k)
      BY Zenon, <1>2, <2>1, EnqueueAccepts
    <3> QED
      BY Zenon, <3>1 DEF Ledger!LedgerNext, Ledger!Ids, Ids
  <2>2. CASE Dequeue
    <3>1. CASE ~stopped /\ queue # <<>>
      <4>1. Head(queue) \in Ids /\ Ledger!Start(Head(queue))
        BY Zenon, <1>2, <2>2, <3>1, DequeueStarts
      <4> QED
        BY Zenon, <4>1 DEF Ledger!LedgerNext, Ledger!Ids, Ids
    <3>2. CASE stopped \/ queue = <<>>
      <4>1. UNCHANGED <<queue, accepted, wjob>> /\ UNCHANGED <<kind, stopped>>
        BY Zenon, <2>2, <3>2 DEF Dequeue
      <4> QED
        BY Zenon, <4>1, QuietPhase
    <3> QED
      BY Zenon, <3>1, <3>2
  <2>3. CASE ClearActive
    <3>1. wjob \in Ids /\ Ledger!Finish(wjob)
      BY Zenon, <1>2, <2>3, ClearFinishes
    <3> QED
      BY Zenon, <3>1 DEF Ledger!LedgerNext, Ledger!Ids, Ids
  <2>4. CASE StopIntake
    <3>1. UNCHANGED <<queue, accepted, wjob>> /\ UNCHANGED kind /\ stopped' = TRUE
      BY Zenon, <2>4 DEF StopIntake, worker
    <3>2. \A j \in Ids : Phase(j)' = Phase(j)
      BY Zenon, <3>1, QuietPhase
    <3>3. Ledger!Close
      BY Zenon, <3>1, <3>2 DEF Ledger!Close
    <3> QED
      BY Zenon, <3>3 DEF Ledger!LedgerNext
  <2>5. CASE UNCHANGED qvars /\ UNCHANGED wjob
    <3>1. UNCHANGED <<queue, accepted, wjob>> /\ UNCHANGED <<kind, stopped>>
      BY Zenon, <2>5 DEF qvars
    <3>2. \A j \in Ids : Phase(j)' = Phase(j)
      BY Zenon, <3>1, QuietPhase
    <3> QED
      BY Zenon, <3>1, <3>2
  <2> QED
    BY SMTT(30), <1>2, QueueSteps, <2>1, <2>2, <2>3, <2>4, <2>5
<1>3. QueueOrder /\ TypeOK /\ [Next]_vars => QueueOrder'
  BY Zenon, QueueOrderStep
<1>4. Spec => []TypeOK /\ []OneLiveJobPerKind
  BY Zenon, QueueTypeCorrect, DuplicateCheckExact
<1> QED
  BY <1>1, <1>2, <1>3, <1>4, PTL DEF Spec, ImplementsLedger, Ledger!LedgerSpec

=============================================================================
