------------------------- MODULE Deb822StoreProofs -------------------------
(***************************************************************************)
(* Proofs about Deb822Store for any number of processes, goroutines, files *)
(* and entries and for any budget: the type invariant, that a clean file   *)
(* has had its newest generation written, and that unflushed mutations     *)
(* survive every merge and eviction.                                       *)
(***************************************************************************)
EXTENDS Deb822Store, TLAPS

\* Init satisfies the type invariant.
LEMMA InitType == Init => TypeOK
<1> SUFFICES ASSUME Init PROVE TypeOK
  BY Zenon
<1>1. NoEntries \in FileData
  BY Zenon DEF NoEntries, FileData
<1>2. cur \in [Threads -> Paths]
  BY Zenon, StoreAssumption DEF Init
<1> QED
  BY Zenon, <1>1, <1>2, StoreAssumption DEF Init, TypeOK, Kinds

\* The goroutine plumbing keeps the types of the locals.
LEMMA ReturnType ==
    ASSUME TypeOK, NEW t \in Threads, NEW from, Return(t, from)
    PROVE  /\ pc' \in [Threads -> {"idle"} \union FlushPCs \union RefreshPCs \union LoadPCs]
           /\ todo' \in [Threads -> SUBSET Paths]
           /\ cur' \in [Threads -> Paths]
           /\ stamp' \in [Threads -> Nat]
           /\ buf' \in [Threads -> FileData]
           /\ gen' \in [Threads -> Nat]
           /\ listed' \in [Threads -> SUBSET Paths]
           /\ load' \in [Threads -> [Paths -> Nat]]
<1>1. NoEntries \in FileData
  BY Zenon DEF NoEntries, FileData
<1> QED
  BY Zenon, <1>1 DEF Return, TypeOK

\* A budget that is spent stays a budget.
LEMMA SpendType ==
    ASSUME TypeOK, NEW kind \in Kinds, Spend(kind)
    PROVE  budget' \in [Kinds -> Nat]
BY DEF TypeOK, Spend

\* The merge of two buckets is a bucket.
LEMMA MergeType ==
    ASSUME NEW disk \in FileData, NEW memory \in FileData
    PROVE  Merge(disk, memory) \in FileData
BY Zenon DEF Merge, FileData

\* Mutations keep the types.
LEMMA MutateType ==
    ASSUME TypeOK, NEW i \in Instances, NEW p \in Paths, NEW k \in Keys,
           NEW c \in Contents \union {Absent}, Mutate(i, p, k, c),
           removed' \in SUBSET (Paths \X Keys)
    PROVE  TypeOK'
<1>1. budget' \in [Kinds -> Nat]
  BY Zenon, SpendType DEF Mutate, Kinds
<1>2. mem' \in [Instances -> [Paths -> FileData]] /\ intent' \in [Instances -> [Paths -> FileData]]
  BY DEF Mutate, TypeOK, FileData
<1>3. dirty' \in [Instances -> SUBSET Paths] /\ generation' \in [Instances -> [Paths -> Nat]]
  BY DEF Mutate, TypeOK
<1> QED
  BY Zenon, <1>1, <1>2, <1>3 DEF Mutate, TypeOK, shared, locals

\* Every step of Flush keeps the types.
LEMMA FlushType ==
    ASSUME TypeOK, NEW t \in Threads, Flush(t)
    PROVE  TypeOK'
<1>i. InstanceOf[t] \in Instances
  BY Zenon, StoreAssumption
<1>n. NoEntries \in FileData
  BY Zenon DEF NoEntries, FileData
<1> USE DEF shared, store, history, FlushPCs, RefreshPCs, LoadPCs
<1>1. CASE FlushBegin(t)
  BY Zenon, <1>1, <1>i DEF TypeOK, FlushBegin, Step
<1>2. CASE FlushPath(t)
  BY <1>2, <1>i DEF TypeOK, FlushPath, Step
<1>3. CASE FlushStat(t)
  BY Zenon, <1>3, <1>i, SpendType DEF TypeOK, FlushStat, Step, Kinds
<1>4. CASE FlushRead(t)
  BY Zenon, <1>4, <1>i, SpendType DEF TypeOK, FlushRead, Step, Kinds
<1>5. CASE FlushMerge(t)
  BY <1>5, <1>i, MergeType DEF TypeOK, FlushMerge, Step, MergeInto
<1>6. CASE FlushCopy(t)
  BY <1>6, <1>i DEF TypeOK, FlushCopy, Step
<1>7. CASE FlushWrite(t)
  BY <1>7, <1>i DEF TypeOK, FlushWrite, Step
<1>8. CASE FlushWriteFails(t)
  BY Zenon, <1>8, <1>i, ReturnType, SpendType DEF TypeOK, FlushWriteFails, Kinds
<1>9. CASE FlushRestat(t)
  BY Zenon, <1>9, <1>i, SpendType DEF TypeOK, FlushRestat, Step, Kinds
<1>10. CASE FlushStamp(t)
  BY Zenon, <1>10, <1>i DEF TypeOK, FlushStamp, Step
<1>11. CASE FlushClear(t)
  BY Zenon, <1>11, <1>i, ReturnType DEF TypeOK, FlushClear, Step, ClearedDirty
<1> QED
  BY Zenon, <1>1, <1>2, <1>3, <1>4, <1>5, <1>6, <1>7, <1>8, <1>9, <1>10, <1>11 DEF Flush

\* Every step of Refresh keeps the types.
LEMMA RefreshType ==
    ASSUME TypeOK, NEW t \in Threads, Refresh(t)
    PROVE  TypeOK'
<1>i. InstanceOf[t] \in Instances
  BY StoreAssumption
<1>n. NoEntries \in FileData
  BY DEF NoEntries, FileData
<1> USE DEF shared, store, history, FlushPCs, RefreshPCs, LoadPCs
<1>1. CASE RefreshBegin(t)
  BY Zenon, <1>1, <1>i DEF TypeOK, RefreshBegin, Step, Existing
<1>2. CASE RefreshStat(t)
  BY <1>2, <1>i DEF TypeOK, RefreshStat, Step
<1>3. CASE RefreshCompare(t)
  BY Zenon, <1>3, <1>i DEF TypeOK, RefreshCompare, Step
<1>4. CASE RefreshScan(t)
  <2>1. ToEvict(t) \in SUBSET Paths /\ {p \in Paths : load[t][p] # 0} \in SUBSET Paths
    BY Zenon DEF ToEvict
  <2>2. CASE Return(t, "rstat")
    BY Zenon, <1>4, <2>2, ReturnType DEF TypeOK, RefreshScan
  <2>3. CASE /\ Step(t, "rstat", "rload")
             /\ todo' = [todo EXCEPT ![t] = {p \in Paths : load[t][p] # 0}]
             /\ listed' = [listed EXCEPT ![t] = ToEvict(t)]
             /\ UNCHANGED <<cur, stamp, buf, gen, load>>
             /\ UNCHANGED <<shared, store, budget, history>>
    BY Zenon, <2>1, <2>3 DEF TypeOK, Step
  <2> QED
    BY Zenon, <1>4, <2>2, <2>3 DEF RefreshScan
<1>5. CASE RefreshRead(t)
  BY <1>5, <1>i DEF TypeOK, RefreshRead, Step
<1>6. CASE RefreshMerge(t)
  BY <1>6, <1>i, MergeType DEF TypeOK, RefreshMerge, Step, MergeInto
<1>7. CASE RefreshStamp(t)
  BY <1>7, <1>i DEF TypeOK, RefreshStamp, Step
<1>8. CASE RefreshEvict(t)
  BY <1>8, <1>i, <1>n, ReturnType DEF TypeOK, RefreshEvict, Evicted
<1>9. CASE RefreshFails(t)
  BY Zenon, <1>9, <1>i, ReturnType, SpendType DEF TypeOK, RefreshFails, Kinds
<1> QED
  BY Zenon, <1>1, <1>2, <1>3, <1>4, <1>5, <1>6, <1>7, <1>8, <1>9 DEF Refresh

\* Every step of New keeps the types.
LEMMA NewType ==
    ASSUME TypeOK, NEW t \in Threads, New(t)
    PROVE  TypeOK'
<1>i. InstanceOf[t] \in Instances
  BY StoreAssumption
<1>n. NoEntries \in FileData
  BY DEF NoEntries, FileData
<1> USE DEF shared, store, history, FlushPCs, RefreshPCs, LoadPCs
<1>1. CASE LoadBegin(t)
  BY Zenon, <1>1, <1>i DEF TypeOK, LoadBegin, Step, Existing
<1>2. CASE LoadRead(t)
  BY <1>2, <1>i DEF TypeOK, LoadRead, Step
<1>3. CASE LoadStat(t)
  BY Zenon, <1>3, <1>i DEF TypeOK, LoadStat, Step
<1>4. CASE LoadDone(t)
  BY Zenon, <1>4, <1>i, ReturnType DEF TypeOK, LoadDone
<1>5. CASE LoadFails(t)
  BY Zenon, <1>5, <1>i, <1>n, ReturnType, SpendType DEF TypeOK, LoadFails, Kinds
<1> QED
  BY Zenon, <1>1, <1>2, <1>3, <1>4, <1>5 DEF New

\* A crash of a process keeps the types.
LEMMA CrashType ==
    ASSUME TypeOK, NEW i \in Instances, Crash(i)
    PROVE  TypeOK'
<1>1. NoEntries \in FileData
  BY DEF NoEntries, FileData
<1>2. budget' \in [Kinds -> Nat]
  BY Zenon, SpendType DEF Crash, Kinds
<1>3. intent' \in [Instances -> [Paths -> FileData]]
  BY Zenon DEF Crash, TypeOK
<1>4. /\ up' \in [Instances -> BOOLEAN]
      /\ mem' \in [Instances -> [Paths -> FileData]]
      /\ known' \in [Instances -> [Paths -> Nat]]
      /\ dirty' \in [Instances -> SUBSET Paths]
      /\ generation' \in [Instances -> [Paths -> Nat]]
      /\ written' \in [Instances -> [Paths -> Nat]]
  BY Zenon, <1>1 DEF Crash, TypeOK
<1>5. /\ pc' \in [Threads -> {"idle"} \union FlushPCs \union RefreshPCs \union LoadPCs]
      /\ todo' \in [Threads -> SUBSET Paths]
      /\ cur' \in [Threads -> Paths]
      /\ stamp' \in [Threads -> Nat]
      /\ buf' \in [Threads -> FileData]
      /\ gen' \in [Threads -> Nat]
      /\ listed' \in [Threads -> SUBSET Paths]
      /\ load' \in [Threads -> [Paths -> Nat]]
  BY Zenon, <1>1 DEF Crash, TypeOK
<1> QED
  BY Zenon, <1>2, <1>3, <1>4, <1>5 DEF Crash, TypeOK, shared

\* Every step of the system keeps the types.
LEMMA NextType == TypeOK /\ [Next]_vars => TypeOK'
<1> SUFFICES ASSUME TypeOK, [Next]_vars PROVE TypeOK'
  BY Zenon
<1>1. ASSUME NEW i \in Instances, NEW p \in Paths, NEW k \in Keys, NEW c \in Contents,
             Upsert(i, p, k, c)
      PROVE  TypeOK'
  <2>1. UpsertedContent(p, mem[i][p][k], c) \in Contents \union {Absent}
    BY Zenon DEF UpsertedContent, Contents
  <2> QED
    BY Zenon, <1>1, <2>1, MutateType DEF Upsert, TypeOK
<1>2. ASSUME NEW i \in Instances, NEW p \in Paths, NEW k \in Keys, Remove(i, p, k)
      PROVE  TypeOK'
  <2>1. removed' \in SUBSET (Paths \X Keys)
    BY <1>2 DEF Remove, TypeOK
  <2> QED
    BY Zenon, <1>2, <2>1, MutateType DEF Remove
<1>3. ASSUME NEW i \in Instances, Reset(i) PROVE TypeOK'
  <2>1. NoEntries \in FileData
    BY Zenon DEF NoEntries, FileData
  <2>2. budget' \in [Kinds -> Nat]
    BY Zenon, <1>3, SpendType DEF Reset, Kinds
  <2> QED
    BY Zenon, <1>3, <2>1, <2>2 DEF Reset, TypeOK, shared, locals
<1>4. ASSUME NEW i \in Instances, Crash(i) PROVE TypeOK'
  BY Zenon, <1>4, CrashType
<1>5. ASSUME NEW t \in Threads, Flush(t) \/ Refresh(t) \/ New(t) PROVE TypeOK'
  BY Zenon, <1>5, FlushType, RefreshType, NewType
<1>6. CASE Tick
  BY <1>6 DEF Tick, TypeOK, store, locals, history
<1>7. ASSUME NEW p \in Paths, ExternalDelete(p) PROVE TypeOK'
  <2>1. NoEntries \in FileData
    BY DEF NoEntries, FileData
  <2>2. budget' \in [Kinds -> Nat]
    BY Zenon, <1>7, SpendType DEF ExternalDelete, Kinds
  <2> QED
    BY Zenon, <1>7, <2>1, <2>2 DEF ExternalDelete, TypeOK, store, locals, history
<1>8. CASE UNCHANGED vars
  BY Zenon, <1>8 DEF vars, TypeOK, shared, store, locals, history
<1> QED
  BY Zenon, <1>1, <1>2, <1>3, <1>4, <1>5, <1>6, <1>7, <1>8 DEF Next

\* Every variable of the store, of its goroutines and of the storage backend
\* keeps its type in every behaviour.
THEOREM TypeCorrect == Spec => []TypeOK
BY InitType, NextType, PTL DEF Spec

-----------------------------------------------------------------------------
(* The generation check of Flush. *)

NoReset == budget["reset"] = Budget["reset"]
Copied == {"write", "restat", "stamp", "clear"}   \* past FlushCopy
Wrote == {"restat", "stamp", "clear"}             \* past FlushWrite

\* What a goroutine remembers of the generation it copied is never ahead of the
\* process, and what it has written is recorded as written.
GenerationsHeld ==
    /\ \A i \in Instances, p \in Paths : written[i][p] <= generation[i][p]
    /\ \A i \in Instances, p \in Paths : p \notin dirty[i] => written[i][p] = generation[i][p]
    /\ \A t \in Threads : pc[t] \in Copied => gen[t] <= generation[InstanceOf[t]][cur[t]]
    /\ \A t \in Threads : pc[t] \in Wrote => gen[t] <= written[InstanceOf[t]][cur[t]]

\* The inductive invariant.
GenerationInv ==
    /\ TypeOK
    /\ budget["reset"] <= Budget["reset"]
    /\ \A i \in Instances, p \in Paths : p \in dirty[i] => generation[i][p] > 0
    /\ NoReset => GenerationsHeld

\* The part of TypeOK that the generations are about.
AllPCs == {"idle"} \union FlushPCs \union RefreshPCs \union LoadPCs

Typed ==
    /\ pc \in [Threads -> AllPCs] /\ gen \in [Threads -> Nat] /\ cur \in [Threads -> Paths]
    /\ dirty \in [Instances -> SUBSET Paths]
    /\ generation \in [Instances -> [Paths -> Nat]]
    /\ written \in [Instances -> [Paths -> Nat]]

\* The typing facts follow from either invariant, before and after a step.
LEMMA TypedOK == (TypeOK => Typed) /\ (TypeOK' => Typed') /\ (GenerationInv => Typed)
<1>1. (TypeOK => Typed) /\ (TypeOK' => Typed')
  BY Zenon DEF TypeOK, Typed, AllPCs
<1> QED
  BY Zenon, <1>1 DEF GenerationInv

\* A step that touches no dirty mark and no generation, and starts no write,
\* keeps the invariant.
Quiet ==
    /\ UNCHANGED <<dirty, generation, written>>
    /\ budget'["reset"] = budget["reset"]
    /\ \A t \in Threads :
        pc'[t] \in Copied =>
            /\ pc[t] \in Copied
            /\ pc'[t] \in Wrote => pc[t] \in Wrote
            /\ gen'[t] = gen[t] /\ cur'[t] = cur[t]

\* A quiet step keeps the generation invariant.
LEMMA QuietStep ==
    ASSUME GenerationInv, TypeOK', Quiet
    PROVE  GenerationInv'
BY Zenon DEF GenerationInv, GenerationsHeld, NoReset, Quiet, Copied, Wrote

\* Spending another budget leaves the budget of resets alone.
LEMMA SpendOther ==
    ASSUME TypeOK, NEW kind \in Kinds \ {"reset"}, Spend(kind)
    PROVE  budget'["reset"] = budget["reset"]
BY Zenon DEF TypeOK, Spend, Kinds

\* The steps of Flush other than the copy, the write and the clear are quiet.
LEMMA FlushQuiet ==
    ASSUME TypeOK, NEW t \in Threads, 
           \/ FlushBegin(t) \/ FlushPath(t) \/ FlushStat(t) \/ FlushRead(t)
           \/ FlushMerge(t) \/ FlushWriteFails(t) \/ FlushRestat(t) \/ FlushStamp(t)
    PROVE  Quiet
<1> USE DEF TypeOK, Quiet, Copied, Wrote, store, history
<1>1. CASE FlushBegin(t)
  BY Zenon, <1>1 DEF FlushBegin, Step
<1>2. CASE FlushPath(t)
  BY Zenon, <1>2 DEF FlushPath, Step
<1>3. CASE FlushStat(t)
  BY Zenon, <1>3, SpendOther DEF FlushStat, Kinds, Step
<1>4. CASE FlushRead(t)
  BY <1>4, SpendOther DEF FlushRead, Kinds, Step
<1>5. CASE FlushMerge(t)
  BY Zenon, <1>5 DEF FlushMerge, Step
<1>6. CASE FlushWriteFails(t)
  BY Zenon, <1>6, SpendOther DEF FlushWriteFails, Kinds, Return
<1>7. CASE FlushRestat(t)
  BY Zenon, <1>7, SpendOther DEF FlushRestat, Kinds, Step
<1>8. CASE FlushStamp(t)
  BY Zenon, <1>8 DEF FlushStamp, Step
<1> QED
  BY Zenon, <1>1, <1>2, <1>3, <1>4, <1>5, <1>6, <1>7, <1>8

\* Refresh never touches a dirty mark or a generation.
LEMMA RefreshQuiet ==
    ASSUME TypeOK, NEW t \in Threads, Refresh(t)
    PROVE  Quiet
<1> USE DEF TypeOK, Quiet, Copied, Wrote, store, history
<1>1. CASE RefreshBegin(t)
  BY Zenon, <1>1 DEF RefreshBegin, Step
<1>2. CASE RefreshStat(t)
  BY Zenon, <1>2 DEF RefreshStat, Step
<1>3. CASE RefreshCompare(t)
  BY Zenon, <1>3 DEF RefreshCompare, Step
<1>4. CASE RefreshScan(t)
  BY <1>4, SMTT(30) DEF RefreshScan, Step, Return
<1>5. CASE RefreshRead(t)
  BY Zenon, <1>5 DEF RefreshRead, Step
<1>6. CASE RefreshMerge(t)
  BY Zenon, <1>6 DEF RefreshMerge, Step
<1>7. CASE RefreshStamp(t)
  BY Zenon, <1>7 DEF RefreshStamp, Step
<1>8. CASE RefreshEvict(t)
  BY Zenon, <1>8 DEF RefreshEvict, Return
<1>9. CASE RefreshFails(t)
  BY <1>9, SpendOther DEF RefreshFails, Kinds, Return
<1> QED
  BY Zenon, <1>1, <1>2, <1>3, <1>4, <1>5, <1>6, <1>7, <1>8, <1>9 DEF Refresh

\* New never touches a dirty mark or a generation.
LEMMA NewQuiet ==
    ASSUME TypeOK, NEW t \in Threads, New(t)
    PROVE  Quiet
<1> USE DEF TypeOK, Quiet, Copied, Wrote, store, history
<1>1. CASE LoadBegin(t)
  BY Zenon, <1>1 DEF LoadBegin, Step
<1>2. CASE LoadRead(t)
  BY Zenon, <1>2 DEF LoadRead, Step
<1>3. CASE LoadStat(t)
  BY Zenon, <1>3 DEF LoadStat, Step
<1>4. CASE LoadDone(t)
  BY Zenon, <1>4 DEF LoadDone, Return
<1>5. CASE LoadFails(t)
  BY Zenon, <1>5, SpendOther DEF LoadFails, Kinds, Return
<1> QED
  BY Zenon, <1>1, <1>2, <1>3, <1>4, <1>5 DEF New

\* Copying takes the current generation of the process.
LEMMA FlushCopyKeeps ==
    ASSUME GenerationInv, TypeOK', NEW t \in Threads, FlushCopy(t)
    PROVE  GenerationInv'
<1>t. Typed /\ Typed'
  BY Zenon, TypedOK
<1>1. InstanceOf[t] \in Instances
  BY Zenon, StoreAssumption
<1>2. UNCHANGED <<dirty, generation, written, budget, cur>>
  BY Zenon DEF FlushCopy, store, history
<1>3. gen'[t] = generation[InstanceOf[t]][cur[t]] /\ pc'[t] = "write"
  BY Zenon, <1>t DEF FlushCopy, Step, Typed
<1>4. \A u \in Threads \ {t} : pc'[u] = pc[u] /\ gen'[u] = gen[u]
  BY Zenon, <1>t DEF FlushCopy, Step, Typed
<1>5. generation[InstanceOf[t]][cur[t]] \in Nat
  BY <1>1, <1>t DEF Typed
<1>6. NoReset => GenerationsHeld'
  <2> SUFFICES ASSUME NoReset PROVE GenerationsHeld'
    BY Zenon
  <2>1. \A u \in Threads : pc'[u] \in Copied => gen'[u] <= generation[InstanceOf[u]][cur[u]]
    <3>0. GenerationsHeld
      BY Zenon DEF GenerationInv
    <3> SUFFICES ASSUME NEW u \in Threads, pc'[u] \in Copied
                 PROVE  gen'[u] <= generation[InstanceOf[u]][cur[u]]
      BY Zenon
    <3>1. CASE u = t
      BY <1>3, <1>5, <3>1
    <3>2. CASE u # t
      BY Zenon, <1>4, <3>0, <3>2 DEF GenerationsHeld
    <3> QED
      BY Zenon, <3>1, <3>2
  <2>2. \A u \in Threads : pc'[u] \in Wrote => gen'[u] <= written[InstanceOf[u]][cur[u]]
    BY Zenon, <1>3, <1>4 DEF GenerationInv, GenerationsHeld, Wrote
  <2> QED
    BY Zenon, <1>2, <2>1, <2>2 DEF GenerationInv, GenerationsHeld
<1> QED
  BY Zenon, <1>2, <1>6 DEF GenerationInv, NoReset

\* Writing an older copy never lowers what is recorded as written.
LEMMA FlushWriteKeeps ==
    ASSUME GenerationInv, TypeOK', NEW t \in Threads, FlushWrite(t)
    PROVE  GenerationInv'
<1> DEFINE i == InstanceOf[t]
           p == cur[t]
<1>t. Typed /\ Typed'
  BY TypedOK
<1>0. \A j \in Instances, q \in Paths :
          /\ written[j][q] \in Nat /\ generation[j][q] \in Nat
          /\ written'[j][q] \in Nat /\ generation'[j][q] \in Nat
  BY <1>t DEF Typed
<1>1. i \in Instances /\ p \in Paths
  BY Zenon, <1>t, StoreAssumption DEF Typed
<1>2. UNCHANGED <<dirty, generation, budget, cur, gen>>
  BY Zenon DEF FlushWrite, store
<1>3. pc[t] = "write" /\ pc'[t] = "restat" /\ \A u \in Threads \ {t} : pc'[u] = pc[u]
  BY Zenon, <1>t DEF FlushWrite, Step, Typed
<1>w. written' = [written EXCEPT ![i][p] = IF gen[t] > written[i][p] THEN gen[t] ELSE written[i][p]]
  BY Zenon DEF FlushWrite
<1>4. /\ gen[t] <= written'[i][p]
      /\ written'[i][p] = gen[t] \/ written'[i][p] = written[i][p]
      /\ written[i][p] <= written'[i][p]
  BY <1>t, <1>1, <1>w, SMTT(30) DEF Typed
<1>5. \A j \in Instances, q \in Paths :
          <<j, q>> # <<i, p>> => written'[j][q] = written[j][q]
  BY <1>t, <1>1, <1>w DEF Typed
<1>6. ASSUME NoReset PROVE GenerationsHeld'
  <2>1. GenerationsHeld
    BY Zenon, <1>6 DEF GenerationInv
  <2>2. gen[t] <= generation[i][p]
    BY Zenon, <1>3, <2>1 DEF GenerationsHeld, Copied
  <2>3. \A j \in Instances, q \in Paths : written'[j][q] <= generation[j][q]
    <3> SUFFICES ASSUME NEW j \in Instances, NEW q \in Paths
                 PROVE  written'[j][q] <= generation[j][q]
      BY Zenon
    <3>0. written[j][q] <= generation[j][q]
      BY Zenon, <2>1 DEF GenerationsHeld
    <3>1. CASE j = i /\ q = p
      BY Zenon, <1>4, <2>2, <3>0, <3>1
    <3>2. CASE ~(j = i /\ q = p)
      BY Zenon, <1>5, <3>0, <3>2
    <3> QED
      BY Zenon, <3>1, <3>2
  <2>4. \A j \in Instances, q \in Paths :
            q \notin dirty[j] => written'[j][q] = generation[j][q]
    <3>1. p \notin dirty[i] => written'[i][p] = generation[i][p]
      <4>1. p \notin dirty[i] => written[i][p] = generation[i][p]
        BY Zenon, <1>1, <2>1 DEF GenerationsHeld
      <4>2. written'[i][p] <= generation[i][p]
        BY Zenon, <1>1, <2>3
      <4> QED
        BY <1>0, <1>1, <1>4, <4>1, <4>2, SMTT(30)
    <3>2. ASSUME NEW j \in Instances, NEW q \in Paths, ~(j = i /\ q = p), q \notin dirty[j]
          PROVE  written'[j][q] = generation[j][q]
      BY Zenon, <1>5, <2>1, <3>2 DEF GenerationsHeld
    <3> QED
      BY Zenon, <3>1, <3>2
  <2>5. \A u \in Threads : pc'[u] \in Copied => gen[u] <= generation[InstanceOf[u]][cur[u]]
    BY Zenon, <1>3, <2>1, <2>2 DEF GenerationsHeld
  <2>6. \A u \in Threads : pc'[u] \in Wrote => gen[u] <= written'[InstanceOf[u]][cur[u]]
    <3> SUFFICES ASSUME NEW u \in Threads, pc'[u] \in Wrote
                 PROVE  gen[u] <= written'[InstanceOf[u]][cur[u]]
      BY Zenon
    <3>1. CASE u = t
      BY Zenon, <3>1, <1>4
    <3>2. CASE u # t
      <4>1. gen[u] <= written[InstanceOf[u]][cur[u]]
        BY Zenon, <3>2, <1>3, <2>1 DEF GenerationsHeld
      <4>2. InstanceOf[u] \in Instances /\ cur[u] \in Paths /\ gen[u] \in Nat
        BY Zenon, <1>t, StoreAssumption DEF Typed
      <4>3. CASE <<InstanceOf[u], cur[u]>> = <<i, p>>
        BY <1>0, <1>1, <1>4, <4>1, <4>2, <4>3, SMTT(30)
      <4>4. CASE <<InstanceOf[u], cur[u]>> # <<i, p>>
        BY Zenon, <1>5, <4>1, <4>2, <4>4
      <4> QED
        BY Zenon, <4>3, <4>4
    <3> QED
      BY Zenon, <3>1, <3>2
  <2> QED
    BY Zenon, <1>2, <2>3, <2>4, <2>5, <2>6 DEF GenerationsHeld
<1> QED
  BY Zenon, <1>2, <1>6 DEF GenerationInv, NoReset

\* The generation check clears the dirty mark only of what was written.
LEMMA FlushClearKeeps ==
    ASSUME GenerationInv, TypeOK', NEW t \in Threads, FlushClear(t)
    PROVE  GenerationInv'
<1> DEFINE i == InstanceOf[t]
           p == cur[t]
<1>t. Typed /\ Typed'
  BY TypedOK
<1>0. \A j \in Instances, q \in Paths :
          /\ written[j][q] \in Nat /\ generation[j][q] \in Nat
          /\ written'[j][q] \in Nat /\ generation'[j][q] \in Nat
  BY <1>t DEF Typed
<1>1. i \in Instances /\ p \in Paths
  BY <1>t, StoreAssumption DEF Typed
<1>2. UNCHANGED <<generation, written, budget>>
  BY Zenon DEF FlushClear, history
<1>c. dirty' = ClearedDirty(i, p, gen[t])
  BY Zenon DEF FlushClear
<1>3. \A j \in Instances : dirty'[j] \subseteq dirty[j]
  BY Zenon, <1>t, <1>1, <1>c DEF ClearedDirty, Typed
<1>4. \A j \in Instances, q \in Paths :
          q \in dirty[j] /\ q \notin dirty'[j] => j = i /\ q = p /\ generation[i][p] = gen[t]
  BY Zenon, <1>t, <1>1, <1>c DEF ClearedDirty, Typed
<1>5. pc[t] = "clear" /\ \A u \in Threads :
          pc'[u] \in Copied => u # t /\ pc'[u] = pc[u] /\ gen'[u] = gen[u] /\ cur'[u] = cur[u]
  BY <1>t DEF FlushClear, Step, Return, Copied, Typed
<1>6. ASSUME NoReset PROVE GenerationsHeld'
  <2>1. GenerationsHeld
    BY <1>6 DEF GenerationInv
  <2>2. gen[t] <= written[i][p]
    BY Zenon, <1>5, <2>1 DEF GenerationsHeld, Wrote
  <2>3. \A j \in Instances, q \in Paths :
            q \notin dirty'[j] => written[j][q] = generation[j][q]
    <3>1. \A j \in Instances, q \in Paths : q \notin dirty[j] => written[j][q] = generation[j][q]
      BY Zenon, <2>1 DEF GenerationsHeld
    <3>2. gen[t] = generation[i][p] => written[i][p] = generation[i][p]
      <4>1. written[i][p] <= generation[i][p]
        BY Zenon, <1>1, <2>1 DEF GenerationsHeld
      <4> QED
        BY <1>0, <1>1, <2>2, <4>1
    <3> QED
      BY Zenon, <1>4, <3>1, <3>2
  <2> QED
    BY Zenon, <1>2, <1>5, <2>1, <2>3 DEF GenerationsHeld, Copied, Wrote
<1> QED
  BY Zenon, <1>2, <1>3, <1>6 DEF GenerationInv, NoReset

\* A mutation marks the file dirty and moves the generation on.
LEMMA MutateKeeps ==
    ASSUME GenerationInv, TypeOK', NEW i \in Instances, NEW p \in Paths, NEW k \in Keys,
           NEW c, Mutate(i, p, k, c)
    PROVE  GenerationInv'
<1>t. Typed /\ Typed'
  BY Zenon, TypedOK
<1>0. \A j \in Instances, q \in Paths :
          /\ written[j][q] \in Nat /\ generation[j][q] \in Nat
          /\ written'[j][q] \in Nat /\ generation'[j][q] \in Nat
  BY <1>t DEF Typed
<1>1. UNCHANGED <<written, pc, gen, cur>> /\ budget'["reset"] = budget["reset"]
  BY Zenon, SpendOther DEF Mutate, locals, Kinds, GenerationInv
<1>m. /\ generation' = [generation EXCEPT ![i][p] = generation[i][p] + 1]
      /\ dirty' = [dirty EXCEPT ![i] = dirty[i] \union {p}]
  BY Zenon DEF Mutate
<1>2. generation'[i][p] = generation[i][p] + 1 /\ p \in dirty'[i]
  BY Zenon, <1>t, <1>m DEF Typed
<1>3. \A j \in Instances, q \in Paths : <<j, q>> # <<i, p>> =>
          generation'[j][q] = generation[j][q] /\ (q \in dirty'[j] <=> q \in dirty[j])
  BY <1>t, <1>m DEF Typed
<1>4. \A j \in Instances, q \in Paths :
          generation[j][q] <= generation'[j][q]
  <2>1. ASSUME NEW j \in Instances, NEW q \in Paths
        PROVE  generation[j][q] <= generation'[j][q]
    <3>1. CASE <<j, q>> = <<i, p>>
      BY <1>0, <1>2, <3>1
    <3>2. CASE <<j, q>> # <<i, p>>
      BY <1>0, <1>3, <3>2
    <3> QED
      BY Zenon, <3>1, <3>2
  <2> QED
    BY Zenon, <2>1
<1>5. ASSUME NoReset PROVE GenerationsHeld'
  <2>1. GenerationsHeld
    BY Zenon, <1>5 DEF GenerationInv
  <2>2. ASSUME NEW j \in Instances, NEW q \in Paths
        PROVE  written[j][q] <= generation'[j][q]
    <3>1. written[j][q] <= generation[j][q]
      BY <2>1, Zenon DEF GenerationsHeld
    <3>2. /\ written[j][q] \in Nat /\ generation[j][q] \in Nat
          /\ generation'[j][q] \in Nat /\ generation[j][q] <= generation'[j][q]
      BY <1>0, <1>4, Zenon
    <3> QED
      BY <3>1, <3>2
  <2>3. ASSUME NEW j \in Instances, NEW q \in Paths, q \notin dirty'[j]
        PROVE  written[j][q] = generation'[j][q]
    <3>1. <<j, q>> # <<i, p>>
      BY Zenon, <1>2, <2>3
    <3>2. q \notin dirty[j] /\ generation'[j][q] = generation[j][q]
      BY Zenon, <1>3, <2>3, <3>1
    <3> QED
      BY Zenon, <2>1, <3>2 DEF GenerationsHeld
  <2>4. \A t \in Threads : pc[t] \in Copied => gen[t] <= generation'[InstanceOf[t]][cur[t]]
    <3> SUFFICES ASSUME NEW t \in Threads, pc[t] \in Copied
                 PROVE  gen[t] <= generation'[InstanceOf[t]][cur[t]]
      BY Zenon
    <3>1. InstanceOf[t] \in Instances /\ cur[t] \in Paths /\ gen[t] \in Nat
      BY Zenon, StoreAssumption DEF GenerationInv, TypeOK
    <3> QED
      BY <1>0, <1>4, <2>1, <3>1 DEF GenerationsHeld
  <2> QED
    BY Zenon, <1>1, <2>1, <2>2, <2>3, <2>4 DEF GenerationsHeld
<1>6. \A j \in Instances, q \in Paths : q \in dirty'[j] => generation'[j][q] > 0
  <2>1. ASSUME NEW j \in Instances, NEW q \in Paths, q \in dirty'[j]
        PROVE  generation'[j][q] > 0
    <3>1. CASE <<j, q>> = <<i, p>>
      BY <1>0, <1>2, <3>1
    <3>2. CASE <<j, q>> # <<i, p>>
      BY Zenon, <1>3, <2>1, <3>2 DEF GenerationInv
    <3> QED
      BY Zenon, <3>1, <3>2
  <2> QED
    BY Zenon, <2>1
<1> QED
  BY Zenon, <1>1, <1>5, <1>6 DEF GenerationInv, NoReset

\* Reset spends the budget that the invariant is conditional on.
LEMMA ResetKeeps ==
    ASSUME GenerationInv, TypeOK', NEW i \in Instances, Reset(i)
    PROVE  GenerationInv'
<1>t. Typed /\ Typed'
  BY TypedOK
<1>1. budget'["reset"] = budget["reset"] - 1 /\ budget["reset"] \in Nat
  BY Zenon DEF Reset, Spend, GenerationInv, TypeOK, Kinds
<1>2. Budget["reset"] \in Nat
  BY Zenon, StoreAssumption DEF Kinds
<1>3. ~NoReset' /\ budget'["reset"] <= Budget["reset"]
  BY <1>1, <1>2 DEF NoReset, GenerationInv
<1>4. \A j \in Instances, q \in Paths : q \in dirty'[j] => generation'[j][q] > 0
  <2>1. dirty' = [dirty EXCEPT ![i] = {}]
        /\ generation' = [generation EXCEPT ![i] = [p \in Paths |-> 0]]
    BY Zenon DEF Reset
  <2>2. \A j \in Instances, q \in Paths : q \in dirty[j] => generation[j][q] > 0
    BY Zenon DEF GenerationInv
  <2> QED
    BY Zenon, <1>t, <2>1, <2>2 DEF Typed
<1> QED
  BY Zenon, <1>3, <1>4 DEF GenerationInv

\* A crash forgets the dirty marks and the generations together.
LEMMA CrashKeeps ==
    ASSUME GenerationInv, TypeOK', NEW i \in Instances, Crash(i)
    PROVE  GenerationInv'
<1>t. Typed /\ Typed'
  BY TypedOK
<1>1. budget'["reset"] = budget["reset"]
  BY Zenon, SpendOther DEF Crash, Kinds, GenerationInv
<1>c. /\ dirty' = [dirty EXCEPT ![i] = {}]
      /\ generation' = [generation EXCEPT ![i] = [p \in Paths |-> 0]]
      /\ written' = [written EXCEPT ![i] = [p \in Paths |-> 0]]
  BY Zenon DEF Crash
<1>2. \A q \in Paths : q \notin dirty'[i] /\ generation'[i][q] = 0 /\ written'[i][q] = 0
  BY Zenon, <1>t, <1>c DEF Typed
<1>3. \A j \in Instances \ {i} :
          dirty'[j] = dirty[j] /\ generation'[j] = generation[j] /\ written'[j] = written[j]
  BY Zenon, <1>t, <1>c DEF Typed
<1>4. \A t \in Threads : pc'[t] \in Copied =>
          InstanceOf[t] # i /\ pc'[t] = pc[t] /\ gen'[t] = gen[t] /\ cur'[t] = cur[t]
  BY Zenon DEF Crash, Copied
<1>5. ASSUME NoReset PROVE GenerationsHeld'
  <2>1. GenerationsHeld
    BY Zenon, <1>5 DEF GenerationInv
  <2>2. \A j \in Instances, q \in Paths : written'[j][q] <= generation'[j][q]
    <3>1. 0 <= 0
      OBVIOUS
    <3>2. \A j \in Instances, q \in Paths : written[j][q] <= generation[j][q]
      BY Zenon, <2>1 DEF GenerationsHeld
    <3> QED
      BY Zenon, <1>2, <1>3, <3>1, <3>2
  <2>3. \A j \in Instances, q \in Paths :
            q \notin dirty'[j] => written'[j][q] = generation'[j][q]
    BY <1>2, <1>3, <2>1 DEF GenerationsHeld
  <2>4. \A t \in Threads : pc'[t] \in Copied => InstanceOf[t] \in Instances \ {i}
    BY Zenon, <1>4, StoreAssumption
  <2> QED
    BY ZenonT(30), <1>3, <1>4, <2>1, <2>2, <2>3, <2>4 DEF GenerationsHeld, Copied, Wrote
<1>6. \A j \in Instances, q \in Paths : q \in dirty'[j] => generation'[j][q] > 0
  BY Zenon, <1>2, <1>3 DEF GenerationInv
<1> QED
  BY Zenon, <1>1, <1>5, <1>6 DEF GenerationInv, NoReset

\* The generation invariant is inductive.
LEMMA GenerationStep == GenerationInv /\ [Next]_vars => GenerationInv'
<1> SUFFICES ASSUME GenerationInv, [Next]_vars PROVE GenerationInv'
  BY Zenon
<1>0. TypeOK /\ TypeOK'
  BY Zenon, NextType DEF GenerationInv
<1>1. ASSUME NEW i \in Instances, NEW p \in Paths, NEW k \in Keys,
             Remove(i, p, k) \/ \E c \in Contents : Upsert(i, p, k, c)
      PROVE  GenerationInv'
  BY Zenon, <1>0, <1>1, MutateKeeps DEF Upsert, Remove
<1>2. ASSUME NEW i \in Instances, Reset(i) \/ Crash(i) PROVE GenerationInv'
  BY Zenon, <1>0, <1>2, ResetKeeps, CrashKeeps
<1>3. ASSUME NEW t \in Threads, Flush(t) PROVE GenerationInv'
  BY Zenon, <1>0, <1>3, FlushQuiet, QuietStep, FlushCopyKeeps, FlushWriteKeeps, FlushClearKeeps
     DEF Flush
<1>4. ASSUME NEW t \in Threads, Refresh(t) \/ New(t) PROVE GenerationInv'
  BY Zenon, <1>0, <1>4, RefreshQuiet, NewQuiet, QuietStep
<1>5. ASSUME Tick \/ UNCHANGED vars \/ \E p \in Paths : ExternalDelete(p)
      PROVE  GenerationInv'
  <2>1. Quiet
    BY Zenon, <1>0, <1>5, SpendOther
       DEF Tick, ExternalDelete, vars, store, locals, history, Quiet, Kinds
  <2> QED
    BY Zenon, <1>0, <2>1, QuietStep
<1> QED
  BY Zenon, <1>1, <1>2, <1>3, <1>4, <1>5 DEF Next

\* The generation invariant holds in every behaviour.
THEOREM GenerationCorrect == Spec => []GenerationInv
<1>1. Init => GenerationInv
  <2> SUFFICES ASSUME Init PROVE GenerationInv
    BY Zenon
  <2>1. TypeOK
    BY Zenon, InitType
  <2>2. Budget["reset"] \in Nat
    BY Zenon, StoreAssumption DEF Kinds
  <2> QED
    BY <2>1, <2>2, SMTT(30) DEF Init, GenerationInv, GenerationsHeld, Copied, Wrote
<1> QED
  BY <1>1, GenerationStep, PTL DEF Spec

\* Flush never marks clean a file whose newest mutation was not written: for any
\* number of processes and goroutines, and whatever crashes, failed storage
\* calls and deletions happen, as long as no Reset interferes.
THEOREM FlushKeepsDirty == Spec => []CleanMeansWritten
<1>1. GenerationInv => CleanMeansWritten
  BY Zenon DEF GenerationInv, GenerationsHeld, NoReset, CleanMeansWritten
<1> QED
  BY <1>1, GenerationCorrect, PTL

-----------------------------------------------------------------------------
(* Unflushed mutations survive merges and evictions. *)

\* A process that is down has nothing to flush, and one goroutine loads it.
LoadInv ==
    /\ TypeOK
    /\ \A i \in Instances : ~up[i] => dirty[i] = {}
    /\ \A t \in Threads : pc[t] \in LoadPCs => ~up[InstanceOf[t]]
    /\ \A t, u \in Threads :
        pc[t] \in LoadPCs /\ pc[u] \in LoadPCs /\ InstanceOf[t] = InstanceOf[u] => t = u

\* A step that starts no load, brings no process up or down and marks nothing
\* dirty keeps the load invariant.
Calm ==
    /\ UNCHANGED up
    /\ \A i \in Instances : dirty'[i] \subseteq dirty[i]
    /\ \A t \in Threads : pc'[t] \in LoadPCs => pc[t] \in LoadPCs

\* A calm step keeps the load invariant.
LEMMA CalmStep ==
    ASSUME LoadInv, TypeOK', Calm
    PROVE  LoadInv'
BY ZenonT(30) DEF LoadInv, Calm

\* Every step of Flush is calm.
LEMMA FlushCalm ==
    ASSUME TypeOK, NEW t \in Threads, Flush(t)
    PROVE  Calm
<1>i. InstanceOf[t] \in Instances
  BY StoreAssumption
<1> USE DEF TypeOK, Calm, LoadPCs, store
<1>1. CASE FlushBegin(t)
  BY Zenon, <1>1, <1>i DEF FlushBegin, Step
<1>2. CASE FlushPath(t)
  BY Zenon, <1>2, <1>i DEF FlushPath, Step
<1>3. CASE FlushStat(t)
  BY Zenon, <1>3, <1>i DEF FlushStat, Step
<1>4. CASE FlushRead(t)
  BY Zenon, <1>4, <1>i DEF FlushRead, Step
<1>5. CASE FlushMerge(t)
  BY Zenon, <1>5, <1>i DEF FlushMerge, Step
<1>6. CASE FlushCopy(t)
  BY Zenon, <1>6, <1>i DEF FlushCopy, Step
<1>7. CASE FlushWrite(t)
  BY Zenon, <1>7, <1>i DEF FlushWrite, Step
<1>8. CASE FlushWriteFails(t)
  BY Zenon, <1>8, <1>i DEF FlushWriteFails, Return
<1>9. CASE FlushRestat(t)
  BY ZenonT(30), <1>9, <1>i DEF FlushRestat, Step
<1>10. CASE FlushStamp(t)
  BY Zenon, <1>10, <1>i DEF FlushStamp, Step
<1>11. CASE FlushClear(t)
  BY <1>11, <1>i DEF FlushClear, Step, Return, ClearedDirty
<1> QED
  BY <1>1, <1>2, <1>3, <1>4, <1>5, <1>6, <1>7, <1>8, <1>9, <1>10, <1>11 DEF Flush

\* Every step of Refresh is calm.
LEMMA RefreshCalm ==
    ASSUME TypeOK, NEW t \in Threads, Refresh(t)
    PROVE  Calm
<1>i. InstanceOf[t] \in Instances
  BY StoreAssumption
<1> USE DEF TypeOK, Calm, LoadPCs, store
<1>1. CASE RefreshBegin(t)
  BY Zenon, <1>1, <1>i DEF RefreshBegin, Step
<1>2. CASE RefreshStat(t)
  BY Zenon, <1>2, <1>i DEF RefreshStat, Step
<1>3. CASE RefreshCompare(t)
  BY Zenon, <1>3, <1>i DEF RefreshCompare, Step
<1>4. CASE RefreshScan(t)
  BY <1>4, <1>i DEF RefreshScan, Step, Return
<1>5. CASE RefreshRead(t)
  BY Zenon, <1>5, <1>i DEF RefreshRead, Step
<1>6. CASE RefreshMerge(t)
  BY Zenon, <1>6, <1>i DEF RefreshMerge, Step
<1>7. CASE RefreshStamp(t)
  BY Zenon, <1>7, <1>i DEF RefreshStamp, Step
<1>8. CASE RefreshEvict(t)
  BY Zenon, <1>8, <1>i DEF RefreshEvict, Return
<1>9. CASE RefreshFails(t)
  BY Zenon, <1>9, <1>i DEF RefreshFails, Return
<1> QED
  BY Zenon, <1>1, <1>2, <1>3, <1>4, <1>5, <1>6, <1>7, <1>8, <1>9 DEF Refresh

\* Every step of New keeps the load invariant.
LEMMA NewLoads ==
    ASSUME LoadInv, TypeOK', NEW t \in Threads, New(t)
    PROVE  LoadInv'
<1>i. InstanceOf[t] \in Instances
  BY StoreAssumption
<1>1. CASE LoadBegin(t)
  BY ZenonT(30), <1>1, <1>i DEF LoadBegin, Step, LoadInv, TypeOK, LoadPCs, store
<1>2. CASE LoadRead(t) \/ LoadStat(t) \/ LoadFails(t)
  <2>1. Calm
    <3>1. pc \in [Threads -> AllPCs] /\ pc[t] \in LoadPCs
      BY Zenon, <1>2, TypedOK DEF LoadRead, LoadStat, LoadFails, Step, Return, LoadInv, Typed, LoadPCs
    <3>2. UNCHANGED <<up, dirty>>
      BY Zenon, <1>2 DEF LoadRead, LoadStat, LoadFails
    <3>3. \E to \in AllPCs : pc' = [pc EXCEPT ![t] = to]
      BY Zenon, <1>2 DEF LoadRead, LoadStat, LoadFails, Step, Return, AllPCs, LoadPCs
    <3> QED
      BY Zenon, <3>1, <3>2, <3>3 DEF Calm
  <2> QED
    BY Zenon, <2>1, CalmStep
<1>3. CASE LoadDone(t)
  <2>1. pc[t] = "load" /\ \A u \in Threads : pc'[u] = IF u = t THEN "idle" ELSE pc[u]
    BY <1>3 DEF LoadDone, Return, LoadInv, TypeOK
  <2>2. \A u \in Threads : pc'[u] \in LoadPCs =>
            u # t /\ pc[u] \in LoadPCs /\ InstanceOf[u] # InstanceOf[t]
    BY Zenon, <2>1 DEF LoadInv, LoadPCs
  <2>3. /\ UNCHANGED dirty
        /\ \A j \in Instances : up'[j] = IF j = InstanceOf[t] THEN TRUE ELSE up[j]
    BY Zenon, <1>3, <1>i DEF LoadDone, LoadInv, TypeOK
  <2>4. \A u \in Threads : InstanceOf[u] \in Instances
    BY Zenon, StoreAssumption
  <2> QED
    BY Zenon, <2>2, <2>3, <2>4 DEF LoadInv
<1> QED
  BY Zenon, <1>1, <1>2, <1>3 DEF New

\* The load invariant is inductive.
LEMMA LoadStep == LoadInv /\ [Next]_vars => LoadInv'
<1> SUFFICES ASSUME LoadInv, [Next]_vars PROVE LoadInv'
  OBVIOUS
<1>0. TypeOK /\ TypeOK'
  BY Zenon, NextType DEF LoadInv
<1>1. ASSUME NEW i \in Instances, NEW p \in Paths, NEW k \in Keys,
             Remove(i, p, k) \/ \E c \in Contents : Upsert(i, p, k, c)
      PROVE  LoadInv'
  <2>1. up[i] /\ UNCHANGED <<up, pc>>
    BY ZenonT(30), <1>1 DEF Remove, Upsert, Mutate, locals
  <2>2. \A j \in Instances : j # i => dirty'[j] = dirty[j]
    BY <1>0, <1>1 DEF Remove, Upsert, Mutate, TypeOK
  <2> QED
    BY Zenon, <1>0, <2>1, <2>2 DEF LoadInv
<1>2. ASSUME NEW i \in Instances, Reset(i) PROVE LoadInv'
  <2>1. Calm
    BY <1>0, <1>2 DEF Reset, Calm, TypeOK, locals
  <2> QED
    BY Zenon, <1>0, <2>1, CalmStep
<1>3. ASSUME NEW i \in Instances, Crash(i) PROVE LoadInv'
  <2>1. \A j \in Instances :
            /\ j = i => ~up'[j] /\ dirty'[j] = {}
            /\ j # i => up'[j] = up[j] /\ dirty'[j] = dirty[j]
    BY ZenonT(30), <1>0, <1>3 DEF Crash, TypeOK
  <2>2. \A t \in Threads : pc'[t] \in LoadPCs => InstanceOf[t] # i /\ pc'[t] = pc[t]
    BY Zenon, <1>0, <1>3 DEF Crash, TypeOK, LoadPCs
  <2>3. \A t \in Threads : InstanceOf[t] \in Instances
    BY Zenon, StoreAssumption
  <2> QED
    BY ZenonT(30), <1>0, <2>1, <2>2, <2>3 DEF LoadInv
<1>4. ASSUME NEW t \in Threads, Flush(t) \/ Refresh(t) PROVE LoadInv'
  BY <1>0, <1>4, FlushCalm, RefreshCalm, CalmStep
<1>5. ASSUME NEW t \in Threads, New(t) PROVE LoadInv'
  BY Zenon, <1>0, <1>5, NewLoads
<1>6. ASSUME Tick \/ UNCHANGED vars \/ \E p \in Paths : ExternalDelete(p)
      PROVE  LoadInv'
  <2>1. Calm
    BY Zenon, <1>6 DEF Tick, ExternalDelete, vars, store, locals, Calm
  <2> QED
    BY <1>0, <2>1, CalmStep
<1> QED
  BY Zenon, <1>1, <1>2, <1>3, <1>4, <1>5, <1>6 DEF Next

\* Merging a file into memory keeps every entry memory has.
LEMMA MergeKeeps ==
    ASSUME TypeOK, NEW j \in Instances, NEW q \in Paths, NEW disk, MergeInto(j, q, disk)
    PROVE  PendingKept
<1>1. \A k \in Keys : mem[j][q][k] # Absent => Merge(disk, mem[j][q])[k] = mem[j][q][k]
  BY Zenon DEF Merge
<1>2. mem' = [mem EXCEPT ![j][q] = Merge(disk, mem[j][q])]
  BY Zenon DEF MergeInto
<1>3. mem'[j][q] = Merge(disk, mem[j][q])
  BY Zenon, <1>2 DEF TypeOK
<1>4. \A i \in Instances, p \in Paths : <<i, p>> # <<j, q>> => mem'[i][p] = mem[i][p]
  BY Zenon, <1>2 DEF TypeOK
<1> QED
  <2> SUFFICES ASSUME NEW i \in Instances, NEW p \in dirty[i], NEW k \in Keys,
                      mem[i][p][k] # Absent
               PROVE  mem'[i][p][k] = mem[i][p][k]
    BY Zenon DEF PendingKept
  <2>1. p \in Paths
    BY Zenon DEF TypeOK
  <2> QED
    BY Zenon, <1>1, <1>3, <1>4, <2>1

\* No step of Flush changes an entry that waits to be written.
LEMMA FlushKeepsPending ==
    ASSUME TypeOK, NEW t \in Threads, Flush(t)
    PROVE  PendingKept
<1>1. CASE FlushMerge(t)
  BY Zenon, <1>1, MergeKeeps, StoreAssumption DEF FlushMerge, TypeOK
<1>2. CASE ~FlushMerge(t)
  <2>1. UNCHANGED mem
    BY Zenon, <1>2 DEF Flush, FlushBegin, FlushPath, FlushStat, FlushRead, FlushCopy, FlushWrite,
                FlushWriteFails, FlushRestat, FlushStamp, FlushClear, store
  <2> QED
    BY Zenon, <2>1 DEF PendingKept
<1> QED
  BY Zenon, <1>1, <1>2

\* No step of Refresh changes an entry that waits to be written: an evicted
\* file keeps its entries while it is dirty.
LEMMA RefreshKeepsPending ==
    ASSUME TypeOK, NEW t \in Threads, Refresh(t)
    PROVE  PendingKept
<1>1. CASE RefreshMerge(t)
  BY Zenon, <1>1, MergeKeeps, StoreAssumption DEF RefreshMerge, TypeOK
<1>2. CASE RefreshEvict(t)
  BY Zenon, <1>2 DEF RefreshEvict, Evicted, PendingKept, TypeOK
<1>3. CASE ~RefreshMerge(t) /\ ~RefreshEvict(t)
  <2>1. UNCHANGED mem
    BY Zenon, <1>3 DEF Refresh, RefreshBegin, RefreshStat, RefreshCompare, RefreshScan,
                RefreshRead, RefreshStamp, RefreshFails, store
  <2> QED
    BY <2>1 DEF PendingKept
<1> QED
  BY Zenon, <1>1, <1>2, <1>3

\* New only fills a process that is down and so has nothing pending.
LEMMA NewKeepsPending ==
    ASSUME LoadInv, NEW t \in Threads, New(t)
    PROVE  PendingKept
<1>1. CASE LoadBegin(t) \/ LoadStat(t) \/ LoadDone(t)
  BY Zenon, <1>1 DEF LoadBegin, LoadStat, LoadDone, PendingKept, store
<1>2. CASE LoadRead(t) \/ LoadFails(t)
  <2>1. pc[t] \in LoadPCs /\ InstanceOf[t] \in Instances
    BY Zenon, <1>2, StoreAssumption DEF LoadRead, LoadFails, Step, LoadPCs
  <2>2. dirty[InstanceOf[t]] = {}
    BY Zenon, <2>1 DEF LoadInv
  <2>3. \A i \in Instances : i # InstanceOf[t] => mem'[i] = mem[i]
    BY Zenon, <1>2, <2>1 DEF LoadRead, LoadFails, LoadInv, TypeOK
  <2> QED
    BY Zenon, <2>2, <2>3 DEF PendingKept
<1> QED
  BY Zenon, <1>1, <1>2 DEF New

\* The entries of a dirty file change only together with its generation: no
\* merge with what another process wrote and no eviction of a deleted file
\* loses a mutation that was not flushed yet.
THEOREM PendingWritesSurvive == Spec => PendingWritesKept
<1>1. GenerationInv /\ LoadInv /\ [Next]_vars => [PendingKept]_vars
  <2> SUFFICES ASSUME GenerationInv, LoadInv, Next PROVE PendingKept
    BY Zenon
  <2>0. TypeOK
    BY Zenon DEF LoadInv
  <2>1. ASSUME NEW i \in Instances, NEW p \in Paths, NEW k \in Keys,
               Remove(i, p, k) \/ \E c \in Contents : Upsert(i, p, k, c)
        PROVE  PendingKept
    <3>1. PICK c : Mutate(i, p, k, c)
      BY Zenon, <2>1 DEF Remove, Upsert
    <3>2. generation'[i][p] # generation[i][p]
      BY <2>0, <3>1, SMTT(30) DEF Mutate, TypeOK
    <3>3. \A j \in Instances, q \in Paths : <<j, q>> # <<i, p>> => mem'[j][q] = mem[j][q]
      BY Zenon, <2>0, <3>1 DEF Mutate, TypeOK
    <3>4. \A j \in Instances : dirty[j] \subseteq Paths
      BY Zenon, <2>0 DEF TypeOK
    <3> QED
      BY Zenon, <3>2, <3>3, <3>4 DEF PendingKept
  <2>2. ASSUME NEW i \in Instances, Reset(i) \/ Crash(i) PROVE PendingKept
    <3>1. /\ \A q \in Paths : generation'[i][q] = 0
          /\ \A j \in Instances : j # i => mem'[j] = mem[j]
      <4>1. /\ generation' = [generation EXCEPT ![i] = [q \in Paths |-> 0]]
            /\ mem' = [mem EXCEPT ![i] = [q \in Paths |-> NoEntries]]
        BY Zenon, <2>2 DEF Reset, Crash
      <4>2. generation \in [Instances -> [Paths -> Nat]] /\ mem \in [Instances -> [Paths -> FileData]]
        BY Zenon, <2>0 DEF TypeOK
      <4> QED
        BY Zenon, <4>1, <4>2
    <3>2. \A q \in dirty[i] : q \in Paths /\ generation[i][q] # 0
      <4>1. dirty[i] \subseteq Paths
        BY Zenon, TypedOK DEF Typed
      <4>2. \A q \in Paths : generation[i][q] \in Nat /\ (q \in dirty[i] => generation[i][q] > 0)
        BY Zenon, TypedOK DEF GenerationInv, Typed
      <4> QED
        BY <4>1, <4>2
    <3> QED
      BY Zenon, <3>1, <3>2 DEF PendingKept
  <2>3. ASSUME NEW t \in Threads, Flush(t) \/ Refresh(t) \/ New(t) PROVE PendingKept
    BY Zenon, <2>0, <2>3, FlushKeepsPending, RefreshKeepsPending, NewKeepsPending
  <2>4. ASSUME Tick \/ \E p \in Paths : ExternalDelete(p) PROVE PendingKept
    BY Zenon, <2>4 DEF Tick, ExternalDelete, store, PendingKept
  <2> QED
    BY Zenon, <2>1, <2>2, <2>3, <2>4 DEF Next
<1>2. Init => LoadInv
  BY Zenon, InitType DEF Init, LoadInv, LoadPCs
<1> QED
  BY <1>1, <1>2, LoadStep, GenerationCorrect, PTL DEF Spec, PendingWritesKept

=============================================================================
