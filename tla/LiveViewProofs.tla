--------------------------- MODULE LiveViewProofs ---------------------------
(***************************************************************************)
(* Proofs about LiveView for any number of replicas, generations, files    *)
(* and faults and any timing: the type invariant, that only whole          *)
(* generations are served, and that what a replica advertised stays        *)
(* resolvable for as long as a client may use it.                          *)
(***************************************************************************)
EXTENDS LiveView, TLAPS

\* Every entry that is, or is about to be, current has all its files.
WholeInv ==
    /\ WholeGenerations
    /\ \A r \in Replicas : staged[r].complete => staged[r].entry.files = Files
    /\ \A r \in Replicas : \A e \in timers[r] : e.files = Files
    /\ \A b \in Builders :
          /\ pc[b] = "swap" => work[b].gen \in Gens /\ work[b].files = Files
          /\ pc[b] = "extend" => (work[b].gen # NoGen => work[b].files = Files)

\* What an adopter stages is an entry.
LEMMA AdoptedEntry ==
    ASSUME NEW g \in Gens, NEW e \in Entry
    PROVE  [gen |-> g, files |-> Files, fp |-> e.fp] \in Entry
BY LiveAssumption DEF Entry

\* A builder is a goroutine of a replica, which also has a retrying one.
LEMMA BuilderParts ==
    ASSUME NEW b \in Builders
    PROVE  b[1] \in Replicas /\ <<b[1], "retry">> \in Builders
BY Zenon DEF Builders

\* The request goroutines of a replica start its rebuilding one.
LEMMA RebuilderOf ==
    ASSUME NEW r \in Replicas
    PROVE  <<r, "rebuild">> \in Builders
BY Zenon DEF Builders

\* A fault that is spent leaves a number of faults.
LEMMA FaultType ==
    ASSUME TypeOK, Fault
    PROVE  faults' \in 0 .. MaxFaults
BY LiveAssumption DEF TypeOK, Fault

\* Init satisfies the type invariant.
LEMMA InitType == Init => TypeOK
<1> SUFFICES ASSUME Init PROVE TypeOK
  BY Zenon
<1> USE LiveAssumption DEF Init, Gens, NoGen
<1>1. NoEntry \in Entry /\ NoSlot \in Slot
  BY DEF NoEntry, NoSlot, Entry, Slot
<1>2. made \in [Gens -> Data] /\ data \in [Builders -> Data]
  BY DEF Data
<1>3. maker \in [Gens -> Replicas \union {Nobody}] /\ notice \in [Replicas -> Gens \union {NoGen}]
  OBVIOUS
<1>4. current \in [Replicas -> Entry]
  BY <1>1 DEF Entry
<1>5. /\ staged \in [Replicas -> Slot] /\ work \in [Builders -> Entry]
      /\ timers \in [Replicas -> SUBSET Entry]
  BY Zenon, <1>1
<1>6. /\ retired \in [Replicas -> [Gens -> 0 .. Retention]]
      /\ advertised \in [Replicas -> [Gens -> 0 .. MaxAge]]
      /\ got \in [Replicas -> [Gens -> 0 .. Files]] /\ due \in [Replicas -> [Gens -> 0 .. Delay]]
  OBVIOUS
<1>7. /\ adopt \in [Replicas -> [Gens -> {"none", "jitter", "fetch", "land"}]]
      /\ inbox \in [Replicas -> SUBSET Gens] /\ cancelled \in [Replicas -> SUBSET Gens]
      /\ pending \in [Replicas -> Gens \union {NoGen}]
      /\ pc \in [Builders -> BuilderPCs]
  BY Zenon DEF BuilderPCs
<1>8. /\ upstream \in 1 .. MaxVersion /\ expired \subseteq Gens /\ outbox \subseteq Gens
      /\ stale \in [Replicas -> BOOLEAN] /\ mismatch \in [Builders -> BOOLEAN]
      /\ lock \in Replicas \union {Nobody} /\ faults \in 0 .. MaxFaults
  OBVIOUS
<1> QED
  BY Zenon, <1>2, <1>3, <1>4, <1>5, <1>6, <1>7, <1>8 DEF TypeOK

\* Installing an entry keeps the types of the view.
LEMMA InstallType ==
    ASSUME TypeOK, NEW r \in Replicas, NEW e \in Entry, NEW w \in BOOLEAN, Install(r, e, w)
    PROVE  /\ current' \in [Replicas -> Entry] /\ stale' \in [Replicas -> BOOLEAN]
           /\ staged' \in [Replicas -> Slot]
           /\ retired' \in [Replicas -> [Gens -> 0 .. Retention]]
           /\ advertised' \in [Replicas -> [Gens -> 0 .. MaxAge]]
<1>1. NoSlot \in Slot
  BY LiveAssumption DEF NoSlot, NoEntry, Slot, Entry
<1>2. Retention \in 0 .. Retention /\ MaxAge \in 0 .. MaxAge
  BY LiveAssumption
<1>3. staged' \in [Replicas -> Slot]
  BY Zenon, <1>1 DEF Install, TypeOK
<1>4. current' \in [Replicas -> Entry] /\ stale' \in [Replicas -> BOOLEAN]
  BY DEF Install, TypeOK
<1>5. retired' \in [Replicas -> [Gens -> 0 .. Retention]]
  BY Zenon, <1>2 DEF Install, TypeOK
<1>6. advertised' \in [Replicas -> [Gens -> 0 .. MaxAge]]
  BY Zenon, <1>2 DEF Install, TypeOK
<1> QED
  BY Zenon, <1>3, <1>4, <1>5, <1>6

\* So does staging one.
LEMMA StageType ==
    ASSUME TypeOK, NEW r \in Replicas, NEW e \in Entry, NEW left \in 0 .. Delay,
           StageLiveEntry(r, e, left)
    PROVE  /\ current' \in [Replicas -> Entry] /\ stale' \in [Replicas -> BOOLEAN]
           /\ staged' \in [Replicas -> Slot]
           /\ retired' \in [Replicas -> [Gens -> 0 .. Retention]]
           /\ advertised' \in [Replicas -> [Gens -> 0 .. MaxAge]]
<1>1. CASE ~Serving(r) \/ left = 0
  BY Zenon, <1>1, InstallType DEF StageLiveEntry
<1>2. CASE ~(~Serving(r) \/ left = 0)
  <2>1. [entry |-> e, complete |-> TRUE, left |-> left, checked |-> FALSE] \in Slot
    BY Zenon DEF Slot
  <2> QED
    BY Zenon, <1>2, <2>1 DEF StageLiveEntry, TypeOK
<1> QED
  BY Zenon, <1>1, <1>2

\* The end of a build keeps the types of the builders.
LEMMA DoneType ==
    ASSUME TypeOK, NEW b \in Builders, NEW arm \in BOOLEAN, Done(b, arm)
    PROVE  /\ pc' \in [Builders -> BuilderPCs] /\ work' \in [Builders -> Entry]
           /\ data' \in [Builders -> Data] /\ mismatch' \in [Builders -> BOOLEAN]
           /\ lock' \in Replicas \union {Nobody}
<1>1. NoEntry \in Entry /\ [ver |-> 0, whole |-> TRUE] \in Data
  BY LiveAssumption DEF NoEntry, Entry, Data
<1>2. pc' \in [Builders -> BuilderPCs]
  BY Zenon, BuilderParts DEF Done, TypeOK, BuilderPCs
<1>3. /\ work' \in [Builders -> Entry] /\ data' \in [Builders -> Data]
      /\ mismatch' \in [Builders -> BOOLEAN]
  BY Zenon, <1>1 DEF Done, TypeOK
<1>4. lock' \in Replicas \union {Nobody}
  BY Zenon DEF Done, TypeOK
<1> QED
  BY Zenon, <1>2, <1>3, <1>4

\* Every step of a builder keeps the types.
LEMMA BuilderType ==
    ASSUME TypeOK, WholeInv, NEW b \in Builders, Builder(b)
    PROVE  TypeOK'
<1>b. b[1] \in Replicas
  BY Zenon, BuilderParts
<1>f. (UNCHANGED faults \/ Fault) => faults' \in 0 .. MaxFaults
  BY Zenon, FaultType DEF TypeOK
<1> USE DEF gens, view, builders, notices, adopters
<1>1. CASE QuickCheck(b)
  <2>1. faults' \in 0 .. MaxFaults
    BY Zenon, <1>1, <1>f DEF QuickCheck
  <2>2. pc' \in [Builders -> BuilderPCs]
    BY ZenonT(30), <1>1 DEF TypeOK, QuickCheck, BuilderPCs
  <2>3. work' \in [Builders -> Entry]
    <3>1. work \in [Builders -> Entry] /\ current[b[1]] \in Entry
      BY Zenon, <1>b DEF TypeOK
    <3> QED
      BY Zenon, <1>1, <3>1 DEF QuickCheck
  <2>4. UNCHANGED <<upstream, gens, view, timers, data, mismatch, lock, notices, adopters>>
    BY Zenon, <1>1 DEF QuickCheck
  <2> QED
    BY Zenon, <2>1, <2>2, <2>3, <2>4 DEF TypeOK
<1>2. CASE Extend(b)
  <2>1. MaxAge \in 0 .. MaxAge
    BY LiveAssumption
  <2>2. /\ current' \in [Replicas -> Entry] /\ stale' \in [Replicas -> BOOLEAN]
        /\ advertised' \in [Replicas -> [Gens -> 0 .. MaxAge]]
    BY Zenon, <1>2, <1>b, <2>1 DEF TypeOK, Extend
  <2> QED
    BY Zenon, <1>2, <2>2, DoneType DEF TypeOK, Extend
<1>3. CASE TakeLock(b)
  <2>1. /\ pc' \in [Builders -> BuilderPCs] /\ work' \in [Builders -> Entry]
        /\ data' \in [Builders -> Data] /\ mismatch' \in [Builders -> BOOLEAN]
        /\ lock' \in Replicas \union {Nobody} /\ faults' \in 0 .. MaxFaults
    BY Zenon, <1>3, <1>b, <1>f, DoneType DEF TypeOK, TakeLock, BuilderPCs
  <2> QED
    BY Zenon, <1>3, <2>1 DEF TypeOK, TakeLock
<1>4. CASE Build(b)
  <2>1. PICK whole \in BOOLEAN, mis \in BOOLEAN :
          /\ (whole /\ ~mis /\ UNCHANGED faults) \/ (whole = mis /\ Fault)
          /\ IF b[2] = "retry" /\ mis
             THEN TryAgain(b)
             ELSE IF b[2] = "rebuild" /\ ~whole /\ Serving(b[1])
             THEN /\ pc' = [pc EXCEPT ![b] = "extend"]
                  /\ work' = [work EXCEPT ![b] = current[b[1]]]
                  /\ UNCHANGED <<data, mismatch, lock>>
             ELSE /\ pc' = [pc EXCEPT ![b] = "files"]
                  /\ data' = [data EXCEPT ![b] = [ver |-> upstream, whole |-> whole]]
                  /\ mismatch' = [mismatch EXCEPT ![b] = mis]
                  /\ UNCHANGED <<work, lock>>
    BY Zenon, <1>4 DEF Build
  <2>2. [ver |-> upstream, whole |-> whole] \in Data
    BY LiveAssumption DEF TypeOK, Data
  <2>3. /\ pc' \in [Builders -> BuilderPCs] /\ work' \in [Builders -> Entry]
        /\ data' \in [Builders -> Data] /\ mismatch' \in [Builders -> BOOLEAN]
        /\ lock' \in Replicas \union {Nobody}
    <3>1. CASE TryAgain(b)
      BY Zenon, <3>1 DEF TypeOK, TryAgain, BuilderPCs
    <3>2. CASE /\ pc' = [pc EXCEPT ![b] = "extend"]
               /\ work' = [work EXCEPT ![b] = current[b[1]]]
               /\ UNCHANGED <<data, mismatch, lock>>
      BY Zenon, <3>2, <1>b DEF TypeOK, BuilderPCs
    <3>3. CASE /\ pc' = [pc EXCEPT ![b] = "files"]
               /\ data' = [data EXCEPT ![b] = [ver |-> upstream, whole |-> whole]]
               /\ mismatch' = [mismatch EXCEPT ![b] = mis]
               /\ UNCHANGED <<work, lock>>
      BY Zenon, <3>3, <2>2 DEF TypeOK, BuilderPCs
    <3> QED
      BY Zenon, <2>1, <3>1, <3>2, <3>3
  <2>4. faults' \in 0 .. MaxFaults
    BY Zenon, <2>1, <1>f
  <2> QED
    BY Zenon, <1>4, <2>3, <2>4 DEF TypeOK, Build
<1>5. CASE AdoptFromPeer(b)
  <2>1. notice[b[1]] \in Gens \union {NoGen}
    BY Zenon, <1>b DEF TypeOK
  <2>2. [gen |-> notice[b[1]], files |-> Files, fp |-> 0] \in Entry
    BY <2>1, LiveAssumption, SMTT(30) DEF Entry
  <2> QED
    BY Zenon, <1>5, <2>2 DEF TypeOK, AdoptFromPeer, BuilderPCs
<1>6. CASE BuildLocally(b)
  BY Zenon, <1>6, <1>f DEF TypeOK, BuildLocally, BuilderPCs
<1>7. CASE Generate(b)
  <2>1. PICK g \in Unused :
        /\ made' = [made EXCEPT ![g] = data[b]]
        /\ maker' = [maker EXCEPT ![g] = b[1]]
        /\ work' = [work EXCEPT ![b] = [gen |-> g, files |-> Files, fp |-> 0]]
    BY Zenon, <1>7 DEF Generate
  <2>3. g \in Gens
    BY Zenon DEF Unused
  <2>4. [gen |-> g, files |-> Files, fp |-> 0] \in Entry
    BY <2>3, LiveAssumption DEF Entry
  <2>5. /\ pc' = [pc EXCEPT ![b] = "swap"]
        /\ UNCHANGED <<upstream, expired, view, timers, data, mismatch, lock, notices, adopters,
                       faults>>
    BY Zenon, <1>7 DEF Generate
  <2> QED
    BY Zenon, <2>1, <2>3, <2>4, <2>5, <1>b DEF TypeOK, BuilderPCs
<1>8. CASE GenerateFails(b)
  <2>1. Serving(b[1]) \in BOOLEAN
    BY Zenon DEF Serving
  <2>2. /\ pc' \in [Builders -> BuilderPCs] /\ work' \in [Builders -> Entry]
        /\ data' \in [Builders -> Data] /\ mismatch' \in [Builders -> BOOLEAN]
        /\ lock' \in Replicas \union {Nobody}
    BY Zenon, <1>8, <2>1, DoneType DEF TypeOK, GenerateFails, TryAgain, BuilderPCs
  <2> QED
    BY Zenon, <1>8, <1>f, <2>2 DEF TypeOK, GenerateFails
<1>9. CASE Swap(b)
  <2> DEFINE e == [work[b] EXCEPT !.fp = IF b[2] = "rebuild" THEN upstream ELSE 0]
  <2>1. work[b] \in Entry /\ upstream \in 0 .. MaxVersion
    BY LiveAssumption DEF TypeOK
  <2>2. e \in Entry
    BY <2>1, LiveAssumption DEF Entry
  <2>3. /\ outbox' = IF maker[e.gen] = b[1] THEN outbox \union {e.gen} ELSE outbox
        /\ StageLiveEntry(b[1], e, Delay)
        /\ Done(b, TRUE)
        /\ UNCHANGED <<upstream, gens, timers, inbox, notice, adopters, faults>>
    BY Zenon, <1>9 DEF Swap
  <2>4. Delay \in 0 .. Delay
    BY LiveAssumption
  <2>5. outbox' \subseteq Gens
    <3>1. e.gen \in Gens
      BY Zenon, <1>9, <2>1 DEF WholeInv, Swap, Entry
    <3> QED
      BY Zenon, <2>3, <3>1 DEF TypeOK
  <2> HIDE DEF e
  <2> QED
    BY Zenon, <2>2, <2>3, <2>4, <2>5, <1>b, StageType, DoneType DEF TypeOK
<1>10. CASE RetryWakes(b)
  BY Zenon, <1>10 DEF TypeOK, RetryWakes, BuilderPCs
<1>11. CASE RetriesEnd(b)
  BY Zenon, <1>11, DoneType DEF TypeOK, RetriesEnd
<1> QED
  BY Zenon, <1>1, <1>2, <1>3, <1>4, <1>5, <1>6, <1>7, <1>8, <1>9, <1>10, <1>11 DEF Builder

\* Every step of an adopting goroutine keeps the types.
LEMMA AdopterType ==
    ASSUME TypeOK, NEW r \in Replicas, NEW g \in Gens, Adopter(r, g)
    PROVE  TypeOK'
<1>f. (UNCHANGED faults \/ Fault) => faults' \in 0 .. MaxFaults
  BY Zenon, FaultType DEF TypeOK
<1>e. AdoptEnds(r, g) =>
        /\ adopt' \in [Replicas -> [Gens -> {"none", "jitter", "fetch", "land"}]]
        /\ got' \in [Replicas -> [Gens -> 0 .. Files]] /\ due' \in [Replicas -> [Gens -> 0 .. Delay]]
        /\ cancelled' \in [Replicas -> SUBSET Gens]
  BY LiveAssumption DEF TypeOK, AdoptEnds
<1> USE DEF gens, view, builders, notices, adopters
<1>1. CASE Receive(r, g)
  <2>1. Delay \in 0 .. Delay
    BY LiveAssumption
  <2>2. pending' \in [Replicas -> Gens \union {NoGen}]
    <3>1. CASE Serving(r)
      BY ZenonT(30), <1>1, <3>1 DEF TypeOK, Receive
    <3>2. CASE ~Serving(r)
      BY Zenon, <1>1, <3>2 DEF TypeOK, Receive
    <3> QED
      BY Zenon, <3>1, <3>2
  <2>5. cancelled' \in [Replicas -> SUBSET Gens]
    <3>1. CASE pending[r] = NoGen
      BY Zenon, <1>1, <3>1 DEF TypeOK, Receive
    <3>2. CASE pending[r] # NoGen
      <4>1. pending[r] \in Gens
        BY Zenon, <3>2 DEF TypeOK
      <4> QED
        BY <1>1, <3>2, <4>1 DEF TypeOK, Receive
    <3> QED
      BY Zenon, <3>1, <3>2
  <2>3. /\ adopt' \in [Replicas -> [Gens -> {"none", "jitter", "fetch", "land"}]]
        /\ due' \in [Replicas -> [Gens -> 0 .. Delay]]
    <3>1. CASE Serving(r)
      <4>1. adopt' = [adopt EXCEPT ![r][g] = "jitter"] /\ due' = [due EXCEPT ![r][g] = Delay]
        BY Zenon, <1>1, <3>1 DEF Receive
      <4> QED
        BY Zenon, <2>1, <4>1 DEF TypeOK
    <3>2. CASE ~Serving(r)
      BY Zenon, <1>1, <3>2 DEF TypeOK, Receive
    <3> QED
      BY Zenon, <3>1, <3>2
  <2>4. inbox' \in [Replicas -> SUBSET Gens] /\ notice' \in [Replicas -> Gens \union {NoGen}]
    BY Zenon, <1>1 DEF TypeOK, Receive
  <2> QED
    BY Zenon, <1>1, <2>2, <2>3, <2>4, <2>5 DEF TypeOK, Receive
<1>2. CASE AdoptBegins(r, g)
  BY Zenon, <1>2 DEF TypeOK, AdoptBegins
<1>3. CASE AdoptCancelled(r, g)
  <2>1. pending' \in [Replicas -> Gens \union {NoGen}]
    BY Zenon, <1>3 DEF TypeOK, AdoptCancelled
  <2> QED
    BY Zenon, <1>3, <1>e, <2>1 DEF TypeOK, AdoptCancelled
<1>4. CASE FetchFile(r, g)
  <2>1. got[r][g] + 1 \in 0 .. Files
    BY <1>4, LiveAssumption, SMTT(30) DEF TypeOK, FetchFile
  <2> QED
    BY Zenon, <1>4, <2>1 DEF TypeOK, FetchFile
<1>5. CASE FetchFails(r, g)
  BY Zenon, <1>5, <1>e, <1>f DEF TypeOK, FetchFails
<1>6. CASE StagePartial(r, g)
  <2>1. [entry |-> [gen |-> g, files |-> got[r][g], fp |-> 0], complete |-> FALSE,
         left |-> due[r][g], checked |-> FALSE] \in Slot
    BY LiveAssumption, SMTT(30) DEF TypeOK, Slot, Entry
  <2> QED
    BY Zenon, <1>6, <2>1 DEF TypeOK, StagePartial
<1>7. CASE StageAdopted(r, g)
  <2>0. current[r] \in Entry /\ due[r][g] \in 0 .. Delay
    BY SMTT(30) DEF TypeOK
  <2>1. [gen |-> g, files |-> Files, fp |-> current[r].fp] \in Entry /\ due[r][g] \in 0 .. Delay
    BY Zenon, <2>0, AdoptedEntry
  <2> QED
    BY Zenon, <1>7, <1>e, <2>1, StageType DEF TypeOK, StageAdopted
<1> QED
  BY Zenon, <1>1, <1>2, <1>3, <1>4, <1>5, <1>6, <1>7 DEF Adopter

\* Every step keeps the types.
LEMMA NextType ==
    ASSUME TypeOK, WholeInv, [Next]_vars
    PROVE  TypeOK'
<1>f. (UNCHANGED faults \/ Fault) => faults' \in 0 .. MaxFaults
  BY Zenon, FaultType DEF TypeOK
<1> USE DEF gens, view, builders, notices, adopters
<1>1. ASSUME NEW r \in Replicas, Request(r) \/ ColdRequest(r)
      PROVE  TypeOK'
  BY Zenon, <1>1, RebuilderOf DEF TypeOK, Request, ColdRequest, BuilderPCs
<1>2. ASSUME NEW r \in Replicas, PromoteCheck(r)
      PROVE  TypeOK'
  <2>0. staged[r] \in Slot
    BY Zenon DEF TypeOK
  <2>1. [staged[r] EXCEPT !.checked = TRUE] \in Slot /\ staged[r].entry \in Entry
    BY Zenon, <2>0 DEF Slot
  <2>2. staged' = [staged EXCEPT ![r] = [staged[r] EXCEPT !.checked = TRUE]]
    BY Zenon, <1>2 DEF PromoteCheck
  <2>3. staged' \in [Replicas -> Slot]
    BY Zenon, <2>1, <2>2 DEF TypeOK
  <2>4. timers' \in [Replicas -> SUBSET Entry]
    BY Zenon, <1>2, <2>1 DEF TypeOK, PromoteCheck
  <2> QED
    BY Zenon, <1>2, <2>3, <2>4 DEF TypeOK, PromoteCheck
<1>3. ASSUME NEW r \in Replicas, Promote(r)
      PROVE  TypeOK'
  <2>1. PICK e \in timers[r] :
           Install(r, e, TRUE) /\ timers' = [timers EXCEPT ![r] = @ \ {e}]
           /\ UNCHANGED <<upstream, gens, builders, notices, adopters, faults>>
    BY Zenon, <1>3 DEF Promote
  <2>2. e \in Entry
    BY Zenon DEF TypeOK
  <2>3. timers' \in [Replicas -> SUBSET Entry]
    BY Zenon, <2>1 DEF TypeOK
  <2>4. /\ current' \in [Replicas -> Entry] /\ stale' \in [Replicas -> BOOLEAN]
        /\ staged' \in [Replicas -> Slot]
        /\ retired' \in [Replicas -> [Gens -> 0 .. Retention]]
        /\ advertised' \in [Replicas -> [Gens -> 0 .. MaxAge]]
    BY Zenon, <2>1, <2>2, InstallType
  <2> QED
    BY Zenon, <2>1, <2>3, <2>4 DEF TypeOK
<1>4. ASSUME NEW r \in Replicas, Expire(r)
      PROVE  TypeOK'
  <2>1. current[r].gen \in Gens
    BY Zenon, <1>4 DEF TypeOK, Expire, Serving, Entry
  <2> QED
    BY Zenon, <1>4, <2>1 DEF TypeOK, Expire
<1>5. ASSUME NEW g \in Gens, Announce(g)
      PROVE  TypeOK'
  <2>1. faults' \in 0 .. MaxFaults
    BY Zenon, <1>5, <1>f DEF Announce
  <2>2. outbox' \subseteq Gens /\ inbox' \in [Replicas -> SUBSET Gens]
    <3>1. outbox \subseteq Gens /\ inbox \in [Replicas -> SUBSET Gens]
      BY Zenon DEF TypeOK
    <3> QED
      BY <1>5, <3>1 DEF Announce
  <2>3. UNCHANGED <<upstream, gens, view, timers, builders, notice, adopters>>
    BY Zenon, <1>5 DEF Announce
  <2> QED
    BY Zenon, <2>1, <2>2, <2>3 DEF TypeOK
<1>6. CASE NewData
  <2>1. upstream' \in 1 .. MaxVersion
    <3>1. upstream \in 1 .. MaxVersion
      BY Zenon DEF TypeOK
    <3> QED
      BY <1>6, <3>1, LiveAssumption DEF NewData
  <2>2. UNCHANGED <<gens, view, timers, builders, notices, adopters>> /\ Fault
    BY Zenon, <1>6 DEF NewData
  <2>3. faults' \in 0 .. MaxFaults
    BY Zenon, <2>2, <1>f
  <2> QED
    BY Zenon, <2>1, <2>2, <2>3 DEF TypeOK
<1>7. CASE LockExpires
  BY Zenon, <1>7 DEF TypeOK, LockExpires
<1>8. CASE Tick
  <2>1. \A n \in Nat : \A m \in 0 .. n : Less(m) \in 0 .. n
    BY DEF Less
  <2>2. staged' \in [Replicas -> Slot]
    <3>1. ASSUME NEW r \in Replicas
          PROVE  [staged[r] EXCEPT !.left = Less(@)] \in Slot
      <4>1. staged[r] \in Slot /\ staged[r].left \in 0 .. Delay
        BY Zenon DEF TypeOK, Slot
      <4>2. Less(staged[r].left) \in 0 .. Delay
        BY Zenon, <2>1, <4>1, LiveAssumption
      <4> QED
        BY Zenon, <4>1, <4>2 DEF Slot
    <3> QED
      BY Zenon, <1>8, <3>1 DEF Tick
  <2>3. /\ due' \in [Replicas -> [Gens -> 0 .. Delay]]
        /\ retired' \in [Replicas -> [Gens -> 0 .. Retention]]
    BY ZenonT(30), <1>8, <2>1, LiveAssumption DEF TypeOK, Tick
  <2>4. advertised' \in [Replicas -> [Gens -> 0 .. MaxAge]]
    BY <1>8, <2>1, LiveAssumption DEF TypeOK, Tick
  <2> QED
    BY Zenon, <1>8, <2>2, <2>3, <2>4 DEF TypeOK, Tick
<1>9. CASE UNCHANGED vars
  BY Zenon, <1>9 DEF TypeOK, vars
<1> QED
  BY Zenon, <1>1, <1>2, <1>3, <1>4, <1>5, <1>6, <1>7, <1>8, <1>9, BuilderType, AdopterType DEF Next

\* Installing a whole entry keeps the view whole.
LEMMA InstallWhole ==
    ASSUME TypeOK, WholeInv, NEW r \in Replicas, NEW e \in Entry, e.files = Files,
           NEW w \in BOOLEAN, Install(r, e, w)
    PROVE  /\ WholeGenerations'
           /\ \A s \in Replicas : staged'[s].complete => staged'[s].entry.files = Files
<1>1. WholeGenerations'
  BY Zenon DEF Install, TypeOK, WholeInv, WholeGenerations, Serving
<1>2. \A s \in Replicas : staged'[s] = staged[s] \/ staged'[s] = NoSlot
  BY Zenon DEF Install, TypeOK
<1>3. \A s \in Replicas : staged'[s].complete => staged'[s].entry.files = Files
  <2> TAKE s \in Replicas
  <2>1. CASE staged'[s] = staged[s]
    BY Zenon, <2>1 DEF WholeInv
  <2>2. CASE staged'[s] = NoSlot
    <3>1. ~NoSlot.complete
      BY Zenon DEF NoSlot
    <3> QED
      BY Zenon, <2>2, <3>1
  <2> QED
    BY Zenon, <1>2, <2>1, <2>2
<1> QED
  BY Zenon, <1>1, <1>3

\* So does staging one.
LEMMA StageWhole ==
    ASSUME TypeOK, WholeInv, NEW r \in Replicas, NEW e \in Entry, e.files = Files,
           NEW left \in 0 .. Delay, StageLiveEntry(r, e, left)
    PROVE  /\ WholeGenerations'
           /\ \A s \in Replicas : staged'[s].complete => staged'[s].entry.files = Files
<1>1. CASE ~Serving(r) \/ left = 0
  BY Zenon, <1>1, InstallWhole DEF StageLiveEntry
<1>2. CASE ~(~Serving(r) \/ left = 0)
  <2>1. /\ staged' = [staged EXCEPT ![r] =
                          [entry |-> e, complete |-> TRUE, left |-> left, checked |-> FALSE]]
        /\ UNCHANGED <<current, stale, retired, advertised>>
    BY Zenon, <1>2 DEF StageLiveEntry
  <2>2. WholeGenerations'
    BY Zenon, <2>1 DEF WholeInv, WholeGenerations, Serving
  <2> QED
    BY Zenon, <2>1, <2>2 DEF TypeOK, WholeInv
<1> QED
  BY Zenon, <1>1, <1>2

\* A builder that ends leaves no other with a partial entry.
LEMMA DoneWhole ==
    ASSUME TypeOK, WholeInv, NEW b \in Builders, NEW arm \in BOOLEAN, Done(b, arm)
    PROVE  \A c \in Builders :
             /\ pc'[c] = "swap" => work'[c].gen \in Gens /\ work'[c].files = Files
             /\ pc'[c] = "extend" => (work'[c].gen # NoGen => work'[c].files = Files)
<1> SUFFICES ASSUME NEW c \in Builders, pc'[c] \in {"swap", "extend"}
             PROVE  pc'[c] = pc[c] /\ work'[c] = work[c]
  BY Zenon DEF WholeInv
<1>0. <<b[1], "retry">> \in Builders
  BY Zenon, BuilderParts
<1>1. c # b
  <2>1. CASE b = <<b[1], "retry">>
    <3>1. pc' = [pc EXCEPT ![b] = "idle",
                           ![b] = IF arm /\ mismatch[b] /\ @ = "idle" THEN "wait" ELSE @]
      BY Zenon, <2>1 DEF Done
    <3> QED
      BY <3>1 DEF TypeOK
  <2>2. CASE b # <<b[1], "retry">>
    BY Zenon, <1>0, <2>2 DEF Done, TypeOK
  <2> QED
    BY Zenon, <2>1, <2>2
<1> QED
  BY Zenon, <1>0, <1>1 DEF Done, TypeOK

\* Every step of a builder keeps entries whole.
LEMMA BuilderWhole ==
    ASSUME TypeOK, WholeInv, NEW b \in Builders, Builder(b)
    PROVE  WholeInv'
<1>b. b[1] \in Replicas
  BY Zenon, BuilderParts
<1> USE DEF gens, view, builders, notices, adopters
<1>v. ASSUME UNCHANGED <<current, staged, timers>>,
             \A c \in Builders :
                 /\ pc'[c] = "swap" => work'[c].gen \in Gens /\ work'[c].files = Files
                 /\ pc'[c] = "extend" => (work'[c].gen # NoGen => work'[c].files = Files)
      PROVE  WholeInv'
  BY Zenon, <1>v DEF WholeInv, WholeGenerations, Serving
<1>1. CASE QuickCheck(b)
  <2>1. CASE pc' = [pc EXCEPT ![b] = "extend"] /\ work' = [work EXCEPT ![b] = current[b[1]]]
    BY Zenon, <1>1, <2>1, <1>v, <1>b DEF TypeOK, QuickCheck, WholeInv, WholeGenerations, Serving
  <2>2. CASE pc' = [pc EXCEPT ![b] = "lock"] /\ UNCHANGED work
    BY Zenon, <1>1, <2>2, <1>v DEF TypeOK, QuickCheck, WholeInv
  <2> QED
    BY Zenon, <1>1, <2>1, <2>2 DEF QuickCheck
<1>2. CASE Extend(b)
  BY Zenon, <1>2, <1>b, DoneWhole DEF TypeOK, Extend, WholeInv, WholeGenerations, Serving
<1>3. CASE TakeLock(b)
  <2>1. CASE Done(b, FALSE)
    BY Zenon, <1>3, <2>1, <1>v, DoneWhole DEF TakeLock
  <2>2. CASE pc' = [pc EXCEPT ![b] = "build"] /\ UNCHANGED work
    BY Zenon, <1>3, <2>2, <1>v DEF TypeOK, TakeLock, WholeInv
  <2> QED
    BY Zenon, <1>3, <2>1, <2>2 DEF TakeLock
<1>4. CASE Build(b)
  <2>1. CASE TryAgain(b)
    BY Zenon, <1>4, <2>1, <1>v DEF TypeOK, Build, TryAgain, WholeInv
  <2>2. CASE pc' = [pc EXCEPT ![b] = "extend"] /\ work' = [work EXCEPT ![b] = current[b[1]]]
    BY Zenon, <1>4, <2>2, <1>v, <1>b DEF TypeOK, Build, WholeInv, WholeGenerations, Serving
  <2>3. CASE pc' = [pc EXCEPT ![b] = "files"] /\ UNCHANGED work
    BY Zenon, <1>4, <2>3, <1>v DEF TypeOK, Build, WholeInv
  <2> QED
    BY Zenon, <1>4, <2>1, <2>2, <2>3 DEF Build
<1>5. CASE AdoptFromPeer(b)
  <2>1. notice[b[1]] \in Gens
    BY Zenon, <1>5, <1>b DEF TypeOK, AdoptFromPeer
  <2> QED
    BY Zenon, <1>5, <1>v, <2>1 DEF TypeOK, AdoptFromPeer, WholeInv
<1>6. CASE BuildLocally(b)
  BY ZenonT(30), <1>6, <1>v DEF TypeOK, BuildLocally, WholeInv
<1>7. CASE Generate(b)
  <2>1. PICK g \in Unused : work' = [work EXCEPT ![b] = [gen |-> g, files |-> Files, fp |-> 0]]
    BY Zenon, <1>7 DEF Generate
  <2>2. g \in Gens
    BY DEF Unused
  <2> QED
    BY ZenonT(30), <1>7, <1>v, <2>1, <2>2 DEF TypeOK, Generate, WholeInv
<1>8. CASE GenerateFails(b)
  <2>1. Serving(b[1]) \in BOOLEAN
    BY DEF Serving
  <2>2. CASE TryAgain(b)
    BY Zenon, <1>8, <2>2, <1>v DEF TypeOK, GenerateFails, TryAgain, WholeInv
  <2>3. CASE Done(b, Serving(b[1]))
    BY Zenon, <1>8, <2>1, <2>3, <1>v, DoneWhole DEF GenerateFails
  <2> QED
    BY Zenon, <1>8, <2>2, <2>3 DEF GenerateFails
<1>9. CASE Swap(b)
  <2> DEFINE e == [work[b] EXCEPT !.fp = IF b[2] = "rebuild" THEN upstream ELSE 0]
  <2>1. work[b] \in Entry /\ upstream \in 0 .. MaxVersion /\ Delay \in 0 .. Delay
    BY LiveAssumption DEF TypeOK
  <2>2. e \in Entry
    BY <2>1, LiveAssumption DEF Entry
  <2>3. e.files = Files
    BY Zenon, <1>9, <2>1 DEF Swap, WholeInv, Entry
  <2>4. StageLiveEntry(b[1], e, Delay) /\ Done(b, TRUE) /\ UNCHANGED timers
    BY Zenon, <1>9 DEF Swap
  <2> HIDE DEF e
  <2>5. /\ WholeGenerations'
        /\ \A s \in Replicas : staged'[s].complete => staged'[s].entry.files = Files
    BY Zenon, <2>1, <2>2, <2>3, <2>4, <1>b, StageWhole
  <2>6. \A c \in Builders :
             /\ pc'[c] = "swap" => work'[c].gen \in Gens /\ work'[c].files = Files
             /\ pc'[c] = "extend" => (work'[c].gen # NoGen => work'[c].files = Files)
    BY Zenon, <2>4, DoneWhole
  <2> QED
    BY Zenon, <2>4, <2>5, <2>6 DEF WholeInv
<1>10. CASE RetryWakes(b)
  BY Zenon, <1>10, <1>v DEF TypeOK, RetryWakes, WholeInv
<1>11. CASE RetriesEnd(b)
  BY Zenon, <1>11, <1>v, DoneWhole DEF RetriesEnd
<1> QED
  BY Zenon, <1>1, <1>2, <1>3, <1>4, <1>5, <1>6, <1>7, <1>8, <1>9, <1>10, <1>11 DEF Builder

\* Every step of an adopting goroutine keeps entries whole.
LEMMA AdopterWhole ==
    ASSUME TypeOK, WholeInv, NEW r \in Replicas, NEW g \in Gens, Adopter(r, g)
    PROVE  WholeInv'
<1> USE DEF gens, view, builders, notices, adopters
<1>v. ASSUME UNCHANGED <<current, staged, timers, pc, work>>
      PROVE  WholeInv'
  BY Zenon, <1>v DEF WholeInv, WholeGenerations, Serving
<1>1. CASE Receive(r, g)
  BY Zenon, <1>1, <1>v DEF Receive
<1>2. CASE AdoptBegins(r, g)
  BY Zenon, <1>2, <1>v DEF AdoptBegins
<1>3. CASE AdoptCancelled(r, g)
  BY Zenon, <1>3, <1>v DEF AdoptCancelled
<1>4. CASE FetchFile(r, g)
  BY Zenon, <1>4, <1>v DEF FetchFile
<1>5. CASE FetchFails(r, g)
  BY Zenon, <1>5, <1>v DEF FetchFails
<1>6. CASE StagePartial(r, g)
  BY Zenon, <1>6 DEF TypeOK, StagePartial, WholeInv, WholeGenerations, Serving
<1>7. CASE StageAdopted(r, g)
  <2> DEFINE e == [gen |-> g, files |-> Files, fp |-> current[r].fp]
  <2>0. current[r] \in Entry /\ due[r][g] \in 0 .. Delay
    BY DEF TypeOK
  <2>1. e \in Entry /\ e.files = Files /\ due[r][g] \in 0 .. Delay
    BY Zenon, <2>0, AdoptedEntry
  <2>2. StageLiveEntry(r, e, due[r][g]) /\ UNCHANGED <<timers, pc, work>>
    BY Zenon, <1>7 DEF StageAdopted
  <2> HIDE DEF e
  <2> QED
    BY Zenon, <2>1, <2>2, StageWhole DEF WholeInv
<1> QED
  BY Zenon, <1>1, <1>2, <1>3, <1>4, <1>5, <1>6, <1>7 DEF Adopter

\* Every step keeps entries whole.
LEMMA NextWhole ==
    ASSUME TypeOK, WholeInv, [Next]_vars
    PROVE  WholeInv'
<1> USE DEF gens, view, builders, notices, adopters
<1>v. ASSUME UNCHANGED <<current, staged, timers, pc, work>>
      PROVE  WholeInv'
  BY ZenonT(30), <1>v DEF WholeInv, WholeGenerations, Serving
<1>1. ASSUME NEW r \in Replicas, Request(r) \/ ColdRequest(r)
      PROVE  WholeInv'
  BY ZenonT(30), <1>1, RebuilderOf DEF TypeOK, Request, ColdRequest, WholeInv, WholeGenerations, Serving
<1>2. ASSUME NEW r \in Replicas, PromoteCheck(r)
      PROVE  WholeInv'
  <2>1. /\ staged[r].complete /\ staged' = [staged EXCEPT ![r] = [staged[r] EXCEPT !.checked = TRUE]]
        /\ timers' = [timers EXCEPT ![r] = @ \union {staged[r].entry}]
        /\ UNCHANGED <<current, pc, work>>
    BY Zenon, <1>2 DEF PromoteCheck
  <2>2. staged[r] \in Slot
    BY DEF TypeOK
  <2>3. \A s \in Replicas : staged'[s].complete => staged'[s].entry.files = Files
    BY Zenon, <2>1, <2>2 DEF TypeOK, WholeInv, Slot
  <2>4. \A s \in Replicas : \A e \in timers'[s] : e.files = Files
    BY Zenon, <2>1 DEF TypeOK, WholeInv
  <2>5. WholeGenerations'
    BY Zenon, <2>1 DEF WholeInv, WholeGenerations, Serving
  <2> QED
    BY Zenon, <2>1, <2>3, <2>4, <2>5 DEF WholeInv
<1>3. ASSUME NEW r \in Replicas, Promote(r)
      PROVE  WholeInv'
  <2>1. PICK e \in timers[r] :
           Install(r, e, TRUE) /\ timers' = [timers EXCEPT ![r] = @ \ {e}] /\ UNCHANGED <<pc, work>>
    BY Zenon, <1>3 DEF Promote
  <2>2. e \in Entry /\ e.files = Files
    BY Zenon DEF TypeOK, WholeInv
  <2>3. /\ WholeGenerations'
        /\ \A s \in Replicas : staged'[s].complete => staged'[s].entry.files = Files
    BY Zenon, <2>1, <2>2, InstallWhole
  <2>4. \A s \in Replicas : \A x \in timers'[s] : x.files = Files
    BY Zenon, <2>1 DEF TypeOK, WholeInv
  <2> QED
    BY Zenon, <2>1, <2>3, <2>4 DEF WholeInv
<1>4. ASSUME NEW r \in Replicas, Expire(r)
      PROVE  WholeInv'
  BY Zenon, <1>4, <1>v DEF Expire
<1>5. ASSUME NEW g \in Gens, Announce(g)
      PROVE  WholeInv'
  BY Zenon, <1>5, <1>v DEF Announce
<1>6. CASE NewData
  BY Zenon, <1>6, <1>v DEF NewData
<1>7. CASE LockExpires
  BY Zenon, <1>7, <1>v DEF LockExpires
<1>8. CASE Tick
  <2>1. ASSUME NEW s \in Replicas
        PROVE  staged'[s].complete = staged[s].complete /\ staged'[s].entry = staged[s].entry
    <3>1. staged'[s] = [staged[s] EXCEPT !.left = Less(@)] /\ staged[s] \in Slot
      BY Zenon, <1>8 DEF Tick, TypeOK
    <3> QED
      BY Zenon, <3>1 DEF Slot
  <2> QED
    BY Zenon, <1>8, <2>1 DEF Tick, WholeInv, WholeGenerations, Serving
<1>9. CASE UNCHANGED vars
  BY Zenon, <1>9, <1>v DEF vars
<1> QED
  BY Zenon, <1>1, <1>2, <1>3, <1>4, <1>5, <1>6, <1>7, <1>8, <1>9, BuilderWhole, AdopterWhole DEF Next

\* Nothing is staged or current at first but the generation of the warm replicas.
LEMMA InitWhole == Init => WholeInv
<1> SUFFICES ASSUME Init PROVE WholeInv
  BY Zenon
<1>1. /\ current = [r \in Replicas |->
             IF r \in Warm THEN [gen |-> 1, files |-> Files, fp |-> 1] ELSE NoEntry]
      /\ staged = [r \in Replicas |-> NoSlot] /\ timers = [r \in Replicas |-> {}]
      /\ pc = [b \in Builders |-> "idle"]
  BY Zenon DEF Init
<1> QED
  BY Zenon, <1>1 DEF WholeInv, WholeGenerations, Serving, NoEntry, NoSlot, NoGen

\* The state variables of the view, the builders and the adopters always have
\* their types, and every entry about to be served is whole.
THEOREM LiveTypeCorrect == Spec => [](TypeOK /\ WholeInv)
<1>1. Init => TypeOK /\ WholeInv
  BY Zenon, InitType, InitWhole
<1>2. TypeOK /\ WholeInv /\ [Next]_vars => (TypeOK /\ WholeInv)'
  BY Zenon, NextType, NextWhole
<1> QED
  BY <1>1, <1>2, PTL DEF Spec

\* A replica only ever serves whole generations, however its fetches, timers and
\* builds interleave and fail: a partial entry answers by hash but is not promoted.
THEOREM OnlyWholeServed == Spec => []WholeGenerations
<1>1. WholeInv => WholeGenerations
  BY Zenon DEF WholeInv
<1> QED
  BY <1>1, LiveTypeCorrect, PTL

-----------------------------------------------------------------------------
(* How long a Release that is no longer served may still be used. *)

\* A generation that is not current answers by hash at least as long as a client
\* may still use a Release that names it.
RetentionInv ==
    \A r \in Replicas, g \in Gens : current[r].gen # g => advertised[r][g] <= retired[r][g]

\* promoteLiveEntry retires the outgoing generation for long enough.
LEMMA InstallRetains ==
    ASSUME TypeOK, RetentionInv, NEW r \in Replicas, NEW e \in Entry, NEW w \in BOOLEAN,
           Install(r, e, w)
    PROVE  RetentionInv'
<1>t. /\ current \in [Replicas -> Entry]
      /\ retired \in [Replicas -> [Gens -> 0 .. Retention]]
      /\ advertised \in [Replicas -> [Gens -> 0 .. MaxAge]]
  BY Zenon DEF TypeOK
<1>i. /\ current' = [current EXCEPT ![r] = e]
      /\ retired' = IF Serving(r) THEN [retired EXCEPT ![r][current[r].gen] = Retention]
                    ELSE retired
      /\ advertised' = [advertised EXCEPT ![r][e.gen] = MaxAge]
  BY Zenon DEF Install
<1> SUFFICES ASSUME NEW s \in Replicas, NEW g \in Gens, current'[s].gen # g
             PROVE  advertised'[s][g] <= retired'[s][g]
  BY Zenon DEF RetentionInv
<1>1. CASE s # r
  <2>1. current'[s] = current[s] /\ retired'[s] = retired[s] /\ advertised'[s] = advertised[s]
    BY Zenon, <1>t, <1>i, <1>1
  <2> QED
    BY Zenon, <2>1 DEF RetentionInv
<1>2. CASE s = r
  <2>0. g # e.gen
    BY Zenon, <1>t, <1>i, <1>2
  <2>1. advertised'[r][g] = advertised[r][g] /\ advertised[r][g] \in 0 .. MaxAge
    BY Zenon, <1>t, <1>i, <2>0
  <2>2. CASE current[r].gen = g
    <3>0. Serving(r)
      BY <2>2 DEF Serving, Gens, NoGen
    <3>1. retired' = [retired EXCEPT ![r][g] = Retention]
      BY Zenon, <1>i, <2>2, <3>0
    <3>2. retired'[r][g] = Retention
      BY Zenon, <1>t, <3>1
    <3> QED
      BY <1>2, <2>1, <3>2, LiveAssumption
  <2>3. CASE current[r].gen # g
    <3>1. retired'[r][g] = retired[r][g]
      BY Zenon, <1>t, <1>i, <2>3
    <3>2. advertised[r][g] <= retired[r][g]
      BY Zenon, <2>3 DEF RetentionInv
    <3> QED
      BY Zenon, <1>2, <2>1, <3>1, <3>2
  <2> QED
    BY Zenon, <2>2, <2>3
<1> QED
  BY Zenon, <1>1, <1>2

\* So does a replica that stages a generation, or installs it at once.
LEMMA StageRetains ==
    ASSUME TypeOK, RetentionInv, NEW r \in Replicas, NEW e \in Entry, NEW left \in 0 .. Delay,
           StageLiveEntry(r, e, left)
    PROVE  RetentionInv'
<1>1. CASE ~Serving(r) \/ left = 0
  BY Zenon, <1>1, InstallRetains DEF StageLiveEntry
<1>2. CASE ~(~Serving(r) \/ left = 0)
  BY Zenon, <1>2 DEF StageLiveEntry, RetentionInv
<1> QED
  BY Zenon, <1>1, <1>2

\* A tick keeps the order of two clocks that run down.
LEMMA LessMonotone ==
    ASSUME NEW m \in Nat, NEW n \in Nat, m <= n
    PROVE  Less(m) <= Less(n)
BY DEF Less

\* A retention and the time a client has left run down together.
LEMMA TickRetains ==
    ASSUME TypeOK, RetentionInv, Tick
    PROVE  RetentionInv'
<1> SUFFICES ASSUME NEW r \in Replicas, NEW g \in Gens, current'[r].gen # g
             PROVE  advertised'[r][g] <= retired'[r][g]
  BY Zenon DEF RetentionInv
<1>0. advertised[r][g] \in 0 .. MaxAge /\ retired[r][g] \in 0 .. Retention
  BY SMTT(30) DEF TypeOK
<1>1. advertised[r][g] \in Nat /\ retired[r][g] \in Nat /\ advertised[r][g] <= retired[r][g]
  BY <1>0, LiveAssumption DEF Tick, RetentionInv
<1>2. advertised'[r][g] = Less(advertised[r][g]) /\ retired'[r][g] = Less(retired[r][g])
  BY Zenon DEF Tick
<1> QED
  BY Zenon, <1>1, <1>2, LessMonotone

\* Every step keeps the retention ahead of the clients, provided no promotion comes
\* between the two lock sections of an extension.
LEMMA NextRetains ==
    ASSUME Unraced, TypeOK, WholeInv, RetentionInv, [Next]_vars
    PROVE  RetentionInv'
<1> USE DEF gens, view, builders, notices, adopters
<1>v. ASSUME UNCHANGED <<current, retired, advertised>>
      PROVE  RetentionInv'
  BY Zenon, <1>v DEF RetentionInv
<1>1. ASSUME NEW b \in Builders, Builder(b)
      PROVE  RetentionInv'
  <2>b. b[1] \in Replicas
    BY Zenon, BuilderParts
  <2>1. CASE Extend(b)
    <3>2. current[b[1]].gen = work[b].gen
      BY Zenon, <2>1 DEF Extend
    <3>3. /\ current' = [current EXCEPT ![b[1]] = work[b]]
          /\ advertised' = [advertised EXCEPT ![b[1]][work[b].gen] = MaxAge]
          /\ retired' = retired
      BY Zenon, <2>1 DEF Extend
    <3> SUFFICES ASSUME NEW s \in Replicas, NEW g \in Gens, current'[s].gen # g
                 PROVE  advertised'[s][g] <= retired'[s][g]
      BY Zenon DEF RetentionInv
    <3>4. current[s].gen # g /\ advertised'[s][g] = advertised[s][g]
      <4>1. CASE s # b[1]
        BY Zenon, <3>3, <4>1 DEF TypeOK
      <4>2. CASE s = b[1]
        BY Zenon, <3>2, <3>3, <4>2 DEF TypeOK
      <4> QED
        BY Zenon, <4>1, <4>2
    <3> QED
      BY Zenon, <3>3, <3>4 DEF RetentionInv
  <2>2. CASE Swap(b)
    <3> DEFINE e == [work[b] EXCEPT !.fp = IF b[2] = "rebuild" THEN upstream ELSE 0]
    <3>0. work[b] \in Entry /\ upstream \in 0 .. MaxVersion /\ Delay \in 0 .. Delay
      BY LiveAssumption, SMTT(30) DEF TypeOK
    <3>1. e \in Entry
      BY <3>0, LiveAssumption DEF Entry
    <3>2. StageLiveEntry(b[1], e, Delay)
      BY Zenon, <2>2 DEF Swap
    <3> HIDE DEF e
    <3> QED
      BY Zenon, <2>b, <3>0, <3>1, <3>2, StageRetains
  <2>3. CASE \/ QuickCheck(b) \/ TakeLock(b) \/ Build(b) \/ AdoptFromPeer(b) \/ BuildLocally(b)
             \/ Generate(b) \/ GenerateFails(b) \/ RetryWakes(b) \/ RetriesEnd(b)
    BY Zenon, <2>3, <1>v DEF QuickCheck, TakeLock, Build, AdoptFromPeer, BuildLocally, Generate,
                      GenerateFails, RetryWakes, RetriesEnd
  <2> QED
    BY Zenon, <1>1, <2>1, <2>2, <2>3 DEF Builder
<1>2. ASSUME NEW r \in Replicas, NEW g \in Gens, Adopter(r, g)
      PROVE  RetentionInv'
  <2>1. CASE StageAdopted(r, g)
    <3> DEFINE e == [gen |-> g, files |-> Files, fp |-> current[r].fp]
    <3>0. current[r] \in Entry /\ due[r][g] \in 0 .. Delay
      BY SMTT(30) DEF TypeOK
    <3>1. e \in Entry /\ due[r][g] \in 0 .. Delay
      BY Zenon, <3>0, AdoptedEntry
    <3>2. StageLiveEntry(r, e, due[r][g])
      BY Zenon, <2>1 DEF StageAdopted
    <3> HIDE DEF e
    <3> QED
      BY Zenon, <3>1, <3>2, StageRetains
  <2>2. CASE \/ Receive(r, g) \/ AdoptBegins(r, g) \/ AdoptCancelled(r, g) \/ FetchFile(r, g)
             \/ FetchFails(r, g) \/ StagePartial(r, g)
    BY Zenon, <2>2, <1>v DEF Receive, AdoptBegins, AdoptCancelled, FetchFile, FetchFails, StagePartial
  <2> QED
    BY Zenon, <1>2, <2>1, <2>2 DEF Adopter
<1>3. ASSUME NEW r \in Replicas, Promote(r)
      PROVE  RetentionInv'
  <2>1. PICK e \in timers[r] : Install(r, e, TRUE)
    BY Zenon, <1>3 DEF Promote
  <2>2. e \in Entry
    BY Zenon DEF TypeOK
  <2> QED
    BY Zenon, <2>1, <2>2, InstallRetains
<1>4. ASSUME NEW r \in Replicas, Request(r) \/ ColdRequest(r) \/ PromoteCheck(r) \/ Expire(r)
      PROVE  RetentionInv'
  BY Zenon, <1>4, <1>v DEF Request, ColdRequest, PromoteCheck, Expire
<1>5. ASSUME NEW g \in Gens, Announce(g)
      PROVE  RetentionInv'
  BY Zenon, <1>5, <1>v DEF Announce
<1>6. CASE NewData \/ LockExpires \/ UNCHANGED vars
  BY Zenon, <1>6, <1>v DEF NewData, LockExpires, vars
<1>7. CASE Tick
  BY Zenon, <1>7, TickRetains
<1> QED
  BY Zenon, <1>1, <1>2, <1>3, <1>4, <1>5, <1>6, <1>7 DEF Next

\* A client that fetched a Release resolves every file it names by hash for MaxAge,
\* because the retention of a retired generation is no shorter: for all delays,
\* retentions, fleets and faults, while no promotion splits an extension.
THEOREM AdvertisedStaysResolvable ==
    ASSUME Unraced
    PROVE  Spec => []AdvertisedResolves
<1>1. Init => TypeOK /\ WholeInv /\ RetentionInv
  <2>1. ASSUME Init PROVE RetentionInv
    <3>1. /\ current = [r \in Replicas |->
                 IF r \in Warm THEN [gen |-> 1, files |-> Files, fp |-> 1] ELSE NoEntry]
          /\ retired = [r \in Replicas |-> [g \in Gens |-> 0]]
          /\ advertised = [r \in Replicas |-> [g \in Gens |->
                 IF r \in Warm /\ g = 1 THEN MaxAge ELSE 0]]
      BY Zenon, <2>1 DEF Init
    <3>2. ASSUME NEW r \in Replicas, NEW g \in Gens, current[r].gen # g
          PROVE  advertised[r][g] = 0 /\ retired[r][g] = 0
      BY Zenon, <3>1, <3>2
    <3> QED
      BY <3>2 DEF RetentionInv
  <2> QED
    BY Zenon, <2>1, InitType, InitWhole
<1>2. TypeOK /\ WholeInv /\ RetentionInv /\ [Next]_vars
        => (TypeOK /\ WholeInv /\ RetentionInv)'
  BY Zenon, NextType, NextWhole, NextRetains
<1>3. TypeOK /\ RetentionInv => AdvertisedResolves
  <2> SUFFICES ASSUME TypeOK, RetentionInv, NEW r \in Replicas, NEW g \in Gens,
                      advertised[r][g] > 0
               PROVE  current[r].gen = g \/ retired[r][g] > 0
    BY Zenon DEF AdvertisedResolves, Has
  <2>1. advertised[r][g] \in Nat /\ retired[r][g] \in Nat
    BY LiveAssumption, SMTT(30) DEF TypeOK
  <2>2. current[r].gen # g => advertised[r][g] <= retired[r][g]
    BY Zenon DEF RetentionInv
  <2> HIDE DEF TypeOK, RetentionInv
  <2> QED
    BY <2>1, <2>2
<1> QED
  BY <1>1, <1>2, <1>3, PTL DEF Spec

=============================================================================
