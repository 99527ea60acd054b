---------------------------- MODULE ViewsProofs ----------------------------
(***************************************************************************)
(* Proofs about Publication for any number of indexes, contents and        *)
(* faults: what Release lists is there by hash, and a republication does   *)
(* not break a client.  They rest on the order of the writes (siblings     *)
(* before Release, Release before InRelease) and on the operation lock.    *)
(*                                                                         *)
(* Then proofs about LogWriter, an instance with variables of its own, for *)
(* any queue and batch: no record disappears uncounted, and Close flushes. *)
(***************************************************************************)
EXTENDS Publication, FiniteSetTheorems, SequenceTheorems, TLAPS

CONSTANTS Queue, BatchSize, MaxWrites
VARIABLES ch, writes, dropped, logLost, reported, announced, buf, notice, out, logPc, stop,
          before, draining

Log == INSTANCE LogWriter WITH lost <- logLost, pc <- logPc

-----------------------------------------------------------------------------
(* The tree of a suite *)

Has(r) == \A i \in Indexes : sibling[<<i, r[i]>>] # "none"
Full(r) == \A i \in Indexes : r[i] \in Content

\* A snapshot and a cleanup exclude each other.
OpInv ==
    /\ pub.pc # "idle" => op = "snapshot"
    /\ gc.pc # "idle" => op = "cleanup"

\* A Release that has been written lists every index, and so does what is being written.
FullInv ==
    /\ release # Nothing => Full(release)
    /\ inrelease # Nothing => Full(inrelease)
    /\ pub.pc # "idle" => Full(pub.files)
    /\ pub.pc = "sibling" => pub.at \in Indexes
    /\ client.pc = "fetch" => Full(client.lists)

\* The siblings that GenerateSuite has written are there.
Written == CASE pub.pc = "plain" -> Indexes \ pub.todo
             [] pub.pc = "sibling" -> Indexes \ (pub.todo \union {pub.at})
             [] pub.pc \in {"release", "sign"} -> Indexes
             [] OTHER -> {}
WrittenInv == \A i \in Written : sibling[<<i, pub.files[i]>>] # "none"

\* Release and InRelease are the same but between the two writes, or after a signature
\* that failed; the one being signed is the one that has been written.
AgreeInv ==
    /\ "sign" \notin seen => release = inrelease \/ pub.pc = "sign"
    /\ pub.pc = "sign" => release = pub.files

\* The collector works from what Release lists.
RefsInv == gc.pc = "delete" /\ "release" \notin seen => gc.refs = AddByHashRefsFromRelease(release)

\* What Release lists is there; what InRelease, or a client's copy of it, lists is there
\* as long as no signature failed and no sibling was deleted under the client.
ServedInv ==
    /\ "release" \notin seen /\ release # Nothing => Has(release)
    /\ seen \intersect {"sign", "release"} = {} =>
          /\ inrelease # Nothing => Has(inrelease)
          /\ client.pc = "fetch" /\ ~client.swept => Has(client.lists)

PubInv == TypeOK /\ OpInv /\ FullInv /\ WrittenInv /\ AgreeInv /\ RefsInv /\ ServedInv

-----------------------------------------------------------------------------
\* What an abandoned publication changes.
LEMMA AbandonStep ==
    ASSUME PubInv, NEW k \in {"write", "sign"}, pub.pc # "idle", k = "sign" \/ pub.pc # "sign", Abandon(k)
    PROVE  PubInv'
<1> USE DEF Abandon, Fault, NoPub, tree
<1>1. TypeOK'
  <2>1. pub' \in [pc : {"idle", "plain", "sibling", "release", "sign"}, files : Listing,
                  todo : SUBSET Indexes, at : Indexes \union {"none"}]
    BY Zenon DEF Listing, Nothing
  <2> QED
    BY Zenon, <2>1 DEF PubInv, TypeOK
<1>2. OpInv' /\ FullInv' /\ WrittenInv'
  BY Zenon DEF PubInv, OpInv, FullInv, Full, WrittenInv, Written
<1>3. AgreeInv' /\ RefsInv'
  BY Zenon DEF PubInv, AgreeInv, RefsInv, OpInv
<1>4. ServedInv'
  BY Zenon DEF PubInv, ServedInv, Has
<1> QED
  BY Zenon, <1>1, <1>2, <1>3, <1>4 DEF PubInv

\* A publication's own writes.
LEMMA PublishStep ==
    ASSUME PubInv, Publish
    PROVE  PubInv'
<1>0. TypeOK /\ OpInv /\ FullInv /\ WrittenInv /\ AgreeInv /\ RefsInv /\ ServedInv
  BY Zenon DEF PubInv
<1>1. CASE /\ pub.pc = "plain" /\ NoFault
           /\ \E i \in pub.todo :
                /\ plain' = [plain EXCEPT ![i] = pub.files[i]]
                /\ pub' = [pub EXCEPT !.pc = "sibling", !.todo = @ \ {i}, !.at = i]
           /\ UNCHANGED <<sibling, release, inrelease, gc, op, client>>
  <2> PICK i \in pub.todo : /\ plain' = [plain EXCEPT ![i] = pub.files[i]]
                            /\ pub' = [pub EXCEPT !.pc = "sibling", !.todo = @ \ {i}, !.at = i]
    BY Zenon, <1>1
  <2>1. TypeOK'
    BY Zenon, <1>0, <1>1 DEF TypeOK, NoFault, Listing
  <2>2. /\ pub'.pc = "sibling" /\ pub'.files = pub.files
        /\ pub'.todo = pub.todo \ {i} /\ pub'.at = i /\ i \in Indexes
    BY Zenon, <1>0 DEF TypeOK
  <2>3. OpInv' /\ FullInv'
    BY Zenon, <1>0, <1>1, <2>2 DEF OpInv, FullInv, Full
  <2>4. WrittenInv'
    BY <1>0, <1>1, <2>2 DEF WrittenInv, Written
  <2>5. AgreeInv' /\ RefsInv' /\ ServedInv'
    BY Zenon, <1>0, <1>1, <2>2 DEF AgreeInv, RefsInv, ServedInv, Has, NoFault
  <2> QED
    BY Zenon, <2>1, <2>3, <2>4, <2>5 DEF PubInv
<1>2. CASE /\ pub.pc = "sibling" /\ NoFault
           /\ sibling' = [sibling EXCEPT ![<<pub.at, pub.files[pub.at]>>] = "young"]
           /\ pub' = [pub EXCEPT !.pc = IF pub.todo = {} THEN "release" ELSE "plain", !.at = "none"]
           /\ UNCHANGED <<plain, release, inrelease, gc, op, client>>
  <2>1. TypeOK'
    BY Zenon, <1>0, <1>2 DEF TypeOK, NoFault
  <2>2. /\ pub'.pc = (IF pub.todo = {} THEN "release" ELSE "plain")
        /\ pub'.files = pub.files /\ pub'.todo = pub.todo
    BY Zenon, <1>0, <1>2 DEF TypeOK
  <2>3. OpInv' /\ FullInv'
    BY <1>0, <1>2, <2>2 DEF OpInv, FullInv, Full
  <2>4. /\ <<pub.at, pub.files[pub.at]>> \in Siblings
        /\ sibling'[<<pub.at, pub.files[pub.at]>>] = "young"
        /\ \A s : sibling[s] # "none" => sibling'[s] # "none"
    <3>1. <<pub.at, pub.files[pub.at]>> \in Siblings
      BY Zenon, <1>0, <1>2 DEF FullInv, Full, Siblings
    <3> QED
      BY <3>1, <1>0, <1>2 DEF TypeOK
  <2>5. WrittenInv'
    BY <1>0, <1>2, <2>2, <2>4 DEF WrittenInv, Written
  <2>6. AgreeInv' /\ RefsInv'
    BY <1>0, <1>2, <2>2 DEF AgreeInv, RefsInv, NoFault
  <2>7. ServedInv'
    BY Zenon, <1>0, <1>2, <2>4 DEF ServedInv, Has, NoFault
  <2> QED
    BY Zenon, <2>1, <2>3, <2>5, <2>6, <2>7 DEF PubInv
<1>3. CASE /\ pub.pc = "release" /\ NoFault
           /\ release' = pub.files
           /\ pub' = [pub EXCEPT !.pc = "sign"]
           /\ UNCHANGED <<plain, sibling, inrelease, gc, op, client>>
  <2>1. TypeOK'
    BY Zenon, <1>0, <1>3 DEF TypeOK, NoFault
  <2>2. pub'.pc = "sign" /\ pub'.files = pub.files
    BY Zenon, <1>0, <1>3 DEF TypeOK
  <2>3. OpInv' /\ FullInv' /\ WrittenInv'
    BY Zenon, <1>0, <1>3, <2>2 DEF OpInv, FullInv, Full, WrittenInv, Written
  <2>4. AgreeInv' /\ RefsInv'
    BY Zenon, <1>0, <1>3, <2>2 DEF AgreeInv, RefsInv, OpInv, NoFault
  <2>5. Has(pub.files)
    BY Zenon, <1>0, <1>3 DEF WrittenInv, Written, Has
  <2>6. ServedInv'
    BY Zenon, <1>0, <1>3, <2>5 DEF ServedInv, Has, NoFault
  <2> QED
    BY Zenon, <2>1, <2>3, <2>4, <2>6 DEF PubInv
<1>4. CASE /\ pub.pc = "sign" /\ NoFault
           /\ inrelease' = pub.files
           /\ pub' = NoPub /\ op' = "free"
           /\ UNCHANGED <<plain, sibling, release, gc, client>>
  <2>1. TypeOK'
    <3>1. pub' \in [pc : {"idle", "plain", "sibling", "release", "sign"}, files : Listing,
                    todo : SUBSET Indexes, at : Indexes \union {"none"}]
      BY Zenon, <1>4 DEF NoPub, Listing, Nothing
    <3> QED
      BY Zenon, <3>1, <1>0, <1>4 DEF TypeOK, NoFault
  <2>2. OpInv' /\ FullInv' /\ WrittenInv'
    BY Zenon, <1>0, <1>4 DEF OpInv, FullInv, Full, WrittenInv, Written, NoPub
  <2>3. AgreeInv' /\ RefsInv'
    BY Zenon, <1>0, <1>4 DEF AgreeInv, RefsInv, OpInv, NoFault, NoPub
  <2>4. Has(pub.files)
    BY Zenon, <1>0, <1>4 DEF WrittenInv, Written, Has
  <2>5. ServedInv'
    BY Zenon, <1>0, <1>4, <2>4 DEF ServedInv, Has, NoFault
  <2> QED
    BY <2>1, <2>2, <2>3, <2>5 DEF PubInv
<1>5. CASE \/ pub.pc \in {"plain", "sibling", "release"} /\ Abandon("write")
           \/ pub.pc = "sign" /\ Abandon("sign")
  BY Zenon, <1>5, AbandonStep
<1> QED
  BY Zenon, <1>1, <1>2, <1>3, <1>4, <1>5 DEF Publish, WriteIndex, WriteSibling, BuildRelease, SignInRelease

\* A step that neither writes nor deletes a file of the tree and leaves the two operations
\* where they are.
LEMMA ClientStep ==
    ASSUME PubInv, ReadInRelease \/ FetchIndex
    PROVE  PubInv'
<1>0. TypeOK /\ OpInv /\ FullInv /\ WrittenInv /\ AgreeInv /\ RefsInv /\ ServedInv
  BY Zenon DEF PubInv
<1>1. UNCHANGED <<plain, sibling, release, inrelease, pub, gc, op, seen>>
  BY Zenon DEF ReadInRelease, FetchIndex, tree
<1>2. /\ client' \in [pc : {"idle", "fetch"}, lists : Listing, todo : SUBSET Indexes, swept : BOOLEAN]
      /\ client'.pc = "fetch" =>
            \/ inrelease # Nothing /\ client'.lists = inrelease
            \/ /\ client.pc = "fetch" /\ client'.lists = client.lists
               /\ client'.swept = client.swept
  <2>1. CASE ReadInRelease
    BY Zenon, <1>0, <2>1 DEF ReadInRelease, TypeOK
  <2>2. CASE FetchIndex
    <3> PICK i \in client.todo : client' = IF client.todo = {i} \/ ~Served(i, client.lists[i]) THEN NoClient
                                           ELSE [client EXCEPT !.todo = @ \ {i}]
      BY Zenon, <2>2 DEF FetchIndex
    <3>1. CASE client' = NoClient
      BY <3>1 DEF NoClient, Listing, Nothing
    <3>2. CASE client' = [client EXCEPT !.todo = @ \ {i}]
      BY <1>0, <2>2, <3>2 DEF TypeOK, FetchIndex
    <3> QED
      BY Zenon, <3>1, <3>2
  <2> QED
    BY Zenon, <2>1, <2>2
<1>3. TypeOK'
  BY Zenon, <1>0, <1>1, <1>2 DEF TypeOK
<1>4. OpInv' /\ WrittenInv' /\ AgreeInv' /\ RefsInv'
  BY Zenon, <1>0, <1>1 DEF OpInv, WrittenInv, Written, AgreeInv, RefsInv
<1>5. FullInv'
  BY Zenon, <1>0, <1>1, <1>2 DEF FullInv, Full
<1>6. ServedInv'
  BY Zenon, <1>0, <1>1, <1>2 DEF ServedInv, Has
<1> QED
  BY Zenon, <1>3, <1>4, <1>5, <1>6 DEF PubInv

\* The two operations starting, and a sibling growing older.
LEMMA StartSteps ==
    ASSUME PubInv, GenerateSuite \/ CleanupStart \/ BuildByHashRefSet \/ GraceEnds
    PROVE  PubInv'
<1>0. TypeOK /\ OpInv /\ FullInv /\ WrittenInv /\ AgreeInv /\ RefsInv /\ ServedInv
  BY Zenon DEF PubInv
<1>1. CASE GenerateSuite
  <2> PICK files \in Listing :
          /\ \A i \in Indexes : files[i] \in NextContent(i)
          /\ pub' = [pc |-> "plain", files |-> files, todo |-> Indexes, at |-> "none"]
    BY Zenon, <1>1 DEF GenerateSuite
  <2>1. Full(files)
    BY Zenon DEF Full, NextContent
  <2>2. op = "free" /\ op' = "snapshot" /\ UNCHANGED <<plain, sibling, release, inrelease, gc, client, seen>>
    BY Zenon, <1>1 DEF GenerateSuite, tree
  <2>3. TypeOK'
    BY Zenon, <1>0, <2>2 DEF TypeOK
  <2>4. OpInv' /\ FullInv' /\ WrittenInv'
    BY Zenon, <1>0, <2>1, <2>2 DEF OpInv, FullInv, Full, WrittenInv, Written
  <2>5. AgreeInv' /\ RefsInv' /\ ServedInv'
    BY Zenon, <1>0, <2>2 DEF AgreeInv, RefsInv, ServedInv, Has, OpInv
  <2> QED
    BY Zenon, <2>3, <2>4, <2>5 DEF PubInv
<1>2. CASE CleanupStart \/ BuildByHashRefSet
  <2>1. /\ UNCHANGED <<plain, sibling, release, inrelease, pub, client>>
        /\ op' = "cleanup" /\ pub.pc = "idle"
    BY Zenon, <1>0, <1>2 DEF CleanupStart, BuildByHashRefSet, tree, OpInv, TypeOK
  <2>2. /\ seen' = seen \/ seen' = seen \union {"release"}
        /\ gc' \in [pc : {"idle", "refs", "delete"}, refs : SUBSET Siblings, todo : SUBSET Siblings]
        /\ gc'.pc = "delete" => "release" \in seen' \/ gc'.refs = AddByHashRefsFromRelease(release)
    <3>1. CASE CleanupStart
      BY Zenon, <3>1 DEF CleanupStart, NoGc
    <3>2. CASE gc' = [gc EXCEPT !.pc = "delete", !.refs = AddByHashRefsFromRelease(release)] /\ NoFault
      BY Zenon, <1>0, <3>2 DEF TypeOK, NoFault, AddByHashRefsFromRelease
    <3>3. CASE gc' = [gc EXCEPT !.pc = "delete"] /\ Fault("release")
      BY Zenon, <1>0, <3>3 DEF TypeOK, Fault
    <3> QED
      BY Zenon, <1>2, <3>1, <3>2, <3>3 DEF BuildByHashRefSet
  <2>3. TypeOK'
    BY Zenon, <1>0, <2>1, <2>2 DEF TypeOK
  <2>4. OpInv' /\ FullInv' /\ WrittenInv'
    BY Zenon, <1>0, <2>1 DEF OpInv, FullInv, Full, WrittenInv, Written
  <2>5. AgreeInv' /\ RefsInv' /\ ServedInv'
    BY Zenon, <1>0, <2>1, <2>2 DEF AgreeInv, RefsInv, ServedInv, Has
  <2> QED
    BY Zenon, <2>3, <2>4, <2>5 DEF PubInv
<1>3. CASE GraceEnds
  <2>1. /\ UNCHANGED <<plain, release, inrelease, pub, gc, op, client, seen>>
        /\ sibling' \in [Siblings -> {"none", "young", "old"}]
        /\ \A s \in Siblings : sibling[s] # "none" => sibling'[s] # "none"
    BY Zenon, <1>0, <1>3 DEF GraceEnds, TypeOK
  <2>2. TypeOK' /\ OpInv' /\ FullInv' /\ AgreeInv' /\ RefsInv'
    BY <1>0, <2>1 DEF TypeOK, OpInv, FullInv, Full, AgreeInv, RefsInv
  <2>3. \A r : Full(r) /\ Has(r) => Has(r)'
    BY Zenon, <2>1 DEF Full, Has, Siblings
  <2>4. WrittenInv'
    BY Zenon, <1>0, <2>1 DEF WrittenInv, Written, FullInv, Full, Siblings, TypeOK
  <2>5. ServedInv'
    BY Zenon, <1>0, <2>1, <2>3 DEF ServedInv, FullInv
  <2> QED
    BY Zenon, <2>2, <2>4, <2>5 DEF PubInv
<1> QED
  BY Zenon, <1>1, <1>2, <1>3

\* The collector deletes nothing that Release lists, and marks the client whose sibling it
\* may have deleted.
LEMMA GcStep ==
    ASSUME PubInv, GcByHash
    PROVE  PubInv'
<1>0. TypeOK /\ OpInv /\ FullInv /\ WrittenInv /\ AgreeInv /\ RefsInv /\ ServedInv
  BY DEF PubInv
<1> DEFINE present == {s \in Siblings : sibling[s] # "none"}
           orphans == present \ gc.refs
           doomed == IF CheckOrphanRatio(Cardinality(present), Cardinality(orphans)) THEN {}
                     ELSE {s \in orphans : sibling[s] = "old"}
<1>1. PICK kept \in SUBSET doomed :
          /\ IF kept = {} THEN NoFault ELSE Fault("delete")
          /\ sibling' = [s \in Siblings |-> IF s \in doomed \ kept THEN "none" ELSE sibling[s]]
          /\ client' = [client EXCEPT !.swept = @ \/ (client.pc = "fetch" /\ doomed # kept)]
  BY Zenon DEF GcByHash
<1>2. doomed \intersect gc.refs = {}
  BY Zenon
<1> HIDE DEF doomed
<1>3. /\ gc.pc = "delete" /\ gc' = NoGc /\ op = "cleanup" /\ op' = "free" /\ pub.pc = "idle"
      /\ UNCHANGED <<plain, release, inrelease, pub>>
  BY Zenon, <1>0 DEF GcByHash, OpInv, TypeOK
<1>4. seen' = seen \/ seen' = seen \union {"delete"}
  BY Zenon, <1>1 DEF NoFault, Fault
<1>5. client' \in [pc : {"idle", "fetch"}, lists : Listing, todo : SUBSET Indexes, swept : BOOLEAN]
  BY <1>0, <1>1, Zenon DEF TypeOK
<1>6. /\ client'.pc = client.pc /\ client'.lists = client.lists
      /\ client'.pc = "fetch" /\ ~client'.swept => ~client.swept /\ doomed = kept
  BY Zenon, <1>0, <1>1 DEF TypeOK
<1>7. TypeOK'
  <2>1. gc' \in [pc : {"idle", "refs", "delete"}, refs : SUBSET Siblings, todo : SUBSET Siblings]
    BY Zenon, <1>3 DEF NoGc
  <2>2. sibling' \in [Siblings -> {"none", "young", "old"}]
    BY Zenon, <1>0, <1>1 DEF TypeOK
  <2> QED
    BY Zenon, <1>0, <1>3, <1>4, <1>5, <2>1, <2>2 DEF TypeOK
<1>8. OpInv' /\ FullInv' /\ WrittenInv'
  BY Zenon, <1>0, <1>3, <1>6 DEF OpInv, FullInv, Full, WrittenInv, Written, NoGc
<1>9. AgreeInv' /\ RefsInv'
  BY Zenon, <1>0, <1>3, <1>4 DEF AgreeInv, RefsInv, NoGc
<1>10. "release" \notin seen /\ release # Nothing => Has(release)'
  <2> SUFFICES ASSUME "release" \notin seen, release # Nothing, NEW i \in Indexes
               PROVE  sibling'[<<i, release[i]>>] # "none"
    BY Zenon, <1>3 DEF Has
  <2>1. <<i, release[i]>> \in Siblings /\ <<i, release[i]>> \in gc.refs
    BY Zenon, <1>0, <1>3 DEF FullInv, Full, Siblings, RefsInv, AddByHashRefsFromRelease
  <2>2. sibling[<<i, release[i]>>] # "none"
    BY Zenon, <1>0 DEF ServedInv, Has
  <2> QED
    BY Zenon, <1>1, <1>2, <2>1, <2>2
<1>11. ASSUME client'.pc = "fetch", ~client'.swept, seen \intersect {"sign", "release"} = {}
       PROVE  Has(client.lists)'
  <2> SUFFICES ASSUME NEW i \in Indexes
               PROVE  sibling'[<<i, client.lists[i]>>] # "none"
    BY Zenon, <1>6 DEF Has
  <2>1. <<i, client.lists[i]>> \in Siblings
    BY Zenon, <1>0, <1>6, <1>11 DEF FullInv, Full, Siblings
  <2>2. sibling[<<i, client.lists[i]>>] # "none"
    BY Zenon, <1>0, <1>6, <1>11 DEF ServedInv, Has
  <2> QED
    BY Zenon, <1>1, <1>6, <1>11, <2>1, <2>2
<1>12. ServedInv'
  <2>1. seen' \intersect {"sign", "release"} = {} => inrelease' = release
    BY Zenon, <1>0, <1>3, <1>4 DEF AgreeInv
  <2>2. ("release" \notin seen /\ release # Nothing => Has(release))'
    BY Zenon, <1>3, <1>4, <1>10
  <2>3. (seen \intersect {"sign", "release"} = {} /\ inrelease # Nothing => Has(inrelease))'
    BY Zenon, <1>3, <1>4, <1>10, <2>1 DEF Has
  <2>4. (seen \intersect {"sign", "release"} = {} /\ client.pc = "fetch" /\ ~client.swept => Has(client.lists))'
    BY Zenon, <1>4, <1>6, <1>11 DEF Has
  <2> QED
    BY Zenon, <2>2, <2>3, <2>4 DEF ServedInv
<1> QED
  BY Zenon, <1>7, <1>8, <1>9, <1>12 DEF PubInv

\* The invariant holds at the start, and every step keeps it.
LEMMA PubInvInductive == (Init => PubInv) /\ (PubInv /\ [Next]_vars => PubInv')
<1>1. ASSUME Init PROVE PubInv
  <2>1. TypeOK
    BY Zenon, <1>1 DEF Init, TypeOK, NoPub, NoGc, NoClient, Listing, Nothing
  <2>2. OpInv /\ FullInv /\ WrittenInv /\ AgreeInv /\ RefsInv /\ ServedInv
    BY Zenon, <1>1 DEF Init, OpInv, FullInv, WrittenInv, Written, AgreeInv, RefsInv, ServedInv,
                NoPub, NoGc, NoClient
  <2> QED
    BY Zenon, <2>1, <2>2 DEF PubInv
<1>2. ASSUME PubInv, UNCHANGED vars PROVE PubInv'
  BY <1>2 DEF vars, tree, PubInv, TypeOK, OpInv, FullInv, Full, WrittenInv, Written, AgreeInv,
              RefsInv, ServedInv, Has
<1> QED
  BY Zenon, <1>1, <1>2, PublishStep, ClientStep, StartSteps, GcStep DEF Next

\* What Release lists can be fetched by hash, unless Release could not be read by the
\* collector: for any number of indexes and of faults.
THEOREM CurrentIsServed == Spec => []CurrentServed
<1>1. PubInv => CurrentServed
  BY Zenon DEF PubInv, ServedInv, Has, CurrentServed
<1> QED
  BY <1>1, PubInvInductive, PTL DEF Spec

\* A client that has read InRelease gets every index it lists, however often the suite is
\* republished meanwhile, as long as no signature failed and nothing was collected under it.
THEOREM RepublicationIsSafe == Spec => []RepublishSafe
<1>1. PubInv => RepublishSafe
  BY Zenon DEF PubInv, TypeOK, ServedInv, Has, RepublishSafe, Served
<1> QED
  BY <1>1, PubInvInductive, PTL DEF Spec

\* Publication as a whole: its types, what Release lists by hash, and clients across a
\* republication, for any number of indexes, contents and faults.
THEOREM PublicationIsSafe == Spec => []PublicationSafe
<1>1. PubInv => TypeOK
  BY Zenon DEF PubInv
<1> QED
  BY <1>1, PubInvInductive, CurrentIsServed, RepublicationIsSafe, PTL DEF Spec, PublicationSafe

-----------------------------------------------------------------------------
(* The log writer: LogWriter, for any queue and batch *)

\* Where the brackets are in a concatenation does not matter.
LEMMA PipeBrackets ==
    ASSUME NEW o \in Seq(Nat), NEW p \in Seq(Nat), NEW e \in Seq(Nat)
    PROVE  o \o (p \o e) = (o \o p) \o e
BY SMTT(60), ConcatAssociative

\* A record moves from the channel to the batch, and the order of all the records stays.
LEMMA PipeMoves ==
    ASSUME NEW o \in Seq(Nat), NEW p \in Seq(Nat), NEW c \in Seq(Nat), c # <<>>
    PROVE  /\ Append(p, Head(c)) \in Seq(Nat) /\ Tail(c) \in Seq(Nat)
           /\ Len(Append(p, Head(c))) = Len(p) + 1 /\ Len(Tail(c)) = Len(c) - 1
           /\ (o \o Append(p, Head(c))) \o Tail(c) = (o \o p) \o c
<1> DEFINE e == <<Head(c)>>
<1>1. /\ Head(c) \in Nat /\ Tail(c) \in Seq(Nat) /\ Len(Tail(c)) = Len(c) - 1
      /\ c = e \o Tail(c) /\ e \in Seq(Nat)
  OBVIOUS
<1>2. /\ Append(p, Head(c)) = p \o e
      /\ Append(p, Head(c)) \in Seq(Nat) /\ Len(Append(p, Head(c))) = Len(p) + 1
  BY Zenon, <1>1, AppendIsConcat, AppendProperties
<1> HIDE DEF e
<1>3. o \o (p \o e) = (o \o p) \o e
  BY ZenonT(60), <1>1, PipeBrackets
<1>4. o \o p \in Seq(Nat)
  BY ConcatProperties
<1>5. ((o \o p) \o e) \o Tail(c) = (o \o p) \o (e \o Tail(c))
  BY ZenonT(60), <1>1, <1>4, PipeBrackets
<1> QED
  BY Zenon, <1>1, <1>2, <1>3, <1>5

\* The records of p are those up to w that are not among the lost ones, in order.
Kept(p, w, gone) ==
    /\ \A i \in 1 .. Len(p) - 1 : p[i] < p[i + 1]
    /\ {p[i] : i \in DOMAIN p} = (1 .. w) \ gone

\* The next record goes to the end, or is lost.
LEMMA NextKept ==
    ASSUME NEW p \in Seq(Nat), NEW w \in Nat, NEW gone, gone \subseteq 1 .. w, Kept(p, w, gone)
    PROVE  Kept(Append(p, w + 1), w + 1, gone) /\ Kept(p, w + 1, gone \union {w + 1})
<1> DEFINE q == Append(p, w + 1)
<1>1. /\ Len(q) = Len(p) + 1 /\ DOMAIN q = 1 .. Len(p) + 1 /\ DOMAIN p = 1 .. Len(p)
      /\ \A i \in 1 .. Len(p) : q[i] = p[i]
      /\ q[Len(p) + 1] = w + 1 /\ Len(p) \in Nat
  OBVIOUS
<1> HIDE DEF q
<1>2. \A i \in 1 .. Len(p) : p[i] \in 1 .. w /\ p[i] \notin gone
  BY Zenon, <1>1 DEF Kept
<1>3. \A i \in 1 .. Len(q) - 1 : q[i] < q[i + 1]
  BY <1>1, <1>2 DEF Kept
<1>4. {q[i] : i \in DOMAIN q} = {p[i] : i \in DOMAIN p} \union {w + 1}
  BY <1>1
<1>5. (1 .. w + 1) \ gone = ((1 .. w) \ gone) \union {w + 1}
  OBVIOUS
<1>6. (1 .. w + 1) \ (gone \union {w + 1}) = (1 .. w) \ gone
  OBVIOUS
<1>7. Kept(q, w + 1, gone)
  BY Zenon, <1>3, <1>4, <1>5 DEF Kept
<1>8. Kept(p, w + 1, gone \union {w + 1})
  BY Zenon, <1>6 DEF Kept
<1> QED
  BY Zenon, <1>7, <1>8 DEF q

\* The same count.
LEMMA CountIsCardinality ==
    ASSUME NEW S PROVE Log!Cardinality(S) = Cardinality(S)
BY DEF Log!Cardinality, Cardinality

\* The queue and the batches hold something.
LogSizes == Queue \in Nat /\ BatchSize \in Nat \ {0} /\ MaxWrites \in Nat

Pipe == (out \o buf) \o ch

\* What Close waits for: once its drain is under way, a batch that is empty when the drops
\* are announced leaves nothing behind of what was queued before, and tells of what was lost.
Drained ==
    draining /\ logPc \in {"write", "done"} =>
        /\ reported >= Cardinality(logLost \cap (1 .. before))
        /\ buf = <<>> => (1 .. before) \ logLost \subseteq {out[i] : i \in DOMAIN out}

LogInv ==
    /\ out \in Seq(Nat) /\ buf \in Seq(Nat) /\ ch \in Seq(Nat)
    /\ Len(ch) <= Queue /\ Len(buf) <= BatchSize
    /\ writes \in 0 .. MaxWrites /\ logLost \subseteq 1 .. writes
    /\ dropped \in Nat /\ dropped = Cardinality(logLost)
    /\ reported \in 0 .. dropped /\ announced \in Nat /\ notice \in Nat
    /\ announced + notice = reported
    /\ logPc \in {"select", "batch", "write", "done"} /\ stop \in BOOLEAN /\ draining \in BOOLEAN
    /\ logPc # "write" => notice = 0
    /\ logPc \in {"select", "done"} => buf = <<>>
    /\ draining => stop
    /\ logPc = "done" => draining
    /\ before \in Nat /\ before <= writes
    /\ Kept(Pipe, writes, logLost)
    /\ Drained

\* Sets of records are finite.
LEMMA LostFinite ==
    ASSUME NEW w \in Nat, NEW S, S \subseteq 1 .. w
    PROVE  IsFiniteSet(S) /\ Cardinality(S) \in Nat
<1>1. IsFiniteSet(1 .. w)
  BY FS_Interval
<1>2. IsFiniteSet(S)
  BY Zenon, <1>1, FS_Subset
<1> QED
  BY Zenon, <1>2, FS_CardinalityType

\* A Write enqueues its record or counts it as dropped.
LEMMA WriteKeeps ==
    ASSUME LogSizes, LogInv, Log!Write PROVE LogInv'
<1>u. UNCHANGED <<reported, announced, buf, notice, out, logPc, stop, before, draining>>
  BY Zenon DEF Log!Write
<1>w. writes' = writes + 1 /\ writes \in Nat /\ writes' \in 0 .. MaxWrites /\ before <= writes'
        /\ before \in Nat /\ writes + 1 \notin 1 .. before
  BY DEF Log!Write, LogInv, LogSizes
<1>p. out \o buf \in Seq(Nat) /\ Pipe \in Seq(Nat)
  BY ConcatProperties DEF LogInv, Pipe
<1>1. CASE Len(ch) < Queue /\ ch' = Append(ch, writes') /\ UNCHANGED <<dropped, logLost>>
  <2>1. ch' \in Seq(Nat) /\ Len(ch') <= Queue /\ logLost' \subseteq 1 .. writes'
    BY SMTT(30), <1>1, <1>w DEF LogInv, LogSizes
  <2>2. Pipe' = Append(Pipe, writes + 1)
    <3>1. ch' = ch \o <<writes + 1>> /\ <<writes + 1>> \in Seq(Nat) /\ ch \in Seq(Nat)
      BY SMTT(30), <1>1, <1>w, AppendIsConcat DEF LogInv
    <3>2. Append(Pipe, writes + 1) = Pipe \o <<writes + 1>>
      BY <1>p, <1>w, AppendIsConcat
    <3>3. (out \o buf) \o (ch \o <<writes + 1>>) = ((out \o buf) \o ch) \o <<writes + 1>>
      <4>1. ASSUME NEW o \in Seq(Nat), NEW e \in Seq(Nat)
            PROVE  o \o (ch \o e) = (o \o ch) \o e
        BY ZenonT(60), <3>1, PipeBrackets
      <4> QED
        BY Zenon, <1>p, <3>1, <4>1
    <3> QED
      BY Zenon, <1>u, <3>1, <3>2, <3>3 DEF Pipe
  <2>3. Kept(Pipe', writes', logLost')
    BY Zenon, <1>1, <1>p, <1>w, <2>2, NextKept DEF LogInv
  <2>4. Drained'
    BY Zenon, <1>u, <1>1 DEF LogInv, Drained
  <2> QED
    BY Zenon, <1>u, <1>w, <1>1, <2>1, <2>3, <2>4 DEF LogInv
<1>2. CASE dropped' = dropped + 1 /\ logLost' = logLost \union {writes'} /\ UNCHANGED ch
  <2>1. logLost' \subseteq 1 .. writes'
    BY SMTT(30), <1>2, <1>w DEF LogInv
  <2>2. writes + 1 \notin logLost /\ IsFiniteSet(logLost)
    <3>1. logLost \subseteq 1 .. writes
      BY Zenon DEF LogInv
    <3>2. writes + 1 \notin 1 .. writes
      BY <1>w
    <3> QED
      BY Zenon, <1>w, <3>1, <3>2, LostFinite
  <2>3. dropped' = Cardinality(logLost') /\ dropped' \in Nat /\ reported \in 0 .. dropped'
    <3>1. Cardinality(logLost') = Cardinality(logLost) + 1
      BY Zenon, <1>w, <1>2, <2>2, FS_AddElement
    <3> QED
      BY <1>2, <3>1 DEF LogInv
  <2>4. Pipe' = Pipe
    BY Zenon, <1>u, <1>2 DEF Pipe
  <2>5. Kept(Pipe', writes', logLost')
    BY Zenon, <1>2, <1>p, <1>w, <2>4, NextKept DEF LogInv
  <2>6. logLost' \cap (1 .. before) = logLost \cap (1 .. before)
    BY Zenon, <1>2, <1>w
  <2>7. Drained'
    BY Zenon, <1>u, <1>2, <2>6 DEF LogInv, Drained
  <2> QED
    BY Zenon, <1>u, <1>w, <1>2, <2>1, <2>3, <2>5, <2>7 DEF LogInv
<1> QED
  BY Zenon, <1>1, <1>2 DEF Log!Write

\* Close stops the writer.
LEMMA CloseKeeps ==
    ASSUME LogInv, Log!Close PROVE LogInv'
<1>1. UNCHANGED <<ch, writes, dropped, logLost, reported, announced, buf, notice, out, logPc, draining>>
        /\ ~stop /\ stop' = TRUE /\ before' = writes
  BY Zenon DEF Log!Close
<1>2. before' \in Nat /\ before' <= writes /\ ~draining
  BY <1>1 DEF LogInv
<1>3. Drained' /\ Pipe' = Pipe
  BY Zenon, <1>1, <1>2 DEF Drained, Pipe
<1> QED
  BY Zenon, <1>1, <1>2, <1>3 DEF LogInv

\* A record taken from the channel joins the batch.
LEMMA TakeKeeps ==
    ASSUME LogInv, ch # <<>>, buf' = Append(buf, Head(ch)), ch' = Tail(ch),
           Len(buf) < BatchSize, LogSizes,
           UNCHANGED <<writes, dropped, logLost, reported, announced, notice, out, stop, before, draining>>,
           logPc' = "batch", logPc \in {"select", "batch"}
    PROVE  LogInv'
<1>1. out \in Seq(Nat) /\ buf \in Seq(Nat) /\ ch \in Seq(Nat)
  BY Zenon DEF LogInv
<1>2. /\ buf' \in Seq(Nat) /\ ch' \in Seq(Nat) /\ Len(buf') = Len(buf) + 1 /\ Len(ch') = Len(ch) - 1
      /\ (out \o buf') \o ch' = (out \o buf) \o ch
  <2> DEFINE b == Append(buf, Head(ch))
             c == Tail(ch)
  <2>1. /\ b \in Seq(Nat) /\ c \in Seq(Nat) /\ Len(b) = Len(buf) + 1 /\ Len(c) = Len(ch) - 1
        /\ (out \o b) \o c = (out \o buf) \o ch
    <3> DEFINE Moves(o, p, d) ==
          /\ Append(p, Head(d)) \in Seq(Nat) /\ Tail(d) \in Seq(Nat)
          /\ Len(Append(p, Head(d))) = Len(p) + 1 /\ Len(Tail(d)) = Len(d) - 1
          /\ (o \o Append(p, Head(d))) \o Tail(d) = (o \o p) \o d
    <3>1. \A o, p, d \in Seq(Nat) : d # <<>> => Moves(o, p, d)
      BY Zenon, PipeMoves
    <3> HIDE DEF Moves
    <3>2. Moves(out, buf, ch)
      BY Zenon, <1>1, <3>1
    <3> QED
      BY Zenon, <3>2 DEF Moves
  <2>2. buf' = b /\ ch' = c
    BY Zenon
  <2> HIDE DEF b, c
  <2> QED
    BY Zenon, <2>1, <2>2
<1>3. Len(ch') <= Queue /\ Len(buf') <= BatchSize
  <2>1. Len(ch) \in Nat /\ Len(buf) \in Nat /\ Len(ch) <= Queue
    BY Zenon, <1>1, LenProperties DEF LogInv
  <2> QED
    BY <1>2, <2>1 DEF LogSizes
<1>4. Pipe' = Pipe
  BY Zenon, <1>2 DEF Pipe
<1>5. logPc' # "write" /\ logPc' # "select" /\ logPc' # "done" /\ logPc # "write"
  BY Zenon
<1>6. notice = 0 /\ Drained'
  BY Zenon, <1>5 DEF LogInv, Drained
<1> QED
  BY Zenon, <1>2, <1>3, <1>4, <1>5, <1>6 DEF LogInv

\* run takes the first record of a batch, or sees that Close was called.
LEMMA SelectKeeps ==
    ASSUME LogSizes, LogInv, Log!RunSelect PROVE LogInv'
<1>u. /\ logPc = "select" /\ logPc' = "batch"
      /\ UNCHANGED <<writes, dropped, logLost, reported, announced, notice, out, stop, before>>
  BY Zenon DEF Log!RunSelect
<1>e. buf = <<>>
  BY Zenon, <1>u DEF LogInv
<1>1. CASE ch # <<>> /\ buf' = <<Head(ch)>> /\ ch' = Tail(ch) /\ UNCHANGED draining
  <2>1. buf' = Append(buf, Head(ch)) /\ Len(buf) < BatchSize
    BY <1>1, <1>e DEF LogSizes
  <2> QED
    BY Zenon, <1>u, <1>1, <2>1, TakeKeeps
<1>2. CASE stop /\ buf' = <<>> /\ draining' = TRUE /\ UNCHANGED ch
  <2>1. buf' = buf /\ logPc' # "write" /\ logPc' # "select" /\ logPc' # "done" /\ logPc # "write"
    BY Zenon, <1>u, <1>e, <1>2
  <2>2. Pipe' = Pipe
    BY Zenon, <1>u, <1>2, <2>1 DEF Pipe
  <2>3. Drained' /\ notice = 0
    BY Zenon, <2>1 DEF Drained, LogInv
  <2> QED
    BY Zenon, <1>u, <1>2, <2>1, <2>2, <2>3 DEF LogInv
<1> QED
  BY Zenon, <1>1, <1>2 DEF Log!RunSelect

\* batch takes another record.
LEMMA BatchKeeps ==
    ASSUME LogSizes, LogInv, Log!Batch PROVE LogInv'
BY Zenon, TakeKeeps DEF Log!Batch

\* The drops are announced at the end of a batch that is full or has emptied the channel.
LEMMA AnnounceKeeps ==
    ASSUME LogSizes, LogInv, Log!AppendDropped PROVE LogInv'
<1>u. /\ logPc = "batch" /\ logPc' = "write"
      /\ Len(buf) >= BatchSize \/ ch = <<>>
      /\ notice' = dropped - reported /\ reported' = dropped
      /\ UNCHANGED <<ch, writes, dropped, logLost, announced, buf, out, stop, before, draining>>
  BY Zenon DEF Log!AppendDropped
<1>1. logPc # "write" /\ notice = 0
  BY Zenon, <1>u DEF LogInv
<1>2. notice' \in Nat /\ reported' \in 0 .. dropped /\ announced + notice' = reported'
  BY SMTT(30), <1>u, <1>1 DEF LogInv
<1>3. Pipe' = Pipe
  BY Zenon, <1>u DEF Pipe
<1>4. reported' >= Cardinality(logLost \cap (1 .. before))
  <2>1. writes \in Nat /\ logLost \subseteq 1 .. writes /\ dropped = Cardinality(logLost)
    BY DEF LogInv
  <2>2. IsFiniteSet(logLost) /\ Cardinality(logLost) \in Nat
    BY Zenon, <2>1, LostFinite
  <2>3. /\ Cardinality(logLost \cap (1 .. before)) \in Nat
        /\ Cardinality(logLost \cap (1 .. before)) <= Cardinality(logLost)
    <3>1. logLost \cap (1 .. before) \subseteq logLost
      BY Zenon
    <3>2. IsFiniteSet(logLost \cap (1 .. before))
      BY Zenon, <2>2, <3>1, FS_Subset
    <3> QED
      BY Zenon, <2>2, <3>1, <3>2, FS_Subset, FS_CardinalityType
  <2> QED
    BY <1>u, <2>1, <2>2, <2>3
<1>5. buf = <<>> => (1 .. before) \ logLost \subseteq {out[i] : i \in DOMAIN out}
  <2> SUFFICES ASSUME buf = <<>> PROVE (1 .. before) \ logLost \subseteq {out[i] : i \in DOMAIN out}
    BY Zenon
  <2>1. ch = <<>>
    BY <1>u DEF LogSizes
  <2>2. Pipe = out
    BY <2>1, ConcatEmptySeq DEF Pipe, LogInv
  <2>3. {out[i] : i \in DOMAIN out} = (1 .. writes) \ logLost
    BY Zenon, <2>2 DEF LogInv, Kept
  <2>4. 1 .. before \subseteq 1 .. writes
    BY DEF LogInv
  <2> QED
    BY Zenon, <2>3, <2>4
<1>6. Drained'
  BY Zenon, <1>u, <1>4, <1>5 DEF Drained
<1>7. logPc' # "select" /\ logPc' # "done"
  BY Zenon, <1>u
<1> QED
  BY Zenon, <1>u, <1>2, <1>3, <1>6, <1>7 DEF LogInv

\* The batch is written; an empty one ends the drain.
LEMMA FlushKeeps ==
    ASSUME LogSizes, LogInv, Log!RunWrite PROVE LogInv'
<1>u. /\ logPc = "write" /\ out' = out \o buf /\ announced' = announced + notice
      /\ logPc' = IF ~draining THEN "select"
                  ELSE IF buf = <<>> /\ notice = 0 THEN "done" ELSE "batch"
      /\ buf' = <<>> /\ notice' = 0
      /\ UNCHANGED <<ch, writes, dropped, logLost, reported, stop, before, draining>>
  BY Zenon DEF Log!RunWrite
<1>1. out' \in Seq(Nat) /\ buf' \in Seq(Nat) /\ Len(buf') <= BatchSize
  BY <1>u, ConcatProperties DEF LogInv, LogSizes
<1>2. Pipe' = Pipe
  BY <1>1, <1>u, ConcatEmptySeq DEF Pipe
<1>3. announced' \in Nat /\ notice' \in Nat /\ announced' + notice' = reported
  BY <1>u DEF LogInv
<1>4. logPc' \in {"select", "batch", "done"}
  BY Zenon, <1>u
<1>5. Drained'
  <2> SUFFICES ASSUME draining', logPc' \in {"write", "done"}
      PROVE /\ reported' >= Cardinality(logLost' \cap (1 .. before'))
            /\ (1 .. before') \ logLost' \subseteq {out'[i] : i \in DOMAIN out'}
    BY Zenon DEF Drained
  <2>1. draining /\ buf = <<>>
    BY Zenon, <1>u
  <2>2. out' = out
    BY <1>u, <2>1, ConcatEmptySeq DEF LogInv
  <2> QED
    BY Zenon, <1>u, <2>1, <2>2 DEF LogInv, Drained
<1>6. logPc' # "write"
  BY Zenon, <1>4
<1> QED
  BY Zenon, <1>u, <1>1, <1>2, <1>3, <1>4, <1>5, <1>6 DEF LogInv

\* The invariant says what is promised of the records.
LEMMA LogPromises ==
    ASSUME LogSizes, LogInv PROVE Log!TypeOK /\ Log!RecordsAccounted /\ Log!CloseFlushes
<1>1. Log!TypeOK
  <2>1. notice \in 0 .. dropped
    BY DEF LogInv
  <2>2. {stop, draining} \subseteq BOOLEAN
    BY Zenon DEF LogInv
  <2> QED
    BY Zenon, <2>1, <2>2, CountIsCardinality DEF LogInv, Log!TypeOK
<1>2. Log!RecordsAccounted
  BY Zenon DEF LogInv, Kept, Pipe, Log!RecordsAccounted
<1>3. Log!CloseFlushes
  <2> SUFFICES ASSUME logPc = "done" PROVE
        /\ (1 .. before) \ logLost \subseteq {out[i] : i \in DOMAIN out}
        /\ announced >= Cardinality(logLost \cap (1 .. before))
    BY Zenon, CountIsCardinality DEF Log!CloseFlushes
  <2>d. draining
    BY Zenon DEF LogInv
  <2>1. logPc # "write" /\ buf = <<>> /\ notice = 0
    BY Zenon DEF LogInv
  <2>2. /\ reported >= Cardinality(logLost \cap (1 .. before))
        /\ (1 .. before) \ logLost \subseteq {out[i] : i \in DOMAIN out}
    BY Zenon, <2>1, <2>d DEF LogInv, Drained
  <2>3. announced = reported
    BY <2>1 DEF LogInv
  <2> QED
    BY Zenon, <2>2, <2>3
<1> QED
  BY Zenon, <1>1, <1>2, <1>3

\* The writer starts with nothing.
LEMMA LogStarts ==
    ASSUME LogSizes, Log!Init PROVE LogInv
<1>1. /\ ch = <<>> /\ writes = 0 /\ dropped = 0 /\ logLost = {} /\ reported = 0 /\ announced = 0
      /\ buf = <<>> /\ notice = 0 /\ out = <<>> /\ logPc = "select"
      /\ stop = FALSE /\ before = 0 /\ draining = FALSE
  BY Zenon DEF Log!Init
<1>2. Pipe = <<>>
  BY <1>1, ConcatEmptySeq DEF Pipe
<1>3. Kept(<<>>, 0, {})
  BY DEF Kept
<1>4. Cardinality(logLost) = 0
  BY Zenon, <1>1, FS_EmptySet
<1>5. Drained
  BY Zenon, <1>1 DEF Drained
<1> QED
  <2>1. /\ out \in Seq(Nat) /\ buf \in Seq(Nat) /\ ch \in Seq(Nat)
        /\ Len(ch) <= Queue /\ Len(buf) <= BatchSize
    BY <1>1 DEF LogSizes
  <2>2. /\ writes \in 0 .. MaxWrites /\ logLost \subseteq 1 .. writes
        /\ dropped \in Nat /\ reported \in 0 .. dropped /\ announced \in Nat /\ notice \in Nat
        /\ announced + notice = reported /\ before \in Nat /\ before <= writes
    BY <1>1 DEF LogSizes
  <2> QED
    BY Zenon, <1>1, <1>2, <1>3, <1>4, <1>5, <2>1, <2>2 DEF LogInv

\* Every record given to Write is in the output, the batch or the channel, in order and once,
\* or is counted as dropped, and the drops are announced once each; when Close returns, all
\* that was queued before is in the output and all that was dropped before is announced.
THEOREM RecordsAreAccountedFor ==
    ASSUME LogSizes
    PROVE  Log!Spec => [](Log!TypeOK /\ Log!RecordsAccounted /\ Log!CloseFlushes)
<1>1. Log!Init => LogInv
  BY Zenon, LogStarts
<1>2. LogInv /\ [Log!Next]_Log!vars => LogInv'
  <2> SUFFICES ASSUME LogInv, [Log!Next]_Log!vars PROVE LogInv'
    BY Zenon
  <2>1. CASE Log!Next
    BY Zenon, <2>1, WriteKeeps, CloseKeeps, SelectKeeps, BatchKeeps, AnnounceKeeps, FlushKeeps
       DEF Log!Next
  <2>2. CASE UNCHANGED Log!vars
    BY Zenon, <2>2 DEF Log!vars, LogInv, Pipe, Drained
  <2> QED
    BY Zenon, <2>1, <2>2
<1>3. LogInv => Log!TypeOK /\ Log!RecordsAccounted /\ Log!CloseFlushes
  BY Zenon, LogPromises
<1> QED
  BY <1>1, <1>2, <1>3, PTL DEF Log!Spec

=============================================================================
