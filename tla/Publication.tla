---------------------------- MODULE Publication ----------------------------
(***************************************************************************)
(* The current/ tree of one suite: GenerateSuite rewriting it in place     *)
(* file by file (internal/publish/publish.go, called by Syncer.Snapshot),  *)
(* gcByHash collecting the by-hash siblings it leaves behind               *)
(* (internal/syncer/cleanup.go), and an apt client that reads InRelease    *)
(* and then the indexes it lists (server.go).                              *)
(*                                                                         *)
(* The content of an index file is a number, new for every change, and     *)
(* stands for its digest too.  A sibling is "young" for gcGracePeriod      *)
(* after it was last written.                                              *)
(***************************************************************************)
EXTENDS Naturals, FiniteSets

CONSTANTS Indexes,     \* the Packages and Sources files of the suite
          MaxContent,  \* bound on the contents of one index
          RatioFiles,  \* minFilesForRatioCheck
          MaxFaults    \* bound on the faults of one behaviour

Content == 1 .. MaxContent
None == 0
Listing == [Indexes -> Content \union {None}]
Nothing == [i \in Indexes |-> None]
Siblings == Indexes \X Content

VARIABLES
    plain,      \* content of each index under its own name
    sibling,    \* age of each by-hash sibling
    release,    \* what Release lists
    inrelease,  \* what InRelease lists
    pub,        \* the running GenerateSuite
    gc,         \* the running gcByHash
    op,         \* holder of the operation lock
    client,
    seen        \* faults that have happened

tree == <<plain, sibling, release, inrelease>>
vars == <<tree, pub, gc, op, client, seen>>

NoPub == [pc |-> "idle", files |-> Nothing, todo |-> {}, at |-> "none"]
NoGc == [pc |-> "idle", refs |-> {}, todo |-> {}]
NoClient == [pc |-> "idle", lists |-> Nothing, todo |-> {}, swept |-> FALSE]

\* The type of every variable.
TypeOK ==
    /\ plain \in Listing /\ release \in Listing /\ inrelease \in Listing
    /\ sibling \in [Siblings -> {"none", "young", "old"}]
    /\ pub \in [pc : {"idle", "plain", "sibling", "release", "sign"}, files : Listing,
                todo : SUBSET Indexes, at : Indexes \union {"none"}]
    /\ gc \in [pc : {"idle", "refs", "delete"}, refs : SUBSET Siblings, todo : SUBSET Siblings]
    /\ op \in {"free", "snapshot", "cleanup"}
    /\ client \in [pc : {"idle", "fetch"}, lists : Listing, todo : SUBSET Indexes, swept : BOOLEAN]
    /\ seen \subseteq {"write", "sign", "release", "delete"}

Fault(k) == Cardinality(seen) < MaxFaults /\ seen' = seen \union {k}
NoFault == seen' = seen

Init ==
    /\ plain = Nothing /\ release = Nothing /\ inrelease = Nothing
    /\ sibling = [s \in Siblings |-> "none"]
    /\ pub = NoPub /\ gc = NoGc /\ op = "free" /\ client = NoClient /\ seen = {}

-----------------------------------------------------------------------------
\* The content an index gets next: the same again, or a new one.
NextContent(i) == {c \in Content : c = plain[i] \/ c = plain[i] + 1}

\* Snapshot takes the operation lock and calls publishSuite for current/.
GenerateSuite ==
    /\ op = "free"
    /\ \E files \in Listing :
          /\ \A i \in Indexes : files[i] \in NextContent(i)
          /\ pub' = [pc |-> "plain", files |-> files, todo |-> Indexes, at |-> "none"]
    /\ op' = "snapshot"
    /\ UNCHANGED <<tree, gc, client, seen>>

\* Mutant of WriteSibling: a sibling is written only where none has been published.
WriteSiblingOnce ==
    /\ pub.pc = "sibling"
    /\ sibling' = IF release[pub.at] = None
                  THEN [sibling EXCEPT ![<<pub.at, pub.files[pub.at]>>] = "young"] ELSE sibling
    /\ pub' = [pub EXCEPT !.pc = IF pub.todo = {} THEN "release" ELSE "plain", !.at = "none"]
    /\ NoFault
    /\ UNCHANGED <<plain, release, inrelease, gc, op, client>>

\* A write that fails ends GenerateSuite and the Snapshot; so does a crash.
Abandon(k) == /\ Fault(k)
              /\ pub' = NoPub /\ op' = "free"
              /\ UNCHANGED <<tree, gc, client>>

\* An index file under its own name.
WriteIndex ==
    /\ pub.pc = "plain"
    /\ \/ /\ \E i \in pub.todo :
                /\ plain' = [plain EXCEPT ![i] = pub.files[i]]
                /\ pub' = [pub EXCEPT !.pc = "sibling", !.todo = @ \ {i}, !.at = i]
          /\ NoFault
          /\ UNCHANGED <<sibling, release, inrelease, gc, op, client>>
       \/ Abandon("write")

\* Its by-hash sibling.
WriteSibling ==
    /\ pub.pc = "sibling"
    /\ \/ /\ sibling' = [sibling EXCEPT ![<<pub.at, pub.files[pub.at]>>] = "young"]
          /\ pub' = [pub EXCEPT !.pc = IF pub.todo = {} THEN "release" ELSE "plain", !.at = "none"]
          /\ NoFault
          /\ UNCHANGED <<plain, release, inrelease, gc, op, client>>
       \/ Abandon("write")

\* Mutant of BuildRelease: the siblings that the new Release does not list go at once.
BuildReleasePrunes ==
    /\ pub.pc = "release"
    /\ release' = pub.files
    /\ sibling' = [s \in Siblings |-> IF s[2] = pub.files[s[1]] THEN sibling[s] ELSE "none"]
    /\ pub' = [pub EXCEPT !.pc = "sign"]
    /\ NoFault
    /\ UNCHANGED <<plain, inrelease, gc, op, client>>

\* buildRelease lists every file written, and Release is written.
BuildRelease ==
    /\ pub.pc = "release"
    /\ \/ /\ release' = pub.files
          /\ pub' = [pub EXCEPT !.pc = "sign"]
          /\ NoFault
          /\ UNCHANGED <<plain, sibling, inrelease, gc, op, client>>
       \/ Abandon("write")

\* The signatures, InRelease and the end of the snapshot.
SignInRelease ==
    /\ pub.pc = "sign"
    /\ \/ /\ inrelease' = pub.files
          /\ pub' = NoPub /\ op' = "free"
          /\ NoFault
          /\ UNCHANGED <<plain, sibling, release, gc, client>>
       \/ Abandon("sign")

Publish == WriteIndex \/ WriteSibling \/ BuildRelease \/ SignInRelease

-----------------------------------------------------------------------------

\* addByHashRefsFromRelease: the sibling of every file the Release lists.
AddByHashRefsFromRelease(r) == {<<i, r[i]>> : i \in Indexes} \intersect Siblings

CleanupStart ==
    /\ op = "free"
    /\ op' = "cleanup" /\ gc' = [NoGc EXCEPT !.pc = "refs"]
    /\ UNCHANGED <<tree, pub, client, seen>>

\* buildByHashRefSet.  A Release that cannot be opened or parsed is only logged.
BuildByHashRefSet ==
    /\ gc.pc = "refs"
    /\ \/ gc' = [gc EXCEPT !.pc = "delete", !.refs = AddByHashRefsFromRelease(release)] /\ NoFault
       \/ gc' = [gc EXCEPT !.pc = "delete"] /\ Fault("release")
    /\ UNCHANGED <<tree, pub, op, client>>

CheckOrphanRatio(total, orphaned) == total >= RatioFiles /\ 2 * orphaned > total

\* gcByHash lists current/ and deletes the orphans past the grace period, unless there
\* are too many; a deletion that fails is only logged.
GcByHash ==
    LET present == {s \in Siblings : sibling[s] # "none"}
        orphans == present \ gc.refs
        doomed == IF CheckOrphanRatio(Cardinality(present), Cardinality(orphans)) THEN {}
                  ELSE {s \in orphans : sibling[s] = "old"}
    IN  /\ gc.pc = "delete"
        /\ \E kept \in SUBSET doomed :
              /\ IF kept = {} THEN NoFault ELSE Fault("delete")
              /\ sibling' = [s \in Siblings |-> IF s \in doomed \ kept THEN "none" ELSE sibling[s]]
              /\ client' = [client EXCEPT !.swept = @ \/ (client.pc = "fetch" /\ doomed # kept)]
        /\ gc' = NoGc /\ op' = "free"
        /\ UNCHANGED <<plain, release, inrelease, pub>>

GraceEnds ==
    /\ op # "cleanup"
    /\ sibling' = [s \in Siblings |-> IF sibling[s] = "young" THEN "old" ELSE sibling[s]]
    /\ UNCHANGED <<plain, release, inrelease, pub, gc, op, client, seen>>

-----------------------------------------------------------------------------
\* servePublished answers a client with the InRelease of the moment.
ReadInRelease ==
    /\ client.pc = "idle" /\ inrelease # Nothing
    /\ client' = [pc |-> "fetch", lists |-> inrelease, todo |-> Indexes, swept |-> FALSE]
    /\ UNCHANGED <<tree, pub, gc, op, seen>>

\* Can the client still get the content that its InRelease lists for an index: by hash,
\* or by falling back to the plain name.
Served(i, c) == sibling[<<i, c>>] # "none" \/ plain[i] = c

\* The client fetches an index, and gives up when it cannot.
FetchIndex ==
    /\ client.pc = "fetch"
    /\ \E i \in client.todo :
          client' = IF client.todo = {i} \/ ~Served(i, client.lists[i]) THEN NoClient
                    ELSE [client EXCEPT !.todo = @ \ {i}]
    /\ UNCHANGED <<tree, pub, gc, op, seen>>

Next == \/ GenerateSuite \/ Publish
        \/ CleanupStart \/ BuildByHashRefSet \/ GcByHash \/ GraceEnds
        \/ ReadInRelease \/ FetchIndex

Spec == Init /\ [][Next]_vars

-----------------------------------------------------------------------------
\* Whenever Release and InRelease agree, every index they list has its by-hash sibling:
\* GenerateSuite writes the siblings before the Release that lists them and gcByHash
\* keeps them, whatever write failed half way.  Excepted is a cleanup that could not
\* read Release.
CurrentServed ==
    "release" \notin seen /\ release = inrelease /\ release # Nothing
        => \A i \in Indexes : sibling[<<i, release[i]>>] # "none"

\* A republication never breaks a client that has read InRelease, at whatever point it
\* falls into the client's fetches, if no cleanup deletes siblings meanwhile and no
\* earlier one worked from a Release that InRelease does not match.
RepublishSafe ==
    client.pc = "fetch" /\ ~client.swept /\ seen \intersect {"sign", "release"} = {}
        => \A i \in client.todo : Served(i, client.lists[i])

\* Publication is safe: its types, and what writeRelease and the collection of by-hash files
\* keep for clients, together.
PublicationSafe == TypeOK /\ CurrentServed /\ RepublishSafe

=============================================================================
