------------------------------ MODULE MCViews -------------------------------
(***************************************************************************)
(* What clients are served and what it is computed from, for TLC: the      *)
(* published tree (with variables of its own), the file cache with two     *)
(* readers and with one of files that may be too big to cache, the         *)
(* upstream index cache shared by two replicas and the private one of a    *)
(* replica that meets two faults, the source files under faults, PDiffs,   *)
(* the merge of upstreams, the comparison of versions and the log writer.  *)
(* A behaviour is one of one of these parts; all but the first share the   *)
(* variables y1 to y13.                                                    *)
(***************************************************************************)
EXTENDS Publication, SequencesExt, Integers

CONSTANTS u1, u2  \* two replicas or readers that differ in nothing but their identity

VARIABLES part, y1, y2, y3, y4, y5, y6, y7, y8, y9, y10, y11, y12, y13

\* The variables after the third, seventh, ninth and eleventh.
after11 == <<y12, y13>>
after9 == <<y10, y11, after11>>
after7 == <<y8, y9, after9>>
after3 == <<y4, y5, y6, y7, after7>>
ys == <<y1, y2, y3, after3>>
all == <<part, vars, ys>>

Twins == {u1, u2}
Symmetry == Permutations(Twins)

Cache == INSTANCE FileCache WITH
    Paths <- {"current", "pool"}, Current <- {"current"}, Readers <- Twins,
    MaxVersion <- 2, MaxBytes <- 3, MaxEntryBytes <- 2, MaxFaults <- 1,
    file <- y1, order <- y2, curBytes <- y3, reader <- y4, writer <- y5, notice <- y6,
    seen <- y7
Big == INSTANCE FileCache WITH
    Paths <- {"current", "pool"}, Current <- {"current"}, Readers <- {u1},
    MaxVersion <- 3, MaxBytes <- 3, MaxEntryBytes <- 2, MaxFaults <- 1,
    file <- y1, order <- y2, curBytes <- y3, reader <- y4, writer <- y5, notice <- y6,
    seen <- y7

\* One architecture, whose only package the mirror replaces.
Replaced == <<[amd64 |-> {"p1"}], [amd64 |-> {"p2"}]>>
Pair == INSTANCE UpstreamIndex WITH
    Replicas <- Twins, Archs <- {"amd64"}, Pkgs <- {"p1", "p2"}, Index <- Replaced,
    SrcsOf <- <<0, 0>>, MaxFaults <- 0, MaxRounds <- 2, ByHash <- TRUE,
    shared <- y1, mirror <- y2, meta <- y3, members <- y4, stored <- y5, vsrcs <- y6,
    flag <- y7, lock <- y8, local <- y9, b <- y10, view <- y11, rounds <- y12, seen <- y13
Lone == INSTANCE UpstreamIndex WITH
    Replicas <- {"r1"}, Archs <- {"amd64"}, Pkgs <- {"p1", "p2"}, Index <- Replaced,
    SrcsOf <- <<1, 2>>, MaxFaults <- 2, MaxRounds <- 2, ByHash <- FALSE,
    shared <- y1, mirror <- y2, meta <- y3, members <- y4, stored <- y5, vsrcs <- y6,
    flag <- y7, lock <- y8, local <- y9, b <- y10, view <- y11, rounds <- y12, seen <- y13

Source == INSTANCE SourceLifecycle WITH
    MaxVersion <- 2, FilesOf <- <<{"orig", "dsc"}, {"orig"}>>, SameRoot <- TRUE,
    RatioFiles <- 2, MaxFaults <- 1,
    stored <- y1, flag <- y2, first <- y3, exists <- y4, offered <- y5, current <- y6,
    work <- y7, clean <- y8, seen <- y9

\* The texts a script adds: a stanza, one with a blank line after it, a continuation
\* line, a line that is no field.
Patch == INSTANCE PDiff WITH
    Stanzas <- {<<"p">>, <<"p", "v">>}, Texts <- {<<"q">>, <<"q", "">>, <<"+">>, <<"q", "!">>},
    Continued <- {"+"}, Junk <- {"!"}, MaxOps <- 2, MaxVersions <- 2,
    kind <- y1, hist <- y2, patches <- y3, pc <- y4, cached <- y5, target <- y6, chain <- y7,
    ops <- y8, li <- y9, items <- y10, fault <- y11

Stanza(n, v, a) == [name |-> n, version |-> v, arch |-> a]
Merge == INSTANCE AvailMerge WITH
    Jobs <- {1, 2}, Components <- {"main", "extra"}, Binary <- {"amd64"},
    Files <- {<<Stanza("n", 1, ""), Stanza("m", 1, "all")>>,
              <<Stanza("n", 1, ""), Stanza("n", 2, "")>>},
    Depends <- [n |-> <<<<"k", "m">>, <<"n">>>>, m |-> <<<<"n">>, <<"k">>>>, k |-> <<>>],
    component <- y1, results <- y2, srcRaws <- y3, running <- y4, entries <- y5, av <- y6,
    phase <- y7, queue <- y8, resolved <- y9

Compare == INSTANCE DebVersion WITH
    Versions <- BoundedSeq({"~", "+", "0", "1", "-", ":", "a"}, 2)
                  \union BoundedSeq({"~", "0", "1", "-"}, 3),
    a <- y1, b <- y2, result <- y3

Log == INSTANCE LogWriter WITH
    Queue <- 3, BatchSize <- 2, MaxWrites <- 6,
    ch <- y1, writes <- y2, dropped <- y3, lost <- y4, reported <- y5, announced <- y6,
    buf <- y7, notice <- y8, out <- y9, pc <- y10, stop <- y11, before <- y12, draining <- y13

Blank11 == y12 = 0 /\ y13 = 0
Blank9 == y10 = 0 /\ y11 = 0 /\ Blank11
Blank7 == y8 = 0 /\ y9 = 0 /\ Blank9
Blank3 == y4 = 0 /\ y5 = 0 /\ y6 = 0 /\ y7 = 0 /\ Blank7
Blank == y1 = 0 /\ y2 = 0 /\ y3 = 0 /\ Blank3

ViewsInit ==
    /\ Init
    /\ \/ part = "publish" /\ Blank
       \/ part = "cache" /\ Cache!Init /\ Blank7
       \/ part = "big" /\ Big!Init /\ Blank7
       \/ part = "pair" /\ Pair!Init /\ y1 = TRUE
       \/ part = "lone" /\ Lone!Init /\ y1 = FALSE
       \/ part = "source" /\ Source!Init /\ Blank9
       \/ part = "patch" /\ Patch!Init /\ Blank11
       \/ part = "merge" /\ Merge!Init /\ Blank9
       \/ part = "compare" /\ Compare!Init /\ Blank3
       \/ part = "log" /\ Log!Init

\* Builds, versions, faults and writes are bounded in these parts, whose behaviours end.
Bounded == {"publish", "cache", "big", "pair", "lone", "patch", "merge", "compare", "log"}

ViewsNext ==
    /\ UNCHANGED part
    /\ \/ part = "publish" /\ Next /\ UNCHANGED ys
       \/ /\ UNCHANGED vars
          /\ \/ part = "cache" /\ Cache!Next /\ UNCHANGED after7
             \/ part = "big" /\ Big!Next /\ UNCHANGED after7
             \/ part = "pair" /\ Pair!Next
             \/ part = "lone" /\ Lone!Next
             \/ part = "source" /\ Source!Next /\ UNCHANGED after9
             \/ part = "patch" /\ Patch!Next /\ UNCHANGED after11
             \/ part = "merge" /\ Merge!Next /\ UNCHANGED after9
             \/ part = "compare" /\ Compare!Next /\ UNCHANGED after3
             \/ part = "log" /\ Log!Next
       \/ part \in Bounded /\ UNCHANGED <<vars, ys>>

\* What can change in a part: the other variables keep their initial values.
Moving == <<part, IF part = "publish" THEN vars ELSE ys>>

ViewsSpec == ViewsInit /\ [][ViewsNext]_all

-----------------------------------------------------------------------------
\* The file cache (FileCache): curBytes is the size of what is cached, within the limit,
\* and a cached entry is its file's content.
FileCacheSafe ==
    /\ part = "cache" => Cache!TypeOK /\ Cache!BytesAccounted /\ Cache!EntryIsCurrent
    /\ part = "big" => Big!TypeOK /\ Big!BytesAccounted /\ Big!EntryIsCurrent

\* UpstreamIndex: a complete entry is whole, for two replicas that share Valkey and for one
\* that has none and meets two faults, and a fresh meta vouches for the buckets two
\* replicas write (its properties CompleteIsWhole and FreshMetaVouches).
UpstreamSafe ==
    /\ part = "pair" => Pair!TypeOK /\ Pair!CompleteIsWhole /\ Pair!FreshMetaVouches
    /\ part = "lone" => Lone!TypeOK /\ Lone!CompleteIsWhole

\* SourceLifecycle: gcSrc keeps what current/ lists when steps fail (its property of the
\* same name).
KeepsPublished == [][part = "source" => Source!DeletesNothingPublished]_ys

\* PDiff: a patched index is the one a download would give, and patches that respect the
\* stanzas are applied (its properties AcceptedIsCurrent and AlignedAccepted).
PatchSafe == part = "patch" => Patch!TypeOK /\ Patch!AcceptedIsCurrent /\ Patch!AlignedAccepted

\* AvailMerge: the merged view does not depend on the order in which fetches end, and
\* packages and sources that lose keep their paths (its properties MergeIsDeterministic
\* and LosersKeepPaths).
MergeSafe == part = "merge" => Merge!TypeOK /\ Merge!MergeIsDeterministic /\ Merge!LosersKeepPaths

\* AvailMerge: a dependency closure is closed (its property of the same name).
ClosureIsClosed == part = "merge" => Merge!ClosureIsClosed

\* DebVersion: Compare orders versions as Debian policy does (its property of the same
\* name).
CompareIsPolicy == part = "compare" => Compare!CompareIsPolicy

\* LogWriter: every record is written once or counted as dropped, and Close flushes what
\* was queued before it (its properties RecordsAccounted and CloseFlushes).
LogSafe == part = "log" => Log!TypeOK /\ Log!RecordsAccounted /\ Log!CloseFlushes

=============================================================================
