----------------------------- MODULE AvailMerge -----------------------------
(***************************************************************************)
(* The merge at the end of avail.Build (internal/avail/avail.go): the      *)
(* indices of a layout's upstreams become the one view that is served, and *)
(* DepClosure walks that view.                                             *)
(*                                                                         *)
(* One goroutine per upstream and architecture appends its result to a     *)
(* shared slice as it finishes, so the slice is in any order.  A package   *)
(* is its name, version, architecture and upstream, and those make its     *)
(* pool path.                                                              *)
(***************************************************************************)
EXTENDS Naturals, SequencesExt, FiniteSetsExt, TLC

CONSTANTS Jobs,        \* positions in the configured list of upstreams
          Components,
          Binary,      \* architectures other than "all"
          Files,       \* what an index may hold: sequences of [name, version, arch]
          Depends      \* [name -> sequence of groups of alternatives]

VARIABLES
    component,  \* the component of each job
    results,    \* per job, the index fetched for each architecture it has
    srcRaws,    \* per job, its Sources
    running,    \* goroutines of phase 1 still at work
    entries,    \* the slice they append to
    av,         \* the merged view
    phase,      \* build, merged, closure
    queue, resolved  \* DepClosure

vars == <<component, results, srcRaws, running, entries, av, phase, queue, resolved>>

Arches == Binary \union {"all"}
Get(f, k, default) == IF k \in DOMAIN f THEN f[k] ELSE default
With(f, k, v) == [x \in DOMAIN f \union {k} |-> IF x = k THEN v ELSE f[x]]
Nothing == <<>>

-----------------------------------------------------------------------------
\* buildPkg: the stanza's architecture, or that of the file it is in.
BuildPkg(job, arch, st) ==
    [name |-> st.name, version |-> st.version, job |-> job,
     arch |-> IF st.arch = "" THEN arch ELSE st.arch]

\* poolPathFromFilename: upstream, name and file name.
PoolPath(p) == <<p.job, p.name, p.version, p.arch>>

\* Keep what is there unless the new one is newer.
Keep(dest, p) ==
    IF p.name \in DOMAIN dest /\ p.version <= dest[p.name].version THEN dest
    ELSE With(dest, p.name, p)
\* The private map of one goroutine of phase 1.
PhaseOne(job, arch) ==
    FoldLeft(LAMBDA dest, st : Keep(dest, BuildPkg(job, arch, st)), Nothing, results[job][arch])

\* It runs to the end and appends its entry under the mutex.
BuildArch ==
    /\ phase = "build"
    /\ \E g \in running :
          /\ running' = running \ {g}
          /\ entries' = Append(entries, [order |-> g[1], component |-> component[g[1]],
                                         arch |-> g[2], pkgs |-> PhaseOne(g[1], g[2])])
    /\ UNCHANGED <<component, results, srcRaws, av, phase, queue, resolved>>

\* Mutant of SortEntries: the order in which the goroutines finished.
SortNothing(es) == es

\* By configured upstream, then by architecture ("all" sorts before the others used).
SortEntries(es) ==
    SortSeq(es, LAMBDA e, f : e.order < f.order \/ (e.order = f.order /\ e.arch = "all" /\ f.arch # "all"))

\* Fold the packages of one entry into one map; a map has no order and no name twice.
Fold(dest, pkgs) == FoldFunction(LAMBDA p, d : Keep(d, p), dest, pkgs)
Paths(byPath, pkgs) == FoldFunction(LAMBDA p, b : With(b, PoolPath(p), p), byPath, pkgs)

\* Mutant of MergeBinary: only the winner's path is kept.
MergeBinaryWinner(view, e) ==
    IF e.arch = "all" THEN view
    ELSE LET archs == view.pkgs[e.component]
             dest == Fold(Get(archs, e.arch, Nothing), e.pkgs)
         IN  [view EXCEPT !.pkgs[e.component] = With(archs, e.arch, dest),
                          !.byPath = Paths(@, dest)]

\* Phase 2a: the binary architectures, every path kept.
MergeBinary(view, e) ==
    IF e.arch = "all" THEN view
    ELSE LET archs == view.pkgs[e.component]
             dest == Get(archs, e.arch, Nothing)
         IN  [view EXCEPT !.pkgs[e.component] = With(archs, e.arch, Fold(dest, e.pkgs)),
                          !.byPath = Paths(@, e.pkgs)]

\* Phase 2b: arch=all packages into every map of the component that there is.
MergeAll(view, e) ==
    IF e.arch # "all" THEN view
    ELSE [view EXCEPT !.pkgs[e.component] = [a \in DOMAIN @ |-> Fold(@[a], e.pkgs)],
                      !.byPath = IF view.pkgs[e.component] = Nothing THEN @ ELSE Paths(@, e.pkgs)]

\* The Sources, in the order of the jobs: every record in all, one per name in srcs.
SrcPkg(job, st) == [name |-> st.name, version |-> st.version, job |-> job]
MergeSources(view, job) ==
    FoldLeft(LAMBDA v, st : [v EXCEPT !.allSrcs = Append(@, SrcPkg(job, st)),
                                      !.srcs[component[job]] = Keep(@, SrcPkg(job, st))],
             view, srcRaws[job])

Empty == [pkgs |-> [c \in Components |-> Nothing], byPath |-> Nothing,
          srcs |-> [c \in Components |-> Nothing], allSrcs |-> <<>>]
Merged ==
    LET sorted == SortEntries(entries)
        binary == FoldLeft(MergeBinary, Empty, sorted)
        whole == FoldLeft(MergeAll, binary, sorted)
    IN  FoldLeft(MergeSources, whole, SetToSortSeq(Jobs, <))

\* After wg2.Wait the merge is one goroutine's work on its own data.
Merge ==
    /\ phase = "build" /\ running = {}
    /\ av' = Merged /\ phase' = "merged"
    /\ UNCHANGED <<component, results, srcRaws, running, entries, queue, resolved>>

-----------------------------------------------------------------------------
\* DepClosure.
Found(c, arch, name) == name \in DOMAIN Get(av.pkgs[c], arch, Nothing)

\* The component asked for first, else any that has the name.
Lookup(c, arch, name) ==
    IF Found(c, arch, name) THEN {av.pkgs[c][arch][name]}
    ELSE {av.pkgs[d][arch][name] : d \in {d \in Components : Found(d, arch, name)}}

\* Mutant of Wanted: only the first alternative counts.
WantedFirst(c, arch, name) ==
    LET groups == Depends[name]
    IN  FoldLeft(LAMBDA q, alts : IF Lookup(c, arch, alts[1]) = {} THEN q ELSE Append(q, alts[1]),
                 <<>>, groups)

\* The first alternative of each group that is available.
Wanted(c, arch, name) ==
    LET First(alts) == SelectInSeq(alts, LAMBDA alt : Lookup(c, arch, alt) # {})
    IN  FoldLeft(LAMBDA q, alts : IF First(alts) = 0 THEN q ELSE Append(q, alts[First(alts)]),
                 <<>>, Depends[name])

StartClosure ==
    /\ phase = "merged"
    /\ \E c \in Components, a \in Binary, seed \in DOMAIN Depends :
          queue' = <<seed>> /\ resolved' = [comp |-> c, arch |-> a, seed |-> seed, pkgs |-> Nothing]
    /\ phase' = "closure"
    /\ UNCHANGED <<component, results, srcRaws, running, entries, av>>

DepClosure ==
    /\ phase = "closure" /\ queue # <<>>
    /\ LET name == Head(queue)
           hits == Lookup(resolved.comp, resolved.arch, name)
       IN  \/ /\ name \in DOMAIN resolved.pkgs \/ hits = {}
              /\ queue' = Tail(queue) /\ UNCHANGED resolved
           \/ /\ name \notin DOMAIN resolved.pkgs
              /\ \E p \in hits : resolved' = [resolved EXCEPT !.pkgs = With(@, name, p)]
              /\ queue' = Tail(queue) \o Wanted(resolved.comp, resolved.arch, name)
    /\ UNCHANGED <<component, results, srcRaws, running, entries, av, phase>>

-----------------------------------------------------------------------------
\* A job has failed, or has some architectures and perhaps Sources.
Init ==
    /\ component \in [Jobs -> Components] /\ component[1] = CHOOSE c \in Components : TRUE
    /\ results \in [Jobs -> UNION {[A -> Files] : A \in SUBSET Arches}]
    /\ srcRaws = [j \in Jobs |-> IF "all" \in DOMAIN results[j] THEN results[j]["all"] ELSE <<>>]
    /\ running = {g \in Jobs \X Arches : g[2] \in DOMAIN results[g[1]]}
    /\ entries = <<>> /\ av = Empty /\ phase = "build"
    /\ queue = <<>> /\ resolved = Nothing

Next == BuildArch \/ Merge \/ StartClosure \/ DepClosure
Spec == Init /\ [][Next]_vars

-----------------------------------------------------------------------------
\* The type of every variable.
TypeOK ==
    /\ phase \in {"build", "merged", "closure"}
    /\ running \subseteq Jobs \X Arches
    /\ \A i \in DOMAIN entries : entries[i].order \in Jobs /\ entries[i].arch \in Arches
    /\ DOMAIN av.pkgs = Components
    /\ ToSet(queue) \subseteq DOMAIN Depends

\* What each upstream offers for an architecture: its newest version of each name, the
\* first in the file among equals.
Offers(j, a) ==
    IF a \notin DOMAIN results[j] THEN {}
    ELSE LET best == PhaseOne(j, a) IN {best[n] : n \in DOMAIN best}
Served(c) == {a \in Binary : \E j \in Jobs : component[j] = c /\ a \in DOMAIN results[j]}
Candidates(c, a) ==
    UNION {{[pkg |-> p, own |-> b = a] : p \in Offers(j, b)} :
           j \in {k \in Jobs : component[k] = c}, b \in {a, "all"}}
Beats(x, y) ==
    \/ x.pkg.version > y.pkg.version
    \/ /\ x.pkg.version = y.pkg.version
       /\ (x.own /\ ~y.own) \/ (x.own = y.own /\ x.pkg.job <= y.pkg.job)

\* Whatever the order in which the goroutines finish, the view lists for each name the
\* highest version any upstream of the component offers; among equals one from the
\* architecture's own file, then one from the first upstream of the configuration.
\* Two replicas with the same upstream data therefore generate the same Packages files.
MergeIsDeterministic ==
    phase # "build" =>
        \A c \in Components :
            /\ DOMAIN av.pkgs[c] = Served(c)
            /\ \A a \in Served(c) :
                  /\ DOMAIN av.pkgs[c][a] = {x.pkg.name : x \in Candidates(c, a)}
                  /\ \A x \in Candidates(c, a) :
                        (\A y \in Candidates(c, a) : y.pkg.name = x.pkg.name => Beats(x, y))
                            => av.pkgs[c][a][x.pkg.name] = x.pkg

\* A package that loses its name to another upstream keeps its pool path, so that a client
\* with an older listing still finds it; the record at a path is the package of that path.
\* Sources are kept the same way.
LosersKeepPaths ==
    phase # "build" =>
        /\ \A c \in Components : \A a \in Served(c) : \A x \in Candidates(c, a) :
              PoolPath(x.pkg) \in DOMAIN av.byPath
        /\ \A path \in DOMAIN av.byPath : PoolPath(av.byPath[path]) = path
        /\ \A j \in Jobs : \A i \in DOMAIN srcRaws[j] :
              SrcPkg(j, srcRaws[j][i]) \in ToSet(av.allSrcs)

\* The finished closure holds the seed if it is available, and with each package, for each
\* of its dependency groups with an available alternative, one of that group.
ClosureIsClosed ==
    phase = "closure" /\ queue = <<>> =>
        /\ Lookup(resolved.comp, resolved.arch, resolved.seed) # {} => resolved.seed \in DOMAIN resolved.pkgs
        /\ \A name \in DOMAIN resolved.pkgs :
            \A i \in DOMAIN Depends[name] :
                LET offered == {alt \in ToSet(Depends[name][i]) :
                                    Lookup(resolved.comp, resolved.arch, alt) # {}}
                IN  offered # {} => offered \cap DOMAIN resolved.pkgs # {}

=============================================================================
