------------------------ MODULE UpstreamIndexProofs ------------------------
(***************************************************************************)
(* Proofs about UpstreamIndex for any number of replicas, architectures,   *)
(* packages, generations and faults: a complete entry is whole, and a      *)
(* fresh meta vouches for the buckets, although the buckets are read and   *)
(* replaced command by command by replicas that may crash.                 *)
(***************************************************************************)
EXTENDS UpstreamIndex, TLAPS

\* The bucket of an architecture holds what generation g lists for it.
Right(g, a, mem, sto) == mem[a] = Index[g][a] /\ Index[g][a] \subseteq sto[a]

\* The generations that a bucket may still be taken for: a crash may have left a bucket half
\* replaced under an expired meta, and then only what the mirror lists from now on counts.
Ahead == IF "crash" \in seen THEN {n \in Gens : mirror <= n} ELSE Gens
Trusted(g, a, ahead) == \E n \in ahead : Index[n][a] = Index[g][a]

\* An entry has only packages of its Release, as far as it can be trusted, and a complete
\* one has all of them.
EntryOK(e, ahead) ==
    /\ e.gen = 0 => DOMAIN e.pkgs = {}
    /\ e.gen # 0 =>
          /\ DOMAIN e.pkgs \subseteq DOMAIN Index[e.gen]
          /\ \A a \in DOMAIN Index[e.gen] : Trusted(e.gen, a, ahead) =>
                /\ a \in DOMAIN e.pkgs => e.pkgs[a] = Index[e.gen][a]
                /\ a \notin DOMAIN e.pkgs /\ e.complete => Index[e.gen][a] = {}

\* A build x that reads has what is in the buckets, under the meta of generation g.
ReadOK(x, g, mem, sto) ==
    /\ x.from = g /\ g # 0
    /\ \A a \in DOMAIN x.acc : mem[a] # {} /\ x.acc[a] = mem[a] \cap sto[a]
    /\ x.pc = "mget" => x.add = mem[x.arch] /\ mem[x.arch] # {}
    /\ x.whole => \A a \in Archs : mem[a] # {} =>
          \/ a \in x.todo \/ a \in DOMAIN x.acc
          \/ x.pc = "mget" /\ a = x.arch

\* One that fetches has what the Release lists, and so has the part of its basis that it may
\* reuse.
FetchOK(x, m) ==
    /\ x.gen \in Gens /\ x.gen <= m /\ x.whole
    /\ x.todo \union DOMAIN x.acc = DOMAIN Index[x.gen]
    /\ \A a \in DOMAIN x.acc : x.acc[a] = Index[x.gen][a]
    /\ \A a \in DOMAIN x.basis.pkgs :
          a \in DOMAIN Index[x.basis.gen] /\ Index[x.basis.gen][a] = Index[x.gen][a]
          => x.basis.pkgs[a] = Index[x.gen][a]

\* One that publishes has replaced the buckets that it has left behind, and the one it is at
\* as far as its place says.
PlanOK(x, mem, sto) ==
    LET a == x.arch
        want == Index[x.gen][x.arch]
    IN  /\ a \in DOMAIN x.acc /\ a \notin x.todo
        /\ x.add \subseteq want /\ x.drop \cap want = {}
        /\ x.pc \in {"mset", "sadd"} => want \ mem[a] \subseteq x.add
        /\ x.pc = "mset" => want \ sto[a] \subseteq x.add
        /\ x.pc \in {"sadd", "srem", "del"} => want \subseteq sto[a]
        /\ x.pc \in {"srem", "del"} => want \subseteq mem[a]
        /\ x.pc \in {"mset", "sadd", "srem"} => mem[a] \ want \subseteq x.drop
        /\ x.pc = "del" => mem[a] \subseteq want
PublishOK(x, m, mem, sto) ==
    /\ x.gen \in Gens /\ x.gen <= m
    /\ DOMAIN x.acc = DOMAIN Index[x.gen]
    /\ \A a \in DOMAIN x.acc : x.acc[a] = Index[x.gen][a]
    /\ x.pc # "publish" => PlanOK(x, mem, sto)
    /\ \A a \in DOMAIN x.acc : a \notin x.todo /\ (x.pc = "publish" \/ a # x.arch)
          => Right(x.gen, a, mem, sto)

\* A replica with the local entry l and the build x.
ReplicaOK(l, x, ahead, m, g, mem, sto) ==
    /\ EntryOK(l, ahead) /\ EntryOK(x.basis, ahead) /\ EntryOK(x.out, ahead)
    /\ x.pc \in Reading => ReadOK(x, g, mem, sto)
    /\ x.pc = "archs" => FetchOK(x, m)
    /\ x.pc \in Publishing => PublishOK(x, m, mem, sto)

\* The buckets belong to the Release of the meta: all while nobody publishes, and otherwise,
\* until a crash, those that no publisher is to change.
Publishers == {r \in Replicas : b[r].pc \in Publishing}
BucketsOK ==
    /\ meta.gen # 0 => \A a \in DOMAIN Index[meta.gen] :
          /\ "crash" \notin seen
                /\ (\A r \in Publishers : Index[b[r].gen][a] = Index[meta.gen][a])
                => Right(meta.gen, a, members, stored)
          /\ Publishers = {} /\ (meta.fresh \/ Trusted(meta.gen, a, Ahead))
                => Right(meta.gen, a, members, stored)
    /\ \A g \in Gens : \A a \in Archs : a \notin DOMAIN Index[g] => members[a] = {}

\* Nothing has happened after which the code promises less.
Clean ==
    /\ SameArchs /\ seen \cap (Degrading \union {"torn"}) = {}
    /\ "crash" \in seen => NeverBack

ReplicasOK ==
    \A r \in Replicas : ReplicaOK(local[r], b[r], Ahead, mirror, meta.gen, members, stored)
IndexInv == /\ meta.fresh => meta.gen # 0
            /\ Clean => ReplicasOK /\ BucketsOK
-----------------------------------------------------------------------------
(* What the steps change of a build *)

Whys == {"adopt", "compare", "outright"}

\* Replica r goes to phase p, and no other replica's build changes.
Moved(r, p) ==
    /\ b' \in [Replicas -> Build] /\ b'[r].pc = p
    /\ \A q \in Replicas : q # r => b'[q] = b[q]

\* The named parts of its build stay as they are.
Same(r, parts) == \A f \in parts : b'[r][f] = b[r][f]

\* A build is replaced.
LEMMA Replaced ==
    ASSUME b \in [Replicas -> Build], NEW r \in Replicas, NEW x \in Build,
           b' = [b EXCEPT ![r] = x]
    PROVE  b'[r] = x /\ Moved(r, x.pc)
BY Zenon DEF Moved

\* A step of a build that only goes to another phase.
LEMMA PcMoves ==
    ASSUME b \in [Replicas -> Build], NEW r \in Replicas, NEW p \in Phases,
           b' = [b EXCEPT ![r].pc = p]
    PROVE  Moved(r, p) /\
           Same(r, {"basis", "from", "gen", "todo", "acc", "whole", "arch", "add", "drop", "out"})
<1> DEFINE x == [b[r] EXCEPT !.pc = p]
<1>1. b[r] \in Build
  BY Zenon
<1>2. x \in Build
  BY Zenon, <1>1 DEF Build, Whys
<1>3. b' = [b EXCEPT ![r] = x]
  BY ZenonT(30)
<1>4. b'[r] = x /\ Moved(r, x.pc)
  BY Zenon, <1>2, <1>3, Replaced
<1> QED
  BY Zenon, <1>1, <1>4 DEF Build, Same

\* A build gets a basis.
LEMMA BasisMoves ==
    ASSUME b \in [Replicas -> Build], NEW r \in Replicas, NEW p \in Phases, NEW e \in Entry,
           b' = [b EXCEPT ![r].pc = p, ![r].basis = e]
    PROVE  Moved(r, p) /\ b'[r].basis = e /\
           Same(r, {"from", "gen", "todo", "acc", "whole", "arch", "add", "drop", "out"})
<1> DEFINE x == [b[r] EXCEPT !.pc = p, !.basis = e]
<1>1. b[r] \in Build
  BY Zenon
<1>2. x \in Build
  BY Zenon, <1>1 DEF Build, Whys
<1>3. b' = [b EXCEPT ![r] = x]
  BY ZenonT(30)
<1>4. b'[r] = x /\ Moved(r, x.pc)
  BY Zenon, <1>2, <1>3, Replaced
<1> QED
  BY Zenon, <1>1, <1>4 DEF Build, Same

\* An architecture is done with.
LEMMA TodoMoves ==
    ASSUME b \in [Replicas -> Build], NEW r \in Replicas, NEW todo \in SUBSET Archs,
           b' = [b EXCEPT ![r].todo = todo]
    PROVE  Moved(r, b[r].pc) /\ b'[r].todo = todo /\
           Same(r, {"basis", "from", "gen", "acc", "whole", "arch", "add", "drop", "out"})
<1> DEFINE x == [b[r] EXCEPT !.todo = todo]
<1>1. b[r] \in Build
  BY Zenon
<1>2. x \in Build
  BY Zenon, <1>1 DEF Build, Whys
<1>3. b' = [b EXCEPT ![r] = x]
  BY ZenonT(30)
<1>4. b'[r] = x /\ Moved(r, x.pc)
  BY Zenon, <1>2, <1>3, Replaced
<1> QED
  BY Zenon, <1>1, <1>4 DEF Build, Same

\* A bucket is scanned.
LEMMA ScanMoves ==
    ASSUME b \in [Replicas -> Build], NEW r \in Replicas, NEW a \in b[r].todo,
           members[a] \in SUBSET Pkgs,
           b' = [b EXCEPT ![r].todo = b[r].todo \ {a}, ![r].pc = "mget", ![r].arch = a,
                          ![r].add = members[a]]
    PROVE  Moved(r, "mget") /\ b'[r].todo = b[r].todo \ {a} /\ b'[r].arch = a /\
           b'[r].add = members[a] /\ Same(r, {"basis", "from", "gen", "acc", "whole", "drop", "out"})
<1> DEFINE x == [b[r] EXCEPT !.todo = b[r].todo \ {a}, !.pc = "mget", !.arch = a,
                             !.add = members[a]]
<1>1. b[r] \in Build /\ b[r].todo \in SUBSET Archs
  BY Zenon DEF Build
<1>2. b[r].todo \ {a} \in SUBSET Archs /\ a \in Archs \union {"none"} /\ "mget" \in Phases
  BY Zenon, <1>1 DEF Phases
<1>3. x \in Build
  BY Zenon, <1>1, <1>2 DEF Build, Whys
<1>4. b' = [b EXCEPT ![r] = x]
  BY ZenonT(30)
<1>5. b'[r] = x /\ Moved(r, x.pc)
  BY Zenon, <1>3, <1>4, Replaced
<1> QED
  BY Zenon, <1>1, <1>5 DEF Build, Same

\* An architecture is left out.
LEMMA SkipMoves ==
    ASSUME b \in [Replicas -> Build], NEW r \in Replicas, NEW todo \in SUBSET Archs,
           NEW whole \in BOOLEAN,
           b' = [b EXCEPT ![r].todo = todo, ![r].whole = whole]
    PROVE  Moved(r, b[r].pc) /\ b'[r].todo = todo /\ b'[r].whole = whole /\
           Same(r, {"basis", "from", "gen", "acc", "arch", "add", "drop", "out"})
<1> DEFINE x == [b[r] EXCEPT !.todo = todo, !.whole = whole]
<1>1. b[r] \in Build
  BY Zenon
<1>2. x \in Build
  BY Zenon, <1>1 DEF Build, Whys
<1>3. b' = [b EXCEPT ![r] = x]
  BY ZenonT(30)
<1>4. b'[r] = x /\ Moved(r, x.pc)
  BY Zenon, <1>2, <1>3, Replaced
<1> QED
  BY Zenon, <1>1, <1>4 DEF Build, Same

\* Its entries are read.
LEMMA MgetMoves ==
    ASSUME b \in [Replicas -> Build], NEW r \in Replicas, NEW acc \in Map, NEW p \in Phases,
           NEW a \in Archs \union {"none"}, NEW add \in SUBSET Pkgs,
           b' = [b EXCEPT ![r].acc = acc, ![r].pc = p, ![r].arch = a, ![r].add = add]
    PROVE  Moved(r, p) /\ b'[r].acc = acc /\ b'[r].arch = a /\ b'[r].add = add /\
           Same(r, {"basis", "from", "gen", "todo", "whole", "drop", "out"})
<1> DEFINE x == [b[r] EXCEPT !.acc = acc, !.pc = p, !.arch = a, !.add = add]
<1>1. b[r] \in Build
  BY Zenon
<1>2. x \in Build
  BY Zenon, <1>1 DEF Build, Whys
<1>3. b' = [b EXCEPT ![r] = x]
  BY ZenonT(30)
<1>4. b'[r] = x /\ Moved(r, x.pc)
  BY Zenon, <1>2, <1>3, Replaced
<1> QED
  BY ZenonT(40), <1>1, <1>4 DEF Build, Same

\* They cannot be read.
LEMMA MgetFailMoves ==
    ASSUME b \in [Replicas -> Build], NEW r \in Replicas, NEW whole \in BOOLEAN,
           NEW p \in Phases, NEW a \in Archs \union {"none"}, NEW add \in SUBSET Pkgs,
           b' = [b EXCEPT ![r].whole = whole, ![r].pc = p, ![r].arch = a, ![r].add = add]
    PROVE  Moved(r, p) /\ b'[r].whole = whole /\ b'[r].arch = a /\ b'[r].add = add /\
           Same(r, {"basis", "from", "gen", "todo", "acc", "drop", "out"})
<1> DEFINE x == [b[r] EXCEPT !.whole = whole, !.pc = p, !.arch = a, !.add = add]
<1>1. b[r] \in Build
  BY Zenon
<1>2. x \in Build
  BY Zenon, <1>1 DEF Build, Whys
<1>3. b' = [b EXCEPT ![r] = x]
  BY ZenonT(30)
<1>4. b'[r] = x /\ Moved(r, x.pc)
  BY Zenon, <1>2, <1>3, Replaced
<1> QED
  BY ZenonT(40), <1>1, <1>4 DEF Build, Same

\* What was read is not used.
LEMMA DeclineMoves ==
    ASSUME b \in [Replicas -> Build], NEW r \in Replicas, NEW p \in Phases, NEW acc \in Map,
           b' = [b EXCEPT ![r].pc = p, ![r].acc = acc]
    PROVE  Moved(r, p) /\ b'[r].acc = acc /\
           Same(r, {"basis", "from", "gen", "todo", "whole", "arch", "add", "drop", "out"})
<1> DEFINE x == [b[r] EXCEPT !.pc = p, !.acc = acc]
<1>1. b[r] \in Build
  BY Zenon
<1>2. x \in Build
  BY Zenon, <1>1 DEF Build, Whys
<1>3. b' = [b EXCEPT ![r] = x]
  BY ZenonT(30)
<1>4. b'[r] = x /\ Moved(r, x.pc)
  BY Zenon, <1>2, <1>3, Replaced
<1> QED
  BY Zenon, <1>1, <1>4 DEF Build, Same

\* It becomes the basis.
LEMMA CompareMoves ==
    ASSUME b \in [Replicas -> Build], NEW r \in Replicas, NEW p \in Phases, NEW e \in Entry,
           NEW acc \in Map,
           b' = [b EXCEPT ![r].pc = p, ![r].basis = e, ![r].acc = acc]
    PROVE  Moved(r, p) /\ b'[r].basis = e /\ b'[r].acc = acc /\
           Same(r, {"from", "gen", "todo", "whole", "arch", "add", "drop", "out"})
<1> DEFINE x == [b[r] EXCEPT !.pc = p, !.basis = e, !.acc = acc]
<1>1. b[r] \in Build
  BY Zenon
<1>2. x \in Build
  BY Zenon, <1>1 DEF Build, Whys
<1>3. b' = [b EXCEPT ![r] = x]
  BY ZenonT(30)
<1>4. b'[r] = x /\ Moved(r, x.pc)
  BY Zenon, <1>2, <1>3, Replaced
<1> QED
  BY Zenon, <1>1, <1>4 DEF Build, Same

\* The architectures of a Release are to be fetched.
LEMMA ArchMoves ==
    ASSUME b \in [Replicas -> Build], NEW r \in Replicas, mirror \in 0 .. Len(Index),
           DOMAIN Index[mirror] \in SUBSET Archs, Empty \in Map, StartArchs(r)
    PROVE  Moved(r, "archs") /\ b'[r].gen = mirror /\ b'[r].todo = DOMAIN Index[mirror] /\
           b'[r].acc = Empty /\ b'[r].whole /\
           Same(r, {"basis", "from", "arch", "add", "drop", "out"})
<1> DEFINE x == [b[r] EXCEPT !.pc = "archs", !.gen = mirror, !.todo = DOMAIN Index[mirror],
                             !.acc = Empty, !.whole = TRUE]
<1>1. b[r] \in Build /\ "archs" \in Phases
  BY Zenon DEF Phases
<1>2. x \in Build
  BY Zenon, <1>1 DEF Build, Whys
<1>3. b' = [b EXCEPT ![r] = x]
  BY ZenonT(30) DEF StartArchs
<1>4. b'[r] = x /\ Moved(r, x.pc)
  BY Zenon, <1>2, <1>3, Replaced
<1> QED
  BY ZenonT(40), <1>1, <1>4 DEF Build, Same

\* An architecture is fetched.
LEMMA GotMoves ==
    ASSUME b \in [Replicas -> Build], NEW r \in Replicas, NEW todo \in SUBSET Archs,
           NEW acc \in Map,
           b' = [b EXCEPT ![r].todo = todo, ![r].acc = acc]
    PROVE  Moved(r, b[r].pc) /\ b'[r].todo = todo /\ b'[r].acc = acc /\
           Same(r, {"basis", "from", "gen", "whole", "arch", "add", "drop", "out"})
<1> DEFINE x == [b[r] EXCEPT !.todo = todo, !.acc = acc]
<1>1. b[r] \in Build
  BY Zenon
<1>2. x \in Build
  BY Zenon, <1>1 DEF Build, Whys
<1>3. b' = [b EXCEPT ![r] = x]
  BY ZenonT(30)
<1>4. b'[r] = x /\ Moved(r, x.pc)
  BY Zenon, <1>2, <1>3, Replaced
<1> QED
  BY Zenon, <1>1, <1>4 DEF Build, Same

\* The publication begins.
LEMMA StoreMoves ==
    ASSUME b \in [Replicas -> Build], NEW r \in Replicas, NEW p \in Phases,
           NEW todo \in SUBSET Archs,
           b' = [b EXCEPT ![r].pc = p, ![r].todo = todo]
    PROVE  Moved(r, p) /\ b'[r].todo = todo /\
           Same(r, {"basis", "from", "gen", "acc", "whole", "arch", "add", "drop", "out"})
<1> DEFINE x == [b[r] EXCEPT !.pc = p, !.todo = todo]
<1>1. b[r] \in Build
  BY Zenon
<1>2. x \in Build
  BY Zenon, <1>1 DEF Build, Whys
<1>3. b' = [b EXCEPT ![r] = x]
  BY ZenonT(30)
<1>4. b'[r] = x /\ Moved(r, x.pc)
  BY Zenon, <1>2, <1>3, Replaced
<1> QED
  BY Zenon, <1>1, <1>4 DEF Build, Same

\* A build starts to read the Sources.
LEMMA SrcReadMoves ==
    ASSUME b \in [Replicas -> Build], NEW r \in Replicas, NEW p \in Phases, NEW why \in Whys,
           NEW g \in 0 .. Len(Index),
           b' = [b EXCEPT ![r].pc = p, ![r].why = why, ![r].from = g]
    PROVE  Moved(r, p) /\ b'[r].from = g /\
           Same(r, {"basis", "gen", "todo", "acc", "whole", "arch", "add", "drop", "out"})
<1> DEFINE x == [b[r] EXCEPT !.pc = p, !.why = why, !.from = g]
<1>1. b[r] \in Build
  BY Zenon
<1>2. x \in Build
  BY Zenon, <1>1 DEF Build, Whys
<1>3. b' = [b EXCEPT ![r] = x]
  BY ZenonT(30)
<1>4. b'[r] = x /\ Moved(r, x.pc)
  BY Zenon, <1>2, <1>3, Replaced
<1> QED
  BY Zenon, <1>1, <1>4 DEF Build, Same

\* It is to fetch them.
LEMMA SrcGenMoves ==
    ASSUME b \in [Replicas -> Build], NEW r \in Replicas, NEW p \in Phases,
           NEW g \in 0 .. Len(Index),
           b' = [b EXCEPT ![r].pc = p, ![r].gen = g]
    PROVE  Moved(r, p) /\ b'[r].gen = g /\
           Same(r, {"basis", "from", "todo", "acc", "whole", "arch", "add", "drop", "out"})
<1> DEFINE x == [b[r] EXCEPT !.pc = p, !.gen = g]
<1>1. b[r] \in Build
  BY Zenon
<1>2. x \in Build
  BY Zenon, <1>1 DEF Build, Whys
<1>3. b' = [b EXCEPT ![r] = x]
  BY ZenonT(30)
<1>4. b'[r] = x /\ Moved(r, x.pc)
  BY Zenon, <1>2, <1>3, Replaced
<1> QED
  BY Zenon, <1>1, <1>4 DEF Build, Same

\* A build starts again from nothing.
LEMMA FreshRecords ==
    NoEntry \in Entry /\ NoBuild \in Build /\ Empty \in Map
<1>1. Empty \in Map
  <2>1. Empty \in [{} -> SUBSET Pkgs] /\ {} \in SUBSET Archs
    BY Zenon DEF Empty
  <2> QED
    BY Zenon, <2>1 DEF Map
<1>2. NoEntry \in Entry
  <2>1. 0 \in Nat /\ 0 \in 0 .. Len(Index)
    BY MirrorAssumption
  <2> QED
    BY Zenon, <1>1, <2>1 DEF NoEntry, Entry
<1>3. NoBuild \in Build
  <2>1. 0 \in 0 .. Len(Index)
    BY MirrorAssumption
  <2>2. "idle" \in Phases
    BY Zenon DEF Phases
  <2> QED
    BY Zenon, <1>1, <1>2, <2>1, <2>2 DEF NoBuild, Build
<1> QED
  BY Zenon, <1>1, <1>2, <1>3

\* BuildStart and Rebuild give the replica a new build.
LEMMA BuildBegins ==
    ASSUME b \in [Replicas -> Build], NEW r \in Replicas, NEW p \in Phases, NEW w \in BOOLEAN,
           \/ b' = [b EXCEPT ![r] = [NoBuild EXCEPT !.pc = p, !.warm = w]]
           \/ b' = [b EXCEPT ![r] = [NoBuild EXCEPT !.trusted = w, !.pc = p]]
    PROVE  Moved(r, p) /\ b'[r].basis = NoEntry /\ b'[r].out = NoEntry
<1> DEFINE x == [NoBuild EXCEPT !.pc = p, !.warm = w]
           y == [NoBuild EXCEPT !.trusted = w, !.pc = p]
<1>1. NoBuild \in Build /\ NoBuild.basis = NoEntry /\ NoBuild.out = NoEntry
  BY Zenon, FreshRecords DEF NoBuild
<1>2. x \in Build /\ x.pc = p /\ x.basis = NoBuild.basis /\ x.out = NoBuild.out
  BY Zenon, <1>1 DEF Build
<1>3. y \in Build /\ y.pc = p /\ y.basis = NoBuild.basis /\ y.out = NoBuild.out
  BY Zenon, <1>1 DEF Build
<1>4. \E z \in {x, y} : b' = [b EXCEPT ![r] = z]
  BY Zenon
<1> HIDE DEF x, y
<1>5. PICK z \in {x, y} : b' = [b EXCEPT ![r] = z]
  BY Zenon, <1>4
<1>6. z \in Build /\ z.pc = p /\ z.basis = NoEntry /\ z.out = NoEntry
  BY Zenon, <1>1, <1>2, <1>3, <1>5
<1> QED
  BY Zenon, <1>5, <1>6, Replaced

\* The mirror's generations are maps from architectures to packages.
LEMMA Generations ==
    /\ Len(Index) \in Nat /\ 1 \in Gens
    /\ \A g \in Gens : g \in 0 .. Len(Index) /\ g \in Nat /\ g # 0
    /\ \A g \in 0 .. Len(Index) : g # 0 => g \in Gens
    /\ \A g \in Gens : Index[g] \in Map
BY MirrorAssumption DEF Gens

\* A map has packages for some architectures, and may get them for one more.
LEMMA Maps ==
    ASSUME NEW m \in Map
    PROVE  /\ DOMAIN m \subseteq Archs /\ \A a \in DOMAIN m : m[a] \subseteq Pkgs
           /\ \A a \in Archs, ps \in SUBSET Pkgs :
                 /\ With(m, a, ps) \in Map
                 /\ DOMAIN With(m, a, ps) = DOMAIN m \union {a}
                 /\ With(m, a, ps)[a] = ps
                 /\ \A c \in DOMAIN m : c # a => With(m, a, ps)[c] = m[c]
<1>1. PICK S \in SUBSET Archs : m \in [S -> SUBSET Pkgs]
  BY Zenon DEF Map
<1>2. ASSUME NEW a \in Archs, NEW ps \in SUBSET Pkgs
      PROVE  /\ With(m, a, ps) \in [S \union {a} -> SUBSET Pkgs]
             /\ With(m, a, ps)[a] = ps
             /\ \A c \in S : c # a => With(m, a, ps)[c] = m[c]
  BY Zenon, <1>1 DEF With
<1>3. ASSUME NEW a \in Archs, NEW ps \in SUBSET Pkgs
      PROVE  With(m, a, ps) \in Map /\ DOMAIN With(m, a, ps) = DOMAIN m \union {a}
  <2>1. S \union {a} \in SUBSET Archs
    BY Zenon, <1>1
  <2> QED
    BY ZenonT(40), <1>1, <1>2, <2>1 DEF Map
<1>4. DOMAIN m = S
  BY Zenon, <1>1
<1>5. DOMAIN m \subseteq Archs /\ \A a \in DOMAIN m : m[a] \subseteq Pkgs
  BY Zenon, <1>1
<1> QED
  BY Zenon, <1>2, <1>3, <1>4, <1>5

Hows == {"outright", "real", "stale", "failed"}

\* FetchIndex or AdoptFromValkeyOutright returns.
LEMMA AnswerMoves ==
    ASSUME TypeOK, NEW r \in Replicas, NEW e \in Entry, NEW how \in Hows, Answer(r, e, how)
    PROVE  /\ Moved(r, "begin") \/ Moved(r, "srcs")
           /\ b'[r].out = e /\ b'[r].basis = NoEntry
           /\ lock' \in Replicas \union {Nobody, Dead}
<1> DEFINE p == IF b[r].warm THEN "begin" ELSE "srcs"
<1> DEFINE x == [NoBuild EXCEPT !.pc = p, !.trusted = b[r].trusted, !.out = e, !.how = {how}]
<1>1. b \in [Replicas -> Build] /\ b[r] \in Build
  BY Zenon DEF TypeOK
<1>2. p \in Phases /\ (p = "begin" \/ p = "srcs")
  BY Zenon DEF Phases
<1>3. b[r].trusted \in BOOLEAN /\ {how} \in SUBSET Hows
  BY Zenon, <1>1 DEF Build
<1> HIDE DEF p
<1>4. x \in Build /\ x.pc = p /\ x.out = e /\ x.basis = NoBuild.basis
  <2>1. NoBuild \in Build
    BY Zenon, FreshRecords
  <2> QED
    BY Zenon, <1>2, <1>3, <2>1 DEF Build, Hows
<1>5. b' = [b EXCEPT ![r] = x]
  BY Zenon DEF Answer, p
<1>6. NoBuild.basis = NoEntry
  BY Zenon DEF NoBuild
<1>7. lock' \in Replicas \union {Nobody, Dead}
  BY Zenon DEF Answer, Unlocked, TypeOK
<1> HIDE DEF x
<1>8. b'[r] = x /\ Moved(r, x.pc)
  BY Zenon, <1>1, <1>4, <1>5, Replaced
<1> QED
  BY Zenon, <1>2, <1>4, <1>6, <1>7, <1>8

\* The Sources half ends.
LEMMA EndSrcsMoves ==
    ASSUME TypeOK, NEW r \in Replicas, NEW srcs \in Nat, NEW how \in Hows, EndSrcs(r, srcs, how)
    PROVE  /\ Moved(r, "done") /\ b'[r].basis = NoEntry
           /\ b'[r].out = [b[r].out EXCEPT !.srcs = srcs]
           /\ lock' \in Replicas \union {Nobody, Dead}
<1> DEFINE x == [b[r] EXCEPT !.pc = "done", !.basis = NoEntry, !.gen = 0, !.from = 0,
                             !.why = "adopt", !.out.srcs = srcs, !.how = b[r].how \union {how}]
<1>1. b \in [Replicas -> Build] /\ b[r] \in Build
  BY Zenon DEF TypeOK
<1>2. "done" \in Phases /\ "adopt" \in Whys
  BY Zenon DEF Phases, Whys
<1>3. b[r].out \in Entry /\ b[r].how \union {how} \in SUBSET Hows
  BY Zenon, <1>1 DEF Build, Hows
<1>4. [b[r].out EXCEPT !.srcs = srcs] \in Entry
  BY Zenon, <1>3 DEF Entry
<1>5. 0 \in 0 .. Len(Index)
  BY MirrorAssumption
<1>6. x \in Build /\ x.pc = "done" /\ x.basis = NoEntry
         /\ x.out = [b[r].out EXCEPT !.srcs = srcs]
  <2>1. NoEntry \in Entry
    BY Zenon, FreshRecords
  <2> QED
    BY Zenon, <1>1, <1>2, <1>3, <1>4, <1>5, <2>1 DEF Build, Hows, Whys
<1>7. b' = [b EXCEPT ![r] = x]
  BY Zenon DEF EndSrcs
<1>8. lock' \in Replicas \union {Nobody, Dead}
  BY Zenon DEF EndSrcs, Unlocked, TypeOK
<1> HIDE DEF x
<1>9. b'[r] = x /\ Moved(r, x.pc)
  BY Zenon, <1>1, <1>6, <1>7, Replaced
<1> QED
  BY Zenon, <1>6, <1>8, <1>9

-----------------------------------------------------------------------------
(* Types *)

\* The parts of a build and of an entry.
LEMMA BuildParts ==
    ASSUME TypeOK, NEW r \in Replicas
    PROVE  /\ b \in [Replicas -> Build] /\ local \in [Replicas -> Entry]
           /\ local[r] \in Entry /\ b[r].basis \in Entry /\ b[r].out \in Entry
           /\ b[r].pc \in Phases /\ b[r].from \in 0 .. Len(Index) /\ b[r].gen \in 0 .. Len(Index)
           /\ b[r].todo \in SUBSET Archs /\ b[r].acc \in Map /\ b[r].whole \in BOOLEAN
           /\ b[r].fresh \in BOOLEAN /\ b[r].trusted \in BOOLEAN
           /\ b[r].arch \in Archs \union {"none"}
           /\ b[r].add \in SUBSET Pkgs /\ b[r].drop \in SUBSET Pkgs
<1>1. b \in [Replicas -> Build] /\ local \in [Replicas -> Entry]
  BY Zenon DEF TypeOK
<1>2. b[r] \in Build /\ local[r] \in Entry
  BY Zenon, <1>1
<1> QED
  BY Zenon, <1>1, <1>2 DEF Build

\* The parts of an entry are of their types.
LEMMA EntryParts ==
    ASSUME NEW e \in Entry
    PROVE  /\ e.gen \in 0 .. Len(Index) /\ e.pkgs \in Map /\ e.complete \in BOOLEAN
           /\ e.fresh \in BOOLEAN /\ e.sgen \in 0 .. Len(Index) /\ e.srcs \in Nat
BY Zenon DEF Entry

\* A build starts to read the buckets.
LEMMA ReadStarts ==
    ASSUME TypeOK, NEW r \in Replicas, NEW why \in Whys, StartRead(r, why)
    PROVE  /\ Moved(r, "scan") /\ Same(r, {"basis", "out"})
           /\ b'[r].from = meta.gen /\ b'[r].todo = Archs /\ b'[r].acc = Empty /\ b'[r].whole
<1> DEFINE x == [b[r] EXCEPT !.pc = "scan", !.why = why, !.from = meta.gen,
                             !.fresh = meta.fresh, !.todo = Archs, !.acc = Empty,
                             !.whole = TRUE]
<1>1. b \in [Replicas -> Build] /\ b[r] \in Build
  BY Zenon DEF TypeOK
<1>2. meta.gen \in 0 .. Len(Index) /\ meta.fresh \in BOOLEAN
  BY Zenon DEF TypeOK
<1>3. "scan" \in Phases /\ Archs \in SUBSET Archs /\ Empty \in Map
  BY Zenon, FreshRecords DEF Phases
<1>4. x \in Build
  BY Zenon, <1>1, <1>2, <1>3 DEF Build, Whys
<1>5. b' = [b EXCEPT ![r] = x]
  BY ZenonT(30), <1>1 DEF StartRead
<1>6. b'[r] = x /\ Moved(r, x.pc)
  BY Zenon, <1>1, <1>4, <1>5, Replaced
<1> QED
  BY ZenonT(40), <1>1, <1>6 DEF Build, Same

\* IndexCache.store and updateSrcs replace the packages or the Sources of one entry.
LEMMA LocalStored ==
    ASSUME TypeOK, NEW r \in Replicas, NEW e \in Entry
    PROVE  /\ Stored(r, e) \in [Replicas -> Entry]
           /\ Stored(r, e)[r].gen = e.gen /\ Stored(r, e)[r].pkgs = e.pkgs
           /\ Stored(r, e)[r].complete = e.complete
           /\ \A q \in Replicas : q # r => Stored(r, e)[q] = local[q]
<1> DEFINE old == local[r]
           x == IF old.sgen # 0 \/ old.srcs # 0
                THEN [e EXCEPT !.sgen = old.sgen, !.srcs = old.srcs] ELSE e
<1>1. local \in [Replicas -> Entry] /\ old \in Entry
  BY Zenon, BuildParts
<1>2. old.sgen \in 0 .. Len(Index) /\ old.srcs \in Nat
  BY Zenon, <1>1 DEF Entry
<1>3. [e EXCEPT !.sgen = old.sgen, !.srcs = old.srcs] \in Entry
  BY Zenon, <1>2 DEF Entry
<1>4. /\ [e EXCEPT !.sgen = old.sgen, !.srcs = old.srcs].gen = e.gen
      /\ [e EXCEPT !.sgen = old.sgen, !.srcs = old.srcs].pkgs = e.pkgs
      /\ [e EXCEPT !.sgen = old.sgen, !.srcs = old.srcs].complete = e.complete
  BY Zenon DEF Entry
<1>5. x \in Entry /\ x.gen = e.gen /\ x.pkgs = e.pkgs /\ x.complete = e.complete
  BY Zenon, <1>3, <1>4
<1>6. Stored(r, e) = [local EXCEPT ![r] = x]
  BY Zenon DEF Stored
<1> HIDE DEF x
<1> QED
  BY Zenon, <1>1, <1>5, <1>6

\* updateSrcs replaces the Sources of the local entry and leaves its packages.
LEMMA LocalSrcsStored ==
    ASSUME TypeOK, NEW r \in Replicas, NEW g \in 0 .. Len(Index), NEW s \in Nat
    PROVE  /\ SrcsStored(r, g, s) \in [Replicas -> Entry]
           /\ SrcsStored(r, g, s)[r].gen = local[r].gen
           /\ SrcsStored(r, g, s)[r].pkgs = local[r].pkgs
           /\ SrcsStored(r, g, s)[r].complete = local[r].complete
           /\ \A q \in Replicas : q # r => SrcsStored(r, g, s)[q] = local[q]
<1> DEFINE x == [local[r] EXCEPT !.sgen = g, !.srcs = s]
<1>1. local \in [Replicas -> Entry] /\ local[r] \in Entry
  BY Zenon, BuildParts
<1>2. x \in Entry /\ x.gen = local[r].gen /\ x.pkgs = local[r].pkgs
         /\ x.complete = local[r].complete
  BY Zenon, <1>1 DEF Entry
<1>3. SrcsStored(r, g, s) = [local EXCEPT ![r] = x]
  BY Zenon, <1>1 DEF SrcsStored
<1> HIDE DEF x
<1> QED
  BY Zenon, <1>1, <1>2, <1>3

\* What was read of the buckets, and what was fetched, is an entry.
LEMMA EntriesMade ==
    ASSUME TypeOK, NEW r \in Replicas, NEW g \in 0 .. Len(Index), NEW f \in BOOLEAN
    PROVE  LET e == [NoEntry EXCEPT !.gen = g, !.fresh = f, !.pkgs = b[r].acc,
                                    !.complete = b[r].whole]
               h == [NoEntry EXCEPT !.gen = g, !.pkgs = b[r].acc, !.complete = b[r].whole,
                                    !.fresh = f]
           IN  /\ e \in Entry /\ e.gen = g /\ e.pkgs = b[r].acc /\ e.complete = b[r].whole
               /\ h \in Entry /\ h.gen = g /\ h.pkgs = b[r].acc /\ h.complete = b[r].whole
<1>1. b[r].acc \in Map /\ b[r].whole \in BOOLEAN
  BY Zenon, BuildParts
<1>2. NoEntry \in Entry
  BY Zenon, FreshRecords
<1> QED
  BY Zenon, <1>1, <1>2 DEF Entry

\* What a build has read of the buckets is an entry.
LEMMA EntryRead ==
    ASSUME TypeOK, NEW r \in Replicas
    PROVE  /\ ReadEntry(r) \in Entry /\ ReadEntry(r).gen = b[r].from
           /\ ReadEntry(r).pkgs = b[r].acc /\ ReadEntry(r).complete = b[r].whole
<1>1. /\ b[r].from \in 0 .. Len(Index) /\ b[r].fresh \in BOOLEAN
      /\ b[r].acc \in Map /\ b[r].whole \in BOOLEAN
  BY Zenon, BuildParts
<1>2. NoEntry \in Entry
  BY Zenon, FreshRecords
<1> QED
  BY Zenon, <1>1, <1>2 DEF ReadEntry, Entry

-----------------------------------------------------------------------------
(* What every step has in common *)

\* Faults are remembered; this step is no crash.
Growing == /\ seen \subseteq seen' /\ seen' \subseteq Kinds \union {"torn"}
           /\ "crash" \in seen' => "crash" \in seen
\* Every fault of a build, and an overlap, is remembered and is no crash.
LEMMA SeenGrows ==
    ASSUME TypeOK
    PROVE  /\ NoFault => Growing
           /\ \A k \in Kinds : k # "crash" /\ Fault(k) => Growing /\ k \in seen'
           /\ MidSync => Growing /\ "variant" \in seen'
           /\ \A r \in Replicas : \A phases : Overlap(r, phases) => Growing
<1>1. seen \subseteq Kinds \union {"torn"} /\ "variant" \in Kinds
  BY Zenon DEF TypeOK, Kinds
<1> QED
  BY Zenon, <1>1 DEF NoFault, Fault, MidSync, Overlap, Growing

\* A clean state comes from a clean state.
LEMMA CleanBefore ==
    ASSUME seen \subseteq seen', Clean' PROVE Clean
BY Zenon DEF Clean, SameArchs, NeverBack

\* The types, and what some phases need beside them.
Place(x) ==
    /\ x.pc = "mget" => x.arch \in Archs
    /\ x.pc \in Publishing => x.todo \subseteq DOMAIN x.acc /\ x.gen \in Gens
    /\ x.pc \in {"archs", "srcfile", "srcput"} => x.gen \in Gens
Typed == TypeOK /\ \A r \in Replicas : Place(b[r])
Inv == Typed /\ IndexInv

\* A step of replica r that leaves the buckets alone, apart from its build.
Calm(r) ==
    /\ UNCHANGED <<shared, mirror, meta, members, stored>>
    /\ vsrcs' \in Nat /\ flag' \in BOOLEAN /\ lock' \in Replicas \union {Nobody, Dead}
    /\ local' \in [Replicas -> Entry] /\ \A q \in Replicas : q # r => local'[q] = local[q]
    /\ view' \in [Replicas -> Entry] /\ rounds' \in 0 .. MaxRounds /\ Growing

\* The buckets are as they were, and not published by fewer.
LEMMA BucketsStay ==
    ASSUME BucketsOK, UNCHANGED <<members, stored>>, meta'.gen = meta.gen,
           meta'.fresh => meta.fresh, Ahead' \subseteq Ahead, seen \subseteq seen',
           \A q \in Replicas : b[q].pc \in Publishing =>
               b'[q].pc \in Publishing /\ b'[q].gen = b[q].gen
    PROVE  BucketsOK'
<1>1. Publishers \subseteq Publishers' /\ \A q \in Publishers : b'[q].gen = b[q].gen
  BY Zenon DEF Publishers
<1>2. \A a : Trusted(meta.gen, a, Ahead)' => Trusted(meta.gen, a, Ahead)
  BY Zenon DEF Trusted
<1>3. ASSUME meta.gen # 0, NEW a \in DOMAIN Index[meta.gen], "crash" \notin seen',
             \A q \in Publishers' : Index[b'[q].gen][a] = Index[meta.gen][a]
      PROVE  Right(meta.gen, a, members, stored)
  <2>1. \A q \in Publishers : Index[b[q].gen][a] = Index[meta.gen][a]
    BY Zenon, <1>1, <1>3
  <2> QED
    BY Zenon, <1>3, <2>1 DEF BucketsOK
<1>4. ASSUME meta.gen # 0, NEW a \in DOMAIN Index[meta.gen], Publishers' = {},
             meta'.fresh \/ Trusted(meta.gen, a, Ahead)'
      PROVE  Right(meta.gen, a, members, stored)
  <2>1. Publishers = {} /\ (meta.fresh \/ Trusted(meta.gen, a, Ahead))
    BY Zenon, <1>1, <1>2, <1>4
  <2> QED
    BY Zenon, <1>4, <2>1 DEF BucketsOK
<1>5. \A g \in Gens : \A a \in Archs : a \notin DOMAIN Index[g] => members[a] = {}
  BY Zenon DEF BucketsOK
<1> QED
  BY Zenon, <1>3, <1>4, <1>5 DEF BucketsOK

\* Of a calm step only the replica's own part of the invariant is left to be shown.
LEMMA CalmKeeps ==
    ASSUME Inv, NEW r \in Replicas, NEW p, Moved(r, p), Calm(r), Place(b'[r]),
           b[r].pc \notin Publishing,
           Clean' /\ Clean /\ ReplicasOK /\ BucketsOK =>
               ReplicaOK(local'[r], b'[r], Ahead, mirror, meta.gen, members, stored)
    PROVE  Inv'
<1>1. TypeOK'
  BY Zenon DEF Inv, Typed, TypeOK, Calm, Growing, Moved
<1>2. ASSUME NEW q \in Replicas, q # r PROVE Place(b'[q])
  BY Zenon, <1>2 DEF Inv, Typed, Moved
<1>3. Typed'
  BY Zenon, <1>1, <1>2 DEF Typed
<1>4. Ahead' = Ahead
  BY Zenon DEF Ahead, Calm, Growing
<1>5. ASSUME Clean' PROVE ReplicasOK' /\ BucketsOK'
  <2>1. Clean /\ ReplicasOK /\ BucketsOK
    BY Zenon, <1>5, CleanBefore DEF Calm, Growing, Inv, IndexInv
  <2>2. ReplicaOK(local'[r], b'[r], Ahead, mirror, meta.gen, members, stored)
    BY Zenon, <1>5, <2>1
  <2>3. ASSUME NEW q \in Replicas, q # r
        PROVE  ReplicaOK(local'[q], b'[q], Ahead, mirror, meta.gen, members, stored)
    BY Zenon, <2>1, <2>3 DEF ReplicasOK, Calm, Moved
  <2>4. ReplicasOK'
    BY Zenon, <1>4, <2>2, <2>3 DEF ReplicasOK, Calm
  <2>5. BucketsOK'
    <3>1. \A q \in Replicas : b[q].pc \in Publishing => b'[q] = b[q]
      BY Zenon DEF Moved
    <3> QED
      BY Zenon, <1>4, <2>1, <3>1, BucketsStay DEF Calm, Growing
  <2> QED
    BY Zenon, <2>4, <2>5
<1>6. IndexInv'
  BY Zenon, <1>5 DEF IndexInv, Inv, Calm
<1> QED
  BY Zenon, <1>3, <1>6 DEF Inv

-----------------------------------------------------------------------------
(* Steps that only pass on entries *)

Like(e, f) == e.gen = f.gen /\ e.pkgs = f.pkgs /\ e.complete = f.complete
Known(r) == {NoEntry, local[r], b[r].basis, b[r].out}
Old(e, r) == \E f \in Known(r) : Like(e, f)

\* An entry with the same packages, when no more is trusted, is as right as it was.
LEMMA EntryStays ==
    ASSUME NEW e, NEW f, NEW s, NEW t, EntryOK(f, s), Like(e, f), t \subseteq s
    PROVE  EntryOK(e, t)
BY ZenonT(40) DEF EntryOK, Trusted, Like

\* The entries that a replica knows are right, and so are those like them.
LEMMA OldEntries ==
    ASSUME ReplicasOK, NEW r \in Replicas, NEW e, Old(e, r)
    PROVE  EntryOK(e, Ahead)
<1>1. EntryOK(NoEntry, Ahead)
  BY Zenon DEF EntryOK, NoEntry, Empty
<1>2. EntryOK(local[r], Ahead) /\ EntryOK(b[r].basis, Ahead) /\ EntryOK(b[r].out, Ahead)
  BY Zenon DEF ReplicasOK, ReplicaOK
<1>3. PICK f \in Known(r) : Like(e, f)
  BY Zenon DEF Old
<1>4. EntryOK(f, Ahead)
  BY Zenon, <1>1, <1>2, <1>3 DEF Known
<1> QED
  BY Zenon, <1>3, <1>4, EntryStays

\* The phases of which the invariant says nothing more.
Dull == {"idle", "begin", "outright", "fetch", "basis", "lock", "release", "srcs", "srcmeta",
         "srcget", "srcbasis", "srclock", "srcrelease", "done"}
SrcsDull == {"srcfile", "srcput"}
\* In most phases a build neither reads, fetches nor publishes.
LEMMA DullPhases ==
    /\ Dull \subseteq Phases /\ SrcsDull \subseteq Phases
    /\ \A p \in Dull \union SrcsDull :
          p \notin Reading /\ p # "archs" /\ p \notin Publishing /\ p # "mget"
    /\ \A p \in Dull : p \notin {"srcfile", "srcput"}
<1>1. Dull \subseteq Phases /\ SrcsDull \subseteq Phases
  BY Zenon DEF Dull, SrcsDull, Phases
<1>2. \A p \in Dull : p \notin Reading /\ p # "archs" /\ p # "mget"
  BY Zenon DEF Dull, Reading
<1>3. \A p \in Dull : p \notin Publishing
  BY Zenon DEF Dull, Publishing
<1>4. \A p \in Dull : p \notin {"srcfile", "srcput"}
  BY Zenon DEF Dull
<1>5. \A p \in SrcsDull : p \notin Reading /\ p # "archs" /\ p \notin Publishing /\ p # "mget"
  BY Zenon DEF SrcsDull, Reading, Publishing
<1> QED
  BY Zenon, <1>1, <1>2, <1>3, <1>4, <1>5

\* A calm step to such a phase, with entries the replica knew, keeps the invariant.
LEMMA DullKeeps ==
    ASSUME Inv, NEW r \in Replicas, NEW p, Moved(r, p), Calm(r),
           p \in Dull \/ (p \in SrcsDull /\ b'[r].gen \in Gens), b[r].pc \notin Publishing,
           Old(local'[r], r), Old(b'[r].basis, r), Old(b'[r].out, r)
    PROVE  Inv'
<1>1. /\ b'[r].pc = p /\ p \notin Reading /\ p # "archs" /\ p \notin Publishing /\ p # "mget"
      /\ p \in {"srcfile", "srcput"} => b'[r].gen \in Gens
  BY Zenon, DullPhases DEF Moved
<1>2. Place(b'[r])
  BY Zenon, <1>1 DEF Place
<1>3. ReplicasOK => ReplicaOK(local'[r], b'[r], Ahead, mirror, meta.gen, members, stored)
  BY Zenon, <1>1, OldEntries DEF ReplicaOK
<1> QED
  BY Zenon, <1>2, <1>3, CalmKeeps

\* The entries that a build goes on with were known to its replica.
LEMMA OldParts ==
    ASSUME NEW r \in Replicas
    PROVE  /\ Old(NoEntry, r) /\ Old(local[r], r) /\ Old(b[r].basis, r) /\ Old(b[r].out, r)
           /\ Same(r, {"basis", "from", "gen", "todo", "acc", "whole", "arch", "add", "drop", "out"})
                 => Old(b'[r].basis, r) /\ Old(b'[r].out, r)
<1>1. \A f \in Known(r) : Old(f, r)
  BY Zenon DEF Old, Like
<1>2. Old(NoEntry, r) /\ Old(local[r], r) /\ Old(b[r].basis, r) /\ Old(b[r].out, r)
  BY Zenon, <1>1 DEF Known
<1> QED
  BY Zenon, <1>2 DEF Same

\* A build starts to read the buckets of a meta that is there.
LEMMA ReadBegins ==
    ASSUME Inv, NEW r \in Replicas, NEW why \in Whys, StartRead(r, why), Calm(r),
           local' = local, meta.gen # 0, b[r].pc \notin Publishing
    PROVE  Inv'
<1>1. /\ Moved(r, "scan") /\ Same(r, {"basis", "out"})
      /\ b'[r].from = meta.gen /\ b'[r].todo = Archs /\ b'[r].acc = Empty /\ b'[r].whole
  BY Zenon, ReadStarts DEF Inv, Typed
<1>2. b'[r].pc = "scan" /\ b'[r].basis = b[r].basis /\ b'[r].out = b[r].out
  BY Zenon, <1>1 DEF Moved, Same
<1>3. Place(b'[r])
  BY Zenon, <1>2 DEF Place, Publishing
<1>4. ReadOK(b'[r], meta.gen, members, stored)
  BY Zenon, <1>1, <1>2 DEF ReadOK, Empty
<1>5. ReplicasOK => ReplicaOK(local'[r], b'[r], Ahead, mirror, meta.gen, members, stored)
  BY Zenon, <1>2, <1>4 DEF ReplicasOK, ReplicaOK, Publishing
<1> QED
  BY Zenon, <1>1, <1>3, <1>5, CalmKeeps

\* The steps that begin a build and look for what there is.
LEMMA SearchKeeps ==
    ASSUME Inv, NEW r \in Replicas,
           \/ Refresh(r) \/ Rebuild(r) \/ BuildStart(r) \/ AdoptFromValkeyOutright(r)
           \/ FetchIndex(r) \/ CachedForComparison(r)
    PROVE  Inv'
<1>t. TypeOK
  BY Zenon DEF Inv, Typed
<1> USE <1>t, SeenGrows, BuildParts
<1>r. /\ rounds \in 0 .. MaxRounds /\ lock \in Replicas \union {Nobody, Dead}
      /\ vsrcs \in Nat /\ flag \in BOOLEAN /\ view \in [Replicas -> Entry]
      /\ local \in [Replicas -> Entry]
  BY Zenon DEF TypeOK
<1>p. {"begin", "fetch", "outright", "basis", "lock", "srcs"} \subseteq Dull
  BY Zenon DEF Dull
<1>d. Dull \subseteq Phases
  BY Zenon, DullPhases
<1>k. "read" \in Kinds /\ "read" # "crash" /\ {"outright", "real"} \subseteq Hows
  BY Zenon DEF Kinds, Hows
<1>o. Old(NoEntry, r) /\ Old(local[r], r) /\ Old(b[r].basis, r) /\ Old(b[r].out, r)
  BY Zenon, OldParts
<1>i. b[r].pc \in {"idle", "begin", "outright", "fetch", "basis"} => b[r].pc \notin Publishing
  BY Zenon DEF Publishing
<1>m. meta.fresh => meta.gen # 0
  BY Zenon DEF Inv, IndexInv
<1> DEFINE Goes == \E p \in Dull : Moved(r, p) /\ Old(b'[r].basis, r) /\ Old(b'[r].out, r)
<1>q. ASSUME Calm(r), local' = local, b[r].pc \notin Publishing, Goes PROVE Inv'
  BY Zenon, <1>o, <1>q, DullKeeps
<1>a. ASSUME NEW how \in Hows, Answer(r, local[r], how)
      PROVE  Goes /\ lock' \in Replicas \union {Nobody, Dead}
  <2>1. local[r] \in Entry
    BY Zenon
  <2> QED
    BY Zenon, <1>a, <1>o, <1>p, <2>1, AnswerMoves
<1>f. ASSUME NEW p \in Dull, b' = [b EXCEPT ![r].pc = p] PROVE Goes
  <2>1. Moved(r, p) /\ Same(r, {"basis", "from", "gen", "todo", "acc", "whole", "arch", "add", "drop", "out"})
    BY Zenon, <1>d, <1>f, PcMoves
  <2> QED
    BY Zenon, <2>1, OldParts
<1>b. ASSUME NEW p \in Dull, NEW w \in BOOLEAN,
             \/ b' = [b EXCEPT ![r] = [NoBuild EXCEPT !.pc = p, !.warm = w]]
             \/ b' = [b EXCEPT ![r] = [NoBuild EXCEPT !.trusted = w, !.pc = p]]
      PROVE  Goes
  BY ZenonT(40), <1>b, <1>d, <1>o, BuildBegins
<1>1. CASE Refresh(r)
  <2>1. rounds' \in 0 .. MaxRounds
    BY <1>1, <1>r, MirrorAssumption DEF Refresh, Round
  <2>2. Calm(r) /\ local' = local
    BY Zenon, <1>1, <1>r, <2>1 DEF Refresh, Calm, valkey, NoFault
  <2>3. Goes
    BY Zenon, <1>1, <1>b, <1>p DEF Refresh
  <2> QED
    BY Zenon, <1>1, <1>i, <1>q, <2>2, <2>3 DEF Refresh, At
<1>2. CASE Rebuild(r)
  <2>1. rounds' \in 0 .. MaxRounds
    BY <1>2, <1>r, MirrorAssumption DEF Rebuild, Round
  <2>2. Calm(r) /\ local' = local
    BY Zenon, <1>2, <1>r, <2>1 DEF Rebuild, Calm, valkey, NoFault
  <2>3. Goes
    BY Zenon, <1>2, <1>f, <1>p DEF Rebuild
  <2> QED
    BY Zenon, <1>2, <1>i, <1>q, <2>2, <2>3 DEF Rebuild, At
<1>3. CASE BuildStart(r)
  <2>1. LayoutDataFresh \in BOOLEAN
    BY Zenon DEF LayoutDataFresh, TypeOK
  <2>2. \E w \in BOOLEAN, p \in {"outright", "fetch"} :
          b' = [b EXCEPT ![r] = [NoBuild EXCEPT !.trusted = w, !.pc = p]]
    BY Zenon, <1>3, <2>1 DEF BuildStart
  <2>3. Goes
    BY Zenon, <1>b, <1>p, <2>2
  <2>4. Calm(r) /\ local' = local
    BY Zenon, <1>3, <1>r DEF BuildStart, Calm, valkey, NoFault
  <2> QED
    BY Zenon, <1>3, <1>i, <1>q, <2>3, <2>4 DEF BuildStart, At
<1>4. CASE AdoptFromValkeyOutright(r)
  <2>1. Growing /\ local' = local
    BY Zenon, <1>4, <1>k DEF AdoptFromValkeyOutright
  <2>2. b[r].pc \notin Publishing
    BY Zenon, <1>4, <1>i DEF AdoptFromValkeyOutright, At
  <2>3. \/ Goes /\ lock' \in Replicas \union {Nobody, Dead}
        \/ StartRead(r, "outright") /\ lock' = lock /\ meta.gen # 0
    BY Zenon, <1>4, <1>a, <1>f, <1>k, <1>p, <1>r DEF AdoptFromValkeyOutright
  <2>4. Calm(r)
    BY Zenon, <1>4, <1>r, <2>1, <2>3 DEF AdoptFromValkeyOutright, Calm
  <2>5. "outright" \in Whys
    BY Zenon DEF Whys
  <2> QED
    BY Zenon, <1>q, <2>1, <2>2, <2>3, <2>4, <2>5, ReadBegins
<1>5. CASE FetchIndex(r)
  <2>1. Growing /\ local' = local
    BY Zenon, <1>5, <1>k DEF FetchIndex
  <2>2. b[r].pc \notin Publishing
    BY Zenon, <1>5, <1>i DEF FetchIndex, At
  <2>3. \/ Goes /\ lock' \in Replicas \union {Nobody, Dead}
        \/ StartRead(r, "adopt") /\ lock' = lock /\ meta.gen # 0
    BY Zenon, <1>5, <1>a, <1>f, <1>k, <1>m, <1>p, <1>r DEF FetchIndex
  <2>4. Calm(r)
    BY Zenon, <1>5, <1>r, <2>1, <2>3 DEF FetchIndex, Calm
  <2>5. "adopt" \in Whys
    BY Zenon DEF Whys
  <2> QED
    BY Zenon, <1>q, <2>1, <2>2, <2>3, <2>4, <2>5, ReadBegins
<1>6. CASE CachedForComparison(r)
  <2>1. Growing /\ local' = local
    BY Zenon, <1>6, <1>k DEF CachedForComparison
  <2>2. b[r].pc \notin Publishing
    BY Zenon, <1>6, <1>i DEF CachedForComparison, At
  <2>b. ASSUME NEW e \in {local[r], NoEntry}, b' = [b EXCEPT ![r].pc = "lock", ![r].basis = e]
        PROVE  Goes
    <3>1. e \in Entry /\ Old(e, r) /\ "lock" \in Phases
      BY Zenon, <1>d, <1>o, <1>p, FreshRecords
    <3>2. /\ Moved(r, "lock") /\ b'[r].basis = e
          /\ Same(r, {"from", "gen", "todo", "acc", "whole", "arch", "add", "drop", "out"})
      BY Zenon, <2>b, <3>1, BasisMoves
    <3> QED
      BY Zenon, <1>o, <1>p, <3>1, <3>2 DEF Same
  <2>3. Goes \/ (StartRead(r, "compare") /\ meta.gen # 0)
    BY Zenon, <1>6, <2>b DEF CachedForComparison
  <2>4. Calm(r)
    BY Zenon, <1>6, <1>r, <2>1 DEF CachedForComparison, Calm, valkey
  <2>5. "compare" \in Whys
    BY Zenon DEF Whys
  <2> QED
    BY Zenon, <1>q, <2>1, <2>2, <2>3, <2>4, <2>5, ReadBegins
<1> HIDE DEF Goes
<1> QED
  BY Zenon, <1>1, <1>2, <1>3, <1>4, <1>5, <1>6

-----------------------------------------------------------------------------
(* Reading the buckets *)

\* A step in a clean state overlaps with no other replica's.
LEMMA Alone ==
    ASSUME NEW r \in Replicas, NEW phases, Overlap(r, phases), Clean'
    PROVE  \A q \in Replicas : q # r => b[q].pc \notin phases
BY Zenon DEF Overlap, Clean

\* What has been read while nobody publishes belongs to the Release of the meta.
LEMMA ReadEntryOK ==
    ASSUME Inv, ReplicasOK, BucketsOK, NEW r \in Replicas, b[r].pc = "scan", b[r].todo = {},
           Publishers = {}
    PROVE  EntryOK(ReadEntry(r), Ahead)
<1> DEFINE e == ReadEntry(r)
<1>1. e.gen = b[r].from /\ e.pkgs = b[r].acc /\ e.complete = b[r].whole
  BY Zenon, EntryRead DEF Inv, Typed
<1>2. ReadOK(b[r], meta.gen, members, stored)
  BY Zenon DEF ReplicasOK, ReplicaOK, Reading
<1>3. e.gen = meta.gen /\ meta.gen # 0
  BY Zenon, <1>1, <1>2 DEF ReadOK
<1>4. meta.gen \in Gens /\ Index[meta.gen] \in Map /\ b[r].acc \in Map
  <2>1. meta.gen \in 0 .. Len(Index)
    BY Zenon DEF Inv, Typed, TypeOK
  <2> QED
    BY Zenon, <1>3, <2>1, Generations, BuildParts DEF Inv, Typed
<1>5. DOMAIN b[r].acc \subseteq Archs /\ DOMAIN Index[meta.gen] \subseteq Archs
  BY Zenon, <1>4, Maps
<1>6. \A a \in DOMAIN b[r].acc : members[a] # {} /\ b[r].acc[a] = members[a] \cap stored[a]
  BY Zenon, <1>2 DEF ReadOK
<1>7. b[r].whole => \A a \in Archs : members[a] # {} => a \in DOMAIN b[r].acc
  BY Zenon, <1>2 DEF ReadOK
<1>8. DOMAIN e.pkgs \subseteq DOMAIN Index[e.gen]
  BY Zenon, <1>1, <1>3, <1>4, <1>5, <1>6 DEF BucketsOK
<1>9. ASSUME NEW a \in DOMAIN Index[e.gen], Trusted(e.gen, a, Ahead)
      PROVE  /\ a \in DOMAIN e.pkgs => e.pkgs[a] = Index[e.gen][a]
             /\ a \notin DOMAIN e.pkgs /\ e.complete => Index[e.gen][a] = {}
  <2>1. members[a] = Index[e.gen][a] /\ Index[e.gen][a] \subseteq stored[a]
    BY Zenon, <1>3, <1>9 DEF BucketsOK, Right
  <2>2. a \in DOMAIN e.pkgs => e.pkgs[a] = members[a] \cap stored[a]
    BY Zenon, <1>1, <1>6
  <2>3. a \notin DOMAIN e.pkgs /\ e.complete => members[a] = {}
    BY Zenon, <1>1, <1>3, <1>5, <1>7, <1>9
  <2> HIDE DEF e
  <2>4. members[a] \cap stored[a] = members[a]
    BY Zenon, <2>1
  <2> QED
    BY Zenon, <2>1, <2>2, <2>3, <2>4
<1> HIDE DEF e
<1>10. EntryOK(e, Ahead)
  BY Zenon, <1>3, <1>8, <1>9 DEF EntryOK
<1> QED
  BY Zenon, <1>10 DEF e

\* One command of a read.
LEMMA ReadOn ==
    ASSUME Inv, NEW r \in Replicas, b[r].pc \in Reading, NEW p \in Reading, Moved(r, p),
           Calm(r), local' = local, b'[r].basis = b[r].basis, b'[r].out = b[r].out,
           p = "mget" => b'[r].arch \in Archs,
           ReadOK(b[r], meta.gen, members, stored) => ReadOK(b'[r], meta.gen, members, stored)
    PROVE  Inv'
<1>1. b'[r].pc = p /\ p # "archs" /\ p \notin Publishing /\ p \notin {"srcfile", "srcput"}
  BY Zenon DEF Moved, Reading, Publishing
<1>2. b[r].pc \notin Publishing
  BY Zenon DEF Reading, Publishing
<1>3. Place(b'[r])
  BY Zenon, <1>1 DEF Place
<1>4. ReplicasOK => ReplicaOK(local'[r], b'[r], Ahead, mirror, meta.gen, members, stored)
  BY Zenon, <1>1 DEF ReplicasOK, ReplicaOK
<1> QED
  BY Zenon, <1>2, <1>3, <1>4, CalmKeeps

\* ScanArch reads which members a bucket has.
LEMMA ScanKeeps ==
    ASSUME Inv, NEW r \in Replicas, ScanArch(r) PROVE Inv'
<1>t. TypeOK
  BY Zenon DEF Inv, Typed
<1>b. /\ b \in [Replicas -> Build] /\ b[r].todo \in SUBSET Archs /\ b[r].acc \in Map
      /\ b[r].add \in SUBSET Pkgs
  BY Zenon, <1>t, BuildParts
<1>r. /\ rounds \in 0 .. MaxRounds /\ lock \in Replicas \union {Nobody, Dead}
      /\ vsrcs \in Nat /\ flag \in BOOLEAN /\ view \in [Replicas -> Entry]
      /\ local \in [Replicas -> Entry] /\ members \in [Archs -> SUBSET Pkgs]
  BY Zenon, <1>t DEF TypeOK
<1>k. "read" \in Kinds /\ "read" # "crash" /\ "mget" \in Phases /\ "scan" # "mget"
  BY Zenon DEF Kinds, Phases
<1>s. b[r].pc = "scan" /\ {"scan", "mget"} \subseteq Reading
  BY Zenon DEF ScanArch, At, Reading
<1>1. PICK a \in b[r].todo :
        \/ NoFault /\ members[a] = {} /\ b' = [b EXCEPT ![r].todo = b[r].todo \ {a}]
        \/ NoFault /\ members[a] # {}
           /\ b' = [b EXCEPT ![r].todo = b[r].todo \ {a}, ![r].pc = "mget", ![r].arch = a,
                             ![r].add = members[a]]
        \/ Fault("read") /\ b' = [b EXCEPT ![r].todo = b[r].todo \ {a}, ![r].whole = FALSE]
  BY Zenon DEF ScanArch, ReadFailed
<1>2. /\ b[r].todo \ {a} \in SUBSET Archs /\ a \in Archs /\ a \in Archs \union {"none"}
      /\ members[a] \in SUBSET Pkgs /\ FALSE \in BOOLEAN
  BY Zenon, <1>b, <1>r
<1>3. Calm(r) /\ local' = local
  <2>1. Growing
    BY Zenon, <1>t, <1>k, <1>1, SeenGrows
  <2> QED
    BY Zenon, <1>r, <2>1 DEF ScanArch, Calm, valkey
<1>4. CASE members[a] = {} /\ b' = [b EXCEPT ![r].todo = b[r].todo \ {a}]
  <2>1. /\ Moved(r, b[r].pc) /\ b'[r].todo = b[r].todo \ {a}
        /\ Same(r, {"basis", "from", "gen", "acc", "whole", "arch", "add", "drop", "out"})
    BY ZenonT(40), <1>2, <1>4, <1>b, TodoMoves
  <2>2. ReadOK(b[r], meta.gen, members, stored) => ReadOK(b'[r], meta.gen, members, stored)
    <3>1. /\ b'[r].pc = "scan" /\ b'[r].from = b[r].from /\ b'[r].acc = b[r].acc
          /\ b'[r].whole = b[r].whole
      BY Zenon, <1>s, <2>1 DEF Same, Moved
    <3> QED
      BY Zenon, <1>k, <1>s, <1>4, <2>1, <3>1 DEF ReadOK
  <2> QED
    BY Zenon, <1>k, <1>s, <1>3, <2>1, <2>2, ReadOn DEF Same
<1>5. CASE /\ members[a] # {}
           /\ b' = [b EXCEPT ![r].todo = b[r].todo \ {a}, ![r].pc = "mget", ![r].arch = a,
                             ![r].add = members[a]]
  <2>1. /\ Moved(r, "mget") /\ b'[r].todo = b[r].todo \ {a} /\ b'[r].arch = a
        /\ b'[r].add = members[a]
        /\ Same(r, {"basis", "from", "gen", "acc", "whole", "drop", "out"})
    BY Zenon, <1>2, <1>5, <1>b, ScanMoves
  <2>2. ReadOK(b[r], meta.gen, members, stored) => ReadOK(b'[r], meta.gen, members, stored)
    <3>1. /\ b'[r].pc = "mget" /\ b'[r].from = b[r].from /\ b'[r].acc = b[r].acc
          /\ b'[r].whole = b[r].whole
      BY Zenon, <2>1 DEF Same, Moved
    <3> QED
      BY ZenonT(40), <1>k, <1>s, <1>5, <2>1, <3>1 DEF ReadOK
  <2> QED
    BY Zenon, <1>2, <1>s, <1>3, <2>1, <2>2, ReadOn DEF Same
<1>6. CASE b' = [b EXCEPT ![r].todo = b[r].todo \ {a}, ![r].whole = FALSE]
  <2>1. /\ Moved(r, b[r].pc) /\ b'[r].todo = b[r].todo \ {a} /\ b'[r].whole = FALSE
        /\ Same(r, {"basis", "from", "gen", "acc", "arch", "add", "drop", "out"})
    BY Zenon, <1>2, <1>6, <1>b, SkipMoves
  <2>2. ReadOK(b[r], meta.gen, members, stored) => ReadOK(b'[r], meta.gen, members, stored)
    BY Zenon, <1>s, <1>k, <2>1 DEF ReadOK, Same, Moved
  <2> QED
    BY Zenon, <1>k, <1>s, <1>3, <2>1, <2>2, ReadOn DEF Same
<1> QED
  BY Zenon, <1>1, <1>4, <1>5, <1>6

\* MgetArch reads the entries of the members.
LEMMA MgetKeeps ==
    ASSUME Inv, NEW r \in Replicas, MgetArch(r) PROVE Inv'
<1>t. TypeOK
  BY Zenon DEF Inv, Typed
<1>b. /\ b \in [Replicas -> Build] /\ b[r].todo \in SUBSET Archs /\ b[r].acc \in Map
      /\ b[r].add \in SUBSET Pkgs
  BY Zenon, <1>t, BuildParts
<1>r. /\ rounds \in 0 .. MaxRounds /\ lock \in Replicas \union {Nobody, Dead}
      /\ vsrcs \in Nat /\ flag \in BOOLEAN /\ view \in [Replicas -> Entry]
      /\ local \in [Replicas -> Entry]
  BY Zenon, <1>t DEF TypeOK
<1>k. "read" \in Kinds /\ "read" # "crash" /\ "scan" \in Phases /\ "scan" # "mget"
  BY Zenon DEF Kinds, Phases
<1>s. b[r].pc = "mget" /\ {"scan", "mget"} \subseteq Reading /\ "none" \in Archs \union {"none"}
  BY Zenon DEF MgetArch, At, Reading
<1> DEFINE a == b[r].arch
           ps == b[r].add \cap stored[a]
           acc == With(b[r].acc, a, ps)
<1>1. \/ NoFault /\ b' = [b EXCEPT ![r].acc = acc, ![r].pc = "scan", ![r].arch = "none", ![r].add = {}]
      \/ Fault("read") /\ b' = [b EXCEPT ![r].whole = FALSE, ![r].pc = "scan", ![r].arch = "none",
                                         ![r].add = {}]
  BY Zenon DEF MgetArch, ReadFailed
<1>2. a \in Archs /\ ps \in SUBSET Pkgs /\ {} \in SUBSET Pkgs /\ FALSE \in BOOLEAN
  <2>1. a \in Archs
    BY Zenon, <1>s DEF Inv, Typed, Place
  <2> QED
    BY Zenon, <1>b, <2>1
<1>3. Calm(r) /\ local' = local
  <2>1. Growing
    BY Zenon, <1>t, <1>k, <1>1, SeenGrows
  <2> QED
    BY Zenon, <1>r, <2>1 DEF MgetArch, Calm, valkey
<1> HIDE DEF acc
<1>4. /\ acc \in Map /\ DOMAIN acc = DOMAIN b[r].acc \union {a} /\ acc[a] = ps
      /\ \A c \in DOMAIN b[r].acc : c # a => acc[c] = b[r].acc[c]
  <2>1. b[r].acc \in Map
    BY Zenon, <1>b
  <2>2. \A c \in Archs, qs \in SUBSET Pkgs :
          /\ With(b[r].acc, c, qs) \in Map
          /\ DOMAIN With(b[r].acc, c, qs) = DOMAIN b[r].acc \union {c}
          /\ With(b[r].acc, c, qs)[c] = qs
          /\ \A d \in DOMAIN b[r].acc : d # c => With(b[r].acc, c, qs)[d] = b[r].acc[d]
    BY Zenon, <2>1, Maps
  <2> HIDE DEF ps, a
  <2> QED
    BY Zenon, <1>2, <2>2 DEF acc
<1>5. CASE b' = [b EXCEPT ![r].acc = acc, ![r].pc = "scan", ![r].arch = "none", ![r].add = {}]
  <2>1. /\ Moved(r, "scan") /\ b'[r].acc = acc
        /\ Same(r, {"basis", "from", "gen", "todo", "whole", "drop", "out"})
    BY Zenon, <1>k, <1>s, <1>2, <1>4, <1>5, <1>b, MgetMoves
  <2>2. ASSUME ReadOK(b[r], meta.gen, members, stored)
        PROVE  ReadOK(b'[r], meta.gen, members, stored)
    <3>1. /\ b'[r].pc = "scan" /\ b'[r].from = b[r].from /\ b'[r].todo = b[r].todo
          /\ b'[r].whole = b[r].whole /\ b'[r].acc = acc
      BY Zenon, <2>1 DEF Same, Moved
    <3>2. b[r].add = members[a] /\ members[a] # {}
      BY Zenon, <1>s, <2>2 DEF ReadOK
    <3>3. \A c \in DOMAIN acc : members[c] # {} /\ acc[c] = members[c] \cap stored[c]
      <4>1. \A c \in DOMAIN b[r].acc : members[c] # {} /\ b[r].acc[c] = members[c] \cap stored[c]
        BY Zenon, <2>2 DEF ReadOK
      <4> QED
        BY Zenon, <1>4, <3>2, <4>1
    <3>4. b[r].whole => \A c \in Archs : members[c] # {} => c \in b[r].todo \/ c \in DOMAIN acc
      BY Zenon, <1>4, <2>2 DEF ReadOK
    <3>5. b[r].from = meta.gen /\ meta.gen # 0
      BY Zenon, <2>2 DEF ReadOK
    <3> QED
      BY Zenon, <1>k, <3>1, <3>3, <3>4, <3>5 DEF ReadOK
  <2> QED
    BY Zenon, <1>k, <1>s, <1>3, <2>1, <2>2, ReadOn DEF Same
<1>6. CASE b' = [b EXCEPT ![r].whole = FALSE, ![r].pc = "scan", ![r].arch = "none", ![r].add = {}]
  <2>1. /\ Moved(r, "scan") /\ b'[r].whole = FALSE
        /\ Same(r, {"basis", "from", "gen", "todo", "acc", "drop", "out"})
    BY Zenon, <1>k, <1>s, <1>2, <1>6, <1>b, MgetFailMoves
  <2>2. ReadOK(b[r], meta.gen, members, stored) => ReadOK(b'[r], meta.gen, members, stored)
    BY Zenon, <1>k, <2>1 DEF ReadOK, Same, Moved
  <2> QED
    BY Zenon, <1>k, <1>s, <1>3, <2>1, <2>2, ReadOn DEF Same
<1> QED
  BY Zenon, <1>1, <1>5, <1>6

\* What a read that ends may leave: what the replica knew, or what was read.
Got(e, r) == Old(e, r) \/ Like(e, ReadEntry(r))

\* The entries it leaves to the build are then right.
LEMMA ReadEnds ==
    ASSUME Inv, NEW r \in Replicas, NEW p \in Dull, Moved(r, p), Calm(r), b[r].pc = "scan",
           b[r].todo = {}, Overlap(r, Publishing),
           Got(local'[r], r), Got(b'[r].basis, r), Got(b'[r].out, r)
    PROVE  Inv'
<1>1. /\ b'[r].pc = p /\ p \notin Reading /\ p # "archs" /\ p \notin Publishing /\ p # "mget"
      /\ p \notin {"srcfile", "srcput"}
  BY Zenon, DullPhases DEF Moved
<1>2. Place(b'[r])
  BY Zenon, <1>1 DEF Place
<1>3. b[r].pc \notin Publishing
  BY Zenon DEF Publishing
<1>4. ASSUME Clean', ReplicasOK, BucketsOK
      PROVE  ReplicaOK(local'[r], b'[r], Ahead, mirror, meta.gen, members, stored)
  <2>1. Publishers = {}
    BY Zenon, <1>3, <1>4, Alone DEF Publishers
  <2>2. EntryOK(ReadEntry(r), Ahead)
    BY Zenon, <1>4, <2>1, ReadEntryOK
  <2>3. \A e : Like(e, ReadEntry(r)) => EntryOK(e, Ahead)
    BY Zenon, <2>2, EntryStays
  <2>4. \A e : Got(e, r) => EntryOK(e, Ahead)
    BY Zenon, <1>4, <2>3, OldEntries DEF Got
  <2> QED
    BY Zenon, <1>1, <2>4 DEF ReplicaOK
<1> QED
  BY Zenon, <1>2, <1>3, <1>4, CalmKeeps

\* The steps that end a read.
LEMMA AdoptKeeps ==
    ASSUME Inv, NEW r \in Replicas,
           AdoptFromValkey(r) \/ AdoptFromValkeyForComparison(r) \/ AdoptedOutright(r)
    PROVE  Inv'
<1>t. TypeOK
  BY Zenon DEF Inv, Typed
<1>r. /\ rounds \in 0 .. MaxRounds /\ lock \in Replicas \union {Nobody, Dead}
      /\ vsrcs \in Nat /\ flag \in BOOLEAN /\ view \in [Replicas -> Entry]
      /\ local \in [Replicas -> Entry] /\ b \in [Replicas -> Build]
  BY Zenon, <1>t DEF TypeOK
<1>p. {"fetch", "basis", "lock", "begin", "srcs"} \subseteq Dull
  BY Zenon DEF Dull
<1>d. Dull \subseteq Phases /\ Empty \in Map
  BY Zenon, DullPhases, FreshRecords
<1>k. "real" \in Hows /\ "outright" \in Hows
  BY Zenon DEF Hows
<1>o. Got(NoEntry, r) /\ Got(local[r], r) /\ Got(b[r].basis, r) /\ Got(b[r].out, r)
  BY Zenon, OldParts DEF Got
<1>g. Overlap(r, Publishing) => Growing
  BY Zenon, <1>t, SeenGrows
<1>e. /\ ReadEntry(r) \in Entry /\ Got(ReadEntry(r), r)
      /\ Stored(r, ReadEntry(r)) \in [Replicas -> Entry]
      /\ Got(Stored(r, ReadEntry(r))[r], r)
      /\ \A q \in Replicas : q # r => Stored(r, ReadEntry(r))[q] = local[q]
  <2>1. ReadEntry(r) \in Entry
    BY Zenon, <1>t, EntryRead
  <2>2. Got(ReadEntry(r), r)
    BY Zenon DEF Got, Like
  <2>3. Like(Stored(r, ReadEntry(r))[r], ReadEntry(r))
    BY Zenon, <1>t, <2>1, LocalStored DEF Like
  <2> QED
    BY Zenon, <1>t, <2>1, <2>2, <2>3, LocalStored DEF Got
<1> DEFINE Goes == \E p \in Dull : Moved(r, p) /\ Got(b'[r].basis, r) /\ Got(b'[r].out, r)
<1>a. ASSUME NEW how \in Hows, local' = Stored(r, ReadEntry(r)), Answer(r, local'[r], how)
      PROVE  Goes /\ lock' \in Replicas \union {Nobody, Dead}
  <2>1. local'[r] \in Entry /\ Got(local'[r], r)
    BY Zenon, <1>a, <1>e
  <2>2. PICK e \in Entry : local'[r] = e
    BY Zenon, <2>1
  <2>3. Answer(r, e, how) /\ Got(e, r)
    BY Zenon, <1>a, <2>1, <2>2
  <2> QED
    BY Zenon, <1>o, <1>p, <1>t, <2>3, AnswerMoves
<1>f. ASSUME NEW p \in Dull, b' = [b EXCEPT ![r].pc = p, ![r].acc = Empty] PROVE Goes
  <2>1. Moved(r, p) /\ Same(r, {"basis", "from", "gen", "todo", "whole", "arch", "add", "drop", "out"})
    BY Zenon, <1>d, <1>f, <1>r, DeclineMoves
  <2> QED
    BY Zenon, <1>o, <2>1 DEF Same
<1>q. ASSUME Calm(r), Goes, Got(local'[r], r), b[r].pc = "scan", b[r].todo = {},
             Overlap(r, Publishing)
      PROVE  Inv'
  BY Zenon, <1>q, ReadEnds
<1>1. CASE AdoptFromValkey(r)
  <2>1. local' = Stored(r, ReadEntry(r)) /\ Overlap(r, Publishing)
    BY Zenon, <1>1 DEF AdoptFromValkey
  <2>2. Goes /\ lock' \in Replicas \union {Nobody, Dead}
    <3>1. CASE b[r].whole
      BY Zenon, <1>1, <1>a, <1>k, <3>1 DEF AdoptFromValkey
    <3>2. CASE ~b[r].whole
      BY Zenon, <1>1, <1>f, <1>p, <1>r, <3>2 DEF AdoptFromValkey
    <3> QED
      BY Zenon, <3>1, <3>2
  <2> HIDE DEF Goes
  <2>3. Calm(r)
    BY Zenon, <1>1, <1>e, <1>g, <1>r, <2>1, <2>2 DEF AdoptFromValkey, Calm
  <2> QED
    BY Zenon, <1>1, <1>e, <1>q, <2>1, <2>2, <2>3 DEF AdoptFromValkey, ReadFor, At
<1>2. CASE AdoptFromValkeyForComparison(r)
  <2>1. local' = local /\ Overlap(r, Publishing)
    BY Zenon, <1>2 DEF AdoptFromValkeyForComparison
  <2>2. Goes
    <3>1. b' = [b EXCEPT ![r].pc = "lock", ![r].basis = ReadEntry(r), ![r].acc = Empty]
      BY Zenon, <1>2 DEF AdoptFromValkeyForComparison
    <3>2. "lock" \in Phases /\ "lock" \in Dull
      BY Zenon, <1>d, <1>p
    <3>3. /\ Moved(r, "lock") /\ b'[r].basis = ReadEntry(r)
          /\ Same(r, {"from", "gen", "todo", "whole", "arch", "add", "drop", "out"})
      BY ZenonT(40), <1>d, <1>e, <1>r, <3>1, <3>2, CompareMoves
    <3> QED
      BY Zenon, <1>e, <1>o, <3>2, <3>3 DEF Same
  <2> HIDE DEF Goes
  <2>3. Calm(r)
    BY Zenon, <1>2, <1>g, <1>r, <2>1 DEF AdoptFromValkeyForComparison, Calm, valkey
  <2> QED
    BY Zenon, <1>2, <1>o, <1>q, <2>1, <2>2, <2>3 DEF AdoptFromValkeyForComparison, ReadFor, At
<1>3. CASE AdoptedOutright(r)
  <2>1. Overlap(r, Publishing)
    BY Zenon, <1>3 DEF AdoptedOutright
  <2>2. /\ local' = Stored(r, ReadEntry(r)) \/ local' = local
        /\ Goes /\ lock' \in Replicas \union {Nobody, Dead}
    <3>1. CASE b[r].whole
      BY Zenon, <1>3, <1>a, <1>k, <3>1 DEF AdoptedOutright
    <3>2. CASE ~b[r].whole
      BY Zenon, <1>3, <1>f, <1>p, <1>r, <3>2 DEF AdoptedOutright
    <3> QED
      BY Zenon, <3>1, <3>2
  <2> HIDE DEF Goes
  <2>3. Calm(r)
    BY Zenon, <1>3, <1>e, <1>g, <1>r, <2>1, <2>2 DEF AdoptedOutright, Calm
  <2> QED
    BY Zenon, <1>3, <1>e, <1>o, <1>q, <2>1, <2>2, <2>3 DEF AdoptedOutright, ReadFor, At
<1> QED
  BY Zenon, <1>1, <1>2, <1>3

-----------------------------------------------------------------------------
(* Fetching from the mirror *)

\* A basis that can be reused for what the mirror lists now is what the mirror lists.
LEMMA ReuseOK ==
    ASSUME Inv, NEW e \in Entry, EntryOK(e, Ahead)
    PROVE  \A a \in DOMAIN e.pkgs :
              a \in DOMAIN Index[e.gen] /\ Index[e.gen][a] = Index[mirror][a]
              => e.pkgs[a] = Index[mirror][a]
<1>1. mirror \in Ahead /\ mirror \in Gens
  <2>1. mirror \in Gens
    BY Zenon DEF Inv, Typed, TypeOK
  <2>2. mirror <= mirror
    BY <2>1, Generations DEF Gens
  <2> QED
    BY Zenon, <2>1, <2>2 DEF Ahead
<1>2. ASSUME NEW a \in DOMAIN e.pkgs, a \in DOMAIN Index[e.gen],
             Index[e.gen][a] = Index[mirror][a]
      PROVE  e.pkgs[a] = Index[mirror][a]
  <2>1. e.gen # 0
    BY Zenon, <1>2 DEF EntryOK
  <2>2. Trusted(e.gen, a, Ahead)
    BY Zenon, <1>1, <1>2 DEF Trusted
  <2> QED
    BY Zenon, <1>2, <2>1, <2>2 DEF EntryOK
<1> QED
  BY Zenon, <1>2

\* The architectures of the Release are to be fetched.
LEMMA ArchsBegin ==
    ASSUME Inv, NEW r \in Replicas, StartArchs(r), Calm(r), b[r].pc = "release"
    PROVE  Inv'
<1>t. TypeOK /\ b \in [Replicas -> Build] /\ b[r].basis \in Entry
  BY Zenon, BuildParts DEF Inv, Typed
<1>m. mirror \in Gens /\ mirror <= mirror /\ mirror \in 0 .. Len(Index)
  BY <1>t, Generations DEF TypeOK, Gens
<1>d. DOMAIN Index[mirror] \in SUBSET Archs
  <2>1. Index[mirror] \in Map
    BY Zenon, <1>m, Generations
  <2> QED
    BY Zenon, <2>1, Maps
<1>1. /\ Moved(r, "archs") /\ b'[r].gen = mirror /\ b'[r].todo = DOMAIN Index[mirror]
      /\ b'[r].acc = Empty /\ b'[r].whole
      /\ Same(r, {"basis", "from", "arch", "add", "drop", "out"})
  BY Zenon, <1>t, <1>m, <1>d, ArchMoves, FreshRecords
<1>2. b'[r].pc = "archs" /\ b'[r].basis = b[r].basis /\ b'[r].out = b[r].out /\ local' = local
  BY Zenon, <1>1 DEF Moved, Same, StartArchs
<1>3. "archs" \notin Publishing /\ "archs" \notin Reading /\ b[r].pc \notin Publishing
  BY Zenon DEF Publishing, Reading
<1>4. Place(b'[r])
  BY Zenon, <1>m, <1>1, <1>2, <1>3 DEF Place
<1>5. ASSUME ReplicasOK
      PROVE  ReplicaOK(local'[r], b'[r], Ahead, mirror, meta.gen, members, stored)
  <2>1. EntryOK(local[r], Ahead) /\ EntryOK(b[r].basis, Ahead) /\ EntryOK(b[r].out, Ahead)
    BY Zenon, <1>5 DEF ReplicasOK, ReplicaOK
  <2>2. \A a \in DOMAIN b[r].basis.pkgs :
          a \in DOMAIN Index[b[r].basis.gen] /\ Index[b[r].basis.gen][a] = Index[mirror][a]
          => b[r].basis.pkgs[a] = Index[mirror][a]
    BY Zenon, <1>t, <2>1, ReuseOK
  <2>3. DOMAIN b'[r].acc = {}
    BY Zenon, <1>1 DEF Empty
  <2>4. FetchOK(b'[r], mirror)
    BY ZenonT(40), <1>1, <1>2, <1>m, <2>2, <2>3 DEF FetchOK
  <2> QED
    BY Zenon, <1>2, <1>3, <2>1, <2>4 DEF ReplicaOK
<1> QED
  BY Zenon, <1>1, <1>3, <1>4, <1>5, CalmKeeps

\* The lock is asked for, and the Release of the mirror is read.
LEMMA ReleaseKeeps ==
    ASSUME Inv, NEW r \in Replicas, AcquireFetchLock(r) \/ FetchRelease(r) PROVE Inv'
<1>t. TypeOK
  BY Zenon DEF Inv, Typed
<1>r. /\ rounds \in 0 .. MaxRounds /\ lock \in Replicas \union {Nobody, Dead}
      /\ vsrcs \in Nat /\ flag \in BOOLEAN /\ view \in [Replicas -> Entry]
      /\ local \in [Replicas -> Entry] /\ b \in [Replicas -> Build] /\ b[r].basis \in Entry
  BY Zenon, <1>t, BuildParts DEF TypeOK
<1>p. {"release", "begin", "srcs"} \subseteq Dull
  BY Zenon DEF Dull
<1>d. Dull \subseteq Phases
  BY Zenon, DullPhases
<1>k. /\ {"lock", "mirror"} \subseteq Kinds /\ "lock" # "crash" /\ "mirror" # "crash"
      /\ {"real", "stale", "failed"} \subseteq Hows
  BY Zenon DEF Kinds, Hows
<1>o. Old(NoEntry, r) /\ Old(local[r], r) /\ Old(b[r].basis, r) /\ Old(b[r].out, r)
  BY Zenon, OldParts
<1> DEFINE Goes == \E p \in Dull : Moved(r, p) /\ Old(b'[r].basis, r) /\ Old(b'[r].out, r)
<1>q. ASSUME Calm(r), Old(local'[r], r), b[r].pc \notin Publishing, Goes PROVE Inv'
  BY Zenon, <1>o, <1>q, DullKeeps
<1>a. ASSUME NEW e \in {NoEntry, b[r].basis}, NEW how \in Hows, Answer(r, e, how)
      PROVE  Goes /\ lock' \in Replicas \union {Nobody, Dead}
  <2>1. e \in Entry /\ Old(e, r)
    BY Zenon, <1>o, <1>r, FreshRecords
  <2> QED
    BY Zenon, <1>a, <1>o, <1>p, <1>t, <2>1, AnswerMoves
<1>f. ASSUME b' = [b EXCEPT ![r].pc = "release"] PROVE Goes
  <2>1. "release" \in Dull /\ "release" \in Phases
    BY Zenon, <1>d, <1>p
  <2>2. Moved(r, "release")
           /\ Same(r, {"basis", "from", "gen", "todo", "acc", "whole", "arch", "add", "drop", "out"})
    BY Zenon, <1>r, <1>f, <2>1, PcMoves
  <2> QED
    BY Zenon, <2>1, <2>2, OldParts
<1>1. CASE AcquireFetchLock(r)
  <2>1. Growing /\ local' = local /\ b[r].pc \notin Publishing
    BY Zenon, <1>1, <1>k, <1>t, SeenGrows DEF AcquireFetchLock, At, Publishing
  <2>2. Goes /\ lock' \in Replicas \union {Nobody, Dead}
    BY Zenon, <1>1, <1>a, <1>f, <1>k, <1>r DEF AcquireFetchLock
  <2> HIDE DEF Goes
  <2>3. Calm(r)
    BY Zenon, <1>1, <1>r, <2>1, <2>2 DEF AcquireFetchLock, Calm
  <2> QED
    BY Zenon, <1>o, <1>q, <2>1, <2>2, <2>3
<1>2. CASE FetchRelease(r)
  <2> DEFINE e == [b[r].basis EXCEPT !.fresh = TRUE]
  <2>e. e \in Entry /\ Like(e, b[r].basis)
    BY Zenon, <1>r DEF Entry, Like
  <2> HIDE DEF e
  <2>s. /\ Stored(r, e) \in [Replicas -> Entry] /\ Like(Stored(r, e)[r], e)
        /\ \A q \in Replicas : q # r => Stored(r, e)[q] = local[q]
    BY Zenon, <1>t, <2>e, LocalStored DEF Like
  <2>o. Old(Stored(r, e)[r], r)
    BY Zenon, <2>e, <2>s DEF Old, Known, Like
  <2>1. Growing
    BY Zenon, <1>2, <1>k, <1>t, SeenGrows DEF FetchRelease
  <2>2. b[r].pc = "release" /\ b[r].pc \notin Publishing
    BY Zenon, <1>2 DEF FetchRelease, At, Publishing
  <2>3. /\ local' = local \/ local' = Stored(r, e)
        /\ \/ Goes /\ lock' \in Replicas \union {Nobody, Dead}
           \/ StartArchs(r)
    BY Zenon, <1>2, <1>a, <1>k DEF FetchRelease, Fail, StartArchs, e
  <2> HIDE DEF Goes
  <2>4. lock' \in Replicas \union {Nobody, Dead} /\ local' \in [Replicas -> Entry]
           /\ (\A q \in Replicas : q # r => local'[q] = local[q]) /\ Old(local'[r], r)
    BY Zenon, <1>o, <1>r, <2>o, <2>s, <2>3 DEF StartArchs
  <2>5. Calm(r)
    BY Zenon, <1>2, <1>r, <2>1, <2>4 DEF FetchRelease, Calm
  <2> QED
    BY Zenon, <1>q, <2>2, <2>3, <2>4, <2>5, ArchsBegin
<1> QED
  BY Zenon, <1>1, <1>2

\* An architecture is fetched.
LEMMA ArchKeeps ==
    ASSUME Inv, NEW r \in Replicas, FetchArch(r) PROVE Inv'
<1>t. TypeOK
  BY Zenon DEF Inv, Typed
<1>b. /\ b \in [Replicas -> Build] /\ b[r].todo \in SUBSET Archs /\ b[r].acc \in Map
      /\ b[r].basis.pkgs \in Map
  BY Zenon, <1>t, BuildParts, EntryParts
<1>r. /\ rounds \in 0 .. MaxRounds /\ lock \in Replicas \union {Nobody, Dead}
      /\ vsrcs \in Nat /\ flag \in BOOLEAN /\ view \in [Replicas -> Entry]
      /\ local \in [Replicas -> Entry]
  BY Zenon, <1>t DEF TypeOK
<1>k. /\ {"download", "variant"} \subseteq Kinds /\ "download" # "crash" /\ "variant" # "crash"
      /\ {"download", "variant"} \subseteq Degrading
  BY Zenon DEF Kinds, Degrading
<1>s. b[r].pc = "archs" /\ "archs" \notin Publishing /\ "archs" \notin Reading
  BY Zenon DEF FetchArch, At, Publishing, Reading
<1>1. PICK a \in b[r].todo :
        \/ \E ps \in SUBSET Pkgs :
              /\ FetchPackagesMaybeReuse(r, a, ps)
              /\ b' = [b EXCEPT ![r].todo = b[r].todo \ {a}, ![r].acc = With(b[r].acc, a, ps)]
        \/ /\ ~Reusable(r, a) /\ a \in DOMAIN b[r].basis.pkgs /\ Fault("download")
           /\ b' = [b EXCEPT ![r].todo = b[r].todo \ {a},
                             ![r].acc = With(b[r].acc, a, b[r].basis.pkgs[a])]
        \/ /\ ~Reusable(r, a) /\ a \notin DOMAIN b[r].basis.pkgs /\ Fault("download")
           /\ b' = [b EXCEPT ![r].todo = b[r].todo \ {a}, ![r].whole = FALSE]
  BY Zenon DEF FetchArch
<1>2. Growing
  BY Zenon, <1>k, <1>t, <1>1, SeenGrows DEF FetchPackagesMaybeReuse
<1>3. Calm(r) /\ local' = local
  BY Zenon, <1>r, <1>2 DEF FetchArch, Calm, valkey
<1>4. b[r].todo \ {a} \in SUBSET Archs /\ a \in Archs /\ FALSE \in BOOLEAN
  BY Zenon, <1>b
<1>5. /\ \A c \in Archs, qs \in SUBSET Pkgs :
            /\ With(b[r].acc, c, qs) \in Map
            /\ DOMAIN With(b[r].acc, c, qs) = DOMAIN b[r].acc \union {c}
            /\ With(b[r].acc, c, qs)[c] = qs
            /\ \A d \in DOMAIN b[r].acc : d # c => With(b[r].acc, c, qs)[d] = b[r].acc[d]
      /\ \A c \in DOMAIN b[r].basis.pkgs : b[r].basis.pkgs[c] \in SUBSET Pkgs
  BY Zenon, <1>b, Maps
<1>6. ASSUME NEW acc \in Map,
             b' = [b EXCEPT ![r].todo = b[r].todo \ {a}, ![r].acc = acc]
      PROVE  /\ Moved(r, "archs") /\ b'[r].todo = b[r].todo \ {a} /\ b'[r].acc = acc
             /\ Same(r, {"basis", "from", "gen", "whole", "arch", "add", "drop", "out"})
  <2> DEFINE todo == b[r].todo \ {a}
  <2>1. todo \in SUBSET Archs /\ b' = [b EXCEPT ![r].todo = todo, ![r].acc = acc]
    BY Zenon, <1>4, <1>6
  <2> HIDE DEF todo
  <2>2. /\ Moved(r, b[r].pc) /\ b'[r].todo = todo /\ b'[r].acc = acc
        /\ Same(r, {"basis", "from", "gen", "whole", "arch", "add", "drop", "out"})
    BY Zenon, <1>b, <2>1, GotMoves
  <2> QED
    BY Zenon, <1>s, <2>2 DEF todo
<1>7. /\ Moved(r, "archs") /\ b'[r].basis = b[r].basis /\ b'[r].out = b[r].out
      /\ b'[r].gen = b[r].gen
  <2>1. CASE \E acc \in Map : b' = [b EXCEPT ![r].todo = b[r].todo \ {a}, ![r].acc = acc]
    BY Zenon, <1>6, <2>1 DEF Same
  <2>2. CASE b' = [b EXCEPT ![r].todo = b[r].todo \ {a}, ![r].whole = FALSE]
    <3>1. Moved(r, b[r].pc)
             /\ Same(r, {"basis", "from", "gen", "acc", "arch", "add", "drop", "out"})
      BY Zenon, <1>b, <1>4, <2>2, SkipMoves
    <3> QED
      BY Zenon, <1>s, <3>1 DEF Same
  <2> QED
    BY Zenon, <1>1, <1>4, <1>5, <2>1, <2>2
<1>8. Place(b'[r])
  <2>1. b[r].gen \in Gens
    BY Zenon, <1>s DEF Inv, Typed, Place
  <2> QED
    BY Zenon, <1>7, <1>s, <2>1 DEF Place, Moved
<1>9. ASSUME Clean', Clean, ReplicasOK
      PROVE  ReplicaOK(local'[r], b'[r], Ahead, mirror, meta.gen, members, stored)
  <2>1. ~Fault("download") /\ ~Fault("variant") /\ ~MidSync
    BY Zenon, <1>9, <1>k, <1>t, SeenGrows DEF Clean
  <2>2. FetchOK(b[r], mirror) /\ EntryOK(local[r], Ahead) /\ EntryOK(b[r].basis, Ahead)
           /\ EntryOK(b[r].out, Ahead)
    BY Zenon, <1>9, <1>s DEF ReplicasOK, ReplicaOK
  <2> DEFINE want == Index[b[r].gen][a]
  <2>3. Reusable(r, a) => b[r].basis.pkgs[a] = want
    BY Zenon, <2>2 DEF FetchOK, Reusable
  <2>4. PICK ps \in SUBSET Pkgs :
          /\ ps = want
          /\ b' = [b EXCEPT ![r].todo = b[r].todo \ {a}, ![r].acc = With(b[r].acc, a, ps)]
    BY Zenon, <1>1, <2>1, <2>3 DEF FetchPackagesMaybeReuse
  <2> DEFINE acc == With(b[r].acc, a, ps)
  <2>5. /\ acc \in Map /\ DOMAIN acc = DOMAIN b[r].acc \union {a} /\ acc[a] = want
        /\ \A d \in DOMAIN b[r].acc : d # a => acc[d] = b[r].acc[d]
    BY Zenon, <1>4, <1>5, <2>4
  <2>6. b' = [b EXCEPT ![r].todo = b[r].todo \ {a}, ![r].acc = acc]
    BY Zenon, <2>4
  <2> HIDE DEF acc
  <2>7. /\ b'[r].pc = "archs" /\ b'[r].todo = b[r].todo \ {a} /\ b'[r].acc = acc
        /\ b'[r].gen = b[r].gen /\ b'[r].whole = b[r].whole /\ b'[r].basis = b[r].basis
        /\ b'[r].out = b[r].out
    BY Zenon, <1>6, <2>5, <2>6 DEF Moved, Same
  <2>8. FetchOK(b'[r], mirror)
    <3>1. b'[r].todo \union DOMAIN b'[r].acc = DOMAIN Index[b[r].gen]
      <4>1. b[r].todo \union DOMAIN b[r].acc = DOMAIN Index[b[r].gen]
        BY Zenon, <2>2 DEF FetchOK
      <4>2. (b[r].todo \ {a}) \union (DOMAIN b[r].acc \union {a}) = b[r].todo \union DOMAIN b[r].acc
        BY Zenon, <1>1
      <4> QED
        BY Zenon, <2>5, <2>7, <4>1, <4>2
    <3>2. \A c \in DOMAIN acc : acc[c] = Index[b[r].gen][c]
      BY Zenon, <2>2, <2>5 DEF FetchOK
    <3>3. b[r].gen \in Gens /\ b[r].gen <= mirror /\ b[r].whole
      BY Zenon, <2>2 DEF FetchOK
    <3>4. \A c \in DOMAIN b[r].basis.pkgs :
            c \in DOMAIN Index[b[r].basis.gen] /\ Index[b[r].basis.gen][c] = Index[b[r].gen][c]
            => b[r].basis.pkgs[c] = Index[b[r].gen][c]
      BY Zenon, <2>2 DEF FetchOK
    <3> QED
      BY SMT, <2>7, <3>1, <3>2, <3>3, <3>4 DEF FetchOK
  <2> QED
    BY Zenon, <1>s, <1>3, <2>2, <2>7, <2>8 DEF ReplicaOK
<1> QED
  BY Zenon, <1>s, <1>3, <1>7, <1>8, <1>9, CalmKeeps

\* The index is stored, and its publication begins.
LEMMA StoreKeeps ==
    ASSUME Inv, NEW r \in Replicas, StoreIndex(r) PROVE Inv'
<1>t. TypeOK
  BY Zenon DEF Inv, Typed
<1>b. /\ b \in [Replicas -> Build] /\ b[r].acc \in Map /\ b[r].gen \in 0 .. Len(Index)
      /\ TRUE \in BOOLEAN
  BY Zenon, <1>t, BuildParts
<1>r. /\ rounds \in 0 .. MaxRounds /\ lock \in Replicas \union {Nobody, Dead}
      /\ vsrcs \in Nat /\ flag \in BOOLEAN /\ view \in [Replicas -> Entry]
      /\ local \in [Replicas -> Entry]
  BY Zenon, <1>t DEF TypeOK
<1>s. b[r].pc = "archs" /\ b[r].todo = {} /\ "archs" \notin Publishing
  BY Zenon DEF StoreIndex, At, Publishing
<1> DEFINE e == [NoEntry EXCEPT !.gen = b[r].gen, !.pkgs = b[r].acc, !.complete = b[r].whole,
                                !.fresh = TRUE]
<1>e. e \in Entry /\ e.gen = b[r].gen /\ e.pkgs = b[r].acc /\ e.complete = b[r].whole
  BY ZenonT(40), <1>t, <1>b, EntriesMade
<1>1. /\ local' = Stored(r, e)
      /\ \/ b' = [b EXCEPT ![r].pc = "publish", ![r].todo = DOMAIN e.pkgs] /\ lock' = lock
         \/ Answer(r, local'[r], "real")
  BY Zenon DEF StoreIndex
<1>u. UNCHANGED <<rounds, shared, mirror, meta, members, stored, vsrcs, flag, view, seen>>
  BY Zenon DEF StoreIndex
<1> HIDE DEF e
<1>2. /\ local' \in [Replicas -> Entry] /\ Like(local'[r], e)
      /\ \A q \in Replicas : q # r => local'[q] = local[q]
  BY Zenon, <1>t, <1>e, <1>1, LocalStored DEF Like
<1>3. PICK l \in Entry : local'[r] = l /\ Like(l, e)
  BY Zenon, <1>2
<1>4. Growing
  BY Zenon, <1>t, <1>u, SeenGrows DEF NoFault
<1>5. ASSUME ReplicasOK
      PROVE  /\ EntryOK(l, Ahead) /\ FetchOK(b[r], mirror) /\ EntryOK(b[r].basis, Ahead)
             /\ EntryOK(b[r].out, Ahead) /\ EntryOK(NoEntry, Ahead)
  <2>1. FetchOK(b[r], mirror) /\ EntryOK(b[r].basis, Ahead) /\ EntryOK(b[r].out, Ahead)
    BY Zenon, <1>s, <1>5 DEF ReplicasOK, ReplicaOK
  <2>2. b[r].gen \in Gens /\ DOMAIN b[r].acc = DOMAIN Index[b[r].gen]
           /\ \A a \in DOMAIN b[r].acc : b[r].acc[a] = Index[b[r].gen][a]
    BY Zenon, <1>s, <2>1 DEF FetchOK
  <2>3. EntryOK(e, Ahead)
    BY Zenon, <1>e, <2>2, Generations DEF EntryOK
  <2>4. EntryOK(l, Ahead)
    BY Zenon, <1>3, <2>3, EntryStays
  <2>5. EntryOK(NoEntry, Ahead)
    BY Zenon DEF EntryOK, NoEntry, Empty
  <2> QED
    BY Zenon, <2>1, <2>4, <2>5
<1>6. CASE b' = [b EXCEPT ![r].pc = "publish", ![r].todo = DOMAIN e.pkgs] /\ lock' = lock
  <2> DEFINE todo == DOMAIN b[r].acc
  <2>1. todo \in SUBSET Archs
    BY Zenon, <1>b, Maps
  <2>2. b' = [b EXCEPT ![r].pc = "publish", ![r].todo = todo] /\ "publish" \in Phases
    BY Zenon, <1>e, <1>6 DEF Phases
  <2> HIDE DEF todo
  <2>3. /\ Moved(r, "publish") /\ b'[r].todo = todo
        /\ Same(r, {"basis", "from", "gen", "acc", "whole", "arch", "add", "drop", "out"})
    BY Zenon, <1>b, <2>1, <2>2, StoreMoves
  <2>4. /\ b'[r].pc = "publish" /\ b'[r].basis = b[r].basis /\ b'[r].out = b[r].out
        /\ b'[r].gen = b[r].gen /\ b'[r].acc = b[r].acc
    BY Zenon, <2>3 DEF Moved, Same
  <2>5. Place(b'[r])
    <3>1. b[r].gen \in Gens
      BY Zenon, <1>s DEF Inv, Typed, Place
    <3> QED
      BY Zenon, <2>3, <2>4, <3>1 DEF Place, todo
  <2>6. ASSUME FetchOK(b[r], mirror) PROVE PublishOK(b'[r], mirror, members, stored)
    <3>1. b[r].gen \in Gens /\ b[r].gen <= mirror /\ DOMAIN b[r].acc = DOMAIN Index[b[r].gen]
             /\ \A a \in DOMAIN b[r].acc : b[r].acc[a] = Index[b[r].gen][a]
      BY Zenon, <1>s, <2>6 DEF FetchOK
    <3>2. \A a \in DOMAIN b'[r].acc : a \in b'[r].todo
      BY Zenon, <2>3, <2>4 DEF todo
    <3> QED
      BY SMT, <2>4, <3>1, <3>2 DEF PublishOK
  <2>7. "publish" \notin Reading /\ "publish" # "archs"
    BY Zenon DEF Reading
  <2>8. ReplicasOK => ReplicaOK(local'[r], b'[r], Ahead, mirror, meta.gen, members, stored)
    BY Zenon, <1>3, <1>5, <2>4, <2>6, <2>7 DEF ReplicaOK
  <2>9. Calm(r)
    BY Zenon, <1>u, <1>r, <1>2, <1>4, <1>6 DEF Calm
  <2> QED
    BY Zenon, <1>s, <2>3, <2>5, <2>8, <2>9, CalmKeeps
<1>7. CASE Answer(r, local'[r], "real")
  <2>1. Answer(r, l, "real") /\ "real" \in Hows
    BY Zenon, <1>3, <1>7 DEF Hows
  <2>2. /\ Moved(r, "begin") \/ Moved(r, "srcs")
        /\ b'[r].out = l /\ b'[r].basis = NoEntry /\ lock' \in Replicas \union {Nobody, Dead}
    BY Zenon, <1>t, <2>1, AnswerMoves
  <2>3. PICK p \in Dull : Moved(r, p)
    BY Zenon, <2>2 DEF Dull
  <2>4. /\ b'[r].pc = p /\ p \notin Reading /\ p # "archs" /\ p \notin Publishing /\ p # "mget"
        /\ p \notin {"srcfile", "srcput"}
    BY Zenon, <2>3, DullPhases DEF Moved
  <2>5. Place(b'[r])
    BY Zenon, <2>4 DEF Place
  <2>6. ReplicasOK => ReplicaOK(local'[r], b'[r], Ahead, mirror, meta.gen, members, stored)
    BY Zenon, <1>3, <1>5, <2>2, <2>4 DEF ReplicaOK
  <2>7. Calm(r)
    BY Zenon, <1>u, <1>r, <1>2, <1>4, <2>2 DEF Calm
  <2> QED
    BY Zenon, <1>s, <2>3, <2>5, <2>6, <2>7, CalmKeeps
<1> QED
  BY Zenon, <1>1, <1>6, <1>7

-----------------------------------------------------------------------------
(* Replacing the buckets *)

\* y is the build x some commands of its plan later.
Continues(x, y) == /\ y.gen = x.gen /\ y.acc = x.acc /\ y.todo = x.todo /\ y.arch = x.arch
                   /\ y.add = x.add /\ y.drop = x.drop

\* The commands of the plan take the bucket, step by step, to what the Release lists.
LEMMA PlanGoes ==
    ASSUME NEW x, NEW y, NEW mem, NEW sto, NEW mem2, NEW sto2, PlanOK(x, mem, sto),
           Continues(x, y),
           \/ /\ x.pc = "mset" /\ y.pc = "sadd"
              /\ mem2[x.arch] = mem[x.arch] /\ sto2[x.arch] = sto[x.arch] \union x.add
           \/ /\ x.pc = "sadd" /\ y.pc = (IF x.drop # {} THEN "srem" ELSE "publish")
              /\ mem2[x.arch] = mem[x.arch] \union x.add /\ sto2[x.arch] = sto[x.arch]
           \/ /\ x.pc = "srem" /\ y.pc = "del"
              /\ mem2[x.arch] = mem[x.arch] \ x.drop /\ sto2[x.arch] = sto[x.arch]
           \/ /\ x.pc = "del" /\ y.pc = "publish"
              /\ mem2[x.arch] = mem[x.arch] /\ sto2[x.arch] = sto[x.arch] \ x.drop
    PROVE  /\ y.pc # "publish" => PlanOK(y, mem2, sto2)
           /\ y.pc = "publish" => Right(x.gen, x.arch, mem2, sto2)
           /\ Right(x.gen, x.arch, mem, sto) => Right(x.gen, x.arch, mem2, sto2)
<1> DEFINE a == x.arch
           want == Index[x.gen][x.arch]
<1>1. /\ a \in DOMAIN x.acc /\ a \notin x.todo
      /\ x.add \subseteq want /\ x.drop \cap want = {}
      /\ x.pc \in {"mset", "sadd"} => want \ mem[a] \subseteq x.add
      /\ x.pc = "mset" => want \ sto[a] \subseteq x.add
      /\ x.pc \in {"sadd", "srem", "del"} => want \subseteq sto[a]
      /\ x.pc \in {"srem", "del"} => want \subseteq mem[a]
      /\ x.pc \in {"mset", "sadd", "srem"} => mem[a] \ want \subseteq x.drop
      /\ x.pc = "del" => mem[a] \subseteq want
  BY Zenon DEF PlanOK
<1> HIDE DEF want, a
<1>2. ASSUME /\ y.pc \in {"mset", "sadd"} => want \ mem2[a] \subseteq x.add
             /\ y.pc = "mset" => want \ sto2[a] \subseteq x.add
             /\ y.pc \in {"sadd", "srem", "del"} => want \subseteq sto2[a]
             /\ y.pc \in {"srem", "del"} => want \subseteq mem2[a]
             /\ y.pc \in {"mset", "sadd", "srem"} => mem2[a] \ want \subseteq x.drop
             /\ y.pc = "del" => mem2[a] \subseteq want
      PROVE  PlanOK(y, mem2, sto2)
  <2>1. /\ y.arch = a /\ Index[y.gen][y.arch] = want /\ y.acc = x.acc /\ y.todo = x.todo
        /\ y.add = x.add /\ y.drop = x.drop
    BY Zenon DEF Continues, a, want
  <2> QED
    BY Zenon, <1>1, <1>2, <2>1 DEF PlanOK
<1>3. mem2[a] = want /\ want \subseteq sto2[a] => Right(x.gen, x.arch, mem2, sto2)
  BY Zenon DEF Right, a, want
<1>4. Right(x.gen, x.arch, mem, sto) => mem[a] = want /\ want \subseteq sto[a]
  BY Zenon DEF Right, a, want
<1>5. CASE /\ x.pc = "mset" /\ y.pc = "sadd"
           /\ mem2[x.arch] = mem[x.arch] /\ sto2[x.arch] = sto[x.arch] \union x.add
  <2>1. mem2[a] = mem[a] /\ sto2[a] = sto[a] \union x.add
    BY Zenon, <1>5 DEF a
  <2>2. want \ mem2[a] \subseteq x.add /\ want \subseteq sto2[a] /\ mem2[a] \ want \subseteq x.drop
    BY Zenon, <1>1, <1>5, <2>1
  <2>3. PlanOK(y, mem2, sto2)
    BY Zenon, <1>2, <1>5, <2>2
  <2> QED
    BY Zenon, <1>3, <1>4, <1>5, <2>1, <2>2, <2>3
<1>6. CASE /\ x.pc = "sadd" /\ y.pc = (IF x.drop # {} THEN "srem" ELSE "publish")
           /\ mem2[x.arch] = mem[x.arch] \union x.add /\ sto2[x.arch] = sto[x.arch]
  <2>1. mem2[a] = mem[a] \union x.add /\ sto2[a] = sto[a]
    BY Zenon, <1>6 DEF a
  <2>2. want \subseteq sto2[a] /\ want \subseteq mem2[a] /\ mem2[a] \ want \subseteq x.drop
    BY Zenon, <1>1, <1>6, <2>1
  <2>3. y.pc # "publish" => PlanOK(y, mem2, sto2)
    BY Zenon, <1>2, <1>6, <2>2
  <2>4. y.pc = "publish" => mem2[a] = want
    BY Zenon, <1>6, <2>2
  <2>5. mem[a] = want => mem2[a] = want
    BY Zenon, <1>1, <2>1
  <2> QED
    BY Zenon, <1>3, <1>4, <2>2, <2>3, <2>4, <2>5
<1>7. CASE /\ x.pc = "srem" /\ y.pc = "del"
           /\ mem2[x.arch] = mem[x.arch] \ x.drop /\ sto2[x.arch] = sto[x.arch]
  <2>1. mem2[a] = mem[a] \ x.drop /\ sto2[a] = sto[a]
    BY Zenon, <1>7 DEF a
  <2>2. want \subseteq sto2[a] /\ want \subseteq mem2[a] /\ mem2[a] \subseteq want
    BY Zenon, <1>1, <1>7, <2>1
  <2>3. PlanOK(y, mem2, sto2)
    BY Zenon, <1>2, <1>7, <2>2
  <2> QED
    BY Zenon, <1>3, <1>7, <2>2, <2>3
<1>8. CASE /\ x.pc = "del" /\ y.pc = "publish"
           /\ mem2[x.arch] = mem[x.arch] /\ sto2[x.arch] = sto[x.arch] \ x.drop
  <2>1. mem2[a] = mem[a] /\ sto2[a] = sto[a] \ x.drop
    BY Zenon, <1>8 DEF a
  <2>2. want \subseteq sto2[a] /\ want \subseteq mem2[a] /\ mem2[a] \subseteq want
    BY Zenon, <1>1, <1>8, <2>1
  <2> QED
    BY Zenon, <1>3, <1>8, <2>2
<1> QED
  BY Zenon, <1>5, <1>6, <1>7, <1>8

\* So far they touch no other bucket.
LEMMA PublishGoes ==
    ASSUME NEW x, NEW y, NEW m, NEW mem, NEW sto, NEW mem2, NEW sto2,
           PublishOK(x, m, mem, sto), x.pc # "publish", Continues(x, y),
           \A c \in DOMAIN x.acc : c # x.arch => mem2[c] = mem[c] /\ sto2[c] = sto[c],
           y.pc # "publish" => PlanOK(y, mem2, sto2),
           y.pc = "publish" => Right(x.gen, x.arch, mem2, sto2)
    PROVE  PublishOK(y, m, mem2, sto2)
<1>1. /\ x.gen \in Gens /\ x.gen <= m /\ DOMAIN x.acc = DOMAIN Index[x.gen]
      /\ \A a \in DOMAIN x.acc : x.acc[a] = Index[x.gen][a]
      /\ \A a \in DOMAIN x.acc : a \notin x.todo /\ a # x.arch => Right(x.gen, a, mem, sto)
  BY Zenon DEF PublishOK
<1>2. \A a \in DOMAIN x.acc : a \notin x.todo /\ a # x.arch => Right(x.gen, a, mem2, sto2)
  BY Zenon, <1>1 DEF Right
<1>3. y.gen = x.gen /\ y.acc = x.acc /\ y.todo = x.todo /\ y.arch = x.arch
  BY Zenon DEF Continues
<1>4. \A a \in DOMAIN y.acc : a \notin y.todo /\ (y.pc = "publish" \/ a # y.arch)
          => Right(y.gen, a, mem2, sto2)
  BY Zenon, <1>2, <1>3
<1>5. y.gen \in Gens /\ y.gen <= m /\ DOMAIN y.acc = DOMAIN Index[y.gen]
  BY Zenon, <1>1, <1>3
<1>6. \A a \in DOMAIN y.acc : y.acc[a] = Index[y.gen][a]
  BY Zenon, <1>1, <1>3
<1> QED
  BY Zenon, <1>4, <1>5, <1>6 DEF PublishOK

\* An error leaves the rest of the publish undone, and the state is no longer clean.
LEMMA WriteFails ==
    ASSUME Inv, NEW r \in Replicas, Fault("write"), Answer(r, local[r], "real"),
           UNCHANGED <<rounds, shared, mirror, meta, members, stored, vsrcs, flag, local, view>>
    PROVE  Inv'
<1>t. TypeOK /\ local[r] \in Entry
  BY Zenon, BuildParts DEF Inv, Typed
<1>k. "write" \in Kinds /\ "write" # "crash" /\ "write" \in Degrading /\ "real" \in Hows
  BY Zenon DEF Kinds, Degrading, Hows
<1>1. Growing /\ "write" \in seen'
  BY Zenon, <1>k, <1>t, SeenGrows
<1>2. ~Clean'
  BY Zenon, <1>k, <1>1 DEF Clean, Degrading
<1>3. (Moved(r, "begin") \/ Moved(r, "srcs")) /\ lock' \in Replicas \union {Nobody, Dead}
  BY Zenon, <1>k, <1>t, AnswerMoves
<1>4. PICK p \in Dull : Moved(r, p)
  BY Zenon, <1>3 DEF Dull
<1>5. Place(b'[r])
  <2>1. /\ b'[r].pc = p /\ p \notin Publishing /\ p # "mget" /\ p # "archs"
        /\ p \notin {"srcfile", "srcput"}
    BY Zenon, <1>4, DullPhases DEF Moved
  <2> QED
    BY Zenon, <2>1 DEF Place
<1>6. ASSUME NEW q \in Replicas, q # r PROVE Place(b'[q])
  BY Zenon, <1>4, <1>6 DEF Inv, Typed, Moved
<1>7. TypeOK'
  BY Zenon, <1>t, <1>1, <1>3, <1>4 DEF TypeOK, Growing, Moved
<1>8. Typed'
  BY Zenon, <1>5, <1>6, <1>7 DEF Typed
<1>9. IndexInv'
  BY Zenon, <1>2 DEF Inv, IndexInv
<1> QED
  BY Zenon, <1>8, <1>9 DEF Inv

\* A step of the publication that overlaps with no other replica's.
LEMMA PublishKeeps ==
    ASSUME Inv, NEW r \in Replicas, b[r].pc \in Publishing, NEW p \in Publishing, Moved(r, p),
           Overlap(r, Reading \union Publishing),
           UNCHANGED <<rounds, shared, mirror, meta, vsrcs, flag, lock, local, view>>,
           members' \in [Archs -> SUBSET Pkgs], stored' \in [Archs -> SUBSET Pkgs],
           b'[r].gen = b[r].gen /\ b'[r].basis = b[r].basis /\ b'[r].out = b[r].out,
           Place(b'[r]),
           PublishOK(b[r], mirror, members, stored) =>
               /\ PublishOK(b'[r], mirror, members', stored')
               /\ \A a \in DOMAIN Index[b[r].gen] : Right(b[r].gen, a, members, stored)
                     => Right(b[r].gen, a, members', stored')
               /\ \A a \in Archs : a \notin DOMAIN Index[b[r].gen] => members'[a] = members[a]
    PROVE  Inv'
<1>t. TypeOK
  BY Zenon DEF Inv, Typed
<1>1. Growing
  BY Zenon, <1>t, SeenGrows
<1>2. TypeOK'
  BY Zenon, <1>t, <1>1 DEF TypeOK, Growing, Moved
<1>3. ASSUME NEW q \in Replicas, q # r PROVE Place(b'[q])
  BY Zenon, <1>3 DEF Inv, Typed, Moved
<1>4. Typed'
  BY Zenon, <1>2, <1>3 DEF Typed
<1>5. Ahead' = Ahead
  BY Zenon, <1>1 DEF Ahead, Growing
<1>6. ASSUME Clean' PROVE ReplicasOK' /\ BucketsOK'
  <2>1. Clean /\ ReplicasOK /\ BucketsOK
    BY Zenon, <1>1, <1>6, CleanBefore DEF Growing, Inv, IndexInv
  <2>2. \A q \in Replicas : q # r => b[q].pc \notin Reading /\ b[q].pc \notin Publishing
    <3>1. \A q \in Replicas : q # r => b[q].pc \notin Reading \union Publishing
      BY Zenon, <1>6, Alone
    <3> QED
      BY Zenon, <3>1
  <2>3. PublishOK(b[r], mirror, members, stored) /\ EntryOK(local[r], Ahead)
           /\ EntryOK(b[r].basis, Ahead) /\ EntryOK(b[r].out, Ahead)
    BY Zenon, <2>1 DEF ReplicasOK, ReplicaOK
  <2>4. b'[r].pc = p /\ p \notin Reading /\ p # "archs"
    BY Zenon DEF Moved, Publishing, Reading
  <2>5. ReplicaOK(local[r], b'[r], Ahead, mirror, meta.gen, members', stored')
    BY Zenon, <2>3, <2>4 DEF ReplicaOK
  <2>6. ASSUME NEW q \in Replicas, q # r
        PROVE  ReplicaOK(local[q], b'[q], Ahead, mirror, meta.gen, members', stored')
    <3>1. b'[q] = b[q]
      BY Zenon, <2>6 DEF Moved
    <3>2. ReplicaOK(local[q], b[q], Ahead, mirror, meta.gen, members, stored)
      BY Zenon, <2>1 DEF ReplicasOK
    <3>3. b[q].pc \notin Reading /\ b[q].pc \notin Publishing
      BY Zenon, <2>2, <2>6
    <3> QED
      BY Zenon, <3>1, <3>2, <3>3 DEF ReplicaOK
  <2>7. ReplicasOK'
    BY Zenon, <1>5, <2>5, <2>6 DEF ReplicasOK
  <2>8. Publishers = {r} /\ Publishers' = {r}
    BY Zenon, <2>2, <2>4 DEF Publishers, Moved
  <2>9. b[r].gen \in Gens
    BY Zenon, <2>3 DEF PublishOK
  <2>g. meta.gen # 0 => meta.gen \in Gens
    <3>1. meta.gen \in 0 .. Len(Index)
      BY Zenon, <1>t DEF TypeOK
    <3> QED
      BY Zenon, <3>1, Generations
  <2>10. ASSUME meta.gen # 0, NEW a \in DOMAIN Index[meta.gen], "crash" \notin seen',
               \A q \in Publishers' : Index[b'[q].gen][a] = Index[meta.gen][a]
         PROVE  Right(meta.gen, a, members', stored')
    <3>1. Index[b[r].gen][a] = Index[meta.gen][a]
      BY Zenon, <2>8, <2>10
    <3>2. Right(meta.gen, a, members, stored)
      BY Zenon, <1>1, <2>1, <2>8, <2>10, <3>1 DEF BucketsOK, Growing
    <3>3. a \in DOMAIN Index[b[r].gen]
      BY Zenon, <2>1, <2>9, <2>g, <2>10 DEF Clean, SameArchs
    <3> QED
      BY Zenon, <2>3, <3>1, <3>2, <3>3 DEF Right
  <2>11. ASSUME NEW g \in Gens, NEW a \in Archs, a \notin DOMAIN Index[g]
         PROVE  members'[a] = {}
    <3>1. a \notin DOMAIN Index[b[r].gen]
      BY Zenon, <2>1, <2>9, <2>11 DEF Clean, SameArchs
    <3> QED
      BY Zenon, <2>1, <2>3, <2>11, <3>1 DEF BucketsOK
  <2>12. BucketsOK'
    BY Zenon, <2>8, <2>10, <2>11 DEF BucketsOK
  <2> QED
    BY Zenon, <2>7, <2>12
<1>7. IndexInv'
  BY Zenon, <1>6 DEF IndexInv, Inv
<1> QED
  BY Zenon, <1>4, <1>7 DEF Inv

\* The commands of the plan.
LEMMA CommandKeeps ==
    ASSUME Inv, NEW r \in Replicas,
           PublishMset(r) \/ PublishSadd(r) \/ PublishSrem(r) \/ PublishDel(r)
    PROVE  Inv'
<1>t. TypeOK
  BY Zenon DEF Inv, Typed
<1>b. /\ b \in [Replicas -> Build] /\ b[r].add \in SUBSET Pkgs /\ b[r].drop \in SUBSET Pkgs
      /\ b[r].acc \in Map
  BY Zenon, <1>t, BuildParts
<1>m. members \in [Archs -> SUBSET Pkgs] /\ stored \in [Archs -> SUBSET Pkgs]
  BY Zenon, <1>t DEF TypeOK
<1>p. /\ {"publish", "mset", "sadd", "srem", "del"} \subseteq Publishing
      /\ Publishing \subseteq Phases
  BY Zenon DEF Publishing, Phases
<1> DEFINE a == b[r].arch
           Result(p, mem, sto) ==
               /\ mem \in [Archs -> SUBSET Pkgs] /\ sto \in [Archs -> SUBSET Pkgs]
               /\ \A c \in Archs : c # a => mem[c] = members[c] /\ sto[c] = stored[c]
               /\ a \in Archs =>
                    \/ /\ b[r].pc = "mset" /\ p = "sadd"
                       /\ mem[a] = members[a] /\ sto[a] = stored[a] \union b[r].add
                    \/ /\ b[r].pc = "sadd" /\ p = (IF b[r].drop # {} THEN "srem" ELSE "publish")
                       /\ mem[a] = members[a] \union b[r].add /\ sto[a] = stored[a]
                    \/ /\ b[r].pc = "srem" /\ p = "del"
                       /\ mem[a] = members[a] \ b[r].drop /\ sto[a] = stored[a]
                    \/ /\ b[r].pc = "del" /\ p = "publish"
                       /\ mem[a] = members[a] /\ sto[a] = stored[a] \ b[r].drop
<1>1. ASSUME NEW from \in {"mset", "sadd", "srem", "del"}, NEW to \in Publishing, NEW mem, NEW sto,
             PublishCommand(r, from, to, mem, sto), Result(to, mem, sto)
      PROVE  Inv'
  <2>1. CASE Fault("write") /\ Answer(r, local[r], "real") /\ UNCHANGED <<members, stored>>
    BY Zenon, <1>1, <2>1, WriteFails DEF PublishCommand
  <2>2. CASE /\ Overlap(r, Reading \union Publishing) /\ members' = mem /\ stored' = sto
             /\ b' = [b EXCEPT ![r].pc = to] /\ UNCHANGED lock
    <3>1. b[r].pc = from /\ b[r].pc \in Publishing /\ b[r].pc # "publish" /\ to \in Phases
      BY Zenon, <1>p, <1>1 DEF PublishCommand, At
    <3>u. UNCHANGED <<rounds, shared, mirror, meta, vsrcs, flag, lock, local, view>>
      BY Zenon, <1>1, <2>2 DEF PublishCommand
    <3>2. /\ Moved(r, to)
          /\ Same(r, {"basis", "from", "gen", "todo", "acc", "whole", "arch", "add", "drop", "out"})
      BY Zenon, <1>b, <2>2, <3>1, PcMoves
    <3>3. /\ b'[r].pc = to /\ b'[r].gen = b[r].gen /\ b'[r].basis = b[r].basis
          /\ b'[r].out = b[r].out /\ Continues(b[r], b'[r])
      BY Zenon, <3>2 DEF Moved, Same, Continues
    <3>4. Place(b'[r])
      <4>1. b[r].todo \subseteq DOMAIN b[r].acc /\ b[r].gen \in Gens
        BY Zenon, <3>1 DEF Inv, Typed, Place
      <4>2. to # "mget" /\ to \notin {"srcfile", "srcput"}
        BY Zenon, <1>1 DEF Publishing
      <4> QED
        BY Zenon, <3>3, <4>1, <4>2 DEF Place, Continues
    <3>5. ASSUME PublishOK(b[r], mirror, members, stored)
          PROVE  /\ PublishOK(b'[r], mirror, members', stored')
                 /\ \A c \in DOMAIN Index[b[r].gen] : Right(b[r].gen, c, members, stored)
                       => Right(b[r].gen, c, members', stored')
                 /\ \A c \in Archs : c \notin DOMAIN Index[b[r].gen] => members'[c] = members[c]
      <4>1. PlanOK(b[r], members, stored) /\ DOMAIN b[r].acc = DOMAIN Index[b[r].gen]
        BY Zenon, <3>1, <3>5 DEF PublishOK
      <4>2. a \in DOMAIN b[r].acc
        BY Zenon, <4>1 DEF PlanOK
      <4>3. a \in Archs /\ DOMAIN b[r].acc \subseteq Archs
        BY Zenon, <1>b, <4>2, Maps
      <4>4. \A c \in Archs : c # a => members'[c] = members[c] /\ stored'[c] = stored[c]
        BY Zenon, <1>1, <2>2
      <4>5. \/ /\ b[r].pc = "mset" /\ b'[r].pc = "sadd"
               /\ members'[a] = members[a] /\ stored'[a] = stored[a] \union b[r].add
            \/ /\ b[r].pc = "sadd" /\ b'[r].pc = (IF b[r].drop # {} THEN "srem" ELSE "publish")
               /\ members'[a] = members[a] \union b[r].add /\ stored'[a] = stored[a]
            \/ /\ b[r].pc = "srem" /\ b'[r].pc = "del"
               /\ members'[a] = members[a] \ b[r].drop /\ stored'[a] = stored[a]
            \/ /\ b[r].pc = "del" /\ b'[r].pc = "publish"
               /\ members'[a] = members[a] /\ stored'[a] = stored[a] \ b[r].drop
        BY Zenon, <1>1, <2>2, <3>3, <4>3
      <4>6. /\ b'[r].pc # "publish" => PlanOK(b'[r], members', stored')
            /\ b'[r].pc = "publish" => Right(b[r].gen, a, members', stored')
            /\ Right(b[r].gen, a, members, stored) => Right(b[r].gen, a, members', stored')
        BY Zenon, <3>3, <4>1, <4>5, PlanGoes
      <4>7. PublishOK(b'[r], mirror, members', stored')
        <5>1. \A c \in DOMAIN b[r].acc : c # a => members'[c] = members[c] /\ stored'[c] = stored[c]
          BY Zenon, <4>3, <4>4
        <5> QED
          BY Zenon, <3>1, <3>3, <3>5, <4>6, <5>1, PublishGoes
      <4>8. ASSUME NEW c \in DOMAIN Index[b[r].gen], Right(b[r].gen, c, members, stored)
            PROVE  Right(b[r].gen, c, members', stored')
        <5>1. CASE c = a
          BY Zenon, <4>6, <4>8, <5>1
        <5>2. CASE c # a
          <6>1. c \in Archs
            BY Zenon, <4>1, <4>3
          <6> QED
            BY Zenon, <4>4, <4>8, <5>2, <6>1 DEF Right
        <5> QED
          BY Zenon, <5>1, <5>2
      <4>9. \A c \in Archs : c \notin DOMAIN Index[b[r].gen] => members'[c] = members[c]
        BY Zenon, <4>1, <4>2, <4>4
      <4> QED
        BY Zenon, <4>7, <4>8, <4>9
    <3>6. members' \in [Archs -> SUBSET Pkgs] /\ stored' \in [Archs -> SUBSET Pkgs]
      BY Zenon, <1>1, <2>2
    <3> QED
      BY Zenon, <1>1, <2>2, <3>1, <3>u, <3>2, <3>3, <3>4, <3>5, <3>6, PublishKeeps
  <2> QED
    BY Zenon, <1>1, <2>1, <2>2 DEF PublishCommand
<1> HIDE DEF a
<1>2. /\ \A ps \in SUBSET Pkgs :
            /\ [stored EXCEPT ![a] = stored[a] \union ps] \in [Archs -> SUBSET Pkgs]
            /\ [stored EXCEPT ![a] = stored[a] \ ps] \in [Archs -> SUBSET Pkgs]
            /\ [members EXCEPT ![a] = members[a] \union ps] \in [Archs -> SUBSET Pkgs]
            /\ [members EXCEPT ![a] = members[a] \ ps] \in [Archs -> SUBSET Pkgs]
  BY Zenon, <1>m
<1>3. CASE PublishMset(r)
  <2>1. PublishCommand(r, "mset", "sadd", members, [stored EXCEPT ![a] = stored[a] \union b[r].add])
    BY Zenon, <1>3 DEF PublishMset, a
  <2>2. b[r].pc = "mset"
    BY Zenon, <2>1 DEF PublishCommand, At
  <2>3. Result("sadd", members, [stored EXCEPT ![a] = stored[a] \union b[r].add])
    BY Zenon, <1>b, <1>m, <1>2, <2>2
  <2> HIDE DEF Result
  <2> QED
    BY Zenon, <1>p, <1>1, <2>1, <2>3
<1>4. CASE PublishSadd(r)
  <2> DEFINE to == IF b[r].drop # {} THEN "srem" ELSE "publish"
  <2>1. PublishCommand(r, "sadd", to, [members EXCEPT ![a] = members[a] \union b[r].add], stored)
    BY Zenon, <1>4 DEF PublishSadd, a
  <2>2. b[r].pc = "sadd"
    BY Zenon, <2>1 DEF PublishCommand, At
  <2>3. Result(to, [members EXCEPT ![a] = members[a] \union b[r].add], stored)
    BY Zenon, <1>b, <1>m, <1>2, <2>2
  <2>4. to \in Publishing
    BY Zenon, <1>p
  <2> HIDE DEF Result, to
  <2> QED
    BY Zenon, <1>1, <2>1, <2>3, <2>4
<1>5. CASE PublishSrem(r)
  <2>1. PublishCommand(r, "srem", "del", [members EXCEPT ![a] = members[a] \ b[r].drop], stored)
    BY Zenon, <1>5 DEF PublishSrem, a
  <2>2. b[r].pc = "srem"
    BY Zenon, <2>1 DEF PublishCommand, At
  <2>3. Result("del", [members EXCEPT ![a] = members[a] \ b[r].drop], stored)
    BY Zenon, <1>b, <1>m, <1>2, <2>2
  <2> HIDE DEF Result
  <2> QED
    BY Zenon, <1>p, <1>1, <2>1, <2>3
<1>6. CASE PublishDel(r)
  <2>1. PublishCommand(r, "del", "publish", members, [stored EXCEPT ![a] = stored[a] \ b[r].drop])
    BY Zenon, <1>6 DEF PublishDel, a
  <2>2. b[r].pc = "del"
    BY Zenon, <2>1 DEF PublishCommand, At
  <2>3. Result("publish", members, [stored EXCEPT ![a] = stored[a] \ b[r].drop])
    BY Zenon, <1>b, <1>m, <1>2, <2>2
  <2> HIDE DEF Result
  <2> QED
    BY Zenon, <1>p, <1>1, <2>1, <2>3
<1> QED
  BY Zenon, <1>3, <1>4, <1>5, <1>6

\* A bucket is planned.
LEMMA PlanKeeps ==
    ASSUME Inv, NEW r \in Replicas, PublishScan(r) PROVE Inv'
<1>t. TypeOK
  BY Zenon DEF Inv, Typed
<1>b. /\ b \in [Replicas -> Build] /\ b[r].todo \in SUBSET Archs /\ b[r].acc \in Map
  BY Zenon, <1>t, BuildParts
<1>m. members \in [Archs -> SUBSET Pkgs] /\ stored \in [Archs -> SUBSET Pkgs]
  BY Zenon, <1>t DEF TypeOK
<1>s. /\ b[r].pc = "publish" /\ b[r].pc \in Publishing
      /\ {"publish", "mset", "srem"} \subseteq Publishing /\ Publishing \subseteq Phases
  BY Zenon DEF PublishScan, At, Publishing, Phases
<1>u. UNCHANGED <<rounds, shared, mirror, meta, members, stored, vsrcs, flag, local, view>>
  BY Zenon DEF PublishScan
<1>1. CASE Fault("write") /\ Answer(r, local[r], "real")
  BY Zenon, <1>u, <1>1, WriteFails
<1>2. ASSUME NEW a \in b[r].todo, Overlap(r, Reading \union Publishing), UNCHANGED lock,
             LET pkgs == b[r].acc[a]
                 add == (pkgs \ members[a]) \union Missing(pkgs, a)
                 drop == members[a] \ pkgs
             IN  b' = [b EXCEPT ![r].todo = b[r].todo \ {a}, ![r].arch = a,
                                ![r].add = add, ![r].drop = drop,
                                ![r].pc = IF add # {} THEN "mset"
                                          ELSE IF drop # {} THEN "srem" ELSE "publish"]
      PROVE  Inv'
  <2> DEFINE want == b[r].acc[a]
             M == members[a]
             S == stored[a]
             add == (want \ M) \union ((want \cap M) \ S)
             drop == M \ want
             p == IF add # {} THEN "mset" ELSE IF drop # {} THEN "srem" ELSE "publish"
  <2>1. b' = [b EXCEPT ![r].todo = b[r].todo \ {a}, ![r].arch = a, ![r].add = add,
                       ![r].drop = drop, ![r].pc = p]
    BY Zenon, <1>2 DEF Missing
  <2>2. a \in DOMAIN b[r].acc /\ b[r].todo \subseteq DOMAIN b[r].acc /\ b[r].gen \in Gens
    BY Zenon, <1>s DEF Inv, Typed, Place
  <2>3. want \in SUBSET Pkgs /\ M \in SUBSET Pkgs /\ a \in Archs
    BY Zenon, <1>b, <1>m, <2>2, Maps
  <2> HIDE DEF want, M, S
  <2>4. add \in SUBSET Pkgs /\ drop \in SUBSET Pkgs
    BY Zenon, <2>3
  <2>5. p \in Publishing /\ p \in Phases
    BY Zenon, <1>s
  <2>6. /\ add \subseteq want /\ drop \cap want = {} /\ want \ M \subseteq add
        /\ want \ S \subseteq add /\ M \ want \subseteq drop
        /\ add = {} => want \subseteq S /\ want \subseteq M
        /\ drop = {} => M \subseteq want
    BY Zenon
  <2>7. /\ p \in {"mset", "srem", "publish"}
        /\ p # "mset" => add = {}
        /\ p = "publish" => drop = {}
    BY Zenon
  <2> HIDE DEF add, drop, p
  <2>8. /\ Moved(r, p) /\ b'[r].todo = b[r].todo \ {a} /\ b'[r].arch = a /\ b'[r].add = add
        /\ b'[r].drop = drop /\ Same(r, {"basis", "from", "gen", "acc", "whole", "out"})
    <3> DEFINE x == [b[r] EXCEPT !.todo = b[r].todo \ {a}, !.arch = a, !.add = add,
                                 !.drop = drop, !.pc = p]
    <3>1. b[r] \in Build /\ b[r].todo \ {a} \in SUBSET Archs /\ a \in Archs \union {"none"}
      BY Zenon, <1>b, <2>3
    <3>2. x \in Build
      BY Zenon, <2>4, <2>5, <3>1 DEF Build
    <3>3. b' = [b EXCEPT ![r] = x]
      BY ZenonT(30), <2>1
    <3>4. b'[r] = x /\ Moved(r, x.pc)
      BY Zenon, <1>b, <3>2, <3>3, Replaced
    <3> QED
      BY ZenonT(40), <3>1, <3>4 DEF Build, Same
  <2>9. /\ b'[r].pc = p /\ b'[r].gen = b[r].gen /\ b'[r].basis = b[r].basis
        /\ b'[r].out = b[r].out /\ b'[r].acc = b[r].acc
    BY Zenon, <2>8 DEF Moved, Same
  <2>10. Place(b'[r])
    <3>1. p # "mget" /\ p \notin {"srcfile", "srcput"}
      BY Zenon, <2>7
    <3> QED
      BY Zenon, <2>2, <2>8, <2>9, <3>1 DEF Place
  <2>11. ASSUME PublishOK(b[r], mirror, members, stored)
         PROVE  PublishOK(b'[r], mirror, members, stored)
    <3>1. /\ b[r].gen \in Gens /\ b[r].gen <= mirror /\ DOMAIN b[r].acc = DOMAIN Index[b[r].gen]
          /\ \A c \in DOMAIN b[r].acc : b[r].acc[c] = Index[b[r].gen][c]
          /\ \A c \in DOMAIN b[r].acc : c \notin b[r].todo => Right(b[r].gen, c, members, stored)
      BY Zenon, <1>s, <2>11 DEF PublishOK
    <3>2. want = Index[b[r].gen][a]
      BY Zenon, <2>2, <3>1 DEF want
    <3>3. p # "publish" => PlanOK(b'[r], members, stored)
      <4>1. /\ b'[r].arch = a /\ Index[b'[r].gen][b'[r].arch] = want
            /\ b'[r].arch \in DOMAIN b'[r].acc /\ b'[r].arch \notin b'[r].todo
        BY Zenon, <2>2, <2>8, <2>9, <3>2
      <4>2. /\ b'[r].add \subseteq want /\ b'[r].drop \cap want = {}
            /\ b'[r].pc \in {"mset", "sadd"} => want \ members[a] \subseteq b'[r].add
            /\ b'[r].pc = "mset" => want \ stored[a] \subseteq b'[r].add
        BY Zenon, <2>6, <2>8, <2>9 DEF M, S
      <4>3. /\ p # "publish" /\ b'[r].pc \in {"sadd", "srem", "del"} => want \subseteq stored[a]
            /\ p # "publish" /\ b'[r].pc \in {"srem", "del"} => want \subseteq members[a]
        BY Zenon, <2>6, <2>7, <2>9 DEF M, S
      <4>4. /\ b'[r].pc \in {"mset", "sadd", "srem"} => members[a] \ want \subseteq b'[r].drop
            /\ b'[r].pc # "del"
        BY Zenon, <2>6, <2>7, <2>8, <2>9 DEF M
      <4> QED
        BY Zenon, <4>1, <4>2, <4>3, <4>4 DEF PlanOK
    <3>4. p = "publish" => Right(b[r].gen, a, members, stored)
      BY Zenon, <2>6, <2>7, <3>2 DEF Right, M, S
    <3>5. \A c \in DOMAIN b'[r].acc : c \notin b'[r].todo /\ (b'[r].pc = "publish" \/ c # b'[r].arch)
              => Right(b'[r].gen, c, members, stored)
      BY Zenon, <2>8, <2>9, <3>1, <3>4
    <3>6. b'[r].gen \in Gens /\ b'[r].gen <= mirror /\ DOMAIN b'[r].acc = DOMAIN Index[b'[r].gen]
      BY Zenon, <2>9, <3>1
    <3>7. \A c \in DOMAIN b'[r].acc : b'[r].acc[c] = Index[b'[r].gen][c]
      BY Zenon, <2>9, <3>1
    <3> QED
      BY Zenon, <2>9, <3>3, <3>5, <3>6, <3>7 DEF PublishOK
  <2>12. members' = members /\ stored' = stored
    BY Zenon, <1>u
  <2> QED
    BY Zenon, <1>s, <1>m, <1>u, <1>2, <2>5, <2>8, <2>9, <2>10, <2>11, <2>12, PublishKeeps
<1> QED
  BY Zenon, <1>1, <1>2 DEF PublishScan

\* The meta goes last: every bucket is what the Release lists.
LEMMA MetaKeeps ==
    ASSUME Inv, NEW r \in Replicas, PublishMeta(r) PROVE Inv'
<1>t. TypeOK /\ b[r].gen \in 0 .. Len(Index) /\ local[r] \in Entry
  BY Zenon, BuildParts DEF Inv, Typed
<1>s. b[r].pc = "publish" /\ b[r].pc \in Publishing /\ b[r].todo = {} /\ "real" \in Hows
  BY Zenon DEF PublishMeta, At, Publishing, Hows
<1>g. b[r].gen # 0
  <2>1. b[r].gen \in Gens
    BY Zenon, <1>s DEF Inv, Typed, Place
  <2> QED
    BY Zenon, <2>1, Generations
<1>u. /\ UNCHANGED <<rounds, shared, mirror, members, stored, vsrcs, flag, local, view>>
      /\ Answer(r, local[r], "real")
  BY Zenon DEF PublishMeta
<1>1. CASE Fault("write") /\ UNCHANGED meta
  BY Zenon, <1>u, <1>1, WriteFails
<1>2. CASE Overlap(r, Reading \union Publishing) /\ meta' = [gen |-> b[r].gen, fresh |-> TRUE]
  <2>1. /\ Moved(r, "begin") \/ Moved(r, "srcs")
        /\ b'[r].out = local[r] /\ b'[r].basis = NoEntry
        /\ lock' \in Replicas \union {Nobody, Dead}
    BY Zenon, <1>t, <1>s, <1>u, AnswerMoves
  <2>2. PICK p \in Dull : Moved(r, p)
    BY Zenon, <2>1 DEF Dull
  <2>3. /\ b'[r].pc = p /\ p \notin Reading /\ p # "archs" /\ p \notin Publishing /\ p # "mget"
        /\ p \notin {"srcfile", "srcput"}
    BY Zenon, <2>2, DullPhases DEF Moved
  <2>4. Place(b'[r])
    BY Zenon, <2>3 DEF Place
  <2>5. Growing /\ meta'.gen = b[r].gen /\ meta'.fresh
    BY Zenon, <1>t, <1>2, SeenGrows
  <2>6. ASSUME NEW q \in Replicas, q # r PROVE Place(b'[q])
    BY Zenon, <2>2, <2>6 DEF Inv, Typed, Moved
  <2>7. TypeOK'
    <3>1. meta' \in [gen : 0 .. Len(Index), fresh : BOOLEAN]
      BY Zenon, <1>t, <1>2
    <3> QED
      BY Zenon, <1>t, <1>u, <2>1, <2>2, <2>5, <3>1 DEF TypeOK, Growing, Moved
  <2>8. Typed'
    BY Zenon, <2>4, <2>6, <2>7 DEF Typed
  <2>9. Ahead' = Ahead
    BY Zenon, <1>u, <2>5 DEF Ahead, Growing
  <2>10. ASSUME Clean' PROVE ReplicasOK' /\ BucketsOK'
    <3>1. Clean /\ ReplicasOK /\ BucketsOK
      BY Zenon, <2>5, <2>10, CleanBefore DEF Growing, Inv, IndexInv
    <3>2. \A q \in Replicas : q # r => b[q].pc \notin Reading \union Publishing
      BY Zenon, <1>2, <2>10, Alone
    <3>3. PublishOK(b[r], mirror, members, stored) /\ EntryOK(local[r], Ahead)
      BY Zenon, <1>s, <3>1 DEF ReplicasOK, ReplicaOK
    <3>4. /\ b[r].gen \in Gens
          /\ \A a \in DOMAIN Index[b[r].gen] : Right(b[r].gen, a, members, stored)
      BY Zenon, <1>s, <3>3 DEF PublishOK
    <3>5. EntryOK(NoEntry, Ahead)
      BY Zenon DEF EntryOK, NoEntry, Empty
    <3>6. ReplicaOK(local[r], b'[r], Ahead, mirror, meta'.gen, members, stored)
      BY Zenon, <2>1, <2>3, <3>3, <3>5 DEF ReplicaOK
    <3>7. ASSUME NEW q \in Replicas, q # r
          PROVE  ReplicaOK(local[q], b'[q], Ahead, mirror, meta'.gen, members, stored)
      <4>1. b'[q] = b[q]
        BY Zenon, <2>2, <3>7 DEF Moved
      <4>2. ReplicaOK(local[q], b[q], Ahead, mirror, meta.gen, members, stored)
        BY Zenon, <3>1 DEF ReplicasOK
      <4>3. b[q].pc \notin Reading /\ b[q].pc \notin Publishing
        BY Zenon, <3>2, <3>7
      <4> QED
        BY Zenon, <4>1, <4>2, <4>3 DEF ReplicaOK
    <3>8. ReplicasOK'
      BY Zenon, <1>u, <2>9, <3>6, <3>7 DEF ReplicasOK
    <3>9. \A g \in Gens : \A a \in Archs : a \notin DOMAIN Index[g] => members[a] = {}
      BY Zenon, <3>1 DEF BucketsOK
    <3>10. BucketsOK'
      BY Zenon, <1>u, <2>5, <3>4, <3>9 DEF BucketsOK
    <3> QED
      BY Zenon, <3>8, <3>10
  <2> QED
    BY Zenon, <1>g, <2>5, <2>8, <2>10 DEF Inv, IndexInv
<1> QED
  BY Zenon, <1>1, <1>2 DEF PublishMeta

-----------------------------------------------------------------------------
(* The Sources and the end of a build *)

\* The steps of the Sources half pass on entries.
LEMMA SourcesKeep ==
    ASSUME Inv, NEW r \in Replicas,
           \/ SrcsOutright(r) \/ FetchSources(r) \/ SrcsCachedForComparison(r)
           \/ AdoptSrcsFromValkey(r) \/ AdoptSrcsFromValkeyForComparison(r)
           \/ SrcsAdoptedOutright(r) \/ SrcsLock(r) \/ SrcsRelease(r) \/ FetchSourcesFile(r)
           \/ PublishSrcs(r)
    PROVE  Inv'
<1>t. TypeOK
  BY Zenon DEF Inv, Typed
<1>r. /\ rounds \in 0 .. MaxRounds /\ lock \in Replicas \union {Nobody, Dead}
      /\ vsrcs \in Nat /\ flag \in BOOLEAN /\ view \in [Replicas -> Entry]
      /\ local \in [Replicas -> Entry] /\ mirror \in Gens /\ meta.gen \in 0 .. Len(Index)
  BY Zenon, <1>t DEF TypeOK
<1>b. /\ b \in [Replicas -> Build] /\ b[r].from \in 0 .. Len(Index) /\ local[r] \in Entry
      /\ b[r].basis.srcs \in Nat /\ local[r].srcs \in Nat /\ b[r].out \in Entry
  BY Zenon, <1>t, BuildParts, EntryParts
<1>n. 0 \in Nat /\ mirror \in 0 .. Len(Index) /\ SrcsOf \in [Gens -> Nat]
  BY <1>r, MirrorAssumption, Generations
<1>p. {"srcmeta", "srcget", "srcbasis", "srclock", "srcrelease", "done"} \subseteq Dull
  BY Zenon DEF Dull
<1>d. Dull \subseteq Phases /\ SrcsDull \subseteq Phases
  BY Zenon, DullPhases
<1>x. "srcfile" \in SrcsDull /\ "srcput" \in SrcsDull
  BY Zenon DEF SrcsDull
<1>k. /\ {"read", "lock", "mirror", "variant", "download", "write"} \subseteq Kinds \ {"crash"}
      /\ {"outright", "real", "stale", "failed"} \subseteq Hows
  BY Zenon DEF Kinds, Hows
<1>f. \A k \in Kinds \ {"crash"} : Fault(k) => Growing
  BY Zenon, <1>t, SeenGrows
<1>h. NoFault => Growing
  BY Zenon, <1>t, SeenGrows
<1>w. {"outright", "adopt", "compare"} \subseteq Whys
  BY Zenon DEF Whys
<1>o. Old(NoEntry, r) /\ Old(local[r], r) /\ Old(b[r].basis, r) /\ Old(b[r].out, r)
  BY Zenon, OldParts
<1>l. \A e : Like(e, NoEntry) \/ Like(e, local[r]) \/ Like(e, b[r].out) => Old(e, r)
  BY Zenon DEF Old, Known
<1> DEFINE Locks == lock' \in Replicas \union {Nobody, Dead}
           Goes == \E p : /\ Moved(r, p) /\ Old(b'[r].basis, r) /\ Old(b'[r].out, r)
                          /\ p \in Dull \/ (p \in SrcsDull /\ b'[r].gen \in Gens)
           Keeps == /\ local' \in [Replicas -> Entry] /\ Old(local'[r], r)
                    /\ \A q \in Replicas : q # r => local'[q] = local[q]
<1>q. ASSUME UNCHANGED <<rounds, shared, mirror, meta, members, stored, flag, view>>,
             vsrcs' \in Nat, Growing, Locks, Goes, Keeps, b[r].pc \notin Publishing
      PROVE  Inv'
  <2>1. Calm(r)
    BY Zenon, <1>r, <1>q DEF Calm
  <2>2. PICK p : /\ Moved(r, p) /\ Old(b'[r].basis, r) /\ Old(b'[r].out, r)
                 /\ p \in Dull \/ (p \in SrcsDull /\ b'[r].gen \in Gens)
    BY Zenon, <1>q
  <2> QED
    BY Zenon, <1>q, <2>1, <2>2, DullKeeps
<1>a. ASSUME NEW p \in Dull, b' = [b EXCEPT ![r].pc = p] PROVE Goes
  <2>1. Moved(r, p) /\ Same(r, {"basis", "from", "gen", "todo", "acc", "whole", "arch", "add", "drop", "out"})
    BY Zenon, <1>a, <1>b, <1>d, PcMoves
  <2> QED
    BY Zenon, <2>1, OldParts
<1>e. ASSUME NEW s \in Nat, NEW how \in Hows, EndSrcs(r, s, how) PROVE Goes /\ Locks
  <2>1. /\ Moved(r, "done") /\ b'[r].basis = NoEntry
        /\ b'[r].out = [b[r].out EXCEPT !.srcs = s] /\ Locks
    BY Zenon, <1>e, <1>t, EndSrcsMoves
  <2>2. Like([b[r].out EXCEPT !.srcs = s], b[r].out)
    BY Zenon, <1>b DEF Like, Entry
  <2> QED
    BY Zenon, <1>l, <1>o, <1>p, <2>1, <2>2
<1>g. ASSUME NEW why \in Whys, ReadSrcs(r, why) PROVE Goes
  <2>1. "srcget" \in Phases /\ "srcget" \in Dull
    BY Zenon, <1>d, <1>p
  <2>2. /\ Moved(r, "srcget")
        /\ Same(r, {"basis", "gen", "todo", "acc", "whole", "arch", "add", "drop", "out"})
    BY Zenon, <1>b, <1>g, <1>r, <2>1, SrcReadMoves DEF ReadSrcs
  <2> QED
    BY Zenon, <1>o, <2>1, <2>2 DEF Same
<1>c. ASSUME NEW e \in Entry, Old(e, r), b' = [b EXCEPT ![r].pc = "srclock", ![r].basis = e]
      PROVE  Goes
  <2>1. "srclock" \in Phases /\ "srclock" \in Dull
    BY Zenon, <1>d, <1>p
  <2>2. /\ Moved(r, "srclock") /\ b'[r].basis = e
        /\ Same(r, {"from", "gen", "todo", "acc", "whole", "arch", "add", "drop", "out"})
    BY Zenon, <1>b, <1>c, <2>1, BasisMoves
  <2> QED
    BY Zenon, <1>c, <1>o, <2>1, <2>2 DEF Same
<1>s. ASSUME NEW g \in 0 .. Len(Index), NEW s \in Nat, local' = SrcsStored(r, g, s) PROVE Keeps
  <2>1. /\ local' \in [Replicas -> Entry] /\ Like(local'[r], local[r])
        /\ \A q \in Replicas : q # r => local'[q] = local[q]
    BY Zenon, <1>s, <1>t, LocalSrcsStored DEF Like
  <2> QED
    BY Zenon, <1>l, <2>1
<1>z. local' = local => Keeps
  BY Zenon, <1>o, <1>r
<1>y. \A p \in {"srcs", "srcmeta", "srcget", "srcbasis", "srclock", "srcrelease", "srcfile",
                "srcput"} : p \notin Publishing
  BY Zenon DEF Publishing
<1> HIDE DEF Goes, Keeps, Locks
<1>v. vsrcs' = vsrcs => vsrcs' \in Nat
  BY Zenon, <1>r
<1>u. lock' = lock => Locks
  BY Zenon, <1>r DEF Locks
<1>1. CASE SrcsOutright(r)
  <2>1. Growing
    BY Zenon, <1>1, <1>f, <1>h, <1>k DEF SrcsOutright
  <2>2. Goes /\ Locks
    BY Zenon, <1>1, <1>a, <1>b, <1>e, <1>g, <1>k, <1>p, <1>u, <1>w DEF SrcsOutright
  <2> QED
    BY Zenon, <1>1, <1>q, <1>v, <1>y, <1>z, <2>1, <2>2 DEF SrcsOutright, At
<1>2. CASE FetchSources(r)
  <2>1. Growing
    BY Zenon, <1>2, <1>f, <1>h, <1>k DEF FetchSources
  <2>2. Goes
    BY Zenon, <1>2, <1>a, <1>g, <1>p, <1>w DEF FetchSources
  <2> QED
    BY Zenon, <1>2, <1>q, <1>u, <1>v, <1>y, <1>z, <2>1, <2>2 DEF FetchSources, At, valkey
<1>3. CASE SrcsCachedForComparison(r)
  <2>1. Growing
    BY Zenon, <1>3, <1>f, <1>h, <1>k DEF SrcsCachedForComparison
  <2>2. Goes
    BY Zenon, <1>3, <1>b, <1>c, <1>g, <1>o, <1>w, FreshRecords DEF SrcsCachedForComparison
  <2> QED
    BY Zenon, <1>3, <1>q, <1>u, <1>v, <1>y, <1>z, <2>1, <2>2 DEF SrcsCachedForComparison, At, valkey
<1>4. CASE AdoptSrcsFromValkey(r)
  <2>1. PICK s \in {vsrcs, 0} :
          /\ FetchSrcs(r, "adopt", s)
          /\ IF SrcsKnown(r, s)
             THEN local' = SrcsStored(r, b[r].from, s) /\ EndSrcs(r, s, "real")
             ELSE b' = [b EXCEPT ![r].pc = "srcbasis"] /\ UNCHANGED <<local, lock>>
    BY Zenon, <1>4 DEF AdoptSrcsFromValkey
  <2>2. s \in Nat
    BY Zenon, <1>n, <1>r
  <2>3. Growing /\ b[r].pc = "srcget"
    BY Zenon, <1>f, <1>h, <1>k, <2>1 DEF FetchSrcs, At
  <2>4. Goes /\ Locks /\ Keeps
    BY Zenon, <1>a, <1>b, <1>e, <1>k, <1>p, <1>s, <1>u, <1>z, <2>1, <2>2
  <2> QED
    BY Zenon, <1>4, <1>q, <1>v, <1>y, <2>3, <2>4 DEF AdoptSrcsFromValkey
<1>5. CASE AdoptSrcsFromValkeyForComparison(r)
  <2>1. PICK s \in {vsrcs, 0} :
          /\ FetchSrcs(r, "compare", s)
          /\ b' = [b EXCEPT ![r].pc = "srclock", ![r].basis =
                       IF SrcsKnown(r, s) THEN [NoEntry EXCEPT !.sgen = b[r].from, !.srcs = s]
                       ELSE NoEntry]
    BY Zenon, <1>5 DEF AdoptSrcsFromValkeyForComparison
  <2>2. s \in Nat
    BY Zenon, <1>n, <1>r
  <2>3. Growing /\ b[r].pc = "srcget"
    BY Zenon, <1>f, <1>h, <1>k, <2>1 DEF FetchSrcs, At
  <2>4. Goes
    <3> DEFINE x == [NoEntry EXCEPT !.sgen = b[r].from, !.srcs = s]
    <3>1. NoEntry \in Entry
      BY Zenon, FreshRecords
    <3>2. x \in Entry /\ Like(x, NoEntry)
      BY Zenon, <1>b, <2>2, <3>1 DEF Entry, Like
    <3>3. \E e \in {x, NoEntry} : b' = [b EXCEPT ![r].pc = "srclock", ![r].basis = e]
      BY Zenon, <2>1
    <3> HIDE DEF x
    <3> QED
      BY Zenon, <1>c, <1>l, <1>o, <3>1, <3>2, <3>3
  <2> QED
    BY Zenon, <1>5, <1>q, <1>u, <1>v, <1>y, <1>z, <2>3, <2>4
       DEF AdoptSrcsFromValkeyForComparison, valkey
<1>6. CASE SrcsAdoptedOutright(r)
  <2>1. PICK s \in {vsrcs, 0} :
          /\ FetchSrcs(r, "outright", s)
          /\ local' = IF SrcsKnown(r, s) THEN SrcsStored(r, b[r].from, s) ELSE local
          /\ IF s # 0 THEN EndSrcs(r, s, "outright")
             ELSE b' = [b EXCEPT ![r].pc = "srcmeta"] /\ UNCHANGED lock
    BY Zenon, <1>6 DEF SrcsAdoptedOutright
  <2>2. s \in Nat
    BY Zenon, <1>n, <1>r
  <2>3. Growing /\ b[r].pc = "srcget"
    BY Zenon, <1>f, <1>h, <1>k, <2>1 DEF FetchSrcs, At
  <2>4. Goes /\ Locks
    BY Zenon, <1>a, <1>e, <1>k, <1>p, <1>u, <2>1, <2>2
  <2>5. Keeps
    BY Zenon, <1>b, <1>s, <1>z, <2>1, <2>2
  <2> QED
    BY Zenon, <1>6, <1>q, <1>v, <1>y, <2>3, <2>4, <2>5 DEF SrcsAdoptedOutright
<1>7. CASE SrcsLock(r)
  <2>1. Growing
    BY Zenon, <1>7, <1>f, <1>h, <1>k DEF SrcsLock
  <2>2. Goes /\ Locks
    <3>1. CASE b' = [b EXCEPT ![r].pc = "srcrelease"]
      BY Zenon, <1>7, <1>a, <1>p, <1>r, <3>1 DEF SrcsLock, Locks, EndSrcs, Unlocked
    <3>2. CASE EndSrcs(r, b[r].basis.srcs, "stale")
      BY Zenon, <1>b, <1>e, <1>k, <3>2
    <3> QED
      BY Zenon, <1>7, <3>1, <3>2 DEF SrcsLock
  <2> QED
    BY Zenon, <1>7, <1>q, <1>v, <1>y, <1>z, <2>1, <2>2 DEF SrcsLock, At
<1>8. CASE SrcsRelease(r)
  <2>1. Growing
    BY Zenon, <1>8, <1>f, <1>h, <1>k DEF SrcsRelease
  <2>2. CASE \E how \in Hows : EndSrcs(r, b[r].basis.srcs, how)
    <3>1. Goes /\ Locks
      BY Zenon, <1>b, <1>e, <2>2
    <3> QED
      BY Zenon, <1>8, <1>q, <1>v, <1>y, <1>z, <2>1, <3>1 DEF SrcsRelease, At
  <2>3. CASE b' = [b EXCEPT ![r].pc = "srcfile", ![r].gen = mirror] /\ UNCHANGED lock
    <3>1. "srcfile" \in Phases
      BY Zenon, <1>d, <1>x
    <3>2. /\ Moved(r, "srcfile") /\ b'[r].gen = mirror
          /\ Same(r, {"basis", "from", "todo", "acc", "whole", "arch", "add", "drop", "out"})
      BY Zenon, <1>b, <1>n, <2>3, <3>1, SrcGenMoves
    <3>3. Goes
      BY Zenon, <1>o, <1>r, <1>x, <3>2 DEF Same, Goes
    <3> QED
      BY Zenon, <1>8, <1>q, <1>u, <1>v, <1>y, <1>z, <2>1, <2>3, <3>3 DEF SrcsRelease, At
  <2> QED
    BY Zenon, <1>8, <1>k, <2>2, <2>3 DEF SrcsRelease
<1>9. CASE FetchSourcesFile(r)
  <2>g. b[r].pc = "srcfile" /\ b[r].gen \in Gens /\ b[r].gen \in 0 .. Len(Index)
    BY Zenon, <1>9, Generations DEF FetchSourcesFile, At, Inv, Typed, Place
  <2>n. SrcsOf[b[r].gen] \in Nat
    BY Zenon, <1>n, <2>g
  <2>1. Growing
    BY Zenon, <1>9, <1>f, <1>h, <1>k DEF FetchSourcesFile
  <2>2. Keeps
    BY Zenon, <1>9, <1>s, <1>z, <2>g, <2>n DEF FetchSourcesFile
  <2>3. Goes /\ Locks
    <3>1. CASE b' = [b EXCEPT ![r].pc = "srcput"] /\ UNCHANGED lock
      <4>1. "srcput" \in Phases
        BY Zenon, <1>d, <1>x
      <4>2. /\ Moved(r, "srcput")
            /\ Same(r, {"basis", "from", "gen", "todo", "acc", "whole", "arch", "add", "drop", "out"})
        BY Zenon, <1>b, <3>1, <4>1, PcMoves
      <4>3. Goes
        BY Zenon, <1>o, <1>x, <2>g, <4>2 DEF Same, Goes
      <4> QED
        BY Zenon, <1>u, <3>1, <4>3
    <3>2. CASE \E s \in Nat, how \in Hows : EndSrcs(r, s, how)
      BY Zenon, <1>e, <3>2
    <3> QED
      BY Zenon, <1>9, <1>b, <1>k, <1>n, <2>n, <3>1, <3>2 DEF FetchSourcesFile
  <2> QED
    BY Zenon, <1>9, <1>q, <1>v, <1>y, <2>g, <2>1, <2>2, <2>3 DEF FetchSourcesFile
<1>10. CASE PublishSrcs(r)
  <2>g. b[r].pc = "srcput" /\ b[r].gen \in Gens
    BY Zenon, <1>10 DEF PublishSrcs, At, Inv, Typed, Place
  <2>n. SrcsOf[b[r].gen] \in Nat
    BY Zenon, <1>n, <2>g
  <2>1. Growing /\ vsrcs' \in Nat
    BY Zenon, <1>10, <1>f, <1>h, <1>k, <1>v, <2>n DEF PublishSrcs
  <2>2. Goes /\ Locks
    BY Zenon, <1>10, <1>e, <1>k, <2>n DEF PublishSrcs
  <2> QED
    BY Zenon, <1>10, <1>q, <1>y, <1>z, <2>g, <2>1, <2>2 DEF PublishSrcs
<1> QED
  BY Zenon, <1>1, <1>2, <1>3, <1>4, <1>5, <1>6, <1>7, <1>8, <1>9, <1>10

\* Build evicts what Valkey also has.
LEMMA EndKeeps ==
    ASSUME Inv, NEW r \in Replicas, BuildEnd(r) PROVE Inv'
<1>t. TypeOK
  BY Zenon DEF Inv, Typed
<1>r. /\ rounds \in 0 .. MaxRounds /\ lock \in Replicas \union {Nobody, Dead}
      /\ vsrcs \in Nat /\ flag \in BOOLEAN /\ view \in [Replicas -> Entry] /\ shared \in BOOLEAN
      /\ local \in [Replicas -> Entry] /\ b \in [Replicas -> Build] /\ b[r].out \in Entry
  BY Zenon, <1>t, BuildParts DEF TypeOK
<1>f. NoEntry \in Entry /\ NoBuild \in Build
  BY Zenon, FreshRecords
<1>k. "write" \in Kinds /\ "write" # "crash" /\ "idle" \in Dull
  BY Zenon DEF Kinds, Dull
<1>o. Old(NoEntry, r) /\ Old(local[r], r)
  BY Zenon, OldParts
<1>1. Growing
  BY Zenon, <1>k, <1>t, SeenGrows DEF BuildEnd
<1>2. flag' \in BOOLEAN
  BY Zenon, <1>r DEF BuildEnd, MarkLayoutDataFresh, MarksFresh
<1>3. /\ local' \in [Replicas -> Entry] /\ Old(local'[r], r)
      /\ \A q \in Replicas : q # r => local'[q] = local[q]
  BY Zenon, <1>f, <1>o, <1>r DEF BuildEnd, EvictUpstream
<1>4. view' \in [Replicas -> Entry]
  BY Zenon, <1>r DEF BuildEnd
<1>5. Calm(r)
  BY Zenon, <1>r, <1>1, <1>2, <1>3, <1>4 DEF BuildEnd, Calm
<1>6. b[r].pc \notin Publishing
  BY Zenon DEF BuildEnd, At, Publishing
<1>7. b'[r] = NoBuild /\ Moved(r, NoBuild.pc)
  BY Zenon, <1>f, <1>r, Replaced DEF BuildEnd
<1>8. NoBuild.pc = "idle" /\ NoBuild.basis = NoEntry /\ NoBuild.out = NoEntry
  BY Zenon DEF NoBuild
<1> QED
  BY Zenon, <1>k, <1>o, <1>3, <1>5, <1>6, <1>7, <1>8, DullKeeps

-----------------------------------------------------------------------------
(* The mirror, the clocks and the failures *)

\* The mirror moves on: less is trusted.
LEMMA MirrorKeeps ==
    ASSUME Inv, MirrorPublishes PROVE Inv'
<1>t. TypeOK
  BY Zenon DEF Inv, Typed
<1>u. UNCHANGED <<rounds, shared, meta, members, stored, vsrcs, flag, lock, local, b, view, seen>>
  BY Zenon DEF MirrorPublishes, valkey
<1>1. /\ mirror \in Gens /\ mirror' \in Gens
      /\ \A n \in Gens : (mirror' <= n => mirror <= n) /\ (n <= mirror => n <= mirror')
  BY <1>t, MirrorAssumption DEF MirrorPublishes, TypeOK, Gens
<1>2. TypeOK'
  BY Zenon, <1>t, <1>u, <1>1 DEF TypeOK
<1>3. Typed'
  BY Zenon, <1>u, <1>2 DEF Inv, Typed
<1>4. Ahead' \subseteq Ahead
  BY Zenon, <1>u, <1>1 DEF Ahead
<1>5. ASSUME Clean' PROVE ReplicasOK' /\ BucketsOK'
  <2>1. Clean /\ ReplicasOK /\ BucketsOK
    BY Zenon, <1>u, <1>5, CleanBefore DEF Inv, IndexInv
  <2>2. ASSUME NEW r \in Replicas
        PROVE  ReplicaOK(local[r], b[r], Ahead', mirror', meta.gen, members, stored)
    <3>1. ReplicaOK(local[r], b[r], Ahead, mirror, meta.gen, members, stored)
      BY Zenon, <2>1 DEF ReplicasOK
    <3>2. \A e : EntryOK(e, Ahead) => EntryOK(e, Ahead')
      BY Zenon, <1>4, EntryStays DEF Like
    <3>3. FetchOK(b[r], mirror) => FetchOK(b[r], mirror')
      BY Zenon, <1>1 DEF FetchOK
    <3>4. PublishOK(b[r], mirror, members, stored) => PublishOK(b[r], mirror', members, stored)
      BY Zenon, <1>1 DEF PublishOK
    <3> QED
      BY Zenon, <3>1, <3>2, <3>3, <3>4 DEF ReplicaOK
  <2>3. ReplicasOK'
    BY Zenon, <1>u, <2>2 DEF ReplicasOK
  <2>4. BucketsOK'
    BY Zenon, <1>u, <1>4, <2>1, BucketsStay
  <2> QED
    BY Zenon, <2>3, <2>4
<1>6. IndexInv'
  BY Zenon, <1>u, <1>5 DEF Inv, IndexInv
<1> QED
  BY Zenon, <1>3, <1>6 DEF Inv

\* Expiries, and what they leave alone.
LEMMA ExpiryKeeps ==
    ASSUME Inv, MetaExpires \/ FlagExpires \/ LockExpires PROVE Inv'
<1>t. TypeOK
  BY Zenon DEF Inv, Typed
<1>u. UNCHANGED <<rounds, shared, mirror, members, stored, vsrcs, local, b, view, seen>>
  BY Zenon DEF MetaExpires, FlagExpires, LockExpires
<1>1. /\ flag' \in BOOLEAN /\ lock' \in Replicas \union {Nobody, Dead}
      /\ meta' \in [gen : 0 .. Len(Index), fresh : BOOLEAN] /\ meta'.gen = meta.gen
      /\ meta'.fresh => meta.fresh
  <2>1. meta \in [gen : 0 .. Len(Index), fresh : BOOLEAN] /\ flag \in BOOLEAN
           /\ lock \in Replicas \union {Nobody, Dead}
    BY Zenon, <1>t DEF TypeOK
  <2>2. CASE MetaExpires
    BY Zenon, <2>1, <2>2 DEF MetaExpires
  <2>3. CASE FlagExpires
    BY Zenon, <2>1, <2>3 DEF FlagExpires
  <2>4. CASE LockExpires
    BY Zenon, <2>1, <2>4 DEF LockExpires
  <2> QED
    BY Zenon, <2>2, <2>3, <2>4
<1>2. TypeOK'
  BY Zenon, <1>t, <1>u, <1>1 DEF TypeOK
<1>3. Typed'
  BY Zenon, <1>u, <1>2 DEF Inv, Typed
<1>4. Ahead' = Ahead
  BY Zenon, <1>u DEF Ahead
<1>5. ASSUME Clean' PROVE ReplicasOK' /\ BucketsOK'
  <2>1. Clean /\ ReplicasOK /\ BucketsOK
    BY Zenon, <1>u, <1>5, CleanBefore DEF Inv, IndexInv
  <2>2. ReplicasOK'
    BY Zenon, <1>u, <1>1, <1>4, <2>1 DEF ReplicasOK
  <2>3. BucketsOK'
    BY Zenon, <1>u, <1>1, <1>4, <2>1, BucketsStay
  <2> QED
    BY Zenon, <2>2, <2>3
<1>6. IndexInv'
  BY Zenon, <1>1, <1>5 DEF Inv, IndexInv
<1> QED
  BY Zenon, <1>3, <1>6 DEF Inv

\* The local entry expires.
LEMMA LocalKeeps ==
    ASSUME Inv, NEW r \in Replicas, LocalExpires(r) PROVE Inv'
<1>t. TypeOK
  BY Zenon DEF Inv, Typed
<1>u. UNCHANGED <<rounds, shared, mirror, meta, members, stored, vsrcs, flag, lock, b, view, seen>>
  BY Zenon DEF LocalExpires, valkey
<1>1. /\ local' \in [Replicas -> Entry] /\ Like(local'[r], local[r])
      /\ \A q \in Replicas : q # r => local'[q] = local[q]
  <2> DEFINE x == [local[r] EXCEPT !.fresh = FALSE]
  <2>1. local \in [Replicas -> Entry] /\ local[r] \in Entry
    BY Zenon, <1>t, BuildParts
  <2>2. x \in Entry /\ Like(x, local[r])
    BY Zenon, <2>1 DEF Entry, Like
  <2>3. local' = [local EXCEPT ![r] = x]
    BY Zenon DEF LocalExpires
  <2> HIDE DEF x
  <2> QED
    BY Zenon, <2>1, <2>2, <2>3
<1>2. TypeOK'
  BY Zenon, <1>t, <1>u, <1>1 DEF TypeOK
<1>3. Typed'
  BY Zenon, <1>u, <1>2 DEF Inv, Typed
<1>4. Ahead' = Ahead
  BY Zenon, <1>u DEF Ahead
<1>5. ASSUME Clean' PROVE ReplicasOK' /\ BucketsOK'
  <2>1. Clean /\ ReplicasOK /\ BucketsOK
    BY Zenon, <1>u, <1>5, CleanBefore DEF Inv, IndexInv
  <2>2. ASSUME NEW q \in Replicas
        PROVE  ReplicaOK(local'[q], b[q], Ahead, mirror, meta.gen, members, stored)
    <3>1. ReplicaOK(local[q], b[q], Ahead, mirror, meta.gen, members, stored)
      BY Zenon, <2>1 DEF ReplicasOK
    <3>2. Like(local'[q], local[q])
      BY Zenon, <1>1 DEF Like
    <3>3. EntryOK(local'[q], Ahead)
      BY Zenon, <3>1, <3>2, EntryStays DEF ReplicaOK
    <3> QED
      BY Zenon, <3>1, <3>3 DEF ReplicaOK
  <2>3. ReplicasOK'
    BY Zenon, <1>u, <1>4, <2>2 DEF ReplicasOK
  <2>4. BucketsOK'
    BY Zenon, <1>u, <1>4, <2>1, BucketsStay
  <2> QED
    BY Zenon, <2>3, <2>4
<1>6. IndexInv'
  BY Zenon, <1>u, <1>5 DEF Inv, IndexInv
<1> QED
  BY Zenon, <1>3, <1>6 DEF Inv

\* A purge happens between builds.
LEMMA PurgeKeeps ==
    ASSUME Inv, Purge PROVE Inv'
<1>t. TypeOK
  BY Zenon DEF Inv, Typed
<1>u. UNCHANGED <<rounds, shared, mirror, members, vsrcs, flag, lock, local, b, view>>
  BY Zenon DEF Purge
<1>1. "purge" \in Kinds /\ "purge" # "crash"
  BY Zenon DEF Kinds
<1>2. Growing
  BY Zenon, <1>t, <1>1, SeenGrows DEF Purge
<1>3. meta'.gen = 0 /\ meta'.fresh = FALSE /\ stored' \in [Archs -> SUBSET Pkgs]
  BY Zenon DEF Purge
<1>4. meta' \in [gen : 0 .. Len(Index), fresh : BOOLEAN]
  <2>1. 0 \in 0 .. Len(Index)
    BY Generations
  <2> QED
    BY Zenon, <2>1 DEF Purge
<1>5. TypeOK'
  BY Zenon, <1>t, <1>u, <1>2, <1>3, <1>4 DEF TypeOK, Growing
<1>6. Typed'
  BY Zenon, <1>u, <1>5 DEF Inv, Typed
<1>7. Ahead' = Ahead
  BY Zenon, <1>u, <1>2 DEF Ahead, Growing
<1>8. ASSUME Clean' PROVE ReplicasOK' /\ BucketsOK'
  <2>1. Clean /\ ReplicasOK /\ BucketsOK
    BY Zenon, <1>2, <1>8, CleanBefore DEF Growing, Inv, IndexInv
  <2>2. ASSUME NEW q \in Replicas
        PROVE  ReplicaOK(local[q], b[q], Ahead, mirror, 0, members, stored')
    <3>1. b[q].pc = "idle"
      BY Zenon DEF Purge, At
    <3>2. b[q].pc \notin Reading /\ b[q].pc # "archs" /\ b[q].pc \notin Publishing
      BY Zenon, <3>1 DEF Reading, Publishing
    <3> QED
      BY Zenon, <2>1, <3>2 DEF ReplicasOK, ReplicaOK
  <2>3. ReplicasOK'
    BY Zenon, <1>u, <1>3, <1>7, <2>2 DEF ReplicasOK
  <2>4. BucketsOK'
    BY Zenon, <1>u, <1>3, <2>1 DEF BucketsOK
  <2> QED
    BY Zenon, <2>3, <2>4
<1>9. IndexInv'
  BY Zenon, <1>3, <1>8 DEF Inv, IndexInv
<1> QED
  BY Zenon, <1>6, <1>9 DEF Inv

\* A crash in the middle of a publication leaves a bucket half replaced: from then on only
\* what the mirror still lists is trusted, and the mirror does not go back to what the
\* bucket was.
LEMMA RestartKeeps ==
    ASSUME Inv, NEW r \in Replicas, Restart(r) PROVE Inv'
<1>t. TypeOK
  BY Zenon DEF Inv, Typed
<1>u. UNCHANGED <<rounds, shared, mirror, meta, members, stored, vsrcs, flag>>
  BY Zenon DEF Restart
<1>f. NoEntry \in Entry /\ NoBuild \in Build
  BY Zenon, FreshRecords
<1>n. NoBuild.pc = "idle" /\ NoBuild.basis = NoEntry /\ NoBuild.out = NoEntry
  BY Zenon DEF NoBuild
<1>i. "idle" \notin Reading /\ "idle" # "archs" /\ "idle" \notin Publishing /\ "idle" # "mget"
        /\ "idle" \notin {"archs", "srcfile", "srcput"}
  BY Zenon DEF Reading, Publishing
<1>1. b'[r] = NoBuild /\ Moved(r, "idle")
  <2>1. b \in [Replicas -> Build]
    BY Zenon, <1>t DEF TypeOK
  <2>2. b'[r] = NoBuild /\ Moved(r, NoBuild.pc)
    BY Zenon, <1>f, <2>1, Replaced DEF Restart
  <2> QED
    BY Zenon, <1>n, <2>2
<1>2. /\ local' \in [Replicas -> Entry] /\ local'[r] = NoEntry
      /\ \A q \in Replicas : q # r => local'[q] = local[q]
      /\ view' \in [Replicas -> Entry] /\ lock' \in Replicas \union {Nobody, Dead}
  BY Zenon, <1>f, <1>t DEF Restart, TypeOK
<1>3. /\ "crash" \notin seen /\ "crash" \in seen' /\ seen \subseteq seen'
      /\ seen' \subseteq Kinds \union {"torn"}
      /\ b[r].pc \in Publishing /\ (meta.fresh \/ b[r].gen < meta.gen) => "torn" \in seen'
  <2>1. "crash" \in Kinds
    BY Zenon DEF Kinds
  <2> QED
    BY Zenon, <1>t, <2>1 DEF Restart, TypeOK
<1>4. TypeOK'
  BY Zenon, <1>t, <1>u, <1>1, <1>2, <1>3 DEF TypeOK, Moved
<1>5. Typed'
  <2>1. Place(b'[r])
    BY Zenon, <1>1, <1>n, <1>i DEF Place
  <2>2. ASSUME NEW q \in Replicas, q # r PROVE Place(b'[q])
    BY Zenon, <1>1, <2>2 DEF Inv, Typed, Moved
  <2> QED
    BY Zenon, <1>4, <2>1, <2>2 DEF Typed
<1>6. Ahead = Gens /\ Ahead' = {n \in Gens : mirror <= n} /\ Ahead' \subseteq Ahead
  BY Zenon, <1>u, <1>3 DEF Ahead
<1>7. ASSUME Clean' PROVE ReplicasOK' /\ BucketsOK'
  <2>1. Clean /\ ReplicasOK /\ BucketsOK
    BY Zenon, <1>3, <1>7, CleanBefore DEF Inv, IndexInv
  <2>2. NeverBack /\ "torn" \notin seen' /\ SameArchs
    BY Zenon, <1>3, <1>7 DEF Clean, NeverBack, SameArchs
  <2>3. ReplicaOK(local'[r], b'[r], Ahead', mirror, meta.gen, members, stored)
    <3>1. EntryOK(NoEntry, Ahead')
      BY Zenon DEF EntryOK, NoEntry, Empty
    <3> QED
      BY Zenon, <1>1, <1>2, <1>n, <1>i, <3>1 DEF ReplicaOK
  <2>4. ASSUME NEW q \in Replicas, q # r
        PROVE  ReplicaOK(local'[q], b'[q], Ahead', mirror, meta.gen, members, stored)
    <3>1. b'[q] = b[q] /\ local'[q] = local[q]
      BY Zenon, <1>1, <1>2, <2>4 DEF Moved
    <3>2. ReplicaOK(local[q], b[q], Ahead, mirror, meta.gen, members, stored)
      BY Zenon, <2>1 DEF ReplicasOK
    <3>3. \A e : EntryOK(e, Ahead) => EntryOK(e, Ahead')
      BY Zenon, <1>6, EntryStays DEF Like
    <3>4. ReplicaOK(local[q], b[q], Ahead', mirror, meta.gen, members, stored)
      BY Zenon, <3>2, <3>3 DEF ReplicaOK
    <3> QED
      BY Zenon, <3>1, <3>4
  <2>5. ReplicasOK'
    BY Zenon, <1>u, <2>3, <2>4 DEF ReplicasOK
  <2>6. ASSUME meta.gen # 0, NEW a \in DOMAIN Index[meta.gen], Publishers' = {},
               meta.fresh \/ Trusted(meta.gen, a, Ahead')
        PROVE  Right(meta.gen, a, members, stored)
    <3>g. meta.gen \in Gens
      <4>1. meta.gen \in 0 .. Len(Index)
        BY Zenon, <1>t DEF TypeOK
      <4> QED
        BY Zenon, <2>6, <4>1, Generations
    <3>1. \A q \in Publishers : q = r
      BY Zenon, <1>1, <2>6 DEF Publishers, Moved
    <3>2. CASE r \notin Publishers
      <4>1. \A q \in Publishers : Index[b[q].gen][a] = Index[meta.gen][a]
        BY Zenon, <3>1, <3>2
      <4> QED
        BY Zenon, <1>3, <2>1, <2>6, <4>1 DEF BucketsOK
    <3>3. CASE r \in Publishers
      <4>1. b[r].pc \in Publishing
        BY Zenon, <3>3 DEF Publishers
      <4>2. ~meta.fresh /\ ~(b[r].gen < meta.gen)
        BY Zenon, <1>3, <2>2, <4>1
      <4>3. PublishOK(b[r], mirror, members, stored)
        BY Zenon, <2>1, <4>1 DEF ReplicasOK, ReplicaOK
      <4>4. b[r].gen \in Gens /\ b[r].gen <= mirror
        BY Zenon, <4>3 DEF PublishOK
      <4>5. PICK n \in Gens : mirror <= n /\ Index[n][a] = Index[meta.gen][a]
        BY Zenon, <1>6, <2>6, <4>2 DEF Trusted
      <4>6. mirror \in Gens
        BY Zenon, <1>t DEF TypeOK
      <4>7. meta.gen <= b[r].gen /\ b[r].gen <= n
        BY <3>g, <4>2, <4>4, <4>5, <4>6, Generations DEF Gens
      <4>8. Index[b[r].gen][a] = Index[meta.gen][a]
        BY Zenon, <2>2, <2>6, <3>g, <4>4, <4>5, <4>7 DEF NeverBack
      <4>9. \A q \in Publishers : Index[b[q].gen][a] = Index[meta.gen][a]
        BY Zenon, <3>1, <4>8
      <4> QED
        BY Zenon, <1>3, <2>1, <2>6, <4>9 DEF BucketsOK
    <3> QED
      BY Zenon, <3>2, <3>3
  <2>7. \A g \in Gens : \A a \in Archs : a \notin DOMAIN Index[g] => members[a] = {}
    BY Zenon, <2>1 DEF BucketsOK
  <2>8. BucketsOK'
    BY Zenon, <1>u, <1>3, <2>6, <2>7 DEF BucketsOK
  <2> QED
    BY Zenon, <2>5, <2>8
<1>8. IndexInv'
  BY Zenon, <1>u, <1>7 DEF Inv, IndexInv
<1> QED
  BY Zenon, <1>5, <1>8 DEF Inv

\* A step of a build keeps the invariant.
LEMMA BuildKeeps ==
    ASSUME Inv, NEW r \in Replicas, BuildStep(r) PROVE Inv'
BY Zenon, SearchKeeps, ScanKeeps, MgetKeeps, AdoptKeeps, ReleaseKeeps, ArchKeeps, StoreKeeps,
   CommandKeeps, PlanKeeps, MetaKeeps, SourcesKeep, EndKeeps DEF BuildStep

\* At the start there is nothing to be wrong.
LEMMA InitInv == Init => Inv
<1> SUFFICES ASSUME Init PROVE Inv
  OBVIOUS
<1>f. NoEntry \in Entry /\ NoBuild \in Build
  BY Zenon, FreshRecords
<1>n. NoBuild.pc = "idle" /\ NoBuild.basis = NoEntry /\ NoBuild.out = NoEntry
  BY Zenon DEF NoBuild
<1>i. "idle" \notin Reading /\ "idle" # "archs" /\ "idle" \notin Publishing /\ "idle" # "mget"
        /\ "idle" \notin {"archs", "srcfile", "srcput"}
  BY Zenon DEF Reading, Publishing
<1>1. mirror \in Gens /\ 0 \in 0 .. Len(Index) /\ rounds \in 0 .. MaxRounds /\ vsrcs \in Nat
  BY MirrorAssumption DEF Init, Gens
<1>2. /\ meta \in [gen : 0 .. Len(Index), fresh : BOOLEAN] /\ meta.gen = 0 /\ ~meta.fresh
      /\ \A r \in Replicas : local[r] = NoEntry /\ b[r] = NoBuild
      /\ \A a \in Archs : members[a] = {}
  BY Zenon, <1>1 DEF Init
<1>3. TypeOK
  BY Zenon, <1>f, <1>1, <1>2 DEF Init, TypeOK
<1>4. Typed
  BY Zenon, <1>n, <1>i, <1>2, <1>3 DEF Typed, Place
<1>5. ReplicasOK
  <2>1. EntryOK(NoEntry, Ahead)
    BY Zenon DEF EntryOK, NoEntry, Empty
  <2> QED
    BY Zenon, <1>n, <1>i, <1>2, <2>1 DEF ReplicasOK, ReplicaOK
<1>6. BucketsOK
  BY Zenon, <1>2 DEF BucketsOK
<1> QED
  BY Zenon, <1>2, <1>4, <1>5, <1>6 DEF Inv, IndexInv

\* Every step keeps the invariant.
LEMMA NextInv == Inv /\ [Next]_vars => Inv'
<1> SUFFICES ASSUME Inv, [Next]_vars PROVE Inv'
  OBVIOUS
<1>1. CASE Next
  BY Zenon, <1>1, BuildKeeps, LocalKeeps, RestartKeeps, MirrorKeeps, ExpiryKeeps, PurgeKeeps
     DEF Next
<1>2. CASE UNCHANGED vars
  <2>u. UNCHANGED <<rounds, shared, mirror, meta, members, stored, vsrcs, flag, lock, local, b,
                    view, seen>>
    BY Zenon, <1>2 DEF vars, valkey
  <2>1. Typed'
    BY Zenon, <2>u DEF Inv, Typed, TypeOK
  <2>2. Ahead' = Ahead /\ Publishers' = Publishers /\ Clean' = Clean
    BY Zenon, <2>u DEF Ahead, Publishers, Clean
  <2>3. (ReplicasOK => ReplicasOK') /\ (BucketsOK => BucketsOK')
    BY Zenon, <2>u, <2>2 DEF ReplicasOK, BucketsOK
  <2>4. IndexInv'
    BY Zenon, <2>u, <2>2, <2>3 DEF Inv, IndexInv
  <2> QED
    BY Zenon, <2>1, <2>4 DEF Inv
<1> QED
  BY Zenon, <1>1, <1>2

\* The invariant holds throughout.
LEMMA AlwaysInv == Spec => []Inv
BY InitInv, NextInv, PTL DEF Spec

\* Every variable keeps the values that its declaration allows.
THEOREM IndexTypeCorrect == Spec => []TypeOK
<1>1. Inv => TypeOK
  BY Zenon DEF Inv, Typed
<1> QED
  BY <1>1, AlwaysInv, PTL

\* An entry marked archsComplete has exactly what its Release lists, in the local cache and as
\* the answer of a Build, whatever outages, failed reads, lock expiries and purges happened
\* (adoptFromValkey, storeIndex, FetchIndex).
THEOREM CompleteEntriesAreWhole == Spec => []CompleteIsWhole
<1>1. ASSUME Inv PROVE CompleteIsWhole
  <2> SUFFICES ASSUME SameArchs, seen \cap (Degrading \union {"crash", "torn"}) = {},
                      NEW r \in Replicas, NEW e \in {local[r], b[r].out},
                      e.gen # 0, e.complete
               PROVE  Whole(e)
    BY Zenon DEF CompleteIsWhole
  <2>1. "crash" \notin seen /\ Clean
    BY Zenon DEF Clean
  <2>2. Ahead = Gens
    BY Zenon, <2>1 DEF Ahead
  <2>3. EntryOK(e, Gens)
    BY Zenon, <1>1, <2>1, <2>2 DEF Inv, IndexInv, ReplicasOK, ReplicaOK
  <2>4. e \in Entry
    BY Zenon, <1>1, BuildParts DEF Inv, Typed
  <2>5. e.gen \in Gens
    <3>1. e.gen \in 0 .. Len(Index)
      BY Zenon, <2>4 DEF Entry
    <3> QED
      BY Zenon, <3>1, Generations
  <2>6. \A a \in DOMAIN Index[e.gen] : Trusted(e.gen, a, Gens)
    BY Zenon, <2>5 DEF Trusted
  <2>7. /\ DOMAIN e.pkgs \subseteq DOMAIN Index[e.gen]
        /\ \A a \in DOMAIN Index[e.gen] :
              /\ a \in DOMAIN e.pkgs => e.pkgs[a] = Index[e.gen][a]
              /\ a \notin DOMAIN e.pkgs => Index[e.gen][a] = {}
    BY Zenon, <2>3, <2>6 DEF EntryOK
  <2> QED
    BY Zenon, <2>7 DEF Whole
<1> QED
  BY <1>1, AlwaysInv, PTL

\* While nobody replaces buckets, those under a meta whose Expires is ahead hold what its
\* Release lists, crashes included (publishToValkey writes the meta last).
THEOREM FreshMetaIsVouchedFor == Spec => []FreshMetaVouches
<1>1. ASSUME Inv PROVE FreshMetaVouches
  <2> DEFINE e == [NoEntry EXCEPT !.gen = meta.gen,
                                  !.pkgs = [a \in Archs |-> members[a] \cap stored[a]]]
  <2> SUFFICES ASSUME SameArchs, NeverBack, seen \cap (Degrading \union {"torn"}) = {},
                      meta.fresh, \A r \in Replicas : b[r].pc \notin Publishing
               PROVE  Whole(e)
    BY Zenon DEF FreshMetaVouches
  <2>1. e.gen = meta.gen /\ e.pkgs = [a \in Archs |-> members[a] \cap stored[a]]
    BY Zenon DEF NoEntry
  <2> HIDE DEF e
  <2>2. Clean /\ BucketsOK /\ meta.gen # 0
    BY Zenon, <1>1 DEF Clean, Inv, IndexInv
  <2>3. meta.gen \in Gens
    <3>1. meta.gen \in 0 .. Len(Index)
      BY Zenon, <1>1 DEF Inv, Typed, TypeOK
    <3> QED
      BY Zenon, <2>2, <3>1, Generations
  <2>4. Publishers = {}
    BY Zenon DEF Publishers
  <2>5. ASSUME NEW a \in Archs
        PROVE  members[a] \cap stored[a]
                 = IF a \in DOMAIN Index[meta.gen] THEN Index[meta.gen][a] ELSE {}
    <3>1. CASE a \in DOMAIN Index[meta.gen]
      <4>1. Right(meta.gen, a, members, stored)
        BY Zenon, <2>2, <2>4, <3>1 DEF BucketsOK
      <4> QED
        BY Zenon, <3>1, <4>1 DEF Right
    <3>2. CASE a \notin DOMAIN Index[meta.gen]
      BY Zenon, <2>2, <2>3, <3>2 DEF BucketsOK
    <3> QED
      BY Zenon, <3>1, <3>2
  <2> QED
    BY Zenon, <2>1, <2>5 DEF Whole
<1> QED
  BY <1>1, AlwaysInv, PTL

=============================================================================
