------------------------------- MODULE PDiff -------------------------------
(***************************************************************************)
(* Updating a cached Packages or Sources index from the mirror's ed-style  *)
(* patches (internal/apt/pdiff.go, and tryPDiff and tryPDiffSrc of         *)
(* internal/upstream/fetch.go).                                            *)
(*                                                                         *)
(* A file is a sequence of lines, "" the blank one after each stanza; the  *)
(* code keeps it as a sequence of stanzas and edits those, with the line   *)
(* numbers of an index built once per patch.  Digests are equal exactly    *)
(* when the lines are.  EdApply is what the ed scripts mean.               *)
(***************************************************************************)
EXTENDS Naturals, SequencesExt, FiniteSetsExt

CONSTANTS Stanzas,    \* stanzas of the first version
          Texts,      \* what a script adds
          Continued,  \* continuation lines, which make no stanza by themselves
          Junk,       \* lines that are neither fields nor continuation lines
          MaxOps,     \* bound on the commands of one script
          MaxVersions \* bound on the versions the mirror publishes

VARIABLES
    kind,     \* pkg or src: a Packages or a Sources index
    hist,     \* the versions of the file, oldest first; the last is current
    patches,  \* the script from each version to the next
    pc,       \* idle, patch, op, verify, done
    cached,   \* the version in the cache
    target,   \* the version the fetched Release and PDiff index are about
    chain,    \* scripts still to apply
    ops,      \* commands of the present script still to apply
    li,       \* its line index
    items,    \* the stanzas
    fault     \* a download has failed

vars == <<kind, hist, patches, pc, cached, target, chain, ops, li, items, fault>>

-----------------------------------------------------------------------------
Error == [ok |-> FALSE, items |-> <<>>]
Parsed(raws) == [ok |-> TRUE, items |-> raws]

\* The lines between two blank ones, where some line is a field.
Cut(lines) ==
    LET Flush(acc) == IF \E i \in DOMAIN acc.raw : acc.raw[i] \notin Continued \union Junk
                      THEN Append(acc.result, acc.raw) ELSE acc.result
        Scan(acc, line) == IF line = "" THEN [result |-> Flush(acc), raw |-> <<>>]
                           ELSE [acc EXCEPT !.raw = Append(@, line)]
    IN  FoldLeft(Scan, [result |-> <<>>, raw |-> <<>>], Append(lines, "")).result

\* A line that is no field is an error in a Packages file and kept in a Sources file.
ParsePackageRaws(lines) == IF ToSet(lines) \cap Junk # {} THEN Error ELSE Parsed(Cut(lines))
ParseSourceRaws(lines) == Parsed(Cut(lines))
ParseRaws(lines) == IF kind = "pkg" THEN ParsePackageRaws(lines) ELSE ParseSourceRaws(lines)

\* SerializeRawPkgs, SerializeRawSrcs.
Serialize(raws) == FoldLeft(LAMBDA buf, raw : buf \o raw \o <<"">>, <<>>, raws)

\* buildLineIdxRaws: the lines, and the stanza of each, 0 for a separator.
BuildLineIdx(raws) ==
    [lines |-> Serialize(raws),
     of |-> FoldLeft(LAMBDA acc, s : acc \o [j \in DOMAIN raws[s] |-> s] \o <<0>>, <<>>,
                     [s \in DOMAIN raws |-> s])]

StanzaAt(idx, line) == IF line \in DOMAIN idx.of THEN idx.of[line] ELSE 0

\* The first and the last stanza with a line in the range.
StanzaRange(idx, addr1, addr2) ==
    LET S == {StanzaAt(idx, line) : line \in addr1 .. addr2} \ {0}
    IN  IF S = {} THEN <<0, 0>> ELSE <<Min(S), Max(S)>>

\* The stanza that appended text goes after, 0 for the front.
InsertionStanza(idx, addr) ==
    IF addr = 0 THEN 0
    ELSE IF StanzaAt(idx, addr) # 0 THEN StanzaAt(idx, addr)
    ELSE IF addr > 1 THEN StanzaAt(idx, addr - 1) ELSE 0

\* The lines of stanza s with a range of them replaced.  They are the lines of the
\* index: what an earlier command did to the stanza is not among them.
RebuildStanza(idx, s, addr1, addr2, text) ==
    LET own == {n \in DOMAIN idx.of : idx.of[n] = s}
        from == Max({addr1, Min(own)})
        to == Min({addr2, Max(own)})
    IN  SubSeq(idx.lines, Min(own), from - 1) \o text \o SubSeq(idx.lines, to + 1, Max(own))

Splice(raws, s1, s2, new) ==
    IF new.ok THEN Parsed(SubSeq(raws, 1, s1 - 1) \o new.items \o SubSeq(raws, s2 + 1, Len(raws)))
    ELSE Error

\* applyEdOpGeneric.
ApplyDelete(raws, idx, op) ==
    LET r == StanzaRange(idx, op.addr1, op.addr2)
    IN  IF r[1] = 0 THEN Parsed(raws)
        ELSE IF r[2] > Len(raws) THEN Error
        ELSE Splice(raws, r[1], r[2], Parsed(<<>>))

ApplyAppend(raws, idx, op) ==
    LET ins == InsertionStanza(idx, op.addr1)
    IN  IF ins > Len(raws) THEN Error ELSE Splice(raws, ins + 1, ins, ParseRaws(op.text))

ApplyChange(raws, idx, op) ==
    LET r == StanzaRange(idx, op.addr1, op.addr2)
        rebuilt == ParseRaws(RebuildStanza(idx, r[1], op.addr1, op.addr2, op.text))
    IN  IF r[1] = 0 THEN Parsed(raws)
        ELSE IF r[2] > Len(raws) THEN Error
        ELSE IF r[1] # r[2] THEN Splice(raws, r[1], r[2], ParseRaws(op.text))
        ELSE IF rebuilt.items = <<>> THEN Error
        ELSE Splice(raws, r[1], r[1], rebuilt)

ApplyEdOpGeneric(raws, idx, op) ==
    CASE op.cmd = "d" -> ApplyDelete(raws, idx, op)
      [] op.cmd = "a" -> ApplyAppend(raws, idx, op)
      [] op.cmd = "c" -> ApplyChange(raws, idx, op)

-----------------------------------------------------------------------------
\* The commands an ed script may hold for a file of n lines, and what they do.
Ops(n) == [cmd : {"d"}, addr1 : 1 .. n, addr2 : 1 .. n, text : {<<>>}]
          \union [cmd : {"a"}, addr1 : 0 .. n, addr2 : {0}, text : Texts]
          \union [cmd : {"c"}, addr1 : 1 .. n, addr2 : 1 .. n, text : Texts]
Ordered(op) == op.cmd = "a" \/ op.addr1 <= op.addr2
Below(op, next) == (IF next.cmd = "a" THEN next.addr1 ELSE next.addr2) < op.addr1

\* parseEdOps: scripts list their commands from the last line to the first.
Scripts(n) ==
    LET one == {op \in Ops(n) : Ordered(op)}
    IN  {<<op>> : op \in one}
        \union (IF MaxOps < 2 THEN {} ELSE {s \in one \X one : Below(s[1], s[2])})

EdOp(file, op) ==
    CASE op.cmd = "a" -> SubSeq(file, 1, op.addr1) \o op.text \o SubSeq(file, op.addr1 + 1, Len(file))
      [] OTHER -> SubSeq(file, 1, op.addr1 - 1) \o op.text \o SubSeq(file, op.addr2 + 1, Len(file))
EdApply(file, script) == FoldLeft(EdOp, file, script)

\* A mirror publishes stanzas, each followed by one blank line.
WellFormed(file) == ParseRaws(file).ok /\ Serialize(ParseRaws(file).items) = file

NoIdx == BuildLineIdx(<<>>)

Init ==
    /\ kind \in {"pkg", "src"}
    /\ \E raws \in BoundedSeq(Stanzas, 2) : hist = <<Serialize(raws)>>
    /\ patches = <<>> /\ pc = "idle" /\ cached = 1 /\ target = 1 /\ chain = <<>> /\ ops = <<>>
    /\ li = NoIdx /\ items = <<>> /\ fault = FALSE

MirrorPublishes ==
    /\ pc = "idle" /\ Len(hist) < MaxVersions
    /\ \E script \in Scripts(Len(Last(hist))) :
          /\ WellFormed(EdApply(Last(hist), script))
          /\ hist' = Append(hist, EdApply(Last(hist), script))
          /\ patches' = Append(patches, script)
    /\ UNCHANGED <<kind, pc, cached, target, chain, ops, li, items, fault>>

\* The index: the digest of each older version with the name of the patch from it.
ParsePDiffIndex == [i \in DOMAIN patches |-> [sha256 |-> hist[i], name |-> i]]

\* Mutant of PatchChain: the patch from the cached version is skipped.
PatchChainSkips(index, sha256) ==
    LET found == {i \in DOMAIN index : index[i].sha256 = sha256}
        at == Min(found)
    IN  IF found = {} THEN <<>> ELSE [j \in 1 .. Len(index) - at |-> index[at + j].name]

\* The patches from the first version with the cached digest; none if there is none.
PatchChain(index, sha256) ==
    LET found == {i \in DOMAIN index : index[i].sha256 = sha256}
        at == Min(found)
    IN  IF found = {} THEN <<>> ELSE [j \in 1 .. Len(index) - at + 1 |-> index[at + j - 1].name]

\* Fetch the index and find the chain for the cached version v.
StartPDiff ==
    /\ pc = "idle" /\ Len(hist) > 1
    /\ \/ \E v \in DOMAIN hist :
             /\ cached' = v /\ items' = ParseRaws(hist[v]).items
             /\ chain' = PatchChain(ParsePDiffIndex, hist[v])
             /\ pc' = IF chain' = <<>> THEN "full" ELSE "patch"
             /\ UNCHANGED fault
       \/ fault' = TRUE /\ pc' = "full" /\ UNCHANGED <<cached, items, chain>>
    /\ target' = Len(hist)
    /\ UNCHANGED <<kind, hist, patches, ops, li>>
TryPDiff == kind = "pkg" /\ StartPDiff
TryPDiffSrc == kind = "src" /\ StartPDiff

\* Fetch the next patch, check its digest and index the lines it is about.
FetchPatch ==
    /\ pc = "patch" /\ chain # <<>>
    /\ \/ /\ ops' = patches[Head(chain)] /\ chain' = Tail(chain) /\ li' = BuildLineIdx(items)
          /\ pc' = "op" /\ UNCHANGED fault
       \/ fault' = TRUE /\ pc' = "full" /\ UNCHANGED <<ops, chain, li>>
    /\ UNCHANGED <<kind, hist, patches, cached, target, items>>

\* One command of the script after the other.
ApplyEdOp ==
    /\ pc = "op" /\ ops # <<>>
    /\ LET done == ApplyEdOpGeneric(items, li, Head(ops))
       IN  IF done.ok THEN items' = done.items /\ ops' = Tail(ops) /\ UNCHANGED pc
           ELSE pc' = "full" /\ UNCHANGED <<items, ops>>
    /\ UNCHANGED <<kind, hist, patches, cached, target, chain, li, fault>>
ApplyEdPatch == kind = "pkg" /\ ApplyEdOp
ApplyEdPatchSrc == kind = "src" /\ ApplyEdOp
PatchDone ==
    /\ pc = "op" /\ ops = <<>> /\ pc' = "patch"
    /\ UNCHANGED <<kind, hist, patches, cached, target, chain, ops, li, items, fault>>

\* Mutant of VerifyDigest: the result of the patches is taken as it is.
VerifyNothing ==
    /\ pc = "patch" /\ chain = <<>> /\ pc' = "done"
    /\ UNCHANGED <<kind, hist, patches, cached, target, chain, ops, li, items, fault>>

\* The digest of the result decides between it and a full download.
VerifyDigest ==
    /\ pc = "patch" /\ chain = <<>>
    /\ pc' = IF Serialize(items) = hist[target] THEN "done" ELSE "full"
    /\ UNCHANGED <<kind, hist, patches, cached, target, chain, ops, li, items, fault>>

Next == \/ MirrorPublishes \/ TryPDiff \/ TryPDiffSrc \/ FetchPatch
        \/ ApplyEdPatch \/ ApplyEdPatchSrc \/ PatchDone \/ VerifyDigest
Spec == Init /\ [][Next]_vars

-----------------------------------------------------------------------------
\* The type of every variable.
TypeOK ==
    /\ Len(hist) \in 1 .. MaxVersions /\ Len(patches) = Len(hist) - 1
    /\ kind \in {"pkg", "src"}
    /\ pc \in {"idle", "patch", "op", "full", "done"} /\ {cached, target} \subseteq DOMAIN hist
    /\ \A i \in DOMAIN hist : WellFormed(hist[i])
    /\ Len(chain) < MaxVersions /\ Len(ops) <= MaxOps /\ fault \in BOOLEAN
    /\ Len(li.lines) = Len(li.of)

\* What tryPDiff hands on instead of a download is what the download would parse to.
AcceptedIsCurrent == pc = "done" => items = ParseRaws(hist[target]).items

\* A command that removes or replaces whole stanzas, adds whole stanzas between two, or
\* replaces lines of a single stanza by others.
Touched(idx, op) ==
    IF op.cmd = "a" THEN {}
    ELSE {StanzaAt(idx, n) : n \in op.addr1 .. op.addr2} \ {0}
Aligned(idx, op) ==
    LET starts == {n \in DOMAIN idx.of : idx.of[n] # 0 /\ (n = 1 \/ idx.of[n - 1] = 0)}
        whole == op.addr1 \in starts /\ idx.of[op.addr2] = 0
    IN  CASE op.cmd = "d" -> whole
          [] op.cmd = "a" -> /\ op.addr1 = 0 \/ idx.of[op.addr1] = 0
                             /\ WellFormed(op.text)
          [] op.cmd = "c" -> \/ whole /\ WellFormed(op.text) /\ Cardinality(Touched(idx, op)) > 1
                             \/ /\ \A n \in op.addr1 .. op.addr2 : idx.of[n] # 0
                                /\ "" \notin ToSet(op.text)
AlignedScript(file, script) ==
    LET idx == BuildLineIdx(ParseRaws(file).items)
    IN  /\ \A i \in DOMAIN script : Aligned(idx, script[i])
        /\ \A i, j \in DOMAIN script : i < j => Touched(idx, script[i]) \cap Touched(idx, script[j]) = {}

\* A chain of patches that respects the stanzas, with at most one command on each, is
\* applied: only an odd patch or a failed download costs a full fetch.
AlignedAccepted ==
    pc = "full" => \/ fault
                   \/ cached = target
                   \/ \E i \in DOMAIN patches : ~AlignedScript(hist[i], patches[i])

=============================================================================
