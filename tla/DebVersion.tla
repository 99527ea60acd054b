----------------------------- MODULE DebVersion -----------------------------
(***************************************************************************)
(* Comparison of Debian versions (internal/debversion/version.go), which   *)
(* decides what the merge and the published indices list.  A version is a  *)
(* sequence of characters; the ones used here and their codes are in Code. *)
(***************************************************************************)
EXTENDS Integers, SequencesExt

CONSTANTS Versions  \* the versions compared

VARIABLES a, b, result
vars == <<a, b, result>>

Code == [c \in {"~", "+", "0", "1", "-", ":", "a"} |->
            CASE c = "~" -> 126 [] c = "+" -> 43 [] c = "0" -> 48 [] c = "1" -> 49
              [] c = "-" -> 45 [] c = ":" -> 58 [] c = "a" -> 97]
IsDigit(c) == c \in {"0", "1"}
IsAlpha(c) == c = "a"

CompareInt(x, y) == IF x < y THEN -1 ELSE IF x > y THEN 1 ELSE 0

\* '~' before everything, even the end; letters before the rest.
Order(c) == IF c = "~" THEN -1 ELSE IF IsAlpha(c) THEN Code[c] ELSE Code[c] + 256

At(s, i) == IF i <= Len(s) THEN Order(s[i]) ELSE 0

\* The first difference, the end counting as 0.
CompareLexical(s, t) ==
    LET n == IF Len(s) > Len(t) THEN Len(s) ELSE Len(t)
        i == SelectInSeq([k \in 1 .. n |-> k], LAMBDA k : At(s, k) # At(t, k))
    IN  IF i = 0 THEN 0 ELSE CompareInt(At(s, i), At(t, i))

\* Drop and take while a test holds.
Prefix(s, Test(_)) == LET i == SelectInSeq(s, LAMBDA c : ~Test(c))
                      IN  IF i = 0 THEN s ELSE SubSeq(s, 1, i - 1)
Rest(s, p) == SubSeq(s, Len(p) + 1, Len(s))

\* Without leading zeros, the longer number is greater; else by digits.
CompareNumeric(s, t) ==
    LET x == Rest(s, Prefix(s, LAMBDA c : c = "0"))
        y == Rest(t, Prefix(t, LAMBDA c : c = "0"))
        i == SelectInSeq([k \in DOMAIN x |-> k], LAMBDA k : x[k] # y[k])
    IN  IF Len(x) # Len(y) THEN CompareInt(Len(x), Len(y))
        ELSE IF i = 0 THEN 0 ELSE CompareInt(Code[x[i]], Code[y[i]])

\* dpkg's comparison of one part: text and number by turns.
RECURSIVE CompareVer(_, _)
CompareVer(s, t) ==
    IF s = <<>> /\ t = <<>> THEN 0
    ELSE LET ls == Prefix(s, LAMBDA c : ~IsDigit(c))
             lt == Prefix(t, LAMBDA c : ~IsDigit(c))
             ds == Prefix(Rest(s, ls), IsDigit)
             dt == Prefix(Rest(t, lt), IsDigit)
             lexical == CompareLexical(ls, lt)
             numeric == CompareNumeric(ds, dt)
         IN  IF lexical # 0 THEN lexical
             ELSE IF numeric # 0 THEN numeric
             ELSE CompareVer(Rest(Rest(s, ls), ds), Rest(Rest(t, lt), dt))

\* -1 for what is no number, 0 for nothing.
ParseInt(s) ==
    IF \E i \in DOMAIN s : ~IsDigit(s[i]) THEN -1
    ELSE FoldLeft(LAMBDA n, c : 10 * n + Code[c] - 48, 0, s)

\* Mutant of Split: the revision starts at the first hyphen.
SplitFirst(v) ==
    LET colon == SelectInSeq(v, LAMBDA c : c = ":")
        epoch == IF colon = 0 THEN 0 ELSE ParseInt(SubSeq(v, 1, colon - 1))
        rest == SubSeq(v, colon + 1, Len(v))
        hyphen == SelectInSeq(rest, LAMBDA c : c = "-")
    IN  [epoch |-> IF epoch >= 0 THEN epoch ELSE 0,
         upstream |-> IF hyphen = 0 THEN rest ELSE SubSeq(rest, 1, hyphen - 1),
         revision |-> IF hyphen = 0 THEN <<"0">> ELSE SubSeq(rest, hyphen + 1, Len(rest))]

\* Epoch before the first colon, revision after the last hyphen.
Split(v) ==
    LET colon == SelectInSeq(v, LAMBDA c : c = ":")
        epoch == IF colon = 0 THEN 0 ELSE ParseInt(SubSeq(v, 1, colon - 1))
        rest == SubSeq(v, colon + 1, Len(v))
        hyphen == SelectLastInSeq(rest, LAMBDA c : c = "-")
    IN  [epoch |-> IF epoch >= 0 THEN epoch ELSE 0,
         upstream |-> IF hyphen = 0 THEN rest ELSE SubSeq(rest, 1, hyphen - 1),
         revision |-> IF hyphen = 0 THEN <<"0">> ELSE SubSeq(rest, hyphen + 1, Len(rest))]

Compare(v, w) ==
    LET x == Split(v)
        y == Split(w)
        epoch == CompareInt(x.epoch, y.epoch)
        upstream == CompareVer(x.upstream, y.upstream)
    IN  IF epoch # 0 THEN epoch
        ELSE IF upstream # 0 THEN upstream ELSE CompareVer(x.revision, y.revision)

Init == a \in Versions /\ b \in Versions /\ result = 2
Next == result = 2 /\ result' = Compare(a, b) /\ UNCHANGED <<a, b>>
Spec == Init /\ [][Next]_vars

-----------------------------------------------------------------------------
\* The order of Debian Policy 5.6.12 by a key: the weights of the text, then 0 and the value
\* of the number that ends it, and so on; keys are compared as sequences followed by zeros.
\* The number of a run of digits is worked out here by its value, not by its length.
Weight(c) == CASE c = "~" -> -1 [] IsAlpha(c) -> Code[c] [] OTHER -> Code[c] + 256
Key(s) ==
    LET Add(acc, c) ==
            IF ~IsDigit(c) THEN [key |-> Append(acc.key, Weight(c)), digits |-> FALSE]
            ELSE IF acc.digits
                 THEN [acc EXCEPT !.key[Len(acc.key)] = 10 * @ + Code[c] - 48]
                 ELSE [key |-> acc.key \o <<0, Code[c] - 48>>, digits |-> TRUE]
    IN  FoldLeft(Add, [key |-> <<>>, digits |-> FALSE], s).key
Pad(k, i) == IF i <= Len(k) THEN k[i] ELSE 0
KeyLess(k, l) ==
    \E i \in 1 .. Len(k) + Len(l) :
        /\ Pad(k, i) < Pad(l, i)
        /\ \A j \in 1 .. i - 1 : Pad(k, j) = Pad(l, j)

\* Where the last hyphen is, an absent revision being equal to 0.
PolicyLess(v, w) ==
    LET LastHyphen(s) == {i \in DOMAIN s : s[i] = "-" /\ \A j \in i + 1 .. Len(s) : s[j] # "-"}
        Body(s) == LET colons == {i \in DOMAIN s : s[i] = ":"}
                   IN  IF colons = {} THEN s
                       ELSE SubSeq(s, 1 + CHOOSE i \in colons : \A j \in colons : i <= j, Len(s))
        Epoch(s) == LET digits == SubSeq(s, 1, Len(s) - Len(Body(s)) - 1)
                    IN  IF Body(s) = s \/ \E i \in DOMAIN digits : ~IsDigit(digits[i]) THEN 0
                        ELSE Pad(Key(digits), 2)
        Upstream(s) == IF LastHyphen(s) = {} THEN s ELSE SubSeq(s, 1, (CHOOSE i \in LastHyphen(s) : TRUE) - 1)
        Revision(s) == IF LastHyphen(s) = {} THEN <<>>
                       ELSE SubSeq(s, 1 + CHOOSE i \in LastHyphen(s) : TRUE, Len(s))
        x == Body(v)
        y == Body(w)
        Same(s, t) == ~KeyLess(Key(s), Key(t)) /\ ~KeyLess(Key(t), Key(s))
    IN  \/ Epoch(v) < Epoch(w)
        \/ Epoch(v) = Epoch(w) /\ KeyLess(Key(Upstream(x)), Key(Upstream(y)))
        \/ /\ Epoch(v) = Epoch(w) /\ Same(Upstream(x), Upstream(y))
           /\ KeyLess(Key(Revision(x)), Key(Revision(y)))

\* Compare is that order: negative exactly where the first version is less, positive exactly
\* where the second is, so it is antisymmetric and transitive as sort and merge need.
CompareIsPolicy ==
    result # 2 => result = IF PolicyLess(a, b) THEN -1 ELSE IF PolicyLess(b, a) THEN 1 ELSE 0

=============================================================================
