-------------------------- MODULE MCUpstreamIndex --------------------------
(* Instances of UpstreamIndex for TLC. *)
EXTENDS UpstreamIndex, TLC

CONSTANTS r1, p1, p2, p3, a1, a2

One == {r1}
TwoArchs == {a1, a2}
ThreePkgs == {p1, p2, p3}

\* The second generation replaces a package of one architecture, keeps the other;
\* the third adds to the other and empties the first.
ThreeGens == << (a1 :> {p1}) @@ (a2 :> {p3}),
                (a1 :> {p2}) @@ (a2 :> {p3}),
                (a1 :> {}) @@ (a2 :> {p1, p3}) >>
ThreeSrcs == <<0, 1, 2>>

\* One architecture, replaced in every generation, and no sources.
OneArch == {a1}
Moving == << (a1 :> {p1}), (a1 :> {p2}), (a1 :> {p3}) >>
NoSrcs == <<0, 0, 0>>

=============================================================================
