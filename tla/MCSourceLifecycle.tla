------------------------- MODULE MCSourceLifecycle -------------------------
(* A source with two versions that share a file, for TLC. *)
EXTENDS SourceLifecycle

TwoVersions == <<{"orig", "dsc"}, {"orig"}>>
=============================================================================
