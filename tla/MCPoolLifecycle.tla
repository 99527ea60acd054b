--------------------------- MODULE MCPoolLifecycle ---------------------------
(* An instance of PoolLifecycle for TLC: two versions of a package from one upstream. *)
EXTENDS PoolLifecycle

TwoFiles == {"v1", "v2"}
TwoUpstream == [f \in TwoFiles |-> "a"]
TwoVersion == [v1 |-> 1, v2 |-> 2]
One == {"k1"}
=============================================================================
