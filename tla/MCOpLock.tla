------------------------------ MODULE MCOpLock ------------------------------
(* Small instances of OpLock for TLC. *)
EXTENDS OpLock

ThreeUsers == {"worker", "scheduler", "handler"}

=============================================================================
