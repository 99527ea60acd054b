----------------------------- MODULE JobLedger -----------------------------
(***************************************************************************)
(* What the admin job queue of internal/api promises: jobs run one at a    *)
(* time in the order they were accepted; except for prime, no kind has two *)
(* jobs that are queued or running; the backlog is bounded; and once the   *)
(* queue is closed nothing is accepted or started.                         *)
(***************************************************************************)
EXTENDS Integers, FiniteSets

CONSTANTS MaxJobs,  \* jobs are numbered 1 .. MaxJobs in the order of acceptance
          Max,      \* bound on the backlog
          Requested \* kinds of jobs that are submitted

VARIABLES phase, kind, closed

Ids == 1 .. MaxJobs
In(ph) == {j \in Ids : phase[j] = ph}

LedgerInit ==
    /\ phase = [j \in Ids |-> "none"]
    /\ kind = [j \in Ids |-> "none"]
    /\ closed = FALSE

Accept(j, k) ==
    /\ ~closed
    /\ phase[j] = "none" /\ \A i \in Ids : i < j => phase[i] # "none"
    /\ k # "prime" => \A i \in In("queued") \union In("running") : kind[i] # k
    /\ Cardinality(In("queued")) < Max
    /\ phase' = [phase EXCEPT ![j] = "queued"]
    /\ kind' = [kind EXCEPT ![j] = k]
    /\ UNCHANGED closed

Start(j) ==
    /\ ~closed
    /\ phase[j] = "queued" /\ \A i \in In("queued") : j <= i
    /\ In("running") = {}
    /\ phase' = [phase EXCEPT ![j] = "running"]
    /\ UNCHANGED <<kind, closed>>

Finish(j) ==
    /\ phase[j] = "running"
    /\ phase' = [phase EXCEPT ![j] = "finished"]
    /\ UNCHANGED <<kind, closed>>

Close == closed' = TRUE /\ UNCHANGED <<phase, kind>>

LedgerNext ==
    \/ \E j \in Ids : Start(j) \/ Finish(j) \/ \E k \in Requested : Accept(j, k)
    \/ Close

LedgerSpec == LedgerInit /\ [][LedgerNext]_<<phase, kind, closed>>

=============================================================================
