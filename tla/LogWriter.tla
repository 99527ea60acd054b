----------------------------- MODULE LogWriter -----------------------------
(***************************************************************************)
(* The asynchronous log writer (internal/logwriter/logwriter.go): Write    *)
(* never blocks, a full queue drops the record, and one goroutine batches  *)
(* what is queued and says how many records were dropped.                  *)
(*                                                                         *)
(* Records are numbered in the order of the Write calls; a batch is a      *)
(* sequence of them, and notices are added up in announced.                *)
(***************************************************************************)
EXTENDS Naturals, Sequences, FiniteSets

CONSTANTS Queue,      \* capacity of the channel
          BatchSize,  \* records after which a batch is full (batchBytes)
          MaxWrites   \* bound on the Write calls

VARIABLES
    ch,         \* the channel
    writes,     \* Write calls so far
    dropped,    \* lw.dropped
    lost,       \* the records it counts
    reported,   \* lw.reported
    announced,  \* the sum of the notices in the output
    buf,        \* the batch being put together
    notice,     \* the notice at its end
    out,        \* the records in the output
    pc,         \* the run goroutine: select, batch, write, done
    stop,       \* Close has closed lw.stop
    before,     \* the Write calls before that (history)
    draining    \* run has seen it

vars == <<ch, writes, dropped, lost, reported, announced, buf, notice, out, pc, stop, before, draining>>

Init ==
    /\ ch = <<>> /\ writes = 0 /\ dropped = 0 /\ lost = {} /\ reported = 0 /\ announced = 0
    /\ buf = <<>> /\ notice = 0 /\ out = <<>> /\ pc = "select"
    /\ stop = FALSE /\ before = 0 /\ draining = FALSE

Write ==
    /\ writes < MaxWrites /\ writes' = writes + 1
    /\ IF Len(ch) < Queue
       THEN ch' = Append(ch, writes') /\ UNCHANGED <<dropped, lost>>
       ELSE dropped' = dropped + 1 /\ lost' = lost \union {writes'} /\ UNCHANGED ch
    /\ UNCHANGED <<reported, announced, buf, notice, out, pc, stop, before, draining>>

\* Close is called once all handlers have returned or the shutdown gives up on them.
Close ==
    /\ ~stop /\ stop' = TRUE /\ before' = writes
    /\ UNCHANGED <<ch, writes, dropped, lost, reported, announced, buf, notice, out, pc, draining>>

\* The select of run: with both cases ready either may be taken.
RunSelect ==
    /\ pc = "select" /\ pc' = "batch"
    /\ \/ /\ ch # <<>> /\ buf' = <<Head(ch)>> /\ ch' = Tail(ch) /\ UNCHANGED draining
       \/ /\ stop /\ buf' = <<>> /\ draining' = TRUE /\ UNCHANGED ch
    /\ UNCHANGED <<writes, dropped, lost, reported, announced, notice, out, stop, before>>

\* batch: take what is queued, up to its size.
Batch ==
    /\ pc = "batch" /\ Len(buf) < BatchSize /\ ch # <<>>
    /\ buf' = Append(buf, Head(ch)) /\ ch' = Tail(ch)
    /\ UNCHANGED <<writes, dropped, lost, reported, announced, notice, out, pc, stop, before, draining>>

\* Mutant of AppendDropped: the drops are announced again and again.
AppendDroppedAgain ==
    /\ pc = "batch" /\ pc' = "write"
    /\ Len(buf) >= BatchSize \/ ch = <<>>
    /\ notice' = dropped - reported
    /\ UNCHANGED <<ch, writes, dropped, lost, reported, announced, buf, out, stop, before, draining>>

\* appendDropped.
AppendDropped ==
    /\ pc = "batch" /\ pc' = "write"
    /\ Len(buf) >= BatchSize \/ ch = <<>>
    /\ notice' = dropped - reported /\ reported' = dropped
    /\ UNCHANGED <<ch, writes, dropped, lost, announced, buf, out, stop, before, draining>>

\* Mutant of RunWrite: the drain takes one batch and returns.
RunWriteOnce ==
    /\ pc = "write"
    /\ out' = out \o buf /\ announced' = announced + notice
    /\ pc' = IF draining THEN "done" ELSE "select"
    /\ buf' = <<>> /\ notice' = 0
    /\ UNCHANGED <<ch, writes, dropped, lost, reported, stop, before, draining>>

\* The write; the drain ends with an empty batch.
RunWrite ==
    /\ pc = "write"
    /\ out' = out \o buf /\ announced' = announced + notice
    /\ pc' = IF ~draining THEN "select"
             ELSE IF buf = <<>> /\ notice = 0 THEN "done" ELSE "batch"
    /\ buf' = <<>> /\ notice' = 0
    /\ UNCHANGED <<ch, writes, dropped, lost, reported, stop, before, draining>>

Next == Write \/ Close \/ RunSelect \/ Batch \/ AppendDropped \/ RunWrite
Spec == Init /\ [][Next]_vars

-----------------------------------------------------------------------------
\* The type of every variable.
TypeOK ==
    /\ Len(ch) <= Queue /\ writes \in 0 .. MaxWrites /\ dropped = Cardinality(lost)
    /\ reported \in 0 .. dropped /\ Len(buf) <= BatchSize /\ notice \in 0 .. dropped
    /\ pc \in {"select", "batch", "write", "done"} /\ {stop, draining} \subseteq BOOLEAN

\* No record is lost without being counted, none is written twice or out of order, and every
\* drop that has been counted is announced or about to be: until Close has returned, the
\* output, the batch and the channel together hold exactly the records not dropped, in order.
RecordsAccounted ==
    LET pipe == out \o buf \o ch
    IN  /\ \A i \in 1 .. Len(pipe) - 1 : pipe[i] < pipe[i + 1]
        /\ {pipe[i] : i \in DOMAIN pipe} = (1 .. writes) \ lost
        /\ announced + notice = reported

\* What was queued before Close was called is in the output when it returns, and what was
\* dropped before is announced there.
CloseFlushes ==
    pc = "done" => /\ (1 .. before) \ lost \subseteq {out[i] : i \in DOMAIN out}
                   /\ announced >= Cardinality(lost \cap (1 .. before))

=============================================================================
