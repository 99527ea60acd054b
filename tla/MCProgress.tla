----------------------------- MODULE MCProgress -----------------------------
(***************************************************************************)
(* What the periodic flush and the switchover of /live bring about in the  *)
(* end, for TLC.  A behaviour is one of two processes with a Deb822Store   *)
(* each, or one of two replicas with a LiveView, whose variables are y1 to *)
(* y24.                                                                    *)
(***************************************************************************)
EXTENDS Deb822Store, TLC

VARIABLES part, y1, y2, y3, y4, y5, y6, y7, y8, y9, y10, y11, y12, y13, y14, y15, y16, y17,
          y18, y19, y20, y21, y22, y23, y24

TwoThreads == {"t1", "t2"}
NoThread == {}
TwoInstances == {"a", "b"}
SeparateInstanceOf == [t \in TwoThreads |-> IF t = "t1" THEN "a" ELSE "b"]
LiveBudget == "op" :> 2 @@ "fault" :> 1 @@ "crash" :> 1 @@ "reset" :> 0 @@ "delete" :> 1

\* Nothing is assumed of the time messages take; one replica starts without a view.
TwoReplicas == {"p", "q"}
Live == INSTANCE LiveView WITH
    Replicas <- TwoReplicas, Warm <- {"p"}, NumGens <- 2, Files <- 1, MaxVersion <- 1,
    Delay <- 1, MaxAge <- 1, Retention <- 1, MaxFaults <- 1, Prompt <- FALSE, Unraced <- FALSE,
    upstream <- y1, made <- y2, maker <- y3, current <- y4, stale <- y5, expired <- y6,
    staged <- y7, retired <- y8, timers <- y9, pc <- y10, work <- y11, data <- y12,
    mismatch <- y13, lock <- y14, outbox <- y15, inbox <- y16, notice <- y17, adopt <- y18,
    got <- y19, due <- y20, pending <- y21, cancelled <- y22, advertised <- y23,
    faults <- y24

NoLive ==
    /\ y1 = 0 /\ y2 = 0 /\ y3 = 0 /\ y4 = 0 /\ y5 = 0 /\ y6 = 0 /\ y7 = 0 /\ y8 = 0
    /\ y9 = 0 /\ y10 = 0 /\ y11 = 0 /\ y12 = 0 /\ y13 = 0 /\ y14 = 0 /\ y15 = 0 /\ y16 = 0
    /\ y17 = 0 /\ y18 = 0 /\ y19 = 0 /\ y20 = 0 /\ y21 = 0 /\ y22 = 0 /\ y23 = 0 /\ y24 = 0

ys == <<y1, y2, y3, y4, y5, y6, y7, y8, y9, y10, y11, y12, y13, y14, y15, y16, y17, y18, y19,
        y20, y21, y22, y23, y24>>
lvars == Live!vars
all == <<part, vars, ys>>

ProgressInit ==
    /\ Init
    /\ \/ part = "store" /\ NoLive
       \/ part = "live" /\ Live!Init

\* The operations of the stores are bounded, so that their behaviours may end.
ProgressNext ==
    /\ UNCHANGED part
    /\ \/ part = "store" /\ Next /\ UNCHANGED ys
       \/ part = "live" /\ Live!Next /\ UNCHANGED vars
       \/ part = "store" /\ UNCHANGED all

\* The fairness of each part, as its module states it.
StoreFairness ==
    \A t \in Threads : WF_vars(part = "store" /\ Flush(t)) /\ WF_vars(part = "store" /\ New(t))
LiveFairness ==
    /\ WF_lvars(part = "live" /\ Live!Tick)
    /\ \A b \in TwoReplicas \X {"rebuild", "retry"} : WF_lvars(part = "live" /\ Live!Builder(b))
    /\ \A r \in TwoReplicas :
        /\ WF_lvars(part = "live" /\ Live!PromoteCheck(r))
        /\ WF_lvars(part = "live" /\ Live!Promote(r))
        /\ \A g \in 1 .. 2 : WF_lvars(part = "live" /\ Live!Adopter(r, g))
    /\ \A g \in 1 .. 2 : WF_lvars(part = "live" /\ Live!Announce(g))
ProgressSpec == ProgressInit /\ [][ProgressNext]_all /\ StoreFairness /\ LiveFairness

-----------------------------------------------------------------------------
\* Once the builders rest, a complete staged generation is promoted (LiveView's property
\* of the same name).
SwitchoverWhenQuiet ==
    <>[](part = "live" /\ \A b \in TwoReplicas \X {"rebuild", "retry"} : y10[b] = "idle")
        => \A r \in TwoReplicas : []<>~(part = "live" /\ y7[r].complete)

=============================================================================
