--------------------------- MODULE MCTaskScheduler ---------------------------
(* One task of each kind.                                                  *)
EXTENDS TaskScheduler, TLC

CONSTANTS once, every, check, nightly, w1, w2, w3

TwoTasks == {once, every}
Polled == {check, nightly}
Interval == {every}
TwoThreads == {w1, w2}
ThreeThreads == {w1, w2, w3}
Kinds == (once :> "once") @@ (every :> "interval") @@ (check :> "condition")
         @@ (nightly :> "cron")
MCKind == [t \in Task |-> Kinds[t]]
MCGap == [t \in Task |-> IF t = every THEN 1 ELSE 0]
MCCronAt == [t \in Task |-> {0}]
MCTruth == [t \in Task |-> "false"]
MCSymmetry == Permutations(Thread)
=============================================================================
