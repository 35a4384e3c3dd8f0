------------------------ MODULE TaskSchedulerProofs ------------------------
(***************************************************************************)
(* Theorems about TaskScheduler, for any tasks, triggers, threads and      *)
(* bounds.  The invariant says what the status in the row and the snapshot *)
(* of a tick are worth while others act on the table.                      *)
(***************************************************************************)
EXTENDS TaskScheduler, FiniteSetTheorems, TLAPS

At(t) == pc = "marked" /\ at = t
Runs(t) == \E w \in Executing : job[w] = t

(* Whatever is dispatched was in the table once, and what run_once         *)
(* dispatches is counted as forced.                                        *)
Known ==
    /\ due \subseteq added
    /\ pc = "marked" => at \in added
    /\ \A w \in Alive : job[w] \in added
    /\ force # "idle" => forcing \in added /\ forcing \in forced

(* The status is a claim on a task that is not forced.                     *)
Claimed == \A t \in Task \ forced :
    /\ \A v, w \in Executing : job[v] = t /\ job[w] = t => v = w
    /\ Runs(t) => status[t] = "running" /\ t \notin due /\ ~At(t)
    /\ At(t) => status[t] = "running" /\ t \notin due

(* Every run is counted among the active threads.                          *)
Pooled == forced = {} =>
    /\ Executing \subseteq Active
    /\ pc = "marked" => Cardinality(Active) < MaxWorkers
    /\ Cardinality(Executing) <= MaxWorkers

(* What is dispatched is off the snapshot.                                 *)
NotTwice == pc = "marked" => at \notin due

(* A task that was started too late is in no snapshot, and in no later one.*)
LateOnce == \A t \in Task :
    /\ late[t] <= 1
    /\ late[t] # 0 => t \in added /\ t \notin enabled /\ t \notin due /\ ~At(t)

(* A one-shot task that was started is disabled or says that it runs.      *)
OnceOff ==
    /\ \A t \in started :
        /\ Kind[t] = "once"
        /\ t \in added /\ t \notin due /\ ~At(t)
        /\ t \in enabled => status[t] = "running"
    /\ \A w \in Thread :
        stage[w] = "recording" /\ Kind[job[w]] = "once" => job[w] \notin enabled
    /\ \A t \in enabled : At(t) /\ Kind[t] = "once" => status[t] = "running"

(* The stages of a run that has its next_ts.                               *)
Ending == {"cancelling", "recording"}

(* What is left of the gap after a run is in next_run_ts, or will be when  *)
(* the run is recorded, and until then the status says that it runs.       *)
Gapped == \A t \in Task \ forced : Kind[t] = "interval" =>
    /\ rest[t] > 0 => t \in added /\ t \notin due /\ ~At(t)
    /\ \A w \in Thread : stage[w] \in Ending /\ job[w] = t => after[w] >= rest[t]
    /\ rest[t] > 0 => next[t] >= rest[t] \/ status[t] = "running"

IInv ==
    /\ TypeOK /\ Known /\ NotTwice
    /\ Claimed /\ Pooled
    /\ LateOnce /\ OnceOff /\ Gapped

-----------------------------------------------------------------------------
(* Every next run is a time or the epoch.                                  *)
LEMMA OutlookIsTime == Outlook \subseteq Nat \cup {Epoch}
  BY Triggers, SMT DEF Outlook

(* Every step preserves the types.                                         *)
LEMMA TypeStep ==
    ASSUME TypeOK, [Next]_vars
    PROVE  TypeOK'
  <1> USE DEF vars, rowVars, loopVars, forceVars, threadVars, histVars, countVars
  <1>1. ASSUME NEW t \in Task, Add(t) PROVE TypeOK'
    <2>1. next' \in [Task -> Nat \cup {Epoch}]
      BY <1>1, OutlookIsTime DEF Add, TypeOK
    <2> QED BY <1>1, <2>1 DEF Add, TypeOK, Alive
  <1>2. ASSUME NEW t \in Task, Cancel(t) PROVE TypeOK'
    BY <1>2 DEF Cancel, TypeOK, Alive
  <1>3. ASSUME NEW t \in Task, Delete(t) PROVE TypeOK'
    BY <1>3 DEF Delete, TypeOK, Alive
  <1>4. ASSUME Start PROVE TypeOK'
    BY <1>4 DEF Start, TypeOK, Alive
  <1>5. ASSUME LoopEnds PROVE TypeOK'
    BY <1>5 DEF LoopEnds, TypeOK, Alive
  <1>6. ASSUME Exit PROVE TypeOK'
    BY <1>6 DEF Exit, Fault, TypeOK, Alive
  <1>7. ASSUME GetDue PROVE TypeOK'
    BY <1>7 DEF GetDue, IsDue, TypeOK, Alive
  <1>8. ASSUME NEW t \in Task, Skip(t) PROVE TypeOK'
    BY <1>8 DEF Skip, GoOn, TypeOK, Alive
  <1>9. ASSUME NEW t \in Task, NotMet(t) PROVE TypeOK'
    BY <1>9 DEF NotMet, GoOn, Condition, TypeOK, Alive
  <1>10. ASSUME NEW t \in Task, Mark(t) PROVE TypeOK'
    BY <1>10 DEF Mark, TypeOK, Alive
  <1>11. ASSUME Launch PROVE TypeOK'
    BY <1>11 DEF Launch, StartThread, GoOn, TypeOK, Alive
  <1>12. ASSUME TickRaises PROVE TypeOK'
    BY <1>12 DEF TickRaises, Fault, GoOn, TypeOK, Alive
  <1>13. ASSUME NEW t \in Task, ForceFind(t) PROVE TypeOK'
    BY <1>13 DEF ForceFind, TypeOK, Alive
  <1>14. ASSUME ForceMark PROVE TypeOK'
    BY <1>14 DEF ForceMark, TypeOK, Alive
  <1>15. ASSUME ForceLaunch PROVE TypeOK'
    BY <1>15 DEF ForceLaunch, StartThread, TypeOK, Alive
  <1>16. ASSUME ForceRaises PROVE TypeOK'
    BY <1>16 DEF ForceRaises, Fault, TypeOK, Alive
  <1>17. ASSUME NEW w \in Thread, Finish(w) PROVE TypeOK'
    <2>1. after' \in [Thread -> Nat \cup {Epoch}]
      BY <1>17, OutlookIsTime DEF Finish, TypeOK, Alive
    <2>2. rest' \in [Task -> Nat]
      BY <1>17, Triggers DEF Finish, TypeOK
    <2>3. stage' \in [Thread -> {"free", "running", "cancelling", "recording", "notifying"}]
      BY <1>17 DEF Finish, TypeOK
    <2>4. Alive' = Alive
      BY <1>17, <2>3 DEF Finish, TypeOK, Alive
    <2> QED BY <1>17, <2>1, <2>2, <2>3, <2>4 DEF Finish, TypeOK
  <1>18. ASSUME NEW w \in Thread, CancelOnce(w) PROVE TypeOK'
    BY <1>18 DEF CancelOnce, TypeOK, Alive
  <1>19. ASSUME NEW w \in Thread, Record(w) PROVE TypeOK'
    BY <1>19 DEF Record, TypeOK, Alive
  <1>20. ASSUME NEW w \in Thread, Notified(w) PROVE TypeOK'
    BY <1>20 DEF Notified, Gone, TypeOK, Alive
  <1>21. ASSUME NEW w \in Thread, WorkerRaises(w) PROVE TypeOK'
    BY <1>21 DEF WorkerRaises, Gone, Fault, TypeOK, Alive
  <1>22. ASSUME PassTime PROVE TypeOK'
    <2>1. clock' \in 0..Year - 1
      BY <1>22, Triggers, SMT DEF PassTime, TypeOK
    <2>2. \A n \in Nat : Down(n) \in Nat
      BY SMT DEF Down
    <2>3. Down(Epoch) = Epoch
      BY SMT DEF Down, Epoch
    <2>4. /\ next' \in [Task -> Nat \cup {Epoch}]
          /\ after' \in [Thread -> Nat \cup {Epoch}]
          /\ rest' \in [Task -> Nat]
      BY <1>22, <2>2, <2>3 DEF PassTime, TypeOK
    <2> QED BY <1>22, <2>1, <2>4 DEF PassTime, TypeOK, Alive
  <1>23. ASSUME UNCHANGED vars PROVE TypeOK'
    BY <1>23 DEF TypeOK, Alive
  <1> QED
    BY <1>1, <1>2, <1>3, <1>4, <1>5, <1>6, <1>7, <1>8, <1>9, <1>10, <1>11, <1>12,
       <1>13, <1>14, <1>15, <1>16, <1>17, <1>18, <1>19, <1>20, <1>21, <1>22, <1>23
       DEF Next, CommandLine, Loop, RunOnce, Worker

(* What is dispatched goes on being a task that was added.                 *)
LEMMA KnownStep ==
    ASSUME TypeOK, Known, [Next]_vars
    PROVE  Known'
  <1> USE DEF vars, rowVars, loopVars, forceVars, threadVars, histVars, countVars
  <1>1. ASSUME NEW t \in Task, Add(t) PROVE Known'
    BY <1>1 DEF Add, TypeOK, Known, Alive
  <1>2. ASSUME NEW t \in Task, Cancel(t) PROVE Known'
    BY <1>2 DEF Cancel, TypeOK, Known, Alive
  <1>3. ASSUME NEW t \in Task, Delete(t) PROVE Known'
    BY <1>3 DEF Delete, TypeOK, Known, Alive
  <1>4. ASSUME Start PROVE Known'
    BY <1>4 DEF Start, TypeOK, Known, Alive
  <1>5. ASSUME LoopEnds PROVE Known'
    BY <1>5 DEF LoopEnds, TypeOK, Known, Alive
  <1>6. ASSUME Exit PROVE Known'
    BY <1>6 DEF Exit, Fault, TypeOK, Known, Alive
  <1>7. ASSUME GetDue PROVE Known'
    BY <1>7 DEF GetDue, IsDue, TypeOK, Known, Alive
  <1>8. ASSUME NEW t \in Task, Skip(t) PROVE Known'
    BY <1>8 DEF Skip, GoOn, TypeOK, Known, Alive
  <1>9. ASSUME NEW t \in Task, NotMet(t) PROVE Known'
    BY <1>9 DEF NotMet, GoOn, Condition, TypeOK, Known, Alive
  <1>10. ASSUME NEW t \in Task, Mark(t) PROVE Known'
    BY <1>10 DEF Mark, TypeOK, Known, Alive
  <1>11. ASSUME Launch PROVE Known'
    BY <1>11 DEF Launch, StartThread, GoOn, TypeOK, Known, Alive
  <1>12. ASSUME TickRaises PROVE Known'
    BY <1>12 DEF TickRaises, Fault, GoOn, TypeOK, Known, Alive
  <1>13. ASSUME NEW t \in Task, ForceFind(t) PROVE Known'
    BY <1>13 DEF ForceFind, TypeOK, Known, Alive
  <1>14. ASSUME ForceMark PROVE Known'
    BY <1>14 DEF ForceMark, TypeOK, Known, Alive
  <1>15. ASSUME ForceLaunch PROVE Known'
    BY <1>15 DEF ForceLaunch, StartThread, TypeOK, Known, Alive
  <1>16. ASSUME ForceRaises PROVE Known'
    BY <1>16 DEF ForceRaises, Fault, TypeOK, Known, Alive
  <1>17. ASSUME NEW w \in Thread, Finish(w) PROVE Known'
    BY <1>17 DEF Finish, TypeOK, Known, Alive
  <1>18. ASSUME NEW w \in Thread, CancelOnce(w) PROVE Known'
    BY <1>18 DEF CancelOnce, TypeOK, Known, Alive
  <1>19. ASSUME NEW w \in Thread, Record(w) PROVE Known'
    BY <1>19 DEF Record, TypeOK, Known, Alive
  <1>20. ASSUME NEW w \in Thread, Notified(w) PROVE Known'
    BY <1>20 DEF Notified, Gone, TypeOK, Known, Alive
  <1>21. ASSUME NEW w \in Thread, WorkerRaises(w) PROVE Known'
    BY <1>21 DEF WorkerRaises, Gone, Fault, TypeOK, Known, Alive
  <1>22. ASSUME PassTime PROVE Known'
    BY <1>22 DEF PassTime, TypeOK, Known, Alive
  <1>23. ASSUME UNCHANGED vars PROVE Known'
    BY <1>23 DEF TypeOK, Known, Alive
  <1> QED
    BY <1>1, <1>2, <1>3, <1>4, <1>5, <1>6, <1>7, <1>8, <1>9, <1>10, <1>11, <1>12,
       <1>13, <1>14, <1>15, <1>16, <1>17, <1>18, <1>19, <1>20, <1>21, <1>22, <1>23
       DEF Next, CommandLine, Loop, RunOnce, Worker

(* What is dispatched goes on being off the snapshot.                      *)
LEMMA NotTwiceStep ==
    ASSUME NotTwice, [Next]_vars
    PROVE  NotTwice'
  <1> USE DEF vars, rowVars, loopVars, forceVars, threadVars, histVars, countVars
  <1>1. ASSUME NEW t \in Task, Add(t) PROVE NotTwice'
    BY <1>1 DEF Add, NotTwice
  <1>2. ASSUME NEW t \in Task, Cancel(t) PROVE NotTwice'
    BY <1>2 DEF Cancel, NotTwice
  <1>3. ASSUME NEW t \in Task, Delete(t) PROVE NotTwice'
    BY <1>3 DEF Delete, NotTwice
  <1>4. ASSUME Start PROVE NotTwice'
    BY <1>4 DEF Start, NotTwice
  <1>5. ASSUME LoopEnds PROVE NotTwice'
    BY <1>5 DEF LoopEnds, NotTwice
  <1>6. ASSUME Exit PROVE NotTwice'
    BY <1>6 DEF Exit, Fault, NotTwice
  <1>7. ASSUME GetDue PROVE NotTwice'
    BY <1>7 DEF GetDue, IsDue, NotTwice
  <1>8. ASSUME NEW t \in Task, Skip(t) PROVE NotTwice'
    BY <1>8 DEF Skip, GoOn, NotTwice
  <1>9. ASSUME NEW t \in Task, NotMet(t) PROVE NotTwice'
    BY <1>9 DEF NotMet, GoOn, Condition, NotTwice
  <1>10. ASSUME NEW t \in Task, Mark(t) PROVE NotTwice'
    BY <1>10 DEF Mark, NotTwice
  <1>11. ASSUME Launch PROVE NotTwice'
    BY <1>11 DEF Launch, StartThread, GoOn, NotTwice
  <1>12. ASSUME TickRaises PROVE NotTwice'
    BY <1>12 DEF TickRaises, Fault, GoOn, NotTwice
  <1>13. ASSUME NEW t \in Task, ForceFind(t) PROVE NotTwice'
    BY <1>13 DEF ForceFind, NotTwice
  <1>14. ASSUME ForceMark PROVE NotTwice'
    BY <1>14 DEF ForceMark, NotTwice
  <1>15. ASSUME ForceLaunch PROVE NotTwice'
    BY <1>15 DEF ForceLaunch, StartThread, NotTwice
  <1>16. ASSUME ForceRaises PROVE NotTwice'
    BY <1>16 DEF ForceRaises, Fault, NotTwice
  <1>17. ASSUME NEW w \in Thread, Finish(w) PROVE NotTwice'
    BY <1>17 DEF Finish, NotTwice
  <1>18. ASSUME NEW w \in Thread, CancelOnce(w) PROVE NotTwice'
    BY <1>18 DEF CancelOnce, NotTwice
  <1>19. ASSUME NEW w \in Thread, Record(w) PROVE NotTwice'
    BY <1>19 DEF Record, NotTwice
  <1>20. ASSUME NEW w \in Thread, Notified(w) PROVE NotTwice'
    BY <1>20 DEF Notified, Gone, NotTwice
  <1>21. ASSUME NEW w \in Thread, WorkerRaises(w) PROVE NotTwice'
    BY <1>21 DEF WorkerRaises, Gone, Fault, NotTwice
  <1>22. ASSUME PassTime PROVE NotTwice'
    BY <1>22 DEF PassTime, NotTwice
  <1>23. ASSUME UNCHANGED vars PROVE NotTwice'
    BY <1>23 DEF NotTwice
  <1> QED
    BY <1>1, <1>2, <1>3, <1>4, <1>5, <1>6, <1>7, <1>8, <1>9, <1>10, <1>11, <1>12,
       <1>13, <1>14, <1>15, <1>16, <1>17, <1>18, <1>19, <1>20, <1>21, <1>22, <1>23
       DEF Next, CommandLine, Loop, RunOnce, Worker

(* No step breaks the claim of a run on its row.                           *)
LEMMA ClaimedStep ==
    ASSUME TypeOK, Known, Claimed, [Next]_vars
    PROVE  Claimed'
  <1> USE DEF vars, rowVars, loopVars, forceVars, threadVars, histVars, countVars
  <1>1. ASSUME NEW t \in Task, Add(t) PROVE Claimed'
    BY <1>1 DEF Add, TypeOK, Known, Claimed, Executing, Alive, Runs, At
  <1>2. ASSUME NEW t \in Task, Cancel(t) PROVE Claimed'
    BY <1>2 DEF Cancel, TypeOK, Known, Claimed, Executing, Alive, Runs, At
  <1>3. ASSUME NEW t \in Task, Delete(t) PROVE Claimed'
    BY <1>3 DEF Delete, TypeOK, Known, Claimed, Executing, Alive, Runs, At
  <1>4. ASSUME Start PROVE Claimed'
    BY <1>4 DEF Start, TypeOK, Known, Claimed, Executing, Alive, Runs, At
  <1>5. ASSUME LoopEnds PROVE Claimed'
    BY <1>5 DEF LoopEnds, TypeOK, Known, Claimed, Executing, Alive, Runs, At
  <1>6. ASSUME Exit PROVE Claimed'
    BY <1>6 DEF Exit, Fault, TypeOK, Known, Claimed, Executing, Alive, Runs, At
  <1>7. ASSUME GetDue PROVE Claimed'
    BY <1>7 DEF GetDue, IsDue, TypeOK, Known, Claimed, Executing, Alive, Runs, At
  <1>8. ASSUME NEW t \in Task, Skip(t) PROVE Claimed'
    BY <1>8 DEF Skip, GoOn, TypeOK, Known, Claimed, Executing, Alive, Runs, At
  <1>9. ASSUME NEW t \in Task, NotMet(t) PROVE Claimed'
    BY <1>9 DEF NotMet, GoOn, Condition, TypeOK, Known, Claimed, Executing, Alive, Runs, At
  <1>10. ASSUME NEW t \in Task, Mark(t) PROVE Claimed'
    BY <1>10 DEF Mark, TypeOK, Known, Claimed, Executing, Alive, Runs, At
  <1>11. ASSUME Launch PROVE Claimed'
    BY <1>11 DEF Launch, StartThread, GoOn, TypeOK, Known, Claimed, Executing, Alive, Runs, At
  <1>12. ASSUME TickRaises PROVE Claimed'
    BY <1>12 DEF TickRaises, Fault, GoOn, TypeOK, Known, Claimed, Executing, Alive, Runs, At
  <1>13. ASSUME NEW t \in Task, ForceFind(t) PROVE Claimed'
    BY <1>13 DEF ForceFind, TypeOK, Known, Claimed, Executing, Alive, Runs, At
  <1>14. ASSUME ForceMark PROVE Claimed'
    BY <1>14 DEF ForceMark, TypeOK, Known, Claimed, Executing, Alive, Runs, At
  <1>15. ASSUME ForceLaunch PROVE Claimed'
    BY <1>15 DEF ForceLaunch, StartThread, TypeOK, Known, Claimed, Executing, Alive, Runs, At
  <1>16. ASSUME ForceRaises PROVE Claimed'
    BY <1>16 DEF ForceRaises, Fault, TypeOK, Known, Claimed, Executing, Alive, Runs, At
  <1>17. ASSUME NEW w \in Thread, Finish(w) PROVE Claimed'
    BY <1>17 DEF Finish, TypeOK, Known, Claimed, Executing, Alive, Runs, At
  <1>18. ASSUME NEW w \in Thread, CancelOnce(w) PROVE Claimed'
    BY <1>18 DEF CancelOnce, TypeOK, Known, Claimed, Executing, Alive, Runs, At
  <1>19. ASSUME NEW w \in Thread, Record(w) PROVE Claimed'
    BY <1>19 DEF Record, TypeOK, Known, Claimed, Executing, Alive, Runs, At
  <1>20. ASSUME NEW w \in Thread, Notified(w) PROVE Claimed'
    BY <1>20 DEF Notified, Gone, TypeOK, Known, Claimed, Executing, Alive, Runs, At
  <1>21. ASSUME NEW w \in Thread, WorkerRaises(w) PROVE Claimed'
    BY <1>21 DEF WorkerRaises, Gone, Fault, TypeOK, Known, Claimed, Executing, Alive, Runs, At
  <1>22. ASSUME PassTime PROVE Claimed'
    BY <1>22 DEF PassTime, TypeOK, Known, Claimed, Executing, Alive, Runs, At
  <1>23. ASSUME UNCHANGED vars PROVE Claimed'
    BY <1>23 DEF TypeOK, Known, Claimed, Executing, Alive, Runs, At
  <1> QED
    BY <1>1, <1>2, <1>3, <1>4, <1>5, <1>6, <1>7, <1>8, <1>9, <1>10, <1>11, <1>12,
       <1>13, <1>14, <1>15, <1>16, <1>17, <1>18, <1>19, <1>20, <1>21, <1>22, <1>23
       DEF Next, CommandLine, Loop, RunOnce, Worker

(* A cancelled task that was started stays out of every snapshot.          *)
LEMMA LateStep ==
    ASSUME TypeOK, Known, NotTwice, LateOnce, [Next]_vars
    PROVE  LateOnce'
  <1> USE DEF vars, rowVars, loopVars, forceVars, threadVars, histVars, countVars
  <1>1. ASSUME NEW t \in Task, Add(t) PROVE LateOnce'
    BY <1>1 DEF Add, TypeOK, Known, LateOnce, Alive, At
  <1>2. ASSUME NEW t \in Task, Cancel(t) PROVE LateOnce'
    BY <1>2 DEF Cancel, TypeOK, Known, LateOnce, Alive, At
  <1>3. ASSUME NEW t \in Task, Delete(t) PROVE LateOnce'
    BY <1>3 DEF Delete, TypeOK, Known, LateOnce, Alive, At
  <1>4. ASSUME Start PROVE LateOnce'
    BY <1>4 DEF Start, TypeOK, Known, LateOnce, Alive, At
  <1>5. ASSUME LoopEnds PROVE LateOnce'
    BY <1>5 DEF LoopEnds, TypeOK, Known, LateOnce, Alive, At
  <1>6. ASSUME Exit PROVE LateOnce'
    BY <1>6 DEF Exit, Fault, TypeOK, Known, LateOnce, Alive, At
  <1>7. ASSUME GetDue PROVE LateOnce'
    BY <1>7 DEF GetDue, IsDue, TypeOK, Known, LateOnce, Alive, At
  <1>8. ASSUME NEW t \in Task, Skip(t) PROVE LateOnce'
    BY <1>8 DEF Skip, GoOn, TypeOK, Known, LateOnce, Alive, At
  <1>9. ASSUME NEW t \in Task, NotMet(t) PROVE LateOnce'
    BY <1>9 DEF NotMet, GoOn, Condition, TypeOK, Known, LateOnce, Alive, At
  <1>10. ASSUME NEW t \in Task, Mark(t) PROVE LateOnce'
    BY <1>10 DEF Mark, TypeOK, Known, LateOnce, Alive, At
  <1>11. ASSUME Launch PROVE LateOnce'
    <2>1. at \in Task /\ at \in added /\ at \notin due /\ late[at] = 0
      BY <1>11 DEF Launch, TypeOK, Known, NotTwice, LateOnce, At
    <2>2. pc' # "marked" /\ due' = due
      BY <1>11 DEF Launch, GoOn
    <2>3. late' = late \/ (at \notin enabled /\ late' = [late EXCEPT ![at] = 1])
      BY <1>11, <2>1 DEF Launch, TypeOK
    <2> QED BY <1>11, <2>1, <2>2, <2>3 DEF Launch, TypeOK, LateOnce, At
  <1>12. ASSUME TickRaises PROVE LateOnce'
    BY <1>12 DEF TickRaises, Fault, GoOn, TypeOK, Known, LateOnce, Alive, At
  <1>13. ASSUME NEW t \in Task, ForceFind(t) PROVE LateOnce'
    BY <1>13 DEF ForceFind, TypeOK, Known, LateOnce, Alive, At
  <1>14. ASSUME ForceMark PROVE LateOnce'
    BY <1>14 DEF ForceMark, TypeOK, Known, LateOnce, Alive, At
  <1>15. ASSUME ForceLaunch PROVE LateOnce'
    BY <1>15 DEF ForceLaunch, StartThread, TypeOK, Known, LateOnce, Alive, At
  <1>16. ASSUME ForceRaises PROVE LateOnce'
    BY <1>16 DEF ForceRaises, Fault, TypeOK, Known, LateOnce, Alive, At
  <1>17. ASSUME NEW w \in Thread, Finish(w) PROVE LateOnce'
    BY <1>17 DEF Finish, TypeOK, Known, LateOnce, Alive, At
  <1>18. ASSUME NEW w \in Thread, CancelOnce(w) PROVE LateOnce'
    BY <1>18 DEF CancelOnce, TypeOK, Known, LateOnce, Alive, At
  <1>19. ASSUME NEW w \in Thread, Record(w) PROVE LateOnce'
    BY <1>19 DEF Record, TypeOK, Known, LateOnce, Alive, At
  <1>20. ASSUME NEW w \in Thread, Notified(w) PROVE LateOnce'
    BY <1>20 DEF Notified, Gone, TypeOK, Known, LateOnce, Alive, At
  <1>21. ASSUME NEW w \in Thread, WorkerRaises(w) PROVE LateOnce'
    BY <1>21 DEF WorkerRaises, Gone, Fault, TypeOK, Known, LateOnce, Alive, At
  <1>22. ASSUME PassTime PROVE LateOnce'
    BY <1>22 DEF PassTime, TypeOK, Known, LateOnce, Alive, At
  <1>23. ASSUME UNCHANGED vars PROVE LateOnce'
    BY <1>23 DEF TypeOK, Known, LateOnce, Alive, At
  <1> QED
    BY <1>1, <1>2, <1>3, <1>4, <1>5, <1>6, <1>7, <1>8, <1>9, <1>10, <1>11, <1>12,
       <1>13, <1>14, <1>15, <1>16, <1>17, <1>18, <1>19, <1>20, <1>21, <1>22, <1>23
       DEF Next, CommandLine, Loop, RunOnce, Worker

(* A one-shot task that was started stays disabled or running.             *)
LEMMA OnceStep ==
    ASSUME TypeOK, Known, NotTwice, OnceOff, [Next]_vars
    PROVE  OnceOff'
  <1> USE DEF vars, rowVars, loopVars, forceVars, threadVars, histVars, countVars
  <1>1. ASSUME NEW t \in Task, Add(t) PROVE OnceOff'
    BY <1>1 DEF Add, TypeOK, Known, OnceOff, Alive, At
  <1>2. ASSUME NEW t \in Task, Cancel(t) PROVE OnceOff'
    BY <1>2 DEF Cancel, TypeOK, Known, OnceOff, Alive, At
  <1>3. ASSUME NEW t \in Task, Delete(t) PROVE OnceOff'
    BY <1>3 DEF Delete, TypeOK, Known, OnceOff, Alive, At
  <1>4. ASSUME Start PROVE OnceOff'
    BY <1>4 DEF Start, TypeOK, Known, OnceOff, Alive, At
  <1>5. ASSUME LoopEnds PROVE OnceOff'
    BY <1>5 DEF LoopEnds, TypeOK, Known, OnceOff, Alive, At
  <1>6. ASSUME Exit PROVE OnceOff'
    BY <1>6 DEF Exit, Fault, TypeOK, Known, OnceOff, Alive, At
  <1>7. ASSUME GetDue PROVE OnceOff'
    BY <1>7 DEF GetDue, IsDue, TypeOK, Known, OnceOff, Alive, At
  <1>8. ASSUME NEW t \in Task, Skip(t) PROVE OnceOff'
    BY <1>8 DEF Skip, GoOn, TypeOK, Known, OnceOff, Alive, At
  <1>9. ASSUME NEW t \in Task, NotMet(t) PROVE OnceOff'
    BY <1>9 DEF NotMet, GoOn, Condition, TypeOK, Known, OnceOff, Alive, At
  <1>10. ASSUME NEW t \in Task, Mark(t) PROVE OnceOff'
    BY <1>10 DEF Mark, TypeOK, Known, OnceOff, Alive, At
  <1>11. ASSUME Launch PROVE OnceOff'
    <2>1. at \in Task /\ at \in added /\ at \notin due
      BY <1>11 DEF Launch, TypeOK, Known, NotTwice, At
    <2>2. pc' # "marked" /\ due' = due
      BY <1>11 DEF Launch, GoOn
    <2>3. \A w \in Thread : stage'[w] = "recording" => stage[w] = "recording" /\ job'[w] = job[w]
      BY <1>11 DEF Launch, StartThread, TypeOK
    <2>4. at \in enabled /\ Kind[at] = "once" => status[at] = "running"
      BY <1>11 DEF Launch, OnceOff, At
    <2>5. started' \in {started, started \cup {at}} /\ (at \in started' \ started => Kind[at] = "once")
      BY <1>11 DEF Launch
    <2> QED BY <1>11, <2>1, <2>2, <2>3, <2>4, <2>5 DEF Launch, TypeOK, OnceOff, At
  <1>12. ASSUME TickRaises PROVE OnceOff'
    BY <1>12 DEF TickRaises, Fault, GoOn, TypeOK, Known, OnceOff, Alive, At
  <1>13. ASSUME NEW t \in Task, ForceFind(t) PROVE OnceOff'
    BY <1>13 DEF ForceFind, TypeOK, Known, OnceOff, Alive, At
  <1>14. ASSUME ForceMark PROVE OnceOff'
    BY <1>14 DEF ForceMark, TypeOK, Known, OnceOff, Alive, At
  <1>15. ASSUME ForceLaunch PROVE OnceOff'
    BY <1>15 DEF ForceLaunch, StartThread, TypeOK, Known, OnceOff, Alive, At
  <1>16. ASSUME ForceRaises PROVE OnceOff'
    BY <1>16 DEF ForceRaises, Fault, TypeOK, Known, OnceOff, Alive, At
  <1>17. ASSUME NEW w \in Thread, Finish(w) PROVE OnceOff'
    BY <1>17 DEF Finish, TypeOK, Known, OnceOff, Alive, At
  <1>18. ASSUME NEW w \in Thread, CancelOnce(w) PROVE OnceOff'
    BY <1>18 DEF CancelOnce, TypeOK, Known, OnceOff, Alive, At
  <1>19. ASSUME NEW w \in Thread, Record(w) PROVE OnceOff'
    BY <1>19 DEF Record, TypeOK, Known, OnceOff, Alive, At
  <1>20. ASSUME NEW w \in Thread, Notified(w) PROVE OnceOff'
    BY <1>20 DEF Notified, Gone, TypeOK, Known, OnceOff, Alive, At
  <1>21. ASSUME NEW w \in Thread, WorkerRaises(w) PROVE OnceOff'
    BY <1>21 DEF WorkerRaises, Gone, Fault, TypeOK, Known, OnceOff, Alive, At
  <1>22. ASSUME PassTime PROVE OnceOff'
    BY <1>22 DEF PassTime, TypeOK, Known, OnceOff, Alive, At
  <1>23. ASSUME UNCHANGED vars PROVE OnceOff'
    BY <1>23 DEF TypeOK, Known, OnceOff, Alive, At
  <1> QED
    BY <1>1, <1>2, <1>3, <1>4, <1>5, <1>6, <1>7, <1>8, <1>9, <1>10, <1>11, <1>12,
       <1>13, <1>14, <1>15, <1>16, <1>17, <1>18, <1>19, <1>20, <1>21, <1>22, <1>23
       DEF Next, CommandLine, Loop, RunOnce, Worker

(* The gap after a run is kept until it is over.                           *)
LEMMA GapStep ==
    ASSUME TypeOK, Known, NotTwice, Claimed, Gapped, [Next]_vars
    PROVE  Gapped'
  <1> USE DEF vars, rowVars, loopVars, forceVars, threadVars, histVars, countVars
  <1>1. ASSUME NEW t \in Task, Add(t) PROVE Gapped'
    BY <1>1 DEF Add, TypeOK, Known, Gapped, Ending, Alive, At
  <1>2. ASSUME NEW t \in Task, Cancel(t) PROVE Gapped'
    BY <1>2 DEF Cancel, TypeOK, Known, Gapped, Ending, Alive, At
  <1>3. ASSUME NEW t \in Task, Delete(t) PROVE Gapped'
    BY <1>3 DEF Delete, TypeOK, Known, Gapped, Ending, Alive, At
  <1>4. ASSUME Start PROVE Gapped'
    BY <1>4 DEF Start, TypeOK, Known, Gapped, Ending, Alive, At
  <1>5. ASSUME LoopEnds PROVE Gapped'
    BY <1>5 DEF LoopEnds, TypeOK, Known, Gapped, Ending, Alive, At
  <1>6. ASSUME Exit PROVE Gapped'
    BY <1>6 DEF Exit, Fault, TypeOK, Known, Gapped, Ending, Alive, At
  <1>7. ASSUME GetDue PROVE Gapped'
    <2>1. pc' # "marked" /\ \A t \in due' : next[t] <= 0 /\ status[t] # "running"
      BY <1>7 DEF GetDue, IsDue
    <2>2. UNCHANGED <<added, next, status, stage, job, after, forced, rest>>
      BY <1>7 DEF GetDue
    <2>3. \A t \in Task \ forced : Kind[t] = "interval" /\ rest[t] > 0 => t \notin due'
      <3> SUFFICES ASSUME NEW t \in Task \ forced, Kind[t] = "interval", rest[t] > 0,
                          t \in due'
                   PROVE  FALSE
        OBVIOUS
      <3>1. next[t] >= rest[t]
        BY <2>1 DEF Gapped
      <3>2. next[t] \in Int /\ rest[t] \in Int /\ next[t] <= 0
        BY <2>1, SMT DEF TypeOK, Epoch
      <3> QED BY <3>1, <3>2, SMT
    <2> QED BY <2>1, <2>2, <2>3 DEF Gapped, At
  <1>8. ASSUME NEW t \in Task, Skip(t) PROVE Gapped'
    BY <1>8 DEF Skip, GoOn, TypeOK, Known, Gapped, Ending, Alive, At
  <1>9. ASSUME NEW t \in Task, NotMet(t) PROVE Gapped'
    BY <1>9 DEF NotMet, GoOn, Condition, TypeOK, Known, Gapped, Ending, Alive, At
  <1>10. ASSUME NEW t \in Task, Mark(t) PROVE Gapped'
    BY <1>10 DEF Mark, TypeOK, Known, Gapped, Ending, Alive, At
  <1>11. ASSUME Launch PROVE Gapped'
    <2>1. pc' # "marked" /\ due' = due
      BY <1>11 DEF Launch, GoOn
    <2>2. \A w \in Thread : stage'[w] \in Ending =>
              stage[w] \in Ending /\ job'[w] = job[w] /\ after'[w] = after[w]
      BY <1>11 DEF Launch, StartThread, Ending, TypeOK
    <2> QED BY <1>11, <2>1, <2>2 DEF Launch, Gapped, At
  <1>12. ASSUME TickRaises PROVE Gapped'
    BY <1>12 DEF TickRaises, Fault, GoOn, TypeOK, Known, Gapped, Ending, Alive, At
  <1>13. ASSUME NEW t \in Task, ForceFind(t) PROVE Gapped'
    BY <1>13 DEF ForceFind, TypeOK, Known, Gapped, Ending, Alive, At
  <1>14. ASSUME ForceMark PROVE Gapped'
    BY <1>14 DEF ForceMark, TypeOK, Known, Gapped, Ending, Alive, At
  <1>15. ASSUME ForceLaunch PROVE Gapped'
    BY <1>15 DEF ForceLaunch, StartThread, TypeOK, Known, Gapped, Ending, Alive, At
  <1>16. ASSUME ForceRaises PROVE Gapped'
    BY <1>16 DEF ForceRaises, Fault, TypeOK, Known, Gapped, Ending, Alive, At
  <1>17. ASSUME NEW w \in Thread, Finish(w) PROVE Gapped'
    <2> SUFFICES ASSUME NEW t \in Task \ forced', Kind[t] = "interval"
                 PROVE  /\ rest'[t] > 0 => t \in added' /\ t \notin due' /\ ~At(t)'
                        /\ \A v \in Thread : stage'[v] \in Ending /\ job'[v] = t
                                          => after'[v] >= rest'[t]
                        /\ rest'[t] > 0 => next'[t] >= rest'[t] \/ status'[t] = "running"
      BY DEF Gapped
    <2>1. t \in Task \ forced /\ w \in Executing
      BY <1>17 DEF Finish, Executing
    <2>2. UNCHANGED <<added, due, pc, at, next, status, job>>
      BY <1>17 DEF Finish
    <2>3. CASE job[w] = t
      <3>1. status[t] = "running" /\ t \notin due /\ ~At(t) /\ t \in added
        BY <2>1, <2>3 DEF Claimed, Runs, Known, Executing, Alive
      <3>2. \A v \in Thread : stage[v] \in Ending /\ job[v] = t => v = w
        BY <2>1, <2>3 DEF Claimed, Executing, Ending
      <3>3. \A v \in Thread : v # w => stage'[v] = stage[v]
        BY <1>17 DEF Finish, TypeOK
      <3>4. after'[w] = Gap[t] /\ rest'[t] = Gap[t] /\ Gap[t] \in Nat
        BY <1>17, <2>3, Triggers DEF Finish, ComputesNext, TypeOK
      <3> QED BY <2>2, <3>1, <3>2, <3>3, <3>4, SMT DEF At
    <2>4. CASE job[w] # t
      <3>1. rest'[t] = rest[t]
        BY <1>17, <2>4 DEF Finish, TypeOK
      <3>2. \A v \in Thread : v # w => stage'[v] = stage[v] /\ after'[v] = after[v]
        BY <1>17 DEF Finish, TypeOK
      <3> QED BY <2>1, <2>2, <2>4, <3>1, <3>2 DEF Gapped, At
    <2> QED BY <2>3, <2>4
  <1>18. ASSUME NEW w \in Thread, CancelOnce(w) PROVE Gapped'
    <2>1. \A v \in Thread : stage'[v] \in Ending => stage[v] \in Ending
      BY <1>18 DEF CancelOnce, Ending, TypeOK
    <2> QED BY <1>18, <2>1 DEF CancelOnce, Gapped, At
  <1>19. ASSUME NEW w \in Thread, Record(w) PROVE Gapped'
    <2> SUFFICES ASSUME NEW t \in Task \ forced', Kind[t] = "interval"
                 PROVE  /\ rest'[t] > 0 => t \in added' /\ t \notin due' /\ ~At(t)'
                        /\ \A v \in Thread : stage'[v] \in Ending /\ job'[v] = t
                                          => after'[v] >= rest'[t]
                        /\ rest'[t] > 0 => next'[t] >= rest'[t] \/ status'[t] = "running"
      BY DEF Gapped
    <2>1. t \in Task \ forced /\ UNCHANGED <<added, due, pc, at, job, rest>>
      BY <1>19 DEF Record
    <2>2. \A v \in Thread : stage'[v] \in Ending =>
              stage[v] \in Ending /\ after'[v] = after[v]
      BY <1>19 DEF Record, Ending, TypeOK
    <2>3. next'[t] >= rest[t] \/ (next'[t] = next[t] /\ status'[t] = status[t])
      <3>1. CASE job[w] = t
        BY <1>19, <2>1, <3>1 DEF Record, Ending, Gapped, TypeOK
      <3>2. CASE job[w] # t
        BY <1>19, <3>2 DEF Record, TypeOK
      <3> QED BY <3>1, <3>2
    <2> QED BY <2>1, <2>2, <2>3 DEF Gapped, At
  <1>20. ASSUME NEW w \in Thread, Notified(w) PROVE Gapped'
    BY <1>20 DEF Notified, Gone, TypeOK, Known, Gapped, Ending, Alive, At
  <1>21. ASSUME NEW w \in Thread, WorkerRaises(w) PROVE Gapped'
    BY <1>21 DEF WorkerRaises, Gone, Fault, TypeOK, Known, Gapped, Ending, Alive, At
  <1>22. ASSUME PassTime PROVE Gapped'
    <2>1. \A m, n \in Nat \cup {Epoch} : m >= n => Down(m) >= Down(n)
      BY SMT DEF Down, Epoch
    <2>2. \A n \in Nat : Down(n) > 0 => n > 0
      BY SMT DEF Down
    <2>3. /\ \A t \in Task : next'[t] = Down(next[t]) /\ rest'[t] = Down(rest[t])
          /\ \A w \in Thread : after'[w] = Down(after[w])
          /\ UNCHANGED <<forced, added, due, pc, at, stage, job, status>>
      BY <1>22 DEF PassTime
    <2> SUFFICES ASSUME NEW t \in Task \ forced, Kind[t] = "interval"
                 PROVE  /\ rest'[t] > 0 => t \in added /\ t \notin due /\ ~At(t)
                        /\ \A v \in Thread : stage[v] \in Ending /\ job[v] = t
                                          => after'[v] >= rest'[t]
                        /\ rest'[t] > 0 => next'[t] >= rest'[t] \/ status[t] = "running"
      BY <2>3 DEF Gapped, At
    <2>4. rest[t] \in Nat /\ next[t] \in Nat \cup {Epoch}
      BY DEF TypeOK
    <2>5. rest'[t] > 0 => rest[t] > 0
      BY <2>2, <2>3, <2>4
    <2>6. \A v \in Thread : after[v] >= rest[t] => after'[v] >= rest'[t]
      <3>1. \A v \in Thread : after[v] \in Nat \cup {Epoch}
        BY DEF TypeOK
      <3>2. \A v \in Thread : after[v] >= rest[t] => Down(after[v]) >= Down(rest[t])
        BY <2>1, <2>4, <3>1
      <3> QED BY <2>3, <3>2
    <2>7. next[t] >= rest[t] => next'[t] >= rest'[t]
      BY <2>1, <2>3, <2>4
    <2> QED BY <2>5, <2>6, <2>7 DEF Gapped
  <1>23. ASSUME UNCHANGED vars PROVE Gapped'
    BY <1>23 DEF TypeOK, Known, Gapped, Ending, Alive, At
  <1> QED
    BY <1>1, <1>2, <1>3, <1>4, <1>5, <1>6, <1>7, <1>8, <1>9, <1>10, <1>11, <1>12,
       <1>13, <1>14, <1>15, <1>16, <1>17, <1>18, <1>19, <1>20, <1>21, <1>22, <1>23
       DEF Next, CommandLine, Loop, RunOnce, Worker

-----------------------------------------------------------------------------
(* The pool: only Launch adds a run, and it follows a count that other     *)
(* steps can but lower.                                                    *)
LEMMA Counting == \A S, T : IsFiniteSet(T) /\ S \subseteq T =>
    /\ IsFiniteSet(S)
    /\ Cardinality(S) \in Nat /\ Cardinality(T) \in Nat
    /\ Cardinality(S) <= Cardinality(T)
  BY FS_Subset, FS_CardinalityType

(* The sets of threads are finite.                                         *)
LEMMA PoolFinite == \A S \in SUBSET Thread : IsFiniteSet(S) /\ Cardinality(S) \in Nat
  BY Sizes, FS_Subset, FS_CardinalityType

(* A step after which nothing is forced, no run is new and every active    *)
(* thread was active.                                                      *)
LEMMA PoolShrinks ==
    ASSUME TypeOK, Pooled,
           forced' = {} => forced = {} /\ Executing' \subseteq Executing
                           /\ Active' \subseteq Active
                           /\ Executing' \subseteq Active',
           pc' = "marked" => pc = "marked"
    PROVE  Pooled'
  <1> SUFFICES ASSUME forced' = {} PROVE
        /\ Executing' \subseteq Active'
        /\ pc' = "marked" => Cardinality(Active') < MaxWorkers
        /\ Cardinality(Executing') <= MaxWorkers
    BY DEF Pooled
  <1>1. Active \subseteq Thread /\ Executing \subseteq Thread
    BY DEF Active, Alive, Executing
  <1>2. IsFiniteSet(Active) /\ IsFiniteSet(Executing)
    BY <1>1, PoolFinite
  <1>3. /\ Cardinality(Active') \in Nat /\ Cardinality(Active) \in Nat
        /\ Cardinality(Active') <= Cardinality(Active)
    BY <1>2, Counting
  <1>4. /\ Cardinality(Executing') \in Nat /\ Cardinality(Executing) \in Nat
        /\ Cardinality(Executing') <= Cardinality(Executing)
    BY <1>2, Counting
  <1>5. pc = "marked" => Cardinality(Active) < MaxWorkers
    BY DEF Pooled
  <1>6. Cardinality(Executing) <= MaxWorkers
    BY DEF Pooled
  <1> QED BY <1>3, <1>4, <1>5, <1>6, Sizes, SMT

(* The thread of a dispatch finds the place that the test of _tick saw.    *)
LEMMA LaunchFits ==
    ASSUME TypeOK, Known, Claimed, Pooled, Launch
    PROVE  Pooled'
  <1> USE DEF vars, rowVars, loopVars, forceVars, threadVars, histVars, countVars
  <1> SUFFICES ASSUME forced = {} PROVE
        /\ Executing' \subseteq Active'
        /\ pc' # "marked"
        /\ Cardinality(Executing') <= MaxWorkers
    BY DEF Pooled, Launch
  <1>1. at \in Task /\ ~Runs(at) /\ pc' # "marked"
    BY DEF Launch, GoOn, TypeOK, Claimed, At
  <1>2. PICK w \in Thread : StartThread(at, w)
    BY DEF Launch
  <1>3. Executing' = Executing \cup {w} /\ w \notin Executing
    BY <1>2 DEF StartThread, Executing, TypeOK
  <1>4. Executing' \subseteq Active'
    <2>1. w \in Active'
      BY <1>1, <1>2 DEF StartThread, Active, Alive, TypeOK
    <2>2. ASSUME NEW v \in Executing PROVE v \in Active'
      <3>1. v \in Active /\ v # w /\ job[v] # at /\ job[v] \in Task
        BY <1>1, <1>3 DEF Pooled, Runs, Executing, TypeOK, Alive
      <3> QED BY <3>1, <1>1, <1>2 DEF StartThread, Active, Alive, TypeOK
    <2> QED BY <2>1, <2>2, <1>3
  <1>5. Executing \subseteq Thread /\ Active \subseteq Thread /\ Executing \subseteq Active
    BY DEF Pooled, Executing, Active, Alive
  <1>6. /\ Cardinality(Executing) \in Nat /\ Cardinality(Active) \in Nat
        /\ Cardinality(Executing) <= Cardinality(Active)
    BY <1>5, PoolFinite, Counting
  <1>7. Cardinality(Executing') = Cardinality(Executing) + 1
    BY <1>3, <1>5, PoolFinite, FS_AddElement
  <1>8. Cardinality(Active) < MaxWorkers
    BY DEF Launch, Pooled
  <1> QED BY <1>1, <1>4, <1>6, <1>7, <1>8, Sizes, SMT

(* A task is marked only when there is a place.                            *)
LEMMA MarkFits ==
    ASSUME TypeOK, Pooled, NEW t \in Task, Mark(t)
    PROVE  Pooled'
  <1> USE DEF vars, rowVars, loopVars, forceVars, threadVars, histVars, countVars
  <1>1. UNCHANGED <<forced, stage, job, active>>
    BY DEF Mark
  <1>2. Executing' = Executing /\ Active' = Active
    BY <1>1 DEF Executing, Active, Alive
  <1>3. ~(Cardinality(Active) >= MaxWorkers)
    BY DEF Mark, Full
  <1>4. Cardinality(Active) \in Nat
    BY PoolFinite DEF Active, Alive
  <1>5. Cardinality(Active) < MaxWorkers
    BY <1>3, <1>4, Sizes, SMT
  <1> QED BY <1>1, <1>2, <1>5 DEF Pooled
(* No step exceeds the pool.                                               *)
LEMMA PoolStep ==
    ASSUME TypeOK, Known, Claimed, Pooled, [Next]_vars
    PROVE  Pooled'
  <1> USE DEF vars, rowVars, loopVars, forceVars, threadVars, histVars, countVars
  <1>1. ASSUME NEW t \in Task, Add(t) PROVE Pooled'
    <2>1. UNCHANGED <<forced, stage, job, active>>
      BY <1>1 DEF Add
    <2>2. Executing' = Executing /\ Active' = Active
      BY <2>1 DEF Executing, Active, Alive
    <2>3. pc' = "marked" => pc = "marked"
      BY <1>1 DEF Add
    <2> QED BY <2>1, <2>2, <2>3, PoolShrinks DEF Pooled
  <1>2. ASSUME NEW t \in Task, Cancel(t) PROVE Pooled'
    <2>1. UNCHANGED <<forced, stage, job, active>>
      BY <1>2 DEF Cancel
    <2>2. Executing' = Executing /\ Active' = Active
      BY <2>1 DEF Executing, Active, Alive
    <2>3. pc' = "marked" => pc = "marked"
      BY <1>2 DEF Cancel
    <2> QED BY <2>1, <2>2, <2>3, PoolShrinks DEF Pooled
  <1>3. ASSUME NEW t \in Task, Delete(t) PROVE Pooled'
    <2>1. UNCHANGED <<forced, stage, job, active>>
      BY <1>3 DEF Delete
    <2>2. Executing' = Executing /\ Active' = Active
      BY <2>1 DEF Executing, Active, Alive
    <2>3. pc' = "marked" => pc = "marked"
      BY <1>3 DEF Delete
    <2> QED BY <2>1, <2>2, <2>3, PoolShrinks DEF Pooled
  <1>4. ASSUME Start PROVE Pooled'
    <2>1. UNCHANGED <<forced, stage, job, active>>
      BY <1>4 DEF Start
    <2>2. Executing' = Executing /\ Active' = Active
      BY <2>1 DEF Executing, Active, Alive
    <2>3. pc' = "marked" => pc = "marked"
      BY <1>4 DEF Start
    <2> QED BY <2>1, <2>2, <2>3, PoolShrinks DEF Pooled
  <1>5. ASSUME LoopEnds PROVE Pooled'
    <2>1. UNCHANGED <<forced, stage, job, active>>
      BY <1>5 DEF LoopEnds
    <2>2. Executing' = Executing /\ Active' = Active
      BY <2>1 DEF Executing, Active, Alive
    <2>3. pc' = "marked" => pc = "marked"
      BY <1>5 DEF LoopEnds
    <2> QED BY <2>1, <2>2, <2>3, PoolShrinks DEF Pooled
  <1>6. ASSUME Exit PROVE Pooled'
    <2>1. Executing' = {} /\ Active' = {} /\ pc' # "marked" /\ forced' = forced
      BY <1>6 DEF Exit, Executing, Active, Alive, TypeOK
    <2> QED BY <2>1, PoolShrinks
  <1>7. ASSUME GetDue PROVE Pooled'
    <2>1. UNCHANGED <<forced, stage, job, active>>
      BY <1>7 DEF GetDue, IsDue
    <2>2. Executing' = Executing /\ Active' = Active
      BY <2>1 DEF Executing, Active, Alive
    <2>3. pc' = "marked" => pc = "marked"
      BY <1>7 DEF GetDue, IsDue
    <2> QED BY <2>1, <2>2, <2>3, PoolShrinks DEF Pooled
  <1>8. ASSUME NEW t \in Task, Skip(t) PROVE Pooled'
    <2>1. UNCHANGED <<forced, stage, job, active>>
      BY <1>8 DEF Skip, GoOn
    <2>2. Executing' = Executing /\ Active' = Active
      BY <2>1 DEF Executing, Active, Alive
    <2>3. pc' = "marked" => pc = "marked"
      BY <1>8 DEF Skip, GoOn
    <2> QED BY <2>1, <2>2, <2>3, PoolShrinks DEF Pooled
  <1>9. ASSUME NEW t \in Task, NotMet(t) PROVE Pooled'
    <2>1. UNCHANGED <<forced, stage, job, active>>
      BY <1>9 DEF NotMet, GoOn, Condition
    <2>2. Executing' = Executing /\ Active' = Active
      BY <2>1 DEF Executing, Active, Alive
    <2>3. pc' = "marked" => pc = "marked"
      BY <1>9 DEF NotMet, GoOn, Condition
    <2> QED BY <2>1, <2>2, <2>3, PoolShrinks DEF Pooled
  <1>10. ASSUME NEW t \in Task, Mark(t) PROVE Pooled'
    BY <1>10, MarkFits
  <1>11. ASSUME Launch PROVE Pooled'
    BY <1>11, LaunchFits
  <1>12. ASSUME TickRaises PROVE Pooled'
    <2>1. UNCHANGED <<forced, stage, job, active>>
      BY <1>12 DEF TickRaises, Fault, GoOn
    <2>2. Executing' = Executing /\ Active' = Active
      BY <2>1 DEF Executing, Active, Alive
    <2>3. pc' = "marked" => pc = "marked"
      BY <1>12 DEF TickRaises, Fault, GoOn
    <2> QED BY <2>1, <2>2, <2>3, PoolShrinks DEF Pooled
  <1>13. ASSUME NEW t \in Task, ForceFind(t) PROVE Pooled'
    <2>1. forced' # {}
      BY <1>13 DEF ForceFind
    <2> QED BY <2>1 DEF Pooled
  <1>14. ASSUME ForceMark PROVE Pooled'
    <2>1. UNCHANGED <<forced, stage, job, active>>
      BY <1>14 DEF ForceMark
    <2>2. Executing' = Executing /\ Active' = Active
      BY <2>1 DEF Executing, Active, Alive
    <2>3. pc' = "marked" => pc = "marked"
      BY <1>14 DEF ForceMark
    <2> QED BY <2>1, <2>2, <2>3, PoolShrinks DEF Pooled
  <1>15. ASSUME ForceLaunch PROVE Pooled'
    <2>1. forced' # {}
      BY <1>15 DEF ForceLaunch, Known
    <2> QED BY <2>1 DEF Pooled
  <1>16. ASSUME ForceRaises PROVE Pooled'
    <2>1. UNCHANGED <<forced, stage, job, active>>
      BY <1>16 DEF ForceRaises, Fault
    <2>2. Executing' = Executing /\ Active' = Active
      BY <2>1 DEF Executing, Active, Alive
    <2>3. pc' = "marked" => pc = "marked"
      BY <1>16 DEF ForceRaises, Fault
    <2> QED BY <2>1, <2>2, <2>3, PoolShrinks DEF Pooled
  <1>17. ASSUME NEW w \in Thread, Finish(w) PROVE Pooled'
    <2>1. UNCHANGED <<forced, active, pc>>
      BY <1>17 DEF Finish
    <2>2. Executing' \subseteq Executing /\ Alive' \subseteq Alive
      BY <1>17 DEF Finish, Executing, Alive, TypeOK
    <2>3. \A v \in Alive' : job'[v] = job[v]
      BY <1>17 DEF Finish, Alive, TypeOK
    <2>4. Active' \subseteq Active
      BY <2>1, <2>2, <2>3 DEF Active
    <2>5. \A v \in Executing' : v \in Alive'
      BY DEF Executing, Alive
    <2>6. forced = {} => Executing' \subseteq Active'
      BY <2>1, <2>2, <2>3, <2>5 DEF Pooled, Active
    <2> QED BY <2>1, <2>2, <2>4, <2>6, PoolShrinks
  <1>18. ASSUME NEW w \in Thread, CancelOnce(w) PROVE Pooled'
    <2>1. UNCHANGED <<forced, active, pc>>
      BY <1>18 DEF CancelOnce
    <2>2. Executing' \subseteq Executing /\ Alive' \subseteq Alive
      BY <1>18 DEF CancelOnce, Executing, Alive, TypeOK
    <2>3. \A v \in Alive' : job'[v] = job[v]
      BY <1>18 DEF CancelOnce, Alive, TypeOK
    <2>4. Active' \subseteq Active
      BY <2>1, <2>2, <2>3 DEF Active
    <2>5. \A v \in Executing' : v \in Alive'
      BY DEF Executing, Alive
    <2>6. forced = {} => Executing' \subseteq Active'
      BY <2>1, <2>2, <2>3, <2>5 DEF Pooled, Active
    <2> QED BY <2>1, <2>2, <2>4, <2>6, PoolShrinks
  <1>19. ASSUME NEW w \in Thread, Record(w) PROVE Pooled'
    <2>1. UNCHANGED <<forced, active, pc>>
      BY <1>19 DEF Record
    <2>2. Executing' \subseteq Executing /\ Alive' \subseteq Alive
      BY <1>19 DEF Record, Executing, Alive, TypeOK
    <2>3. \A v \in Alive' : job'[v] = job[v]
      BY <1>19 DEF Record, Alive, TypeOK
    <2>4. Active' \subseteq Active
      BY <2>1, <2>2, <2>3 DEF Active
    <2>5. \A v \in Executing' : v \in Alive'
      BY DEF Executing, Alive
    <2>6. forced = {} => Executing' \subseteq Active'
      BY <2>1, <2>2, <2>3, <2>5 DEF Pooled, Active
    <2> QED BY <2>1, <2>2, <2>4, <2>6, PoolShrinks
  <1>20. ASSUME NEW w \in Thread, Notified(w) PROVE Pooled'
    <2>1. UNCHANGED <<forced, active, pc>>
      BY <1>20 DEF Notified, Gone
    <2>2. Executing' \subseteq Executing /\ Alive' \subseteq Alive
      BY <1>20 DEF Notified, Gone, Executing, Alive, TypeOK
    <2>3. \A v \in Alive' : job'[v] = job[v]
      BY <1>20 DEF Notified, Gone, Alive, TypeOK
    <2>4. Active' \subseteq Active
      BY <2>1, <2>2, <2>3 DEF Active
    <2>5. \A v \in Executing' : v \in Alive'
      BY DEF Executing, Alive
    <2>6. forced = {} => Executing' \subseteq Active'
      BY <2>1, <2>2, <2>3, <2>5 DEF Pooled, Active
    <2> QED BY <2>1, <2>2, <2>4, <2>6, PoolShrinks
  <1>21. ASSUME NEW w \in Thread, WorkerRaises(w) PROVE Pooled'
    <2>1. UNCHANGED <<forced, active, pc>>
      BY <1>21 DEF WorkerRaises, Gone, Fault
    <2>2. Executing' \subseteq Executing /\ Alive' \subseteq Alive
      BY <1>21 DEF WorkerRaises, Gone, Fault, Executing, Alive, TypeOK
    <2>3. \A v \in Alive' : job'[v] = job[v]
      BY <1>21 DEF WorkerRaises, Gone, Fault, Alive, TypeOK
    <2>4. Active' \subseteq Active
      BY <2>1, <2>2, <2>3 DEF Active
    <2>5. \A v \in Executing' : v \in Alive'
      BY DEF Executing, Alive
    <2>6. forced = {} => Executing' \subseteq Active'
      BY <2>1, <2>2, <2>3, <2>5 DEF Pooled, Active
    <2> QED BY <2>1, <2>2, <2>4, <2>6, PoolShrinks
  <1>22. ASSUME PassTime PROVE Pooled'
    <2>1. UNCHANGED <<forced, stage, job, active>>
      BY <1>22 DEF PassTime
    <2>2. Executing' = Executing /\ Active' = Active
      BY <2>1 DEF Executing, Active, Alive
    <2>3. pc' = "marked" => pc = "marked"
      BY <1>22 DEF PassTime
    <2> QED BY <2>1, <2>2, <2>3, PoolShrinks DEF Pooled
  <1>23. ASSUME UNCHANGED vars PROVE Pooled'
    BY <1>23 DEF Pooled, Executing, Active, Alive
  <1> QED
    BY <1>1, <1>2, <1>3, <1>4, <1>5, <1>6, <1>7, <1>8, <1>9, <1>10, <1>11, <1>12,
       <1>13, <1>14, <1>15, <1>16, <1>17, <1>18, <1>19, <1>20, <1>21, <1>22, <1>23
       DEF Next, CommandLine, Loop, RunOnce, Worker

-----------------------------------------------------------------------------
(* The invariant holds in every reachable state.                           *)
THEOREM Invariance == Spec => []IInv
<1>1. Init => IInv
  <2> SUFFICES ASSUME Init PROVE IInv
    OBVIOUS
  <2>1. TypeOK
    BY Triggers, SMT DEF Init, TypeOK, Alive, Epoch
  <2>2. Executing = {} /\ Active = {}
    BY DEF Init, Executing, Active, Alive
  <2>3. Pooled
    BY <2>2, FS_EmptySet, Sizes, SMT DEF Init, Pooled
  <2>4. Known /\ NotTwice /\ OnceOff
    BY DEF Init, Known, NotTwice, OnceOff, Alive, At
  <2>5. Claimed /\ LateOnce
    BY <2>2, SMT DEF Init, Claimed, LateOnce, Runs, At
  <2>6. Gapped
    BY SMT DEF Init, Gapped, Ending
  <2> QED BY <2>1, <2>3, <2>4, <2>5, <2>6 DEF IInv
<1>2. IInv /\ [Next]_vars => IInv'
  BY TypeStep, KnownStep, NotTwiceStep, ClaimedStep, PoolStep, LateStep, OnceStep,
     GapStep
     DEF IInv
<1> QED BY <1>1, <1>2, PTL DEF Spec

(* Every reachable state is well formed.                                   *)
THEOREM TypeCorrect == Spec => []TypeOK
<1>1. IInv => TypeOK
  BY DEF IInv
<1> QED BY <1>1, Invariance, PTL

(* The status of a row is a lock on its task, for any number of tasks and  *)
(* threads, through crashes, errors and cancellations: get_due, _dispatch. *)
THEOREM Exclusion == Spec => []NoOverlap
<1>1. IInv => NoOverlap
  <2> SUFFICES ASSUME IInv, NEW v \in Executing, NEW w \in Executing,
                      job[v] = job[w], job[v] \notin forced
               PROVE  v = w
    BY DEF NoOverlap
  <2>1. job[v] \in Task \ forced
    BY DEF IInv, TypeOK, Executing, Alive
  <2> QED BY <2>1 DEF IInv, Claimed
<1> QED BY <1>1, Invariance, PTL

(* The count of _tick bounds the runs, although it is taken before the     *)
(* thread exists and forgets a thread that still notifies.                 *)
THEOREM PoolBounded == Spec => []WithinWorkers
<1>1. IInv => WithinWorkers
  BY DEF IInv, Pooled, WithinWorkers
<1> QED BY <1>1, Invariance, PTL

(* One stale snapshot is all that a cancelled task can still be in.        *)
THEOREM Cancelling == Spec => []CancelHolds
<1>1. IInv => CancelHolds
  BY DEF IInv, LateOnce, CancelHolds
<1> QED BY <1>1, Invariance, PTL

(* The loop starts a one-shot task once, in any number of process lives.   *)
THEOREM OneShot == Spec => OnceOnly
<1>1. IInv => (\A t \in Task : Starts(t) => t \notin started)
  BY DEF IInv, OnceOff, Starts, At
<1>2. IInv /\ [Next]_vars => [\A t \in Task : Starts(t) => t \notin started]_vars
  BY <1>1
<1> QED BY <1>2, Invariance, PTL DEF Spec, OnceOnly

(* However late a tick is and however its snapshot is used, the loop       *)
(* starts an interval task only when the gap after its last run is over.   *)
THEOREM Spacing == Spec => Spaced
<1>1. IInv => (\A t \in Task :
        Starts(t) /\ Kind[t] = "interval" /\ t \notin forced => rest[t] = 0)
  BY DEF IInv, TypeOK, Gapped, Starts, At
<1>2. IInv /\ [Next]_vars => [\A t \in Task :
        Starts(t) /\ Kind[t] = "interval" /\ t \notin forced => rest[t] = 0]_vars
  BY <1>1
<1> QED BY <1>2, Invariance, PTL DEF Spec, Spaced
=============================================================================
