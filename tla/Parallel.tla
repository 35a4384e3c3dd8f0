------------------------------- MODULE Parallel -------------------------------
(***************************************************************************)
(* A batch of parallel sub-agents: _run_parallel_core of                   *)
(* rlm/core/engine/sub_rlm.py, with the heuristics of _sub_rlm_helpers.py  *)
(* and the part of the serial sub_rlm() that writes the task ledger.       *)
(*                                                                         *)
(* Each task is a branch, run once in phase 1 and, under switch_strategy,  *)
(* perhaps again in phase 2: a run is a branch and a phase, and stands for *)
(* the pool's thread and for the cancel event made for it.  A branch that  *)
(* succeeds registers under winner_lock, and publishes on the sibling bus  *)
(* while it holds it; the bus calls the batch's observer in the thread     *)
(* that publishes.  The operator, or the code of a child, publishes from a *)
(* thread of its own.  A run goes on after the batch gave it up.           *)
(*                                                                         *)
(* Left out: prompts, artifacts, telemetry, the ledger's row of the batch, *)
(* and the child, which ends with an answer, with "[CANCELLED" or with an  *)
(* exception.                                                              *)
(***************************************************************************)
EXTENDS Integers, FiniteSets

CONSTANTS
    N,           \* the number of tasks
    Workers,     \* the threads of a pool
    Strategies,  \* pairs of a coordination policy and a stop condition's mode
    Says,        \* the text of each branch's answer
    MaxFaults,   \* bound: signals from outside the batch, waits that run out,
                 \* and channels that the bus refuses
    Outside,     \* the publisher outside the batch
    None

Branch == 0 .. N - 1
Run == Branch \X {1, 2}

Policies == {"stop_on_solution", "consensus_reached", "switch_strategy", "other"}

\* _infer_stop_condition_mode: the policy goes before the words of the
\* condition, which may ask for any mode.
Modes(p) ==
    CASE p = "switch_strategy" -> {"stagnation"}
      [] p = "consensus_reached" -> {"stagnation", "convergence"}
      [] OTHER -> {"stagnation", "convergence", "first_success"}

ASSUME Sizes == N \in Nat \ {0} /\ Workers \in Nat \ {0} /\ MaxFaults \in Nat
ASSUME StrategyType == Strategies \subseteq UNION {{p} \X Modes(p) : p \in Policies}
ASSUME NoneIsNothing == None \notin (0 .. N) \cup Run /\ Outside \notin Run

VARIABLES
    policy, mode,  \* what _resolve_parallel_strategy found
    main,       \* what the calling thread is doing
    row,        \* the next branch it looks at when the time is over
    stage,      \* what each run is doing
    got,        \* what its child ended with, and then the status it returns
    result,     \* the status in detail_results
    set,        \* the runs whose cancel event is set
    ledger,     \* the status of each branch in the parent's task ledger
    winner,     \* winner_branch_id
    lock,       \* who holds winner_lock across steps
    consensus,  \* consensus_signal_published
    observing,  \* the observer is on the bus
    at, noting, \* how far each publisher is in _apply_stop_signal
    outside,    \* what the publisher outside the batch is doing
    spared,     \* the branch that its signal does not stop
    parentOff,  \* the parent's token is cancelled
    given,      \* what the call returned
    signals, faults  \* how many signals from outside, and other faults

strategyVars == <<policy, mode>>
mainVars == <<main, row, given>>
runVars == <<stage, got, result>>
winVars == <<winner, lock, consensus>>
stopVars == <<set, ledger, at, noting>>
outVars == <<outside, spared, parentOff>>
faultVars == <<signals, faults>>
vars == <<strategyVars, mainVars, runVars, winVars, stopVars, observing,
          outVars, faultVars>>

Status == {"completed", "cancelled", "blocked"}
Publisher == Run \cup {Outside}

TypeOK ==
    /\ <<policy, mode>> \in Strategies
    /\ main \in {"collect", "expiring", "shut", "replan", "collect2", "final",
                 "done", "raised"}
    /\ row \in 0 .. N
    /\ stage \in [Run -> {"none", "queued", "running", "returned", "waiting",
                          "telling", "stopping", "done", "collected", "dropped"}]
    /\ got \in [Run -> Status \cup {"none", "answer", "stopped", "error"}]
    /\ result \in [Branch -> Status \cup {"none"}]
    /\ set \subseteq Run
    /\ ledger \in [Branch -> Status \cup {"in-progress"}]
    /\ winner \in Branch \cup {None}
    /\ lock \in Run \cup {None}
    /\ consensus \in BOOLEAN
    /\ observing \in BOOLEAN
    /\ at \in [Publisher -> 0 .. N]
    /\ noting \in [Publisher -> BOOLEAN]
    /\ outside \in {"idle", "focus", "stopping"}
    /\ spared \in Branch \cup {None}
    /\ parentOff \in BOOLEAN
    /\ given \in [Branch -> Status \cup {"none"}]
    /\ signals \in Nat
    /\ faults \in Nat

Init ==
    /\ \E s \in Strategies : policy = s[1] /\ mode = s[2]
    /\ main = "collect"
    /\ row = 0
    /\ stage = [w \in Run |-> IF w[2] = 1 THEN "queued" ELSE "none"]
    /\ got = [w \in Run |-> "none"]
    /\ result = [b \in Branch |-> "none"]
    /\ set = {}
    /\ ledger = [b \in Branch |-> "in-progress"]
    /\ winner = None
    /\ lock = None
    /\ consensus = FALSE
    /\ observing = TRUE
    /\ at = [p \in Publisher |-> 0]
    /\ noting = [p \in Publisher |-> FALSE]
    /\ outside = "idle"
    /\ spared = None
    /\ parentOff = FALSE
    /\ given = [b \in Branch |-> "none"]
    /\ signals = 0
    /\ faults = 0

-----------------------------------------------------------------------------
(* _compute_parallel_heuristics and _evaluate_stop_condition               *)

With(s) == {b \in Branch : result[b] = s}
Ok == With("completed")
Lost == With("blocked") \cup With("cancelled")
Count(S) == Cardinality(S)

\* dominant_answer_ratio >= 0.66
Dominant == \E a \in Ok : 100 * Count({b \in Ok : Says[b] = Says[a]}) >= 66 * Count(Ok)

Converged == Count(Ok) >= (IF N < 2 THEN N ELSE 2) \/ Dominant

Stalled ==
    /\ Count(Ok) <= 1
    /\ Count(Lost) >= (IF Count(Ok) < N THEN N - Count(Ok) ELSE 1)

Reached ==
    CASE mode = "stagnation" -> Stalled
      [] mode = "convergence" -> Converged
      [] mode = "first_success" -> Ok # {}

-----------------------------------------------------------------------------
(* The runs: _run_one                                                      *)

Fault == signals + faults < MaxFaults /\ faults' = faults + 1 /\ UNCHANGED signals

Goto(w, from, to) == stage[w] = from /\ stage' = [stage EXCEPT ![w] = to]

\* The event that cancel_events has for the branch now.
Current(b) == IF stage[<<b, 2>>] = "none" THEN <<b, 1>> ELSE <<b, 2>>

Busy(p) == {w \in Run : w[2] = p /\ stage[w] \in
                {"running", "returned", "waiting", "telling", "stopping"}}

\* A thread of the pool takes the run and starts the child; a cancelled
\* parent's token sets the event at once.
Start(w) ==
    /\ Goto(w, "queued", "running")
    /\ Count(Busy(w[2])) < Workers
    /\ set' = IF parentOff THEN set \cup {w} ELSE set
    /\ UNCHANGED <<strategyVars, mainVars, got, result, winVars, ledger, at,
                   noting, observing, outVars, faultVars>>

\* The child ends, with "[CANCELLED" only when its event is set.  The serial
\* sub_rlm() takes that for an answer, and tells the ledger so.
ChildEnds(w, e) ==
    /\ Goto(w, "running", "returned")
    /\ e \in {"answer", "error"} \/ (e = "stopped" /\ w \in set)
    /\ got' = [got EXCEPT ![w] = e]
    /\ ledger' = [ledger EXCEPT ![w[1]] =
                    IF e = "error" THEN "blocked" ELSE "completed"]
    /\ UNCHANGED <<strategyVars, mainVars, result, winVars, set, at, noting,
                   observing, outVars, faultVars>>

\* What an exception makes of a run: the event is looked up by branch, and may
\* be that of a later run.
Failure(w) == IF Current(w[1]) \in set THEN "cancelled" ELSE "blocked"

\* The status of what the child ended with.
Outcome(w) ==
    CASE got[w] = "answer" -> "completed"
      [] got[w] = "stopped" -> "cancelled"
      [] got[w] = "error" -> Failure(w)

\* detail_results gets the result before winner_lock is asked for.
Store(w) ==
    /\ Goto(w, "returned", IF Outcome(w) = "completed" THEN "waiting" ELSE "done")
    /\ got' = [got EXCEPT ![w] = Outcome(w)]
    /\ result' = [result EXCEPT ![w[1]] = Outcome(w)]
    /\ UNCHANGED <<strategyVars, mainVars, winVars, stopVars, observing,
                   outVars, faultVars>>

\* As Winner below, the last success instead of the first.
Winner_Last(b) == winner' = b

Winner(b) == winner' = IF winner = None THEN b ELSE winner

\* A success that meets the stop condition is told to the others: by the
\* winner, or by the first one that sees the consensus.
Tells(w) ==
    /\ Reached
    /\ \/ policy = "stop_on_solution" /\ winner' = w[1]
       \/ policy = "consensus_reached" /\ ~consensus

\* _register_success, up to the signal that it may have to publish.
Register(w) ==
    /\ lock = None
    /\ Winner(w[1])
    /\ Goto(w, "waiting", IF Tells(w) THEN "telling" ELSE "done")
    /\ lock' = IF Tells(w) THEN w ELSE None
    /\ consensus' = (consensus \/ (Tells(w) /\ policy = "consensus_reached"))
    /\ UNCHANGED <<strategyVars, mainVars, got, result, stopVars, observing,
                   outVars, faultVars>>

\* The branches from i on that a signal of b stops begin with this one.
NextStop(i, b) == IF i = b THEN i + 1 ELSE i

\* publish_control(): the observers are those on the bus now.
Tell(w) ==
    /\ stage[w] = "telling"
    /\ IF observing
         THEN /\ Goto(w, "telling", "stopping")
              /\ at' = [at EXCEPT ![w] = NextStop(0, w[1])]
              /\ UNCHANGED lock
         ELSE /\ Goto(w, "telling", "done")
              /\ lock' = None
              /\ UNCHANGED at
    /\ UNCHANGED <<strategyVars, mainVars, got, result, winner, consensus, set,
                   ledger, noting, observing, outVars, faultVars>>

\* A bus without room for the channel raises, and the success is a failure.
TellRaises(w) ==
    /\ Goto(w, "telling", "done")
    /\ got' = [got EXCEPT ![w] = Failure(w)]
    /\ result' = [result EXCEPT ![w[1]] = Failure(w)]
    /\ lock' = None
    /\ Fault
    /\ UNCHANGED <<strategyVars, mainVars, winner, consensus, stopVars,
                   observing, outVars>>

\* _apply_stop_signal: for each branch but b the event, then the ledger.
StopNext(p, b) ==
    /\ at[p] < N
    /\ IF noting[p]
         THEN /\ ledger' = [ledger EXCEPT ![at[p]] = "cancelled"]
              /\ at' = [at EXCEPT ![p] = NextStop(@ + 1, b)]
              /\ UNCHANGED set
         ELSE /\ set' = set \cup {Current(at[p])}
              /\ UNCHANGED <<ledger, at>>
    /\ noting' = [noting EXCEPT ![p] = ~@]

Stop(w) ==
    /\ stage[w] = "stopping"
    /\ StopNext(w, w[1])
    /\ UNCHANGED <<strategyVars, mainVars, runVars, winVars, observing, outVars,
                   faultVars>>

\* As Told below, with the lock not given back.
Told_KeepsLock(w) ==
    /\ at[w] = N
    /\ Goto(w, "stopping", "done")
    /\ UNCHANGED <<strategyVars, mainVars, got, result, winVars, stopVars,
                   observing, outVars, faultVars>>

Told(w) ==
    /\ at[w] = N
    /\ Goto(w, "stopping", "done")
    /\ lock' = None
    /\ UNCHANGED <<strategyVars, mainVars, got, result, winner, consensus,
                   stopVars, observing, outVars, faultVars>>

-----------------------------------------------------------------------------
(* Signals from outside: the operator, the code of a child, and the parent *)

FromOutside ==
    /\ outside = "idle"
    /\ signals + faults < MaxFaults
    /\ signals' = signals + 1
    /\ UNCHANGED faults

\* switch_strategy with a branch to focus on: the observer takes winner_lock.
Focus(b) ==
    /\ FromOutside
    /\ observing
    /\ outside' = "focus"
    /\ spared' = b
    /\ UNCHANGED <<strategyVars, mainVars, runVars, winVars, stopVars,
                   observing, parentOff>>

Focused ==
    /\ outside = "focus"
    /\ lock = None
    /\ winner' = spared
    /\ outside' = "stopping"
    /\ at' = [at EXCEPT ![Outside] = NextStop(0, spared)]
    /\ UNCHANGED <<strategyVars, mainVars, runVars, lock, consensus, set,
                   ledger, noting, observing, spared, parentOff, faultVars>>

\* stop, with or without a sender that is one of the branches.
StopSignal(b) ==
    /\ FromOutside
    /\ observing
    /\ outside' = "stopping"
    /\ spared' = b
    /\ at' = [at EXCEPT ![Outside] = NextStop(0, b)]
    /\ UNCHANGED <<strategyVars, mainVars, runVars, winVars, set, ledger,
                   noting, observing, parentOff>>

StopOutside ==
    /\ outside = "stopping"
    /\ IF at[Outside] < N
         THEN StopNext(Outside, spared) /\ UNCHANGED outside
         ELSE outside' = "idle" /\ UNCHANGED stopVars
    /\ UNCHANGED <<strategyVars, mainVars, runVars, winVars, observing, spared,
                   parentOff, faultVars>>

\* The parent's token fires: the event of every child that was started is set.
ParentCancels ==
    /\ ~parentOff
    /\ FromOutside
    /\ parentOff' = TRUE
    /\ set' = set \cup {w \in Run : stage[w] \notin {"none", "queued", "dropped"}}
    /\ UNCHANGED <<strategyVars, mainVars, runVars, winVars, ledger, at, noting,
                   observing, outside, spared>>

-----------------------------------------------------------------------------
(* The calling thread                                                      *)

Ended(w) == stage[w] \in {"done", "collected"}

\* as_completed has yielded every run of phase 1,
Collected ==
    /\ main = "collect"
    /\ \A b \in Branch : Ended(<<b, 1>>)
    /\ main' = "shut"
    /\ UNCHANGED <<strategyVars, row, given, runVars, winVars, stopVars,
                   observing, outVars, faultVars>>

\* or the total time is over.
Expires ==
    /\ main = "collect"
    /\ main' = "expiring"
    /\ Fault
    /\ UNCHANGED <<strategyVars, row, given, runVars, winVars, stopVars,
                   observing, outVars>>

\* As ExpireNext below, passing over the runs that were not started.
ExpireNext_Started ==
    /\ main = "expiring"
    /\ main' = IF row = N - 1 THEN "shut" ELSE main
    /\ row' = row + 1
    /\ IF Ended(<<row, 1>>) \/ stage[<<row, 1>>] = "queued"
         THEN UNCHANGED <<stage, result, ledger>>
         ELSE /\ result' = [result EXCEPT ![row] = "blocked"]
              /\ ledger' = [ledger EXCEPT ![row] = "blocked"]
              /\ UNCHANGED stage
    /\ UNCHANGED <<strategyVars, given, got, winVars, set, at, noting,
                   observing, outVars, faultVars>>

\* A run that has not ended is reported as blocked, and called off if no
\* thread has taken it; one that a thread has goes on.
ExpireNext ==
    /\ main = "expiring"
    /\ main' = IF row = N - 1 THEN "shut" ELSE main
    /\ row' = row + 1
    /\ IF Ended(<<row, 1>>)
         THEN UNCHANGED <<stage, result, ledger>>
         ELSE /\ result' = [result EXCEPT ![row] = "blocked"]
              /\ ledger' = [ledger EXCEPT ![row] = "blocked"]
              /\ stage' = IF stage[<<row, 1>>] = "queued"
                            THEN [stage EXCEPT ![<<row, 1>>] = "dropped"] ELSE stage
    /\ UNCHANGED <<strategyVars, given, got, winVars, set, at, noting,
                   observing, outVars, faultVars>>

\* The finally of phase 1.
Shut ==
    /\ main = "shut"
    /\ main' = "replan"
    /\ observing' = FALSE
    /\ stage' = [w \in Run |-> IF stage[w] = "queued" THEN "dropped" ELSE stage[w]]
    /\ UNCHANGED <<strategyVars, row, given, got, result, winVars, stopVars,
                   outVars, faultVars>>

\* As Targets below, with the branches that have answered.
Targets_All == Branch \ {winner}

Targets == {b \in Branch : b # winner /\ result[b] # "completed"}

Replans == policy = "switch_strategy" /\ Reached /\ Targets # {}

\* Phase 2: the targets get a new event and run again.  Nobody observes the
\* signal any more that is published before.
Replan ==
    /\ main = "replan"
    /\ IF Replans
         THEN /\ main' = "collect2"
              /\ stage' = [w \in Run |-> IF w[2] = 2 /\ w[1] \in Targets
                                           THEN "queued" ELSE stage[w]]
              /\ ledger' = [b \in Branch |-> IF b \in Targets
                                               THEN "in-progress" ELSE ledger[b]]
         ELSE main' = "final" /\ UNCHANGED <<stage, ledger>>
    /\ UNCHANGED <<strategyVars, row, given, got, result, winVars, set, at,
                   noting, observing, outVars, faultVars>>

\* The bus has no room, and the call raises.
ReplanRaises ==
    /\ main = "replan"
    /\ Replans
    /\ main' = "raised"
    /\ Fault
    /\ UNCHANGED <<strategyVars, row, given, runVars, winVars, stopVars,
                   observing, outVars>>

\* as_completed yields a run of phase 2; a success is registered once more.
CollectNext(b) ==
    LET w == <<b, 2>> IN
    /\ main = "collect2"
    /\ Goto(w, "done", "collected")
    /\ result' = [result EXCEPT ![b] = got[w]]
    /\ IF got[w] = "completed" THEN lock = None /\ Winner(b) ELSE UNCHANGED winner
    /\ UNCHANGED <<strategyVars, mainVars, got, lock, consensus, stopVars,
                   observing, outVars, faultVars>>

Collected2 ==
    /\ main = "collect2"
    /\ \A b \in Branch : stage[<<b, 2>>] \in {"none", "collected"}
    /\ main' = "final"
    /\ UNCHANGED <<strategyVars, row, given, runVars, winVars, stopVars,
                   observing, outVars, faultVars>>

\* The time of phase 2 is over: nobody catches the exception.
Expires2 ==
    /\ main = "collect2"
    /\ \E b \in Branch : stage[<<b, 2>>] \notin {"none", "done", "collected"}
    /\ main' = "raised"
    /\ stage' = [w \in Run |-> IF stage[w] = "queued" THEN "dropped" ELSE stage[w]]
    /\ Fault
    /\ UNCHANGED <<strategyVars, row, given, got, result, winVars, stopVars,
                   observing, outVars>>

Finalize ==
    /\ main = "final"
    /\ main' = "done"
    /\ given' = result
    /\ UNCHANGED <<strategyVars, row, runVars, winVars, stopVars, observing,
                   outVars, faultVars>>

-----------------------------------------------------------------------------
Progress(w) ==
    \/ \E e \in {"answer", "stopped", "error"} : ChildEnds(w, e)
    \/ Store(w) \/ Register(w)
    \/ Tell(w) \/ TellRaises(w)
    \/ Stop(w) \/ Told(w)

Caller ==
    \/ Collected \/ Expires \/ ExpireNext \/ Shut
    \/ Replan \/ ReplanRaises
    \/ \E b \in Branch : CollectNext(b)
    \/ Collected2 \/ Expires2
    \/ Finalize

OutsideStep == Focused \/ StopOutside

Next ==
    \/ \E w \in Run : Start(w) \/ Progress(w)
    \/ \E b \in Branch : Focus(b)
    \/ \E b \in Branch \cup {None} : StopSignal(b)
    \/ ParentCancels
    \/ OutsideStep
    \/ Caller

Spec == Init /\ [][Next]_vars

\* Threads go on, a child ends (sub_rlm() waits for it no longer than its
\* time-out), and the waits of the calling thread have limits.
FairSpec ==
    /\ Spec
    /\ \A w \in Run : WF_vars(Start(w) \/ Progress(w))
    /\ WF_vars(OutsideStep)
    /\ WF_vars(Caller)

-----------------------------------------------------------------------------
(* Properties                                                              *)

Undisturbed == signals = 0 /\ faults = 0

\* Every task has a result when the call returns, also when the time was over
\* or a phase was run again; and the winner that is reported is one of those
\* that answered, if any did.
ResultsTell ==
    main = "done" =>
        /\ \A b \in Branch : given[b] # "none"
        /\ Undisturbed =>
             IF winner = None THEN \A b \in Branch : given[b] # "completed"
             ELSE given[winner] = "completed"

\* The winner's signal never stops the winner, although branches succeed at
\* once.  Under stop_on_solution it stops all the others, and is over when the
\* winner's run is.  Of consensus_reached the second half is not said here: the
\* code signals at the first success under that policy too.
StopsLosersOnly ==
    (Undisturbed /\ winner # None) =>
        /\ <<winner, 1>> \notin set
        /\ (/\ policy = "stop_on_solution"
            /\ mode # "stagnation"
            /\ stage[<<winner, 1>>] = "done") =>
               \A b \in Branch \ {winner} : <<b, 1>> \in set

\* An answer is never replaced by a failure, in phase 2 neither, unless the
\* time was over or the bus refused the signal.
AnswersKept == [][\A b \in Branch :
    (result[b] = "completed" /\ faults' = 0)
        => result'[b] = "completed"]_vars

\* The call returns or raises, and every branch that asks for winner_lock gets
\* through, although the signal is published, and its observer runs, while the
\* lock is held, and although the operator's observer asks for it as well.
EverythingEnds ==
    /\ <>(main \in {"done", "raised"})
    /\ \A w \in Run : stage[w] = "waiting" ~> stage[w] \in {"done", "collected"}
=============================================================================
