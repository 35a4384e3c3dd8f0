--------------------------- MODULE ParallelProofs ---------------------------
(***************************************************************************)
(* What a batch guarantees for any number of tasks, any size of the pool   *)
(* and any coordination.  The argument follows a run: from its store on it *)
(* has an answer, its registration makes it the winner or finds one, and   *)
(* the lock is its own while it tells the others to stop.                  *)
(***************************************************************************)
EXTENDS Parallel, FiniteSetTheorems, TLAPS

\* What the rest of the module needs to read a run.
ByThen == {"waiting", "telling", "stopping", "done", "collected"}
Before == {"none", "queued", "running", "returned"}
Telling == {"telling", "stopping"}

\* A run that has come back has a status; the calling thread has a row left.
Shape ==
    /\ \A w \in Run :
         /\ stage[w] = "returned" => got[w] \in {"answer", "stopped", "error"}
         /\ stage[w] \in ByThen => got[w] \in Status
         /\ stage[w] \in Telling \cup {"waiting"} => got[w] = "completed"
    /\ \A b \in Branch : stage[<<b, 1>>] \notin {"none", "collected"}
    /\ main = "collect" => row = 0
    /\ main = "expiring" => row < N
    /\ main \in {"collect", "expiring", "shut", "replan"} =>
         \A b \in Branch : stage[<<b, 2>>] = "none"

\* The lock is held across steps by the one run that tells.
Locked ==
    \A w \in Run : stage[w] \in Telling <=> lock = w

\* Whatever happens, the calling thread leaves phase 1 with a result for all.
Answered ==
    /\ \A b \in Branch : stage[<<b, 1>>] \in ByThen => result[b] # "none"
    /\ main = "expiring" => \A b \in Branch : b < row => result[b] # "none"
    /\ main \notin {"collect", "expiring"} => \A b \in Branch : result[b] # "none"
    /\ main = "done" => \A b \in Branch : given[b] # "none"

\* With no wait run out and no channel refused, phase 2 begins after phase 1,
\* and only with branches that have no answer.
InTurn ==
    /\ main \in {"collect", "shut", "replan", "collect2", "final", "done"}
    /\ main # "collect" => \A b \in Branch : stage[<<b, 1>>] = "done"
    /\ main \in {"final", "done"} =>
         \A b \in Branch : stage[<<b, 2>>] \in {"none", "collected"}
    /\ policy # "switch_strategy" => \A b \in Branch : stage[<<b, 2>>] = "none"
    /\ main = "collect" => observing

KeptAt(b) ==
    /\ stage[<<b, 1>>] # "dropped"
    /\ stage[<<b, 2>>] # "dropped"
    /\ stage[<<b, 1>>] \in Telling \cup {"waiting"} => result[b] = "completed"
    /\ result[b] = "completed" =>
         /\ stage[<<b, 1>>] \notin Before
         /\ stage[<<b, 2>>] \notin Before \ {"none"}
         /\ stage[<<b, 2>>] # "none" => got[<<b, 2>>] = "completed"
    /\ (stage[<<b, 2>>] \in ByThen /\ got[<<b, 2>>] = "completed")
         => result[b] = "completed"

Kept == \A b \in Branch : KeptAt(b)

\* With no signal from outside either, the winner is the first that registers.
Won ==
    /\ outside = "idle"
    /\ ~parentOff
    /\ winner # None => result[winner] = "completed"
                        /\ stage[<<winner, 1>>] \in Telling \cup {"done"}
    /\ winner = None => ~consensus /\ lock = None
    /\ (/\ winner # None
        /\ policy = "consensus_reached"
        /\ mode # "stagnation") => consensus
    /\ \A b \in Branch :
         (/\ result[b] = "completed"
          /\ stage[<<b, 1>>] # "waiting"
          /\ stage[<<b, 2>>] # "waiting") => winner # None
    /\ main = "done" => given = result

\* Its run, and no other, goes through the other branches.
Stopping ==
    /\ \A w \in Run : stage[w] \in Telling => winner # None /\ w = <<winner, 1>>
    /\ lock # None => policy \in {"stop_on_solution", "consensus_reached"}
    /\ winner = None => set = {}
    /\ winner # None => <<winner, 1>> \notin set
    /\ \A w \in Run :
         stage[w] = "stopping" =>
             /\ at[w] # w[1]
             /\ noting[w] => at[w] < N /\ <<at[w], 1>> \in set
             /\ \A b \in Branch : b < at[w] /\ b # w[1] => <<b, 1>> \in set
    /\ \A w \in Run : noting[w] => stage[w] = "stopping"
    /\ (/\ winner # None
        /\ policy \in {"stop_on_solution", "consensus_reached"}
        /\ mode # "stagnation"
        /\ stage[<<winner, 1>>] = "done") =>
            \A b \in Branch \ {winner} : <<b, 1>> \in set

IInv ==
    /\ TypeOK
    /\ Shape
    /\ Locked
    /\ Answered
    /\ faults = 0 => InTurn /\ Kept
    /\ Undisturbed => Won /\ Stopping

-----------------------------------------------------------------------------
(* Runs, branches and answers                                              *)

\* A run is the pair of its branch and its phase.
LEMMA RunParts == \A w \in Run : w[1] \in Branch /\ w[2] \in {1, 2}
BY DEF Run

\* Each branch has a run in either phase.
LEMMA RunsOf ==
    \A b \in Branch :
        /\ <<b, 1>> \in Run /\ <<b, 1>>[1] = b /\ <<b, 1>>[2] = 1
        /\ <<b, 2>> \in Run /\ <<b, 2>>[1] = b /\ <<b, 2>>[2] = 2
BY DEF Run

\* Runs with the same branch and phase are the same.
LEMMA SameRun ==
    \A w \in Run, b \in Branch :
        /\ w[1] = b /\ w[2] = 1 => w = <<b, 1>>
        /\ w[1] = b /\ w[2] = 2 => w = <<b, 2>>
BY DEF Run

\* A branch is a number below N.
LEMMA Numbers ==
    /\ \A b \in Branch : b \in Int /\ b >= 0 /\ b < N /\ b # None
    /\ \A i \in 0 .. N : i < N => i \in Branch
BY Sizes, NoneIsNothing DEF Branch

\* A strategy is a policy and one of its modes.
LEMMA Pairing ==
    \A s \in Strategies :
        /\ s = <<s[1], s[2]>>
        /\ s[1] \in Policies
        /\ s[2] \in {"stagnation", "convergence", "first_success"}
<1> SUFFICES ASSUME NEW s \in Strategies
             PROVE  /\ s = <<s[1], s[2]>>
                    /\ s[1] \in Policies
                    /\ s[2] \in {"stagnation", "convergence", "first_success"}
    OBVIOUS
<1>1. PICK p \in Policies : s \in {p} \X Modes(p)
    BY StrategyType
<1>2. Modes(p) \subseteq {"stagnation", "convergence", "first_success"}
    BY DEF Modes
<1> QED
    BY <1>1, <1>2

\* _apply_stop_signal moves on from a branch to the next or past the last one.
LEMMA NextStopType ==
    \A i \in 0 .. N, b \in Branch \cup {None} :
        /\ NextStop(i, b) \in 0 .. N
        /\ NextStop(i, b) # b
        /\ NextStop(i, b) >= i
        /\ \A c \in Branch : i <= c /\ c < NextStop(i, b) => c = b
BY Sizes, Numbers, NoneIsNothing DEF NextStop

\* There are finitely many branches.
LEMMA BranchFinite == IsFiniteSet(Branch)
BY Sizes, FS_Interval DEF Branch

\* Two branches with an answer make two answers.
LEMMA TwoAnswers ==
    ASSUME NEW a \in Ok, NEW b \in Ok, a # b
    PROVE  Count(Ok) \in Nat /\ Count(Ok) >= 2
<1>1. IsFiniteSet(Ok)
    BY BranchFinite, FS_Subset DEF Ok, With
<1>2. IsFiniteSet({a}) /\ Cardinality({a}) = 1
    BY FS_Singleton
<1>3. IsFiniteSet({a} \cup {b}) /\ Cardinality({a} \cup {b}) = 2
    BY <1>2, FS_AddElement
<1>4. {a} \cup {b} \subseteq Ok
    OBVIOUS
<1> QED
    BY <1>1, <1>3, <1>4, FS_Subset, FS_CardinalityType DEF Count

\* One answer is enough for either stop condition that wants one.
LEMMA OneAnswer ==
    ASSUME NEW b \in Ok, mode \in {"convergence", "first_success"}
    PROVE  Reached
<1>1. CASE mode = "first_success"
    BY <1>1 DEF Reached
<1>2. CASE mode = "convergence" /\ Ok = {b}
    <2>1. {c \in Ok : Says[c] = Says[b]} = {b}
        BY <1>2
    <2>2. Count({b}) = 1
        BY FS_Singleton DEF Count
    <2>3. Dominant
        BY <1>2, <2>1, <2>2 DEF Dominant
    <2> QED
        BY <1>2, <2>3 DEF Reached, Converged
<1>3. CASE mode = "convergence" /\ Ok # {b}
    <2>1. PICK c \in Ok : c # b
        BY <1>3
    <2>2. Count(Ok) >= 2 /\ Count(Ok) \in Nat
        BY <2>1, TwoAnswers
    <2>3. Count(Ok) >= (IF N < 2 THEN N ELSE 2)
        BY <2>2, Sizes
    <2> QED
        BY <1>3, <2>3 DEF Reached, Converged
<1> QED
    BY <1>1, <1>2, <1>3

\* Two answers are no stagnation.
LEMMA NotStalled ==
    ASSUME NEW a \in Ok, NEW b \in Ok, a # b
    PROVE  ~Stalled
BY TwoAnswers DEF Stalled

\* All that most steps need of the types is which variables are functions.
Stages == {"none", "queued", "running", "returned", "waiting", "telling",
           "stopping", "done", "collected", "dropped"}
Ends == Status \cup {"none", "answer", "stopped", "error"}
Results == Status \cup {"none"}

Functional ==
    /\ stage \in [Run -> Stages]
    /\ got \in [Run -> Ends]
    /\ result \in [Branch -> Results]
    /\ winner \in Branch \cup {None}
    /\ signals \in Nat
    /\ faults \in Nat

\* The types say so.
LEMMA TypedIsFunctional == TypeOK => Functional
BY DEF TypeOK, Functional, Stages, Ends, Results

\* The branch that the calling thread looks at when the time is over.
LEMMA ExpiringRow ==
    ASSUME TypeOK, Shape, main = "expiring"
    PROVE  row \in Branch /\ <<row, 1>> \in Run /\ row + 1 \in 0 .. N /\ row < N
<1>1. row < N
    BY DEF Shape
<1>2. row \in 0 .. N
    BY DEF TypeOK
<1>3. row \in Branch
    BY <1>1, <1>2, Numbers
<1>4. row + 1 \in 0 .. N
    BY <1>1, <1>2, Sizes
<1> QED
    BY <1>1, <1>3, <1>4, RunsOf

\* What a run stores is a status.
LEMMA OutcomeStatus ==
    ASSUME Shape
    PROVE  \A w \in Run : stage[w] = "returned" => Outcome(w) \in Status
BY DEF Shape, Outcome, Failure, Status

\* A branch has one event at a time.
LEMMA CurrentRun == \A b \in Branch : Current(b) \in Run
BY RunsOf DEF Current

-----------------------------------------------------------------------------
(* The invariant                                                           *)

\* What most of the argument needs to know of a step of Tell,
LEMMA TellMoves ==
    ASSUME NEW w \in Run, Tell(w)
    PROVE  /\ stage[w] = "telling"
           /\ \E s \in {"stopping", "done"} : stage' = [stage EXCEPT ![w] = s]
           /\ UNCHANGED <<main, row, given, got, result>>
<1>1. CASE observing
    BY <1>1 DEF Tell, Goto, mainVars
<1>2. CASE ~observing
    BY <1>2 DEF Tell, Goto, mainVars
<1> QED
    BY <1>1, <1>2

\* and of one of ExpireNext.
LEMMA ExpireMoves ==
    ASSUME Functional, row \in Branch, <<row, 1>> \in Run, ExpireNext
    PROVE  /\ main = "expiring" /\ row' = row + 1 /\ got' = got /\ given' = given
           /\ main' = IF row = N - 1 THEN "shut" ELSE "expiring"
           /\ \/ stage' = stage
              \/ /\ stage[<<row, 1>>] = "queued"
                 /\ stage' = [stage EXCEPT ![<<row, 1>>] = "dropped"]
           /\ \/ Ended(<<row, 1>>) /\ result' = result
              \/ result' = [result EXCEPT ![row] = "blocked"]
<1>1. CASE Ended(<<row, 1>>)
    BY <1>1 DEF ExpireNext
<1>2. CASE ~Ended(<<row, 1>>)
    BY <1>2 DEF ExpireNext
<1> QED
    BY <1>1, <1>2

\* The initial states satisfy the invariant.
LEMMA InitIInv == Init => IInv
<1> SUFFICES ASSUME Init PROVE IInv
    OBVIOUS
<1> USE Sizes, NoneIsNothing DEF Init
<1>1. TypeOK
    <2>1. PICK s \in Strategies : policy = s[1] /\ mode = s[2]
        OBVIOUS
    <2>2. <<policy, mode>> \in Strategies
        BY <2>1, Pairing
    <2>3. 0 \in 0 .. N
        BY Sizes
    <2> QED
        BY <2>2, <2>3 DEF TypeOK, Publisher, Status
<1>2. \A w \in Run : stage[w] \in {"queued", "none"} /\ ~noting[w]
    BY DEF Publisher
<1>3. /\ \A b \in Branch : stage[<<b, 1>>] = "queued" /\ stage[<<b, 2>>] = "none"
      /\ \A b \in Branch : result[b] = "none"
    BY RunsOf
<1>4. Shape /\ Locked /\ Answered
    BY <1>2, <1>3 DEF Shape, Locked, Answered, ByThen, Telling
<1>5. InTurn /\ Kept
    BY <1>3 DEF InTurn, Kept, KeptAt, ByThen, Telling, Before
<1>6. Won /\ Stopping
    BY <1>2, <1>3 DEF Won, Stopping, Telling
<1> QED
    BY <1>1, <1>4, <1>5, <1>6 DEF IInv

\* Every step preserves the types.
LEMMA TypeStep == TypeOK /\ Shape /\ [Next]_vars => TypeOK'
<1> SUFFICES ASSUME TypeOK, Shape, [Next]_vars PROVE TypeOK'
    OBVIOUS
<1> USE Sizes, NoneIsNothing DEF strategyVars, mainVars, runVars,
       winVars, stopVars, outVars, faultVars,
       TypeOK, Status, Publisher
<1>1. ASSUME NEW w \in Run, Start(w) PROVE TypeOK'
    BY <1>1 DEF Start, Goto
<1>2. ASSUME NEW w \in Run, NEW e \in {"answer", "stopped", "error"}, ChildEnds(w, e)
      PROVE TypeOK'
    BY <1>2, RunParts DEF ChildEnds, Goto
<1>3. ASSUME NEW w \in Run, Store(w) PROVE TypeOK'
    BY <1>3, OutcomeStatus, RunParts DEF Store, Goto
<1>4. ASSUME NEW w \in Run, Register(w) PROVE TypeOK'
    BY <1>4, RunParts DEF Register, Goto, Winner
<1>5. ASSUME NEW w \in Run, Tell(w) PROVE TypeOK'
    <2>0. NextStop(0, w[1]) \in 0 .. N
        BY RunParts, NextStopType
    <2>1. CASE observing
        BY <1>5, <2>1, <2>0 DEF Tell, Goto
    <2>2. CASE ~observing
        BY <1>5, <2>2 DEF Tell, Goto
    <2> QED
        BY <2>1, <2>2
<1>6. ASSUME NEW w \in Run, TellRaises(w) PROVE TypeOK'
    BY <1>6, RunParts DEF TellRaises, Goto, Fault, Failure
<1>7. ASSUME NEW w \in Run, Stop(w) PROVE TypeOK'
    <2>1. at[w] + 1 \in 0 .. N /\ at[w] \in Branch
        BY <1>7, Numbers DEF Stop, StopNext
    <2>2. NextStop(at[w] + 1, w[1]) \in 0 .. N /\ Current(at[w]) \in Run
        BY <2>1, NextStopType, CurrentRun, RunParts
    <2>3. CASE noting[w]
        BY <1>7, <2>1, <2>2, <2>3 DEF Stop, StopNext
    <2>4. CASE ~noting[w]
        BY <1>7, <2>1, <2>2, <2>4 DEF Stop, StopNext
    <2> QED
        BY <2>3, <2>4
<1>8. ASSUME NEW w \in Run, Told(w) PROVE TypeOK'
    BY <1>8 DEF Told, Goto
<1>9. ASSUME NEW b \in Branch, Focus(b) PROVE TypeOK'
    BY <1>9 DEF Focus, FromOutside
<1>10. ASSUME Focused PROVE TypeOK'
    <2>1. NextStop(0, spared) \in 0 .. N
        BY NextStopType
    <2> QED
        BY <1>10, <2>1 DEF Focused
<1>11. ASSUME NEW b \in Branch \cup {None}, StopSignal(b) PROVE TypeOK'
    <2>1. NextStop(0, b) \in 0 .. N
        BY NextStopType
    <2> QED
        BY <1>11, <2>1 DEF StopSignal, FromOutside
<1>12. ASSUME StopOutside PROVE TypeOK'
    <2>1. CASE at[Outside] = N
        BY <1>12, <2>1 DEF StopOutside
    <2>2. CASE at[Outside] < N
        <3>1. at[Outside] + 1 \in 0 .. N /\ at[Outside] \in Branch
            BY <2>2, Numbers
        <3>2. /\ NextStop(at[Outside] + 1, spared) \in 0 .. N
              /\ Current(at[Outside]) \in Run
            BY <3>1, NextStopType, CurrentRun
        <3>3. StopNext(Outside, spared)
            BY <1>12, <2>2 DEF StopOutside
        <3>4. CASE noting[Outside]
            <4>1. ledger' = [ledger EXCEPT ![at[Outside]] = "cancelled"]
                BY <3>3, <3>4 DEF StopNext
            <4>2. at' = [at EXCEPT ![Outside] = NextStop(at[Outside] + 1, spared)]
                BY <3>3, <3>4 DEF StopNext
            <4> QED
                BY <1>12, <2>2, <3>1, <3>2, <3>3, <3>4, <4>1, <4>2
                   DEF StopOutside, StopNext
        <3>5. CASE ~noting[Outside]
            <4>1. set' = set \cup {Current(at[Outside])} /\ at' = at
                BY <3>3, <3>5 DEF StopNext
            <4> QED
                BY <1>12, <2>2, <3>2, <3>3, <3>5, <4>1 DEF StopOutside, StopNext
        <3> QED
            BY <3>4, <3>5
    <2> QED
        BY <2>1, <2>2
<1>13. ASSUME ParentCancels PROVE TypeOK'
    BY <1>13 DEF ParentCancels, FromOutside
<1>14. ASSUME Collected PROVE TypeOK'
    BY <1>14 DEF Collected
<1>15. ASSUME Expires PROVE TypeOK'
    BY <1>15 DEF Expires, Fault
<1>16. ASSUME ExpireNext PROVE TypeOK'
    <2>1. row \in Branch /\ <<row, 1>> \in Run /\ row + 1 \in 0 .. N
        BY <1>16, ExpiringRow DEF ExpireNext
    <2>2. CASE Ended(<<row, 1>>)
        BY <1>16, <2>1, <2>2 DEF ExpireNext
    <2>3. CASE ~Ended(<<row, 1>>) /\ stage[<<row, 1>>] = "queued"
        BY <1>16, <2>1, <2>3 DEF ExpireNext
    <2>4. CASE ~Ended(<<row, 1>>) /\ stage[<<row, 1>>] # "queued"
        BY <1>16, <2>1, <2>4 DEF ExpireNext
    <2> QED
        BY <2>2, <2>3, <2>4
<1>17. ASSUME Shut PROVE TypeOK'
    BY <1>17 DEF Shut
<1>18. ASSUME Replan PROVE TypeOK'
    BY <1>18 DEF Replan
<1>19. ASSUME ReplanRaises PROVE TypeOK'
    BY <1>19 DEF ReplanRaises, Fault
<1>20. ASSUME NEW b \in Branch, CollectNext(b) PROVE TypeOK'
    <2>1. <<b, 2>> \in Run /\ got[<<b, 2>>] \in Status
        BY <1>20, RunsOf DEF CollectNext, Goto, Shape, ByThen
    <2>2. CASE got[<<b, 2>>] = "completed"
        BY <1>20, <2>1, <2>2 DEF CollectNext, Goto, Winner
    <2>3. CASE got[<<b, 2>>] # "completed"
        BY <1>20, <2>1, <2>3 DEF CollectNext, Goto, Winner
    <2> QED
        BY <2>2, <2>3
<1>21. ASSUME Collected2 PROVE TypeOK'
    BY <1>21 DEF Collected2
<1>22. ASSUME Expires2 PROVE TypeOK'
    BY <1>22 DEF Expires2, Fault
<1>23. ASSUME Finalize PROVE TypeOK'
    BY <1>23 DEF Finalize
<1>24. CASE UNCHANGED vars
    BY <1>24 DEF vars
<1> QED
    BY <1>1, <1>2, <1>3, <1>4, <1>5, <1>6, <1>7, <1>8, <1>9, <1>10, <1>11, 
       <1>12, <1>13, <1>14, <1>15, <1>16, <1>17, <1>18, <1>19, <1>20, <1>21, 
       <1>22, <1>23, <1>24
       DEF Next, Progress, Caller, OutsideStep

\* The shape of the runs is kept.
LEMMA ShapeStep == TypeOK /\ Shape /\ [Next]_vars => Shape'
<1> SUFFICES ASSUME TypeOK, Shape, [Next]_vars PROVE Shape'
    OBVIOUS
<1> Functional
    BY TypedIsFunctional
<1> USE Sizes, NoneIsNothing DEF strategyVars, mainVars, runVars,
       winVars, stopVars, outVars, faultVars,
       Functional, Shape, ByThen, Telling
<1>1. ASSUME NEW w \in Run, Start(w) PROVE Shape'
    BY <1>1, RunsOf, SameRun DEF Start, Goto
<1>2. ASSUME NEW w \in Run, NEW e \in {"answer", "stopped", "error"}, ChildEnds(w, e)
      PROVE Shape'
    BY <1>2, RunsOf, SameRun DEF ChildEnds, Goto
<1>3. ASSUME NEW w \in Run, Store(w) PROVE Shape'
    BY <1>3, OutcomeStatus, RunsOf, SameRun DEF Store, Goto, Status
<1>4. ASSUME NEW w \in Run, Register(w) PROVE Shape'
    BY <1>4, RunsOf, SameRun DEF Register, Goto, Winner
<1>5. ASSUME NEW w \in Run, Tell(w) PROVE Shape'
    <2>1. PICK s \in {"stopping", "done"} : stage' = [stage EXCEPT ![w] = s]
        BY <1>5, TellMoves
    <2>2. /\ stage[w] = "telling"
          /\ UNCHANGED <<main, row, given, got, result>>
        BY <1>5, TellMoves
    <2> QED
        BY <2>1, <2>2, RunsOf, SameRun
<1>6. ASSUME NEW w \in Run, TellRaises(w) PROVE Shape'
    BY <1>6, RunsOf, SameRun DEF TellRaises, Goto, Fault, Failure, Status
<1>7. ASSUME NEW w \in Run, Stop(w) PROVE Shape'
    BY <1>7 DEF Stop, StopNext
<1>8. ASSUME NEW w \in Run, Told(w) PROVE Shape'
    BY <1>8, RunsOf, SameRun DEF Told, Goto
<1>9. ASSUME NEW b \in Branch, Focus(b) PROVE Shape'
    BY <1>9 DEF Focus, FromOutside
<1>10. ASSUME Focused PROVE Shape'
    BY <1>10 DEF Focused
<1>11. ASSUME NEW b \in Branch \cup {None}, StopSignal(b) PROVE Shape'
    BY <1>11 DEF StopSignal, FromOutside
<1>12. ASSUME StopOutside PROVE Shape'
    BY <1>12 DEF StopOutside, StopNext
<1>13. ASSUME ParentCancels PROVE Shape'
    BY <1>13 DEF ParentCancels, FromOutside
<1>14. ASSUME Collected PROVE Shape'
    BY <1>14 DEF Collected
<1>15. ASSUME Expires PROVE Shape'
    BY <1>15 DEF Expires, Fault
<1>16. ASSUME ExpireNext PROVE Shape'
    <2>1. row \in Branch /\ <<row, 1>> \in Run /\ row + 1 \in 0 .. N
        BY <1>16, ExpiringRow DEF ExpireNext
    <2>2. main = "expiring" /\ row' = row + 1 /\ got' = got
        BY <1>16, <2>1, ExpireMoves
    <2>3. main' = IF row = N - 1 THEN "shut" ELSE "expiring"
        BY <1>16, <2>1, ExpireMoves
    <2>4. \/ stage' = stage
          \/ /\ stage[<<row, 1>>] = "queued"
             /\ stage' = [stage EXCEPT ![<<row, 1>>] = "dropped"]
        BY <1>16, <2>1, ExpireMoves
    <2>5. row' < N \/ main' = "shut"
        BY <2>1, <2>2, <2>3, Numbers
    <2>6. \A w \in Run : stage'[w] = stage[w] \/ stage'[w] = "dropped"
        BY <2>1, <2>4
    <2>7. \A b \in Branch : stage'[<<b, 2>>] = stage[<<b, 2>>]
        <3>1. \A b \in Branch : <<b, 2>> # <<row, 1>>
            OBVIOUS
        <3> QED
            BY <2>1, <2>4, <3>1, RunsOf
    <2>8. \A b \in Branch : stage'[<<b, 1>>] = stage[<<b, 1>>]
                             \/ stage'[<<b, 1>>] = "dropped"
        BY <2>6, RunsOf
    <2> QED
        BY <2>2, <2>3, <2>5, <2>6, <2>7, <2>8
<1>17. ASSUME Shut PROVE Shape'
    BY <1>17, RunsOf DEF Shut
<1>18. ASSUME Replan PROVE Shape'
    <2>1. main = "replan" /\ main' \in {"collect2", "final"} /\ got' = got
        BY <1>18 DEF Replan
    <2>2. \A w \in Run : stage'[w] = stage[w] \/ (w[2] = 2 /\ stage'[w] = "queued")
        BY <1>18 DEF Replan
    <2>3. \A b \in Branch : stage'[<<b, 1>>] = stage[<<b, 1>>]
        <3>1. \A b \in Branch : <<b, 1>> \in Run /\ <<b, 1>>[2] = 1
            BY RunsOf
        <3>2. \A w \in Run : w[2] = 1 => stage'[w] = stage[w]
            BY <2>2
        <3> QED
            BY <3>1, <3>2
    <2> QED
        BY <2>1, <2>2, <2>3
<1>19. ASSUME ReplanRaises PROVE Shape'
    BY <1>19 DEF ReplanRaises, Fault
<1>20. ASSUME NEW b \in Branch, CollectNext(b) PROVE Shape'
    BY <1>20, RunsOf DEF CollectNext, Goto, Winner
<1>21. ASSUME Collected2 PROVE Shape'
    BY <1>21 DEF Collected2
<1>22. ASSUME Expires2 PROVE Shape'
    BY <1>22, RunsOf DEF Expires2, Fault
<1>23. ASSUME Finalize PROVE Shape'
    BY <1>23 DEF Finalize
<1>24. CASE UNCHANGED vars
    BY <1>24 DEF vars
<1> QED
    BY <1>1, <1>2, <1>3, <1>4, <1>5, <1>6, <1>7, <1>8, <1>9, <1>10, <1>11, 
       <1>12, <1>13, <1>14, <1>15, <1>16, <1>17, <1>18, <1>19, <1>20, <1>21, 
       <1>22, <1>23, <1>24
       DEF Next, Progress, Caller, OutsideStep

\* The lock is taken and given back with the signal.
LEMMA LockedStep ==
    TypeOK /\ Shape /\ Locked /\ [Next]_vars => Locked'
<1> SUFFICES ASSUME TypeOK, Shape, Locked, [Next]_vars PROVE Locked'
    OBVIOUS
<1> Functional
    BY TypedIsFunctional
<1> USE Sizes, NoneIsNothing DEF strategyVars, mainVars, runVars,
       winVars, stopVars, outVars, faultVars,
       Functional, Locked, Telling
<1>1. ASSUME NEW w \in Run, Start(w) PROVE Locked'
    BY <1>1 DEF Start, Goto
<1>2. ASSUME NEW w \in Run, NEW e \in {"answer", "stopped", "error"}, ChildEnds(w, e)
      PROVE Locked'
    BY <1>2 DEF ChildEnds, Goto
<1>3. ASSUME NEW w \in Run, Store(w) PROVE Locked'
    BY <1>3 DEF Store, Goto
<1>4. ASSUME NEW w \in Run, Register(w) PROVE Locked'
    BY <1>4 DEF Register, Goto, Winner
<1>5. ASSUME NEW w \in Run, Tell(w) PROVE Locked'
    BY <1>5 DEF Tell, Goto
<1>6. ASSUME NEW w \in Run, TellRaises(w) PROVE Locked'
    BY <1>6 DEF TellRaises, Goto, Fault
<1>7. ASSUME NEW w \in Run, Stop(w) PROVE Locked'
    BY <1>7 DEF Stop, StopNext
<1>8. ASSUME NEW w \in Run, Told(w) PROVE Locked'
    BY <1>8 DEF Told, Goto
<1>9. ASSUME NEW b \in Branch, Focus(b) PROVE Locked'
    BY <1>9 DEF Focus, FromOutside
<1>10. ASSUME Focused PROVE Locked'
    BY <1>10 DEF Focused
<1>11. ASSUME NEW b \in Branch \cup {None}, StopSignal(b) PROVE Locked'
    BY <1>11 DEF StopSignal, FromOutside
<1>12. ASSUME StopOutside PROVE Locked'
    BY <1>12 DEF StopOutside, StopNext
<1>13. ASSUME ParentCancels PROVE Locked'
    BY <1>13 DEF ParentCancels, FromOutside
<1>14. ASSUME Collected PROVE Locked'
    BY <1>14 DEF Collected
<1>15. ASSUME Expires PROVE Locked'
    BY <1>15 DEF Expires, Fault
<1>16. ASSUME ExpireNext PROVE Locked'
    BY <1>16 DEF ExpireNext
<1>17. ASSUME Shut PROVE Locked'
    BY <1>17 DEF Shut
<1>18. ASSUME Replan PROVE Locked'
    <2>1. \A b \in Branch : stage[<<b, 2>>] = "none"
        BY <1>18 DEF Replan, Shape
    <2>2. \A w \in Run : w[2] = 2 => stage[w] = "none"
        BY <2>1, RunParts, SameRun
    <2>3. \A w \in Run : stage'[w] \in {"telling", "stopping"}
                          <=> stage[w] \in {"telling", "stopping"}
        BY <1>18, <2>2 DEF Replan
    <2> QED
        BY <1>18, <2>3 DEF Replan
<1>19. ASSUME ReplanRaises PROVE Locked'
    BY <1>19 DEF ReplanRaises, Fault
<1>20. ASSUME NEW b \in Branch, CollectNext(b) PROVE Locked'
    BY <1>20 DEF CollectNext, Goto, Winner
<1>21. ASSUME Collected2 PROVE Locked'
    BY <1>21 DEF Collected2
<1>22. ASSUME Expires2 PROVE Locked'
    BY <1>22 DEF Expires2, Fault
<1>23. ASSUME Finalize PROVE Locked'
    BY <1>23 DEF Finalize
<1>24. CASE UNCHANGED vars
    BY <1>24 DEF vars
<1> QED
    BY <1>1, <1>2, <1>3, <1>4, <1>5, <1>6, <1>7, <1>8, <1>9, <1>10, <1>11, 
       <1>12, <1>13, <1>14, <1>15, <1>16, <1>17, <1>18, <1>19, <1>20, <1>21, 
       <1>22, <1>23, <1>24
       DEF Next, Progress, Caller, OutsideStep

\* No result is ever taken back to none.
LEMMA AnsweredStep ==
    TypeOK /\ Shape /\ Answered /\ [Next]_vars => Answered'
<1> SUFFICES ASSUME TypeOK, Shape, Answered, [Next]_vars PROVE Answered'
    OBVIOUS
<1> Functional
    BY TypedIsFunctional
<1> USE Sizes, NoneIsNothing DEF strategyVars, mainVars, runVars,
       winVars, stopVars, outVars, faultVars,
       Functional, Answered, ByThen
<1>1. ASSUME NEW w \in Run, Start(w) PROVE Answered'
    BY <1>1, RunsOf DEF Start, Goto
<1>2. ASSUME NEW w \in Run, NEW e \in {"answer", "stopped", "error"}, ChildEnds(w, e)
      PROVE Answered'
    BY <1>2, RunsOf DEF ChildEnds, Goto
<1>3. ASSUME NEW w \in Run, Store(w) PROVE Answered'
    <2>1. Outcome(w) # "none" /\ w[1] \in Branch
        BY <1>3, OutcomeStatus, RunParts DEF Store, Goto, Status
    <2>2. \A b \in Branch : result'[b] = "none" => result[b] = "none" /\ b # w[1]
        BY <1>3, <2>1 DEF Store
    <2>3. \A b \in Branch : stage'[<<b, 1>>] \in ByThen =>
                               stage[<<b, 1>>] \in ByThen \/ b = w[1]
        BY <1>3, RunsOf DEF Store, Goto
    <2> QED
        BY <1>3, <2>2, <2>3 DEF Store
<1>4. ASSUME NEW w \in Run, Register(w) PROVE Answered'
    BY <1>4, RunsOf DEF Register, Goto, Winner
<1>5. ASSUME NEW w \in Run, Tell(w) PROVE Answered'
    <2>1. PICK s \in {"stopping", "done"} : stage' = [stage EXCEPT ![w] = s]
        BY <1>5, TellMoves
    <2>2. /\ stage[w] = "telling"
          /\ UNCHANGED <<main, row, given, got, result>>
        BY <1>5, TellMoves
    <2> QED
        BY <2>1, <2>2, RunsOf, SameRun
<1>6. ASSUME NEW w \in Run, TellRaises(w) PROVE Answered'
    BY <1>6, RunParts, RunsOf, SameRun DEF TellRaises, Goto, Fault, Failure
<1>7. ASSUME NEW w \in Run, Stop(w) PROVE Answered'
    BY <1>7 DEF Stop, StopNext
<1>8. ASSUME NEW w \in Run, Told(w) PROVE Answered'
    BY <1>8, RunsOf DEF Told, Goto
<1>9. ASSUME NEW b \in Branch, Focus(b) PROVE Answered'
    BY <1>9 DEF Focus, FromOutside
<1>10. ASSUME Focused PROVE Answered'
    BY <1>10 DEF Focused
<1>11. ASSUME NEW b \in Branch \cup {None}, StopSignal(b) PROVE Answered'
    BY <1>11 DEF StopSignal, FromOutside
<1>12. ASSUME StopOutside PROVE Answered'
    BY <1>12 DEF StopOutside, StopNext
<1>13. ASSUME ParentCancels PROVE Answered'
    BY <1>13 DEF ParentCancels, FromOutside
<1>14. ASSUME Collected PROVE Answered'
    BY <1>14 DEF Collected, Ended
<1>15. ASSUME Expires PROVE Answered'
    <2>1. row = 0 /\ row' = row
        BY <1>15 DEF Expires, Shape
    <2> QED
        BY <1>15, <2>1, Numbers DEF Expires
<1>16. ASSUME ExpireNext PROVE Answered'
    <2>1. row \in Branch /\ <<row, 1>> \in Run /\ row + 1 \in 0 .. N
        BY <1>16, ExpiringRow DEF ExpireNext
    <2>2. /\ main = "expiring" /\ row' = row + 1
          /\ main' = IF row = N - 1 THEN "shut" ELSE "expiring"
        BY <1>16, <2>1, ExpireMoves
    <2>3. /\ result'[row] # "none"
          /\ \A b \in Branch : result'[b] = "none" => result[b] = "none"
        BY <1>16, <2>1, ExpireMoves DEF Ended
    <2>4. \A b \in Branch : b < row + 1 => result'[b] # "none"
        BY <2>1, <2>2, <2>3, Numbers
    <2>5. \A b \in Branch : stage'[<<b, 1>>] \in ByThen => stage[<<b, 1>>] \in ByThen
        BY <1>16, <2>1, ExpireMoves, RunsOf
    <2>6. main' = "shut" => \A b \in Branch : b < row + 1
        BY <2>1, <2>2, Numbers
    <2> QED
        BY <2>2, <2>3, <2>4, <2>5, <2>6
<1>17. ASSUME Shut PROVE Answered'
    BY <1>17, RunsOf DEF Shut
<1>18. ASSUME Replan PROVE Answered'
    BY <1>18, RunsOf DEF Replan
<1>19. ASSUME ReplanRaises PROVE Answered'
    BY <1>19 DEF ReplanRaises, Fault
<1>20. ASSUME NEW b \in Branch, CollectNext(b) PROVE Answered'
    <2>1. <<b, 2>> \in Run /\ got[<<b, 2>>] # "none"
        BY <1>20, RunsOf DEF CollectNext, Goto, Shape, Status
    <2>2. \A c \in Branch : result'[c] = "none" => result[c] = "none"
        BY <1>20, <2>1 DEF CollectNext
    <2>3. \A c \in Branch : stage'[<<c, 1>>] = stage[<<c, 1>>]
        BY <1>20, <2>1, RunsOf DEF CollectNext, Goto
    <2> QED
        BY <1>20, <2>2, <2>3 DEF CollectNext
<1>21. ASSUME Collected2 PROVE Answered'
    BY <1>21 DEF Collected2
<1>22. ASSUME Expires2 PROVE Answered'
    BY <1>22, RunsOf DEF Expires2, Fault
<1>23. ASSUME Finalize PROVE Answered'
    BY <1>23 DEF Finalize
<1>24. CASE UNCHANGED vars
    BY <1>24 DEF vars
<1> QED
    BY <1>1, <1>2, <1>3, <1>4, <1>5, <1>6, <1>7, <1>8, <1>9, <1>10, <1>11, 
       <1>12, <1>13, <1>14, <1>15, <1>16, <1>17, <1>18, <1>19, <1>20, <1>21, 
       <1>22, <1>23, <1>24
       DEF Next, Progress, Caller, OutsideStep

\* The bounded events are only counted.
LEMMA Counted ==
    ASSUME TypeOK, [Next]_vars
    PROVE  /\ faults' = 0 => faults = 0
           /\ Undisturbed' => Undisturbed
<1> Functional
    BY TypedIsFunctional
<1> USE Sizes, NoneIsNothing DEF strategyVars, mainVars, runVars,
       winVars, stopVars, outVars, faultVars,
       Functional, Undisturbed
<1> DEFINE Goal == (faults' = 0 => faults = 0) /\ (Undisturbed' => Undisturbed)
<1>1. ASSUME NEW w \in Run, Start(w) PROVE Goal
    BY <1>1 DEF Start, Goto
<1>2. ASSUME NEW w \in Run, NEW e \in {"answer", "stopped", "error"}, ChildEnds(w, e)
      PROVE Goal
    BY <1>2 DEF ChildEnds, Goto
<1>3. ASSUME NEW w \in Run, Store(w) PROVE Goal
    BY <1>3 DEF Store, Goto
<1>4. ASSUME NEW w \in Run, Register(w) PROVE Goal
    BY <1>4 DEF Register, Goto, Winner
<1>5. ASSUME NEW w \in Run, Tell(w) PROVE Goal
    BY <1>5 DEF Tell, Goto
<1>6. ASSUME NEW w \in Run, TellRaises(w) PROVE Goal
    BY <1>6 DEF TellRaises, Goto, Fault
<1>7. ASSUME NEW w \in Run, Stop(w) PROVE Goal
    BY <1>7 DEF Stop, StopNext
<1>8. ASSUME NEW w \in Run, Told(w) PROVE Goal
    BY <1>8 DEF Told, Goto
<1>9. ASSUME NEW b \in Branch, Focus(b) PROVE Goal
    BY <1>9 DEF Focus, FromOutside
<1>10. ASSUME Focused PROVE Goal
    BY <1>10 DEF Focused
<1>11. ASSUME NEW b \in Branch \cup {None}, StopSignal(b) PROVE Goal
    BY <1>11 DEF StopSignal, FromOutside
<1>12. ASSUME StopOutside PROVE Goal
    BY <1>12 DEF StopOutside, StopNext
<1>13. ASSUME ParentCancels PROVE Goal
    BY <1>13 DEF ParentCancels, FromOutside
<1>14. ASSUME Collected PROVE Goal
    BY <1>14 DEF Collected
<1>15. ASSUME Expires PROVE Goal
    BY <1>15 DEF Expires, Fault
<1>16. ASSUME ExpireNext PROVE Goal
    BY <1>16 DEF ExpireNext
<1>17. ASSUME Shut PROVE Goal
    BY <1>17 DEF Shut
<1>18. ASSUME Replan PROVE Goal
    BY <1>18 DEF Replan
<1>19. ASSUME ReplanRaises PROVE Goal
    BY <1>19 DEF ReplanRaises, Fault
<1>20. ASSUME NEW b \in Branch, CollectNext(b) PROVE Goal
    BY <1>20 DEF CollectNext, Goto, Winner
<1>21. ASSUME Collected2 PROVE Goal
    BY <1>21 DEF Collected2
<1>22. ASSUME Expires2 PROVE Goal
    BY <1>22 DEF Expires2, Fault
<1>23. ASSUME Finalize PROVE Goal
    BY <1>23 DEF Finalize
<1>24. CASE UNCHANGED vars
    BY <1>24 DEF vars
<1> QED
    BY <1>1, <1>2, <1>3, <1>4, <1>5, <1>6, <1>7, <1>8, <1>9, <1>10, <1>11, 
       <1>12, <1>13, <1>14, <1>15, <1>16, <1>17, <1>18, <1>19, <1>20, <1>21, 
       <1>22, <1>23, <1>24
       DEF Next, Progress, Caller, OutsideStep

\* Without faults the phases follow each other.
LEMMA InTurnStep ==
    ASSUME TypeOK, Shape, InTurn, faults' = 0, [Next]_vars
    PROVE  InTurn'
<1> Functional
    BY TypedIsFunctional
<1> USE Sizes, NoneIsNothing DEF strategyVars, mainVars, runVars,
       winVars, stopVars, outVars, faultVars,
       Functional, Shape, InTurn
<1>1. ASSUME NEW w \in Run, Start(w) PROVE InTurn'
    BY <1>1, RunsOf, SameRun DEF Start, Goto
<1>2. ASSUME NEW w \in Run, NEW e \in {"answer", "stopped", "error"}, ChildEnds(w, e)
      PROVE InTurn'
    BY <1>2, RunsOf, SameRun DEF ChildEnds, Goto
<1>3. ASSUME NEW w \in Run, Store(w) PROVE InTurn'
    BY <1>3, RunsOf, SameRun DEF Store, Goto
<1>4. ASSUME NEW w \in Run, Register(w) PROVE InTurn'
    BY <1>4, RunsOf, SameRun DEF Register, Goto, Winner
<1>5. ASSUME NEW w \in Run, Tell(w) PROVE InTurn'
    <2>1. PICK s \in {"stopping", "done"} : stage' = [stage EXCEPT ![w] = s]
        BY <1>5, TellMoves
    <2>2. stage[w] = "telling" /\ main' = main
        BY <1>5, TellMoves
    <2>3. policy' = policy /\ observing' = observing
        BY <1>5 DEF Tell
    <2> QED
        BY <2>1, <2>2, <2>3, RunsOf
<1>6. ASSUME NEW w \in Run, TellRaises(w) PROVE InTurn'
    BY <1>6 DEF TellRaises, Goto, Fault
<1>7. ASSUME NEW w \in Run, Stop(w) PROVE InTurn'
    BY <1>7, RunsOf, SameRun DEF Stop, StopNext
<1>8. ASSUME NEW w \in Run, Told(w) PROVE InTurn'
    BY <1>8, RunsOf, SameRun DEF Told, Goto
<1>9. ASSUME NEW b \in Branch, Focus(b) PROVE InTurn'
    BY <1>9 DEF Focus, FromOutside
<1>10. ASSUME Focused PROVE InTurn'
    BY <1>10 DEF Focused
<1>11. ASSUME NEW b \in Branch \cup {None}, StopSignal(b) PROVE InTurn'
    BY <1>11 DEF StopSignal, FromOutside
<1>12. ASSUME StopOutside PROVE InTurn'
    BY <1>12 DEF StopOutside, StopNext
<1>13. ASSUME ParentCancels PROVE InTurn'
    BY <1>13 DEF ParentCancels, FromOutside
<1>14. ASSUME Collected PROVE InTurn'
    <2>1. \A b \in Branch : stage[<<b, 2>>] = "none"
        BY <1>14 DEF Collected
    <2>2. \A b \in Branch : stage[<<b, 1>>] = "done"
        BY <1>14, RunsOf DEF Collected, Ended
    <2> QED
        BY <1>14, <2>1, <2>2 DEF Collected
<1>15. ASSUME Expires PROVE InTurn'
    BY <1>15 DEF Expires, Fault
<1>16. ASSUME ExpireNext PROVE InTurn'
    BY <1>16 DEF ExpireNext
<1>17. ASSUME Shut PROVE InTurn'
    BY <1>17, RunsOf, SameRun DEF Shut
<1>18. ASSUME Replan PROVE InTurn'
    <2>1. \A b \in Branch :
              /\ <<b, 1>> \in Run /\ stage[<<b, 1>>] = "done" /\ <<b, 1>>[2] = 1
              /\ <<b, 2>> \in Run /\ stage[<<b, 2>>] = "none"
        BY <1>18, RunsOf DEF Replan
    <2>2. CASE Replans
        <3>1. policy = "switch_strategy" /\ main' = "collect2"
            BY <1>18, <2>2 DEF Replan, Replans
        <3>2. \A b \in Branch : stage'[<<b, 1>>] = "done"
            BY <1>18, <2>1, <2>2 DEF Replan
        <3> QED
            BY <1>18, <3>1, <3>2 DEF Replan
    <2>3. CASE ~Replans
        BY <1>18, <2>1, <2>3 DEF Replan
    <2> QED
        BY <2>2, <2>3
<1>19. ASSUME ReplanRaises PROVE InTurn'
    BY <1>19 DEF ReplanRaises, Fault
<1>20. ASSUME NEW b \in Branch, CollectNext(b) PROVE InTurn'
    BY <1>20, RunsOf, SameRun DEF CollectNext, Goto, Winner
<1>21. ASSUME Collected2 PROVE InTurn'
    BY <1>21, RunsOf, SameRun DEF Collected2
<1>22. ASSUME Expires2 PROVE InTurn'
    BY <1>22 DEF Expires2, Fault
<1>23. ASSUME Finalize PROVE InTurn'
    BY <1>23 DEF Finalize
<1>24. CASE UNCHANGED vars
    BY <1>24 DEF vars
<1> QED
    BY <1>1, <1>2, <1>3, <1>4, <1>5, <1>6, <1>7, <1>8, <1>9, <1>10, <1>11, 
       <1>12, <1>13, <1>14, <1>15, <1>16, <1>17, <1>18, <1>19, <1>20, <1>21, 
       <1>22, <1>23, <1>24
       DEF Next, Progress, Caller, OutsideStep

\* A fault is counted.
LEMMA FaultCounts ==
    ASSUME Functional, Fault
    PROVE  faults' # 0
BY DEF Functional, Fault

\* A branch has one run at a time.
LEMMA PhaseOrder ==
    ASSUME Shape, InTurn, NEW b \in Branch
    PROVE  stage[<<b, 1>>] = "done" \/ stage[<<b, 2>>] = "none"
BY DEF Shape, InTurn

\* Phase 2 keeps what phase 1 has answered.
LEMMA KeptStep ==
    ASSUME TypeOK, Shape, InTurn, Kept, faults' = 0, [Next]_vars
    PROVE  Kept'
<1> Functional
    BY TypedIsFunctional
<1> USE Sizes, NoneIsNothing DEF strategyVars, mainVars, runVars,
       winVars, stopVars, outVars, faultVars,
       Functional, KeptAt, ByThen, Telling, Before
<1>1. ASSUME NEW w \in Run, Start(w) PROVE Kept'
    <2> SUFFICES ASSUME NEW c \in Branch PROVE KeptAt(c)'
        BY DEF Kept
    <2>1. /\ <<c, 1>> \in Run /\ <<c, 1>>[1] = c
          /\ <<c, 2>> \in Run /\ <<c, 2>>[1] = c
          /\ <<c, 1>> # <<c, 2>>
          /\ KeptAt(c)
          /\ stage[<<c, 1>>] = "done" \/ stage[<<c, 2>>] = "none"
        BY RunsOf, PhaseOrder DEF Kept
    <2>2. CASE w = <<c, 1>>
        BY <1>1, <2>1, <2>2 DEF Start, Goto
    <2>3. CASE w = <<c, 2>>
        BY <1>1, <2>1, <2>3 DEF Start, Goto
    <2>4. CASE w # <<c, 1>> /\ w # <<c, 2>>
        <3>1. w[1] # c
            BY <2>4, RunParts, SameRun
        <3> QED
            BY <1>1, <2>1, <2>4, <3>1, RunParts DEF Start, Goto
    <2> QED
        BY <2>2, <2>3, <2>4
<1>2. ASSUME NEW w \in Run, NEW e \in {"answer", "stopped", "error"}, ChildEnds(w, e)
      PROVE Kept'
    <2> SUFFICES ASSUME NEW c \in Branch PROVE KeptAt(c)'
        BY DEF Kept
    <2>1. /\ <<c, 1>> \in Run /\ <<c, 1>>[1] = c
          /\ <<c, 2>> \in Run /\ <<c, 2>>[1] = c
          /\ <<c, 1>> # <<c, 2>>
          /\ KeptAt(c)
          /\ stage[<<c, 1>>] = "done" \/ stage[<<c, 2>>] = "none"
        BY RunsOf, PhaseOrder DEF Kept
    <2>2. CASE w = <<c, 1>>
        BY <1>2, <2>1, <2>2 DEF ChildEnds, Goto
    <2>3. CASE w = <<c, 2>>
        BY <1>2, <2>1, <2>3 DEF ChildEnds, Goto
    <2>4. CASE w # <<c, 1>> /\ w # <<c, 2>>
        <3>1. w[1] # c
            BY <2>4, RunParts, SameRun
        <3> QED
            BY <1>2, <2>1, <2>4, <3>1, RunParts DEF ChildEnds, Goto
    <2> QED
        BY <2>2, <2>3, <2>4
<1>3. ASSUME NEW w \in Run, Store(w) PROVE Kept'
    <2> SUFFICES ASSUME NEW c \in Branch PROVE KeptAt(c)'
        BY DEF Kept
    <2>1. /\ <<c, 1>> \in Run /\ <<c, 1>>[1] = c
          /\ <<c, 2>> \in Run /\ <<c, 2>>[1] = c
          /\ <<c, 1>> # <<c, 2>>
          /\ KeptAt(c)
          /\ stage[<<c, 1>>] = "done" \/ stage[<<c, 2>>] = "none"
        BY RunsOf, PhaseOrder DEF Kept
    <2>2. CASE w = <<c, 1>>
        BY <1>3, <2>1, <2>2, OutcomeStatus DEF Store, Goto, Status
    <2>3. CASE w = <<c, 2>>
        BY <1>3, <2>1, <2>3, OutcomeStatus DEF Store, Goto, Status
    <2>4. CASE w # <<c, 1>> /\ w # <<c, 2>>
        <3>1. w[1] # c
            BY <2>4, RunParts, SameRun
        <3> QED
            BY <1>3, <2>1, <2>4, <3>1, RunParts DEF Store, Goto, Status
    <2> QED
        BY <2>2, <2>3, <2>4
<1>4. ASSUME NEW w \in Run, Register(w) PROVE Kept'
    <2> SUFFICES ASSUME NEW c \in Branch PROVE KeptAt(c)'
        BY DEF Kept
    <2>1. /\ <<c, 1>> \in Run /\ <<c, 1>>[1] = c
          /\ <<c, 2>> \in Run /\ <<c, 2>>[1] = c
          /\ <<c, 1>> # <<c, 2>>
          /\ KeptAt(c)
          /\ stage[<<c, 1>>] = "done" \/ stage[<<c, 2>>] = "none"
        BY RunsOf, PhaseOrder DEF Kept
    <2>2. CASE w = <<c, 1>>
        BY <1>4, <2>1, <2>2 DEF Register, Goto, Winner
    <2>3. CASE w = <<c, 2>>
        BY <1>4, <2>1, <2>3 DEF Register, Goto, Winner
    <2>4. CASE w # <<c, 1>> /\ w # <<c, 2>>
        <3>1. w[1] # c
            BY <2>4, RunParts, SameRun
        <3> QED
            BY <1>4, <2>1, <2>4, <3>1, RunParts DEF Register, Goto, Winner
    <2> QED
        BY <2>2, <2>3, <2>4
<1>5. ASSUME NEW w \in Run, Tell(w) PROVE Kept'
    <2> SUFFICES ASSUME NEW c \in Branch PROVE KeptAt(c)'
        BY DEF Kept
    <2>1. <<c, 1>> \in Run /\ <<c, 2>> \in Run /\ <<c, 1>> # <<c, 2>> /\ KeptAt(c)
        BY RunsOf DEF Kept
    <2>2. PICK s \in {"stopping", "done"} : stage' = [stage EXCEPT ![w] = s]
        BY <1>5, TellMoves
    <2>3. stage[w] = "telling" /\ result' = result /\ got' = got
        BY <1>5, TellMoves
    <2> QED
        BY <2>1, <2>2, <2>3
<1>6. ASSUME NEW w \in Run, TellRaises(w) PROVE Kept'
    BY <1>6, FaultCounts DEF TellRaises
<1>7. ASSUME NEW w \in Run, Stop(w) PROVE Kept'
    BY <1>7 DEF Stop, Kept
<1>8. ASSUME NEW w \in Run, Told(w) PROVE Kept'
    <2> SUFFICES ASSUME NEW c \in Branch PROVE KeptAt(c)'
        BY DEF Kept
    <2>1. /\ <<c, 1>> \in Run /\ <<c, 1>>[1] = c
          /\ <<c, 2>> \in Run /\ <<c, 2>>[1] = c
          /\ <<c, 1>> # <<c, 2>>
          /\ KeptAt(c)
          /\ stage[<<c, 1>>] = "done" \/ stage[<<c, 2>>] = "none"
        BY RunsOf, PhaseOrder DEF Kept
    <2>2. CASE w = <<c, 1>>
        BY <1>8, <2>1, <2>2 DEF Told, Goto
    <2>3. CASE w = <<c, 2>>
        BY <1>8, <2>1, <2>3 DEF Told, Goto
    <2>4. CASE w # <<c, 1>> /\ w # <<c, 2>>
        <3>1. w[1] # c
            BY <2>4, RunParts, SameRun
        <3> QED
            BY <1>8, <2>1, <2>4, <3>1, RunParts DEF Told, Goto
    <2> QED
        BY <2>2, <2>3, <2>4
<1>9. ASSUME NEW b \in Branch, Focus(b) PROVE Kept'
    BY <1>9 DEF Focus, Kept, FromOutside
<1>10. ASSUME Focused PROVE Kept'
    BY <1>10 DEF Focused, Kept
<1>11. ASSUME NEW b \in Branch \cup {None}, StopSignal(b) PROVE Kept'
    BY <1>11 DEF StopSignal, Kept, FromOutside
<1>12. ASSUME StopOutside PROVE Kept'
    BY <1>12 DEF StopOutside, Kept
<1>13. ASSUME ParentCancels PROVE Kept'
    BY <1>13 DEF ParentCancels, Kept, FromOutside
<1>14. ASSUME Collected PROVE Kept'
    BY <1>14 DEF Collected, Kept
<1>15. ASSUME Expires PROVE Kept'
    BY <1>15, FaultCounts DEF Expires
<1>16. ASSUME ExpireNext PROVE Kept'
    BY <1>16 DEF ExpireNext, InTurn
<1>17. ASSUME Shut PROVE Kept'
    <2>1. \A b \in Branch :
              /\ <<b, 1>> \in Run /\ stage[<<b, 1>>] = "done"
              /\ <<b, 2>> \in Run /\ stage[<<b, 2>>] = "none"
        BY <1>17, RunsOf DEF Shut, Shape, InTurn
    <2>2. \A b \in Branch :
              stage'[<<b, 1>>] = stage[<<b, 1>>] /\ stage'[<<b, 2>>] = stage[<<b, 2>>]
        BY <1>17, <2>1 DEF Shut
    <2> QED
        BY <1>17, <2>2 DEF Shut, Kept
<1>18. ASSUME Replan PROVE Kept'
    <2>1. \A b \in Branch :
              /\ <<b, 1>> \in Run /\ stage[<<b, 1>>] = "done" /\ <<b, 1>>[2] = 1
              /\ <<b, 2>> \in Run /\ stage[<<b, 2>>] = "none"
              /\ <<b, 2>>[2] = 2 /\ <<b, 2>>[1] = b
        BY <1>18, RunsOf DEF Replan, Shape, InTurn
    <2>2. \A b \in Branch :
              /\ stage'[<<b, 1>>] = "done"
              /\ \/ stage'[<<b, 2>>] = "none"
                 \/ stage'[<<b, 2>>] = "queued" /\ result[b] # "completed"
        <3>1. CASE Replans
            <4>1. stage' = [w \in Run |-> IF w[2] = 2 /\ w[1] \in Targets
                                            THEN "queued" ELSE stage[w]]
                BY <1>18, <3>1 DEF Replan
            <4>2. \A b \in Branch : b \in Targets => result[b] # "completed"
                BY DEF Targets
            <4> QED
                BY <2>1, <4>1, <4>2
        <3>2. CASE ~Replans
            BY <1>18, <2>1, <3>2 DEF Replan
        <3> QED
            BY <3>1, <3>2
    <2>3. result' = result /\ got' = got
        BY <1>18 DEF Replan
    <2> QED
        BY <2>1, <2>2, <2>3 DEF Kept
<1>19. ASSUME ReplanRaises PROVE Kept'
    BY <1>19, FaultCounts DEF ReplanRaises
<1>20. ASSUME NEW b \in Branch, CollectNext(b) PROVE Kept'
    <2> SUFFICES ASSUME NEW c \in Branch PROVE KeptAt(c)'
        BY DEF Kept
    <2>1. /\ <<c, 1>> \in Run /\ <<c, 2>> \in Run /\ <<b, 2>> \in Run
          /\ <<b, 2>>[2] = 2 /\ <<b, 2>>[1] = b /\ <<c, 1>>[2] = 1 /\ <<c, 2>>[1] = c
          /\ KeptAt(c)
          /\ stage[<<c, 1>>] = "done" \/ stage[<<c, 2>>] = "none"
        BY RunsOf, PhaseOrder DEF Kept
    <2>2. /\ stage[<<b, 2>>] = "done"
          /\ stage' = [stage EXCEPT ![<<b, 2>>] = "collected"]
          /\ result' = [result EXCEPT ![b] = got[<<b, 2>>]]
          /\ got' = got
        BY <1>20 DEF CollectNext, Goto
    <2>3. CASE c = b
        BY <2>1, <2>2, <2>3
    <2>4. CASE c # b
        BY <2>1, <2>2, <2>4
    <2> QED
        BY <2>3, <2>4
<1>21. ASSUME Collected2 PROVE Kept'
    BY <1>21 DEF Collected2, Kept
<1>22. ASSUME Expires2 PROVE Kept'
    BY <1>22, FaultCounts DEF Expires2
<1>23. ASSUME Finalize PROVE Kept'
    BY <1>23 DEF Finalize, Kept
<1>24. CASE UNCHANGED vars
    BY <1>24 DEF vars, Kept
<1> QED
    BY <1>1, <1>2, <1>3, <1>4, <1>5, <1>6, <1>7, <1>8, <1>9, <1>10, <1>11, 
       <1>12, <1>13, <1>14, <1>15, <1>16, <1>17, <1>18, <1>19, <1>20, <1>21, 
       <1>22, <1>23, <1>24
       DEF Next, Progress, Caller, OutsideStep

\* A strategy has one of the three modes.
LEMMA ModeType ==
    ASSUME TypeOK
    PROVE  mode \in {"stagnation", "convergence", "first_success"}
<1>1. <<policy, mode>> \in Strategies
    BY DEF TypeOK
<1>2. <<policy, mode>>[2] \in {"stagnation", "convergence", "first_success"}
    BY <1>1, Pairing
<1> QED
    BY <1>2

\* A run that waits for the lock has its answer in detail_results.
LEMMA WaitingAnswered ==
    ASSUME Functional, Shape, Kept, NEW w \in Run, stage[w] = "waiting"
    PROVE  w[1] \in Ok
<1>1. /\ w[1] \in Branch
      /\ w = <<w[1], 1>> \/ w = <<w[1], 2>>
    BY RunParts, SameRun
<1>2. KeptAt(w[1])
    BY <1>1 DEF Kept
<1>3. got[w] = "completed"
    BY DEF Shape
<1>4. CASE w = <<w[1], 1>>
    <2>1. stage[<<w[1], 1>>] = "waiting"
        BY <1>4
    <2> QED
        BY <1>1, <1>2, <2>1 DEF KeptAt, Ok, With
<1>5. CASE w = <<w[1], 2>>
    <2>1. stage[<<w[1], 2>>] = "waiting" /\ got[<<w[1], 2>>] = "completed"
        BY <1>3, <1>5
    <2> QED
        BY <1>1, <1>2, <2>1 DEF KeptAt, ByThen, Ok, With
<1> QED
    BY <1>1, <1>4, <1>5

\* The first success tells the others, if its policy has a signal and its
\* mode is not stagnation.
LEMMA FirstTells ==
    ASSUME TypeOK, Shape, Kept, Won, NEW w \in Run, Register(w),
           winner = None, mode # "stagnation",
           policy \in {"stop_on_solution", "consensus_reached"}
    PROVE  Tells(w)
<1>1. w[1] \in Ok
    BY TypedIsFunctional, WaitingAnswered DEF Register, Goto
<1>2. Reached
    BY <1>1, OneAnswer, ModeType
<1>3. winner' = w[1] /\ ~consensus
    BY DEF Register, Winner, Won
<1> QED
    BY <1>2, <1>3 DEF Tells

\* A later one does not.
LEMMA LaterSilent ==
    ASSUME TypeOK, Shape, InTurn, Kept, Won, NEW w \in Run, Register(w),
           winner # None
    PROVE  ~Tells(w)
<1> Functional
    BY TypedIsFunctional
<1>1. w[1] \in Ok /\ stage[w] = "waiting" /\ winner' = winner
    BY WaitingAnswered DEF Register, Goto, Winner
<1>2. winner \in Branch /\ winner \in Ok
    BY DEF Functional, Won, Ok, With
<1>3. stage[<<winner, 1>>] # "waiting"
    BY DEF Won, Telling
<1>4. CASE policy = "stop_on_solution" /\ winner' = w[1]
    <2>1. stage[<<winner, 2>>] = "none"
        BY <1>2, <1>4 DEF InTurn
    <2>2. w = <<winner, 1>> \/ w = <<winner, 2>>
        BY <1>1, <1>2, <1>4, RunParts, SameRun
    <2> QED
        BY <1>1, <1>3, <2>1, <2>2
<1>5. CASE policy = "consensus_reached" /\ ~consensus
    <2>1. mode = "stagnation"
        BY <1>5 DEF Won
    <2>2. stage[<<winner, 2>>] = "none"
        BY <1>2, <1>5 DEF InTurn
    <2>3. w # <<winner, 1>> /\ w # <<winner, 2>>
        BY <1>1, <1>3, <2>2
    <2>4. w[1] # winner
        BY <1>2, <2>3, RunParts, SameRun
    <2> QED
        BY <1>1, <1>2, <2>1, <2>4, NotStalled DEF Tells, Reached
<1> QED
    BY <1>4, <1>5 DEF Tells

\* The winner is the first that registered, and has its answer.
LEMMA WonStep ==
    ASSUME TypeOK, Shape, Locked, InTurn, Kept, Won, Undisturbed', [Next]_vars
    PROVE  Won'
<1> Functional
    BY TypedIsFunctional
<1> signals = 0 /\ faults = 0
    BY Counted DEF Undisturbed
<1> USE Sizes, NoneIsNothing DEF strategyVars, mainVars, runVars,
       winVars, stopVars, outVars, faultVars,
       Functional, Won, Telling
<1>1. ASSUME NEW w \in Run, Start(w) PROVE Won'
    <2>1. \A b \in Branch : <<b, 1>> \in Run /\ <<b, 2>> \in Run
        BY RunsOf
    <2>2. result' = result /\ given' = given /\ stage[w] = "queued"
          /\ stage' = [stage EXCEPT ![w] = "running"]
        BY <1>1 DEF Start, Goto
    <2> QED
        BY <1>1, <2>1, <2>2 DEF Start
<1>2. ASSUME NEW w \in Run, NEW e \in {"answer", "stopped", "error"}, ChildEnds(w, e)
      PROVE Won'
    <2>1. \A b \in Branch : <<b, 1>> \in Run /\ <<b, 2>> \in Run
        BY RunsOf
    <2>2. result' = result /\ given' = given /\ stage[w] = "running"
          /\ stage' = [stage EXCEPT ![w] = "returned"]
        BY <1>2 DEF ChildEnds, Goto
    <2> QED
        BY <1>2, <2>1, <2>2 DEF ChildEnds
<1>3. ASSUME NEW w \in Run, Store(w) PROVE Won'
    <2>1. w[1] \in Branch /\ stage[w] = "returned"
        BY <1>3, RunParts DEF Store, Goto
    <2>2. PICK a \in Branch : a = w[1] /\ (w = <<a, 1>> \/ w = <<a, 2>>)
        BY RunParts, SameRun
    <2>3. result[w[1]] # "completed"
        <3>1. KeptAt(a)
            BY <2>2 DEF Kept
        <3>2. stage[<<a, 1>>] = "returned" \/ stage[<<a, 2>>] = "returned"
            BY <2>1, <2>2
        <3>3. result[a] # "completed"
            BY <3>1, <3>2 DEF KeptAt, Before
        <3> QED
            BY <2>2, <3>3
    <2>4. winner' = winner /\ (winner # None => winner # w[1])
        BY <1>3, <2>3 DEF Store
    <2>5. winner # None => <<winner, 1>> # w /\ <<winner, 1>> \in Run
        BY <2>1, <2>2, <2>4, RunsOf DEF Telling
    <2>6. stage' = [stage EXCEPT ![w] =
                      IF Outcome(w) = "completed" THEN "waiting" ELSE "done"]
        BY <1>3 DEF Store, Goto
    <2>7. result' = [result EXCEPT ![w[1]] = Outcome(w)]
        BY <1>3 DEF Store
    <2>8. winner # None => /\ result'[winner] = "completed"
                           /\ stage'[<<winner, 1>>] \in Telling \cup {"done"}
        BY <2>1, <2>4, <2>5, <2>6, <2>7
    <2>9. main # "done"
        <3>1. stage[<<a, 1>>] = "returned" \/ stage[<<a, 2>>] = "returned"
            BY <2>1, <2>2
        <3> QED
            BY <3>1 DEF InTurn
    <2>10. ASSUME NEW b \in Branch, result'[b] = "completed",
                  stage'[<<b, 1>>] # "waiting", stage'[<<b, 2>>] # "waiting"
           PROVE  winner # None
        <3>1. b # w[1]
            BY <2>1, <2>2, <2>6, <2>7, <2>10
        <3>2. <<b, 1>> # w /\ <<b, 2>> # w /\ <<b, 1>> \in Run /\ <<b, 2>> \in Run
            BY <2>1, <3>1, RunsOf
        <3> QED
            BY <2>1, <2>6, <2>7, <2>10, <3>1, <3>2
    <2> QED
        BY <1>3, <2>4, <2>8, <2>9, <2>10 DEF Store
<1>4. ASSUME NEW w \in Run, Register(w) PROVE Won'
    <2>1. /\ stage[w] = "waiting" /\ result' = result /\ main' = main
          /\ given' = given
          /\ stage' = [stage EXCEPT ![w] = IF Tells(w) THEN "telling" ELSE "done"]
        BY <1>4 DEF Register, Goto
    <2>2. w[1] \in Branch /\ <<w[1], 1>> \in Run /\ result[w[1]] = "completed"
        BY <2>1, WaitingAnswered, RunParts, RunsOf DEF Ok, With
    <2>3. stage[<<w[1], 1>>] = "waiting" \/ stage[<<w[1], 1>>] = "done"
        BY <2>1, <2>2, RunParts, SameRun, PhaseOrder
    <2>4. CASE winner = None
        <3>1. winner' = w[1] /\ winner' # None
            BY <1>4, <2>2, <2>4, Numbers DEF Register, Winner
        <3>2. stage'[<<w[1], 1>>] \in Telling \cup {"done"}
            <4>1. CASE w = <<w[1], 1>>
                BY <2>1, <2>2, <4>1
            <4>2. CASE w # <<w[1], 1>>
                <5>1. w = <<w[1], 2>> /\ stage[<<w[1], 2>>] # "none"
                    BY <2>1, <2>2, <4>2, RunParts, SameRun
                <5> QED
                    BY <2>1, <2>2, <4>2, <5>1, PhaseOrder
            <4> QED
                BY <4>1, <4>2
        <3>3. (policy = "consensus_reached" /\ mode # "stagnation") => consensus'
            BY <1>4, <2>4, FirstTells DEF Register
        <3> QED
            BY <1>4, <2>1, <2>2, <3>1, <3>2, <3>3 DEF Register
    <2>5. CASE winner # None
        <3>1. winner' = winner /\ winner \in Branch /\ <<winner, 1>> \in Run
            BY <1>4, <2>5, RunsOf DEF Register, Winner
        <3>2. w # <<winner, 1>>
            BY <2>1, <2>5
        <3> QED
            BY <1>4, <2>1, <2>5, <3>1, <3>2 DEF Register
    <2> QED
        BY <2>4, <2>5
<1>5. ASSUME NEW w \in Run, Tell(w) PROVE Won'
    <2>1. PICK s \in {"stopping", "done"} : stage' = [stage EXCEPT ![w] = s]
        BY <1>5, TellMoves
    <2>2. stage[w] = "telling" /\ UNCHANGED <<main, given, result>>
        BY <1>5, TellMoves
    <2>3. lock' = lock \/ lock' = None
        BY <1>5 DEF Tell
    <2>4. winner' = winner /\ consensus' = consensus /\ UNCHANGED <<outVars, strategyVars>>
        BY <1>5 DEF Tell
    <2> QED
        BY <2>1, <2>2, <2>3, <2>4, RunsOf
<1>6. ASSUME NEW w \in Run, TellRaises(w) PROVE Won'
    BY <1>6, FaultCounts DEF TellRaises, Undisturbed
<1>7. ASSUME NEW w \in Run, Stop(w) PROVE Won'
    BY <1>7 DEF Stop, StopNext
<1>8. ASSUME NEW w \in Run, Told(w) PROVE Won'
    <2>1. stage[w] = "stopping" /\ stage' = [stage EXCEPT ![w] = "done"]
        BY <1>8 DEF Told, Goto
    <2> QED
        BY <1>8, <2>1, RunsOf DEF Told
<1>9. ASSUME NEW b \in Branch, Focus(b) PROVE Won'
    BY <1>9 DEF Focus, FromOutside, Undisturbed
<1>10. ASSUME Focused PROVE Won'
    BY <1>10 DEF Focused
<1>11. ASSUME NEW b \in Branch \cup {None}, StopSignal(b) PROVE Won'
    BY <1>11 DEF StopSignal, FromOutside, Undisturbed
<1>12. ASSUME StopOutside PROVE Won'
    BY <1>12 DEF StopOutside, StopNext
<1>13. ASSUME ParentCancels PROVE Won'
    BY <1>13 DEF ParentCancels, FromOutside, Undisturbed
<1>14. ASSUME Collected PROVE Won'
    BY <1>14 DEF Collected
<1>15. ASSUME Expires PROVE Won'
    BY <1>15, FaultCounts DEF Expires, Undisturbed
<1>16. ASSUME ExpireNext PROVE Won'
    BY <1>16 DEF ExpireNext, InTurn
<1>17. ASSUME Shut PROVE Won'
    <2>1. \A b \in Branch :
              /\ <<b, 1>> \in Run /\ stage[<<b, 1>>] = "done"
              /\ <<b, 2>> \in Run /\ stage[<<b, 2>>] = "none"
        BY <1>17, RunsOf DEF Shut, Shape, InTurn
    <2>2. \A b \in Branch :
              stage'[<<b, 1>>] = stage[<<b, 1>>] /\ stage'[<<b, 2>>] = stage[<<b, 2>>]
        BY <1>17, <2>1 DEF Shut
    <2> QED
        BY <1>17, <2>2 DEF Shut
<1>18. ASSUME Replan PROVE Won'
    <2>1. \A b \in Branch :
              /\ <<b, 1>> \in Run /\ stage[<<b, 1>>] = "done" /\ <<b, 1>>[2] = 1
              /\ <<b, 2>> \in Run /\ stage[<<b, 2>>] = "none"
        BY <1>18, RunsOf DEF Replan, Shape, InTurn
    <2>2. \A b \in Branch : stage'[<<b, 1>>] = "done"
        <3>1. \A w \in Run : w[2] = 1 => stage'[w] = stage[w]
            BY <1>18 DEF Replan
        <3> QED
            BY <2>1, <3>1
    <2>3. UNCHANGED <<result, winner, consensus, lock, outVars, strategyVars>>
          /\ main' # "done"
        BY <1>18 DEF Replan
    <2> QED
        BY <2>1, <2>2, <2>3
<1>19. ASSUME ReplanRaises PROVE Won'
    BY <1>19, FaultCounts DEF ReplanRaises, Undisturbed
<1>20. ASSUME NEW b \in Branch, CollectNext(b) PROVE Won'
    <2>1. /\ <<b, 2>> \in Run /\ stage[<<b, 2>>] = "done" /\ KeptAt(b)
          /\ stage[<<b, 1>>] = "done"
        BY <1>20, RunsOf, PhaseOrder DEF CollectNext, Goto, Kept
    <2>2. /\ main = "collect2" /\ main' = main
          /\ stage' = [stage EXCEPT ![<<b, 2>>] = "collected"]
          /\ result' = [result EXCEPT ![b] = got[<<b, 2>>]]
          /\ UNCHANGED <<lock, consensus, outVars, strategyVars>>
        BY <1>20 DEF CollectNext, Goto
    <2>3. \A c \in Branch : stage'[<<c, 1>>] = stage[<<c, 1>>]
        BY <2>1, <2>2, RunsOf
    <2>4. policy = "switch_strategy"
        BY <2>1 DEF InTurn
    <2>5. CASE winner = None /\ got[<<b, 2>>] = "completed"
        <3>1. winner' = b /\ b # None
            BY <1>20, <2>5, Numbers DEF CollectNext, Winner
        <3>2. result'[b] = "completed"
            BY <2>2, <2>5
        <3>3. stage'[<<b, 1>>] = "done"
            BY <2>1, <2>3
        <3> QED
            BY <2>2, <2>4, <3>1, <3>2, <3>3
    <2>6. CASE winner # None
        <3>1. winner' = winner /\ winner \in Branch
            BY <1>20, <2>6 DEF CollectNext, Winner
        <3>2. result'[winner] = "completed"
            <4>1. CASE winner = b
                BY <2>1, <2>2, <2>6, <4>1 DEF KeptAt
            <4>2. CASE winner # b
                BY <2>2, <2>6, <3>1, <4>2
            <4> QED
                BY <4>1, <4>2
        <3> QED
            BY <2>2, <2>3, <2>4, <2>6, <3>1, <3>2
    <2>7. CASE winner = None /\ got[<<b, 2>>] # "completed"
        <3>1. winner' = winner
            BY <1>20, <2>7 DEF CollectNext
        <3>2. \A c \in Branch : result'[c] = "completed" => result[c] = "completed" /\ c # b
            BY <2>2, <2>7
        <3>3. \A c \in Branch : c # b => stage'[<<c, 2>>] = stage[<<c, 2>>]
            BY <2>2, RunsOf
        <3> QED
            BY <2>2, <2>3, <2>7, <3>1, <3>2, <3>3
    <2> QED
        BY <2>5, <2>6, <2>7
<1>21. ASSUME Collected2 PROVE Won'
    BY <1>21 DEF Collected2
<1>22. ASSUME Expires2 PROVE Won'
    BY <1>22, FaultCounts DEF Expires2, Undisturbed
<1>23. ASSUME Finalize PROVE Won'
    BY <1>23 DEF Finalize
<1>24. CASE UNCHANGED vars
    BY <1>24 DEF vars
<1> QED
    BY <1>1, <1>2, <1>3, <1>4, <1>5, <1>6, <1>7, <1>8, <1>9, <1>10, <1>11, 
       <1>12, <1>13, <1>14, <1>15, <1>16, <1>17, <1>18, <1>19, <1>20, <1>21, 
       <1>22, <1>23, <1>24
       DEF Next, Progress, Caller, OutsideStep

\* The winner's run stops all the others, and itself never.
LEMMA StoppingStep ==
    ASSUME TypeOK, Shape, Locked, InTurn, Kept, Won, Stopping,
           Undisturbed', [Next]_vars
    PROVE  Stopping'
<1> Functional
    BY TypedIsFunctional
<1> signals = 0 /\ faults = 0
    BY Counted DEF Undisturbed
<1> /\ at \in [Publisher -> 0 .. N] /\ noting \in [Publisher -> BOOLEAN]
    /\ Run \subseteq Publisher
    BY DEF TypeOK, Publisher
<1> USE Sizes, NoneIsNothing DEF strategyVars, mainVars, runVars,
       winVars, stopVars, outVars, faultVars,
       Functional, Stopping, Telling
<1>1. ASSUME NEW w \in Run, Start(w) PROVE Stopping'
    <2>1. stage[w] = "queued" /\ stage' = [stage EXCEPT ![w] = "running"]
        BY <1>1 DEF Start, Goto
    <2>2. \A v \in Run : v # w => stage'[v] = stage[v]
        BY <2>1
    <2>3. stage'[w] \notin Telling
        BY <2>1
    <2>4. winner # None => <<winner, 1>> \in Run
                           /\ (<<winner, 1>> = w => stage'[w] # "done")
        BY <2>1, RunsOf DEF Won
    <2>5. UNCHANGED <<strategyVars, winVars, at, noting, set>>
        BY <1>1 DEF Start, Won
    <2> QED
        BY <2>1, <2>2, <2>3, <2>4, <2>5
<1>2. ASSUME NEW w \in Run, NEW e \in {"answer", "stopped", "error"}, ChildEnds(w, e)
      PROVE Stopping'
    <2>1. stage[w] = "running" /\ stage' = [stage EXCEPT ![w] = "returned"]
        BY <1>2 DEF ChildEnds, Goto
    <2>2. \A v \in Run : v # w => stage'[v] = stage[v]
        BY <2>1
    <2>3. stage'[w] \notin Telling
        BY <2>1
    <2>4. winner # None => <<winner, 1>> \in Run
                           /\ (<<winner, 1>> = w => stage'[w] # "done")
        BY <2>1, RunsOf DEF Won
    <2>5. UNCHANGED <<strategyVars, winVars, at, noting, set>>
        BY <1>2 DEF ChildEnds
    <2> QED
        BY <2>1, <2>2, <2>3, <2>4, <2>5
<1>3. ASSUME NEW w \in Run, Store(w) PROVE Stopping'
    <2>1. /\ stage[w] = "returned"
          /\ stage' = [stage EXCEPT ![w] =
                         IF Outcome(w) = "completed" THEN "waiting" ELSE "done"]
        BY <1>3 DEF Store, Goto
    <2>2. \A v \in Run : v # w => stage'[v] = stage[v]
        BY <2>1
    <2>3. stage'[w] \notin Telling
        BY <2>1
    <2>4. winner # None => <<winner, 1>> \in Run /\ <<winner, 1>> # w
        BY <2>1, RunsOf DEF Won
    <2>5. UNCHANGED <<strategyVars, winVars, at, noting, set>>
        BY <1>3 DEF Store
    <2> QED
        BY <2>1, <2>2, <2>3, <2>4, <2>5
<1>4. ASSUME NEW w \in Run, Register(w) PROVE Stopping'
    <2>1. /\ stage[w] = "waiting" /\ lock = None /\ UNCHANGED <<at, noting, set>>
          /\ stage' = [stage EXCEPT ![w] = IF Tells(w) THEN "telling" ELSE "done"]
          /\ lock' = IF Tells(w) THEN w ELSE None
          /\ policy' = policy /\ mode' = mode
        BY <1>4 DEF Register, Goto
    <2>2. \A v \in Run : v # w => stage'[v] = stage[v] /\ stage[v] \notin Telling
        BY <2>1 DEF Locked
    <2>3. \A v \in Run : ~noting[v] /\ stage'[v] # "stopping"
        BY <2>1, <2>2
    <2>4. CASE winner = None
        <3>1. winner' = w[1] /\ w[1] \in Branch /\ w[1] # None /\ set' = {}
            BY <1>4, <2>1, <2>4, RunParts, Numbers DEF Register, Winner
        <3>2. Tells(w) => policy \in {"stop_on_solution", "consensus_reached"}
            BY DEF Tells
        <3>3. Tells(w) => w = <<w[1], 1>>
            <4>1. CASE w = <<w[1], 1>>
                BY <4>1
            <4>2. CASE w # <<w[1], 1>>
                <5>1. w = <<w[1], 2>>
                    BY <4>2, RunParts, SameRun
                <5>2. stage[<<w[1], 2>>] # "none"
                    BY <2>1, <5>1
                <5> QED
                    BY <3>1, <3>2, <5>2 DEF InTurn
            <4> QED
                BY <4>1, <4>2
        <3>4. (/\ policy \in {"stop_on_solution", "consensus_reached"}
               /\ mode # "stagnation") => Tells(w)
            BY <1>4, <2>4, FirstTells
        <3>5. Tells(w) => stage'[<<winner', 1>>] = "telling"
            BY <2>1, <3>1, <3>3
        <3> QED
            BY <2>1, <2>2, <2>3, <3>1, <3>2, <3>3, <3>4, <3>5
    <2>5. CASE winner # None
        <3>1. winner' = winner /\ winner \in Branch /\ <<winner, 1>> \in Run
            BY <1>4, <2>5, RunsOf DEF Register, Winner
        <3>2. w # <<winner, 1>>
            BY <2>1, <2>5 DEF Won
        <3>3. lock' = None /\ stage'[w] = "done"
            BY <1>4, <2>1, <2>5, LaterSilent
        <3> QED
            BY <2>1, <2>2, <2>3, <2>5, <3>1, <3>2, <3>3
    <2> QED
        BY <2>4, <2>5
<1>5. ASSUME NEW w \in Run, Tell(w) PROVE Stopping'
    <2>1. stage[w] = "telling" /\ UNCHANGED <<strategyVars, winner, set, noting>>
        BY <1>5, TellMoves DEF Tell
    <2>2. winner # None /\ w = <<winner, 1>> /\ winner \in Branch /\ w[1] = winner
        BY <2>1, RunsOf
    <2>3. main = "collect" /\ observing
        BY <2>1, <2>2 DEF InTurn
    <2>4. /\ stage' = [stage EXCEPT ![w] = "stopping"]
          /\ at' = [at EXCEPT ![w] = NextStop(0, winner)]
          /\ lock' = lock
        BY <1>5, <2>2, <2>3 DEF Tell, Goto
    <2>5. 0 \in 0 .. N
        OBVIOUS
    <2>6. /\ NextStop(0, winner) # winner
          /\ \A b \in Branch : b < NextStop(0, winner) => b = winner
        BY <2>2, <2>5, NextStopType, Numbers
    <2>7. at'[w] = NextStop(0, winner) /\ stage'[w] = "stopping" /\ ~noting[w]
        BY <2>1, <2>4
    <2>8. \A v \in Run : v # w => stage'[v] = stage[v] /\ stage[v] \notin Telling
        BY <2>2, <2>4
    <2> QED
        BY <2>1, <2>2, <2>4, <2>6, <2>7, <2>8
<1>6. ASSUME NEW w \in Run, TellRaises(w) PROVE Stopping'
    BY <1>6, FaultCounts DEF TellRaises, Undisturbed
<1>7. ASSUME NEW w \in Run, Stop(w) PROVE Stopping'
    <2>1. stage[w] = "stopping" /\ StopNext(w, w[1])
          /\ UNCHANGED <<strategyVars, winner, lock, stage>>
        BY <1>7 DEF Stop
    <2>2. winner # None /\ w = <<winner, 1>> /\ winner \in Branch /\ w[1] = winner
        BY <2>1, RunsOf
    <2>3. at[w] \in Branch /\ at[w] \in 0 .. N /\ at[w] + 1 \in 0 .. N
        BY <2>1, Numbers DEF StopNext
    <2>4. lock = w
        BY <2>1 DEF Locked
    <2>5. stage[<<at[w], 2>>] = "none"
        BY <2>2, <2>3, <2>4 DEF InTurn
    <2>6. Current(at[w]) = <<at[w], 1>>
        BY <2>5 DEF Current
    <2>7. <<at[w], 1>> # <<winner, 1>>
        BY <2>1, <2>2
    <2>8. \A v \in Run : v # w => stage[v] \notin Telling
        BY <2>2
    <2>9. CASE noting[w]
        <3>1. set' = set /\ at' = [at EXCEPT ![w] = NextStop(at[w] + 1, winner)]
              /\ noting' = [noting EXCEPT ![w] = FALSE]
            BY <2>1, <2>2, <2>9 DEF StopNext
        <3>2. /\ NextStop(at[w] + 1, winner) # winner
              /\ \A b \in Branch : at[w] + 1 <= b /\ b < NextStop(at[w] + 1, winner)
                                  => b = winner
            BY <2>2, <2>3, NextStopType
        <3>3. <<at[w], 1>> \in set /\ at[w] < N
            BY <2>1, <2>9
        <3>4. \A b \in Branch : b < NextStop(at[w] + 1, winner) /\ b # winner
                                => <<b, 1>> \in set
            <4> SUFFICES ASSUME NEW b \in Branch, b # winner,
                                b < NextStop(at[w] + 1, winner)
                         PROVE  <<b, 1>> \in set
                OBVIOUS
            <4>1. b < at[w] \/ b = at[w]
                BY <2>3, <3>2, Numbers
            <4> QED
                BY <2>1, <2>2, <3>3, <4>1
        <3>5. at'[w] = NextStop(at[w] + 1, winner) /\ ~noting'[w]
            BY <3>1
        <3>6. \A v \in Run : noting'[v] => noting[v]
            BY <3>1
        <3> QED
            BY <2>1, <2>2, <2>8, <3>1, <3>2, <3>4, <3>5, <3>6
    <2>10. CASE ~noting[w]
        <3>1. set' = set \cup {<<at[w], 1>>} /\ at' = at
              /\ noting' = [noting EXCEPT ![w] = TRUE]
            BY <2>1, <2>6, <2>10 DEF StopNext
        <3>2. \A v \in Run : noting'[v] => noting[v] \/ v = w
            BY <3>1
        <3>3. at[w] < N
            BY <2>3, Numbers
        <3> QED
            BY <2>1, <2>2, <2>7, <2>8, <3>1, <3>2, <3>3
    <2> QED
        BY <2>9, <2>10
<1>8. ASSUME NEW w \in Run, Told(w) PROVE Stopping'
    <2>1. /\ stage[w] = "stopping" /\ at[w] = N /\ lock' = None
          /\ stage' = [stage EXCEPT ![w] = "done"]
          /\ UNCHANGED <<strategyVars, winner, set, at, noting>>
        BY <1>8 DEF Told, Goto
    <2>2. winner # None /\ w = <<winner, 1>> /\ w[1] = winner
        BY <2>1, RunsOf
    <2>3. \A b \in Branch : b # winner => <<b, 1>> \in set
        BY <2>1, <2>2, Numbers
    <2>4. ~noting[w]
        <3>1. noting[w] => at[w] < N
            BY <2>1
        <3>2. ~(at[w] < N)
            BY <2>1, Sizes
        <3> QED
            BY <3>1, <3>2
    <2>5. \A v \in Run : v # w => stage'[v] = stage[v] /\ stage[v] \notin Telling
        BY <2>1, <2>2
    <2>6. stage'[w] = "done"
        BY <2>1
    <2> QED
        BY <2>1, <2>2, <2>3, <2>4, <2>5, <2>6
<1>9. ASSUME NEW b \in Branch, Focus(b) PROVE Stopping'
    BY <1>9 DEF Focus, FromOutside, Undisturbed
<1>10. ASSUME Focused PROVE Stopping'
    BY <1>10 DEF Focused, Won
<1>11. ASSUME NEW b \in Branch \cup {None}, StopSignal(b) PROVE Stopping'
    BY <1>11 DEF StopSignal, FromOutside, Undisturbed
<1>12. ASSUME StopOutside PROVE Stopping'
    BY <1>12 DEF StopOutside, Won
<1>13. ASSUME ParentCancels PROVE Stopping'
    BY <1>13 DEF ParentCancels, FromOutside, Undisturbed
<1>14. ASSUME Collected PROVE Stopping'
    BY <1>14 DEF Collected
<1>15. ASSUME Expires PROVE Stopping'
    BY <1>15, FaultCounts DEF Expires, Undisturbed
<1>16. ASSUME ExpireNext PROVE Stopping'
    BY <1>16 DEF ExpireNext, InTurn
<1>17. ASSUME Shut PROVE Stopping'
    <2>1. \A v \in Run : stage[v] \in {"none", "done"}
        <3>1. \A b \in Branch : stage[<<b, 1>>] = "done" /\ stage[<<b, 2>>] = "none"
            BY <1>17 DEF Shut, Shape, InTurn
        <3> SUFFICES ASSUME NEW v \in Run PROVE stage[v] \in {"none", "done"}
            OBVIOUS
        <3>2. PICK a \in Branch : v = <<a, 1>> \/ v = <<a, 2>>
            BY RunParts, SameRun
        <3> QED
            BY <3>1, <3>2
    <2>2. \A v \in Run : stage'[v] \in {"none", "done", "queued"}
                          /\ (stage'[v] = "done" => stage[v] = "done")
        BY <1>17, <2>1 DEF Shut
    <2>3. UNCHANGED <<strategyVars, winVars, set, at, noting>>
        BY <1>17 DEF Shut
    <2>4. winner # None => <<winner, 1>> \in Run
        BY RunsOf
    <2> QED
        BY <2>1, <2>2, <2>3, <2>4
<1>18. ASSUME Replan PROVE Stopping'
    <2>1. \A v \in Run : stage[v] \in {"none", "done"}
        <3>1. \A b \in Branch : stage[<<b, 1>>] = "done" /\ stage[<<b, 2>>] = "none"
            BY <1>18 DEF Replan, Shape, InTurn
        <3> SUFFICES ASSUME NEW v \in Run PROVE stage[v] \in {"none", "done"}
            OBVIOUS
        <3>2. PICK a \in Branch : v = <<a, 1>> \/ v = <<a, 2>>
            BY RunParts, SameRun
        <3> QED
            BY <3>1, <3>2
    <2>2. \A v \in Run : stage'[v] \in {"none", "done", "queued"}
                          /\ (stage'[v] = "done" => stage[v] = "done")
        <3>1. CASE Replans
            BY <1>18, <2>1, <3>1 DEF Replan
        <3>2. CASE ~Replans
            BY <1>18, <2>1, <3>2 DEF Replan
        <3> QED
            BY <3>1, <3>2
    <2>3. UNCHANGED <<strategyVars, winVars, set, at, noting>>
        BY <1>18 DEF Replan
    <2>4. winner # None => <<winner, 1>> \in Run
        BY RunsOf
    <2> QED
        BY <2>1, <2>2, <2>3, <2>4
<1>19. ASSUME ReplanRaises PROVE Stopping'
    BY <1>19, FaultCounts DEF ReplanRaises, Undisturbed
<1>20. ASSUME NEW b \in Branch, CollectNext(b) PROVE Stopping'
    <2>1. /\ <<b, 2>> \in Run /\ stage[<<b, 2>>] = "done"
          /\ stage' = [stage EXCEPT ![<<b, 2>>] = "collected"]
          /\ UNCHANGED <<strategyVars, lock, set, at, noting>>
        BY <1>20, RunsOf DEF CollectNext, Goto
    <2>2. policy = "switch_strategy"
        BY <2>1 DEF InTurn
    <2>3. \A v \in Run : stage'[v] \in Telling <=> stage[v] \in Telling
        BY <2>1
    <2>4. \A v \in Run : stage[v] \notin Telling
        BY <2>2 DEF Locked
    <2>5. winner # None => winner' = winner
        BY <1>20 DEF CollectNext, Winner
    <2>6. \A v \in Run : ~noting[v]
        BY <2>4
    <2>7. set = {}  \/ winner # None
        OBVIOUS
    <2> QED
        BY <2>1, <2>2, <2>3, <2>4, <2>5, <2>6, <2>7
<1>21. ASSUME Collected2 PROVE Stopping'
    BY <1>21 DEF Collected2
<1>22. ASSUME Expires2 PROVE Stopping'
    BY <1>22, FaultCounts DEF Expires2, Undisturbed
<1>23. ASSUME Finalize PROVE Stopping'
    BY <1>23 DEF Finalize
<1>24. CASE UNCHANGED vars
    BY <1>24 DEF vars
<1> QED
    BY <1>1, <1>2, <1>3, <1>4, <1>5, <1>6, <1>7, <1>8, <1>9, <1>10, <1>11, 
       <1>12, <1>13, <1>14, <1>15, <1>16, <1>17, <1>18, <1>19, <1>20, <1>21, 
       <1>22, <1>23, <1>24
       DEF Next, Progress, Caller, OutsideStep

\* Every step preserves the invariant.
LEMMA IInvStep == IInv /\ [Next]_vars => IInv'
<1> SUFFICES ASSUME IInv, [Next]_vars PROVE IInv'
    OBVIOUS
<1> USE DEF IInv
<1>1. TypeOK' /\ Shape' /\ Locked' /\ Answered'
    BY TypeStep, ShapeStep, LockedStep, AnsweredStep
<1>2. ASSUME faults' = 0 PROVE InTurn' /\ Kept'
    BY <1>2, Counted, InTurnStep, KeptStep
<1>3. ASSUME Undisturbed' PROVE Won' /\ Stopping'
    <2>1. Undisturbed /\ faults = 0
        BY <1>3, Counted DEF Undisturbed
    <2> QED
        BY <1>3, <2>1, WonStep, StoppingStep
<1> QED
    BY <1>1, <1>2, <1>3

\* The invariant holds of every state of every batch.
LEMMA Invariance == Spec => []IInv
<1>1. Init => IInv
    BY InitIInv
<1>2. IInv /\ [Next]_vars => IInv'
    BY IInvStep
<1> QED
    BY <1>1, <1>2, PTL DEF Spec

-----------------------------------------------------------------------------
(* What follows                                                            *)

\* Every reachable state is well formed.
THEOREM TypeCorrect == Spec => []TypeOK
<1>1. IInv => TypeOK
    BY DEF IInv
<1> QED
    BY <1>1, Invariance, PTL

\* winner_lock is held across steps by the one run that tells the others, and
\* by nobody else.
THEOREM LockDiscipline == Spec => []Locked
<1>1. IInv => Locked
    BY DEF IInv
<1> QED
    BY <1>1, Invariance, PTL

\* A call that returns has a result for every task, however the time ran out,
\* and names a winner that answered if any task was answered.
THEOREM Reporting == Spec => []ResultsTell
<1>1. IInv => ResultsTell
    <2> SUFFICES ASSUME IInv, main = "done" PROVE
            /\ \A b \in Branch : given[b] # "none"
            /\ Undisturbed =>
                 IF winner = None THEN \A b \in Branch : given[b] # "completed"
                 ELSE given[winner] = "completed"
        BY DEF ResultsTell
    <2>1. \A b \in Branch : given[b] # "none"
        BY DEF IInv, Answered
    <2>2. ASSUME Undisturbed
          PROVE  IF winner = None THEN \A b \in Branch : given[b] # "completed"
                 ELSE given[winner] = "completed"
        <3>1. Won /\ InTurn
            BY <2>2 DEF IInv, Undisturbed
        <3>2. \A b \in Branch : stage[<<b, 1>>] # "waiting" /\ stage[<<b, 2>>] # "waiting"
            BY <3>1 DEF InTurn
        <3> QED
            BY <3>1, <3>2 DEF Won
    <2> QED
        BY <2>1, <2>2
<1> QED
    BY <1>1, Invariance, PTL

\* The winner's signal never stops the winner, and under stop_on_solution it
\* stops every other branch, for any number of branches that succeed in any
\* order.
THEOREM LosersOnly == Spec => []StopsLosersOnly
<1>1. IInv => StopsLosersOnly
    BY DEF IInv, StopsLosersOnly, Stopping
<1> QED
    BY <1>1, Invariance, PTL

\* As long as no wait runs out and the bus refuses no channel, an answer is
\* never replaced by a failure.
THEOREM AnswersStay == Spec => AnswersKept
<1> DEFINE Stays == \A b \in Branch :
        (result[b] = "completed" /\ faults' = 0) => result'[b] = "completed"
<1>1. IInv /\ IInv' /\ [Next]_vars => [Stays]_vars
    <2> SUFFICES ASSUME IInv, [Next]_vars,
                        NEW c \in Branch, result[c] = "completed", faults' = 0
                 PROVE  result'[c] = "completed"
        OBVIOUS
    <2>1. Functional /\ Shape /\ InTurn /\ KeptAt(c) /\ faults = 0
        BY Counted, TypedIsFunctional DEF IInv, Kept
    <2>2. ASSUME NEW w \in Run, Store(w) PROVE result'[c] = "completed"
        <3>1. stage[w] = "returned" /\ result' = [result EXCEPT ![w[1]] = Outcome(w)]
            BY <2>2 DEF Store, Goto
        <3>2. w # <<c, 1>> /\ w # <<c, 2>>
            BY <2>1, <3>1 DEF KeptAt, Before
        <3>3. w[1] # c
            BY <3>2, RunParts, SameRun
        <3> QED
            BY <2>1, <3>1, <3>3 DEF Functional
    <2>3. ASSUME NEW w \in Run, TellRaises(w) PROVE result'[c] = "completed"
        BY <2>1, <2>3, FaultCounts DEF TellRaises
    <2>4. ASSUME ExpireNext PROVE result'[c] = "completed"
        BY <2>1, <2>4 DEF ExpireNext, InTurn
    <2>5. ASSUME NEW b \in Branch, CollectNext(b) PROVE result'[c] = "completed"
        <3>1. result' = [result EXCEPT ![b] = got[<<b, 2>>]] /\ stage[<<b, 2>>] = "done"
            BY <2>5 DEF CollectNext, Goto
        <3> QED
            BY <2>1, <3>1 DEF KeptAt, Functional
    <2>6. \/ result' = result
          \/ \E w \in Run : Store(w) \/ TellRaises(w)
          \/ ExpireNext
          \/ \E b \in Branch : CollectNext(b)
        <3> USE DEF runVars, mainVars
        <3>1. ASSUME NEW w \in Run, Start(w) \/ Progress(w),
                     ~Store(w), ~TellRaises(w)
              PROVE  result' = result
            BY <3>1 DEF Progress, Start, ChildEnds, Register, Tell, Stop, Told
        <3>2. ASSUME NEW b \in Branch \cup {None}, Focus(b) \/ StopSignal(b)
              PROVE  result' = result
            BY <3>2 DEF Focus, StopSignal
        <3>3. ASSUME ParentCancels \/ OutsideStep PROVE result' = result
            BY <3>3 DEF ParentCancels, OutsideStep, Focused, StopOutside
        <3>4. ASSUME Caller, ~ExpireNext, ~\E b \in Branch : CollectNext(b)
              PROVE  result' = result
            BY <3>4 DEF Caller, Collected, Expires, Shut, Replan, ReplanRaises,
                        Collected2, Expires2, Finalize
        <3>5. CASE UNCHANGED vars
            BY <3>5 DEF vars
        <3> QED
            BY <3>1, <3>2, <3>3, <3>4, <3>5 DEF Next
    <2> QED
        BY <2>1, <2>2, <2>3, <2>4, <2>5, <2>6
<1>2. Spec => [][Stays]_vars
    BY <1>1, Invariance, PTL DEF Spec
<1> QED
    BY <1>2 DEF AnswersKept
=============================================================================
