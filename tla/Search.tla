------------------------------- MODULE Search -------------------------------
(***************************************************************************)
(* The exploration before a completion: _run_mcts_preamble of the engine,  *)
(* evolutionary_branch_search, MCTSOrchestrator.run on a thread pool and   *)
(* the ProgramArchive (rlm/core/orchestration/mcts.py).                    *)
(*                                                                         *)
(* A branch has a sandbox of its own, but while its program is executed    *)
(* (execute_code of rlm/environments/local_repl.py) sys.stdout, sys.stderr *)
(* and the working directory are those of the process, changed under a     *)
(* lock of its own instance: the steps of the branches that touch them     *)
(* interleave.  The rest of a branch is a function of its script, the      *)
(* little a run can see of the code the model wrote.  Of the two           *)
(* implementations of the scores, Rust and Python, this is the Python one. *)
(* Not here: what the programs do with the tools of the session that the   *)
(* branches share, and the REPLs of other sessions.                        *)
(***************************************************************************)
EXTENDS Integers, Sequences, FiniteSets, SequencesExt, FiniteSetsExt

CONSTANTS
    Branches,  \* branches of a round, and threads of the pool
    Scripts,   \* what can be written: whether it raises, the score of its
               \* output, its score in each evaluation stage, its niche
    Blends,    \* bound: those that a mixed output may score like
    MinScore,  \* min_score of each stage
    Weight,    \* and its weight
    MaxDepth,  \* max_depth of the orchestrator
    Rounds,    \* rounds of a search
    Elite,     \* elite_count
    MaxSize,   \* max_size of the archive
    Calls,     \* bound: completions that search for the same prompt
    None

Branch == 1..Branches
Failed == -999
Perfect == MaxDepth * 4

ASSUME Sizes ==
    /\ {Branches, MaxDepth, Rounds, Elite, MaxSize} \subseteq Nat \ {0}
    /\ Calls \in Nat /\ Blends \subseteq Scripts
    /\ \A s \in Scripts : DOMAIN s.stages = DOMAIN Weight
    /\ DOMAIN MinScore = DOMAIN Weight

Niche == {s.niche : s \in Scripts}
Results == [round : Nat, branch : Branch, niche : Niche, total : Int]
Entries == [niche : Niche, total : Int]

ASSUME NoneApart == None \notin Scripts \cup Int \cup Results

VARIABLES
    phase,    \* where the thread of the completion is
    script,   \* current_variants
    fut,      \* the state of each branch's future, and where it runs
    taken,    \* how many the pool has taken off its queue
    out,      \* whose buffer sys.stdout is: 0 for the process's own
    cwd,      \* whose directory the process is in: 0 for its own
    kept,     \* what each branch has found of the two, to put it back
    buf,      \* whose output is in the buffer of each branch
    came,     \* the result in each future
    apart,    \* history: no two branches have been executed at once
    done,     \* the futures as_completed has still to yield
    results,  \* results of run, None where there is none yet
    early,    \* branch of _early_winner, 0 for none
    cut,      \* the next future to cancel
    chosen,   \* best_this_round
    round,    \* round_index + 1
    history,  \* best_score of each round, in round_history
    best,     \* best_overall
    archive,  \* _entries, in the order of insertion: niche and total
    seed,     \* what the engine was seeded with: a branch and its round
    calls,    \* searches begun
    top       \* history: the best total of a branch of this search, None when
              \* there is none yet, and of all

poolVars == <<fut, taken>>
shareVars == <<out, cwd, kept, buf, came, apart>>
runVars == <<results, early, cut>>
searchVars == <<chosen, round, history, best, archive, seed, calls>>
vars == <<phase, script, poolVars, shareVars, done, runVars, searchVars, top>>

Result(b, t) == [round |-> round, branch |-> b, niche |-> script[b].niche,
                 total |-> t]
Fresh == [b \in Branch |-> None]

(* _run_branch: a first output that scores nothing and a stage below its *)
(* minimum discard the branch; an exception is caught where the future's *)
(* result is read.                                                       *)
Pruned(s) == s.mark <= 0 \/ \E i \in DOMAIN Weight : s.stages[i] < MinScore[i]
Total(s) == s.mark + MapThenSumSet(LAMBDA i : Weight[i] * s.stages[i], DOMAIN Weight)
ASSUME Scores == \A s \in Scripts : Total(s) \in Int

Like(b, s) ==
    [round |-> round, branch |-> b, niche |-> s.niche,
     total |-> IF s.raises \/ Pruned(s) THEN Failed ELSE Total(s)]
Outcome(b) == Like(b, script[b])

(* A directory that is removed, a buffer that nobody reads any more. *)
Nowhere == -1
Unkept == [b \in Branch |-> [out |-> 0, cwd |-> 0]]

Init ==
    /\ phase = "idle"
    /\ script = Fresh /\ results = Fresh
    /\ fut = [b \in Branch |-> "none"] /\ taken = 0 /\ done = <<>>
    /\ out = 0 /\ cwd = 0 /\ apart = TRUE
    /\ kept = Unkept /\ buf = [b \in Branch |-> {}] /\ came = Fresh
    /\ early = 0 /\ cut = 1
    /\ chosen = None /\ round = 0 /\ history = <<>> /\ best = None
    /\ archive = <<>> /\ seed = None /\ calls = 0
    /\ top = [call |-> None, ever |-> Failed]

(* The futures and the sandboxes of a round that is over are forgotten, *)
(* what they have left in the process is not.                           *)
Forget ==
    /\ taken' = 0 /\ done' = <<>>
    /\ kept' = Unkept /\ buf' = [b \in Branch |-> {}] /\ came' = Fresh
    /\ results' = Fresh /\ early' = 0 /\ cut' = 1 /\ chosen' = None
    /\ UNCHANGED <<out, cwd, apart>>

(* The variants of a round are written and handed to the pool. *)
Submit ==
    /\ script' \in [Branch -> Scripts]
    /\ fut' = [b \in Branch |-> "pending"]
    /\ Forget
    /\ phase' = "submit"

(* The call is over, and so are its locals. *)
Return ==
    /\ script' = Fresh
    /\ fut' = [b \in Branch |-> "none"]
    /\ Forget
    /\ history' = <<>> /\ best' = None
    /\ phase' = "idle"

Begin ==
    /\ phase = "idle" /\ calls < Calls
    /\ calls' = calls + 1
    /\ Submit
    /\ round' = 1 /\ history' = <<>> /\ best' = None /\ seed' = None
    /\ top' = [top EXCEPT !.call = None]
    /\ UNCHANGED archive

(* --------------------------------- the pool ---------------------------- *)

(* A thread of the executor takes the oldest future; one that was cancelled *)
(* is only then reported to as_completed.                                   *)
Take ==
    /\ phase \in {"submit", "collect", "cancel"}
    /\ taken < Branches
    /\ taken' = taken + 1
    /\ LET b == taken + 1 IN
       IF fut[b] = "cancelled"
       THEN fut' = [fut EXCEPT ![b] = "notified"] /\ done' = Append(done, b)
       ELSE fut' = [fut EXCEPT ![b] = "running"] /\ done' = done
    /\ UNCHANGED <<phase, script, shareVars, runVars, searchVars, top>>

(* ------------------- a branch, on its thread of the pool --------------- *)

Goto(b, p) == fut' = [fut EXCEPT ![b] = p]
Executed == {b \in Branch : fut[b] \in {"captured", "inside", "printed", "outside"}}
runnerVars == <<phase, script, taken, runVars, searchVars, top>>

(* The sandbox is made, which asks for the working directory and raises if *)
(* there is none; then _capture_output puts its buffer in place.           *)
Capture(b) ==
    /\ fut[b] = "running"
    /\ IF cwd = Nowhere
       THEN /\ came' = [came EXCEPT ![b] = Result(b, Failed)]
            /\ Goto(b, "closing")
            /\ UNCHANGED <<out, kept, apart>>
       ELSE /\ kept' = [kept EXCEPT ![b].out = out]
            /\ out' = b
            /\ apart' = (apart /\ Executed = {})
            /\ Goto(b, "captured")
            /\ came' = came
    /\ UNCHANGED <<cwd, buf, done, runnerVars>>

(* _temp_cwd: asks again, and goes to the directory of the sandbox. *)
Chdir(b) ==
    /\ fut[b] = "captured"
    /\ IF cwd = Nowhere
       THEN /\ came' = [came EXCEPT ![b] = Result(b, Failed)]
            /\ Goto(b, "outside")
            /\ UNCHANGED <<cwd, kept>>
       ELSE /\ kept' = [kept EXCEPT ![b].cwd = cwd]
            /\ cwd' = b
            /\ Goto(b, "inside")
            /\ came' = came
    /\ UNCHANGED <<out, buf, apart, done, runnerVars>>

(* What the program prints goes to whichever buffer sys.stdout is.  Bound: *)
(* it prints once.                                                         *)
Prints(b) ==
    /\ fut[b] = "inside"
    /\ buf' = IF out \in Branch THEN [buf EXCEPT ![out] = @ \cup {b}] ELSE buf
    /\ Goto(b, "printed")
    /\ UNCHANGED <<out, cwd, kept, came, apart, done, runnerVars>>

(* The buffer is read, which may hold nothing or what others have printed, *)
(* and then scores like anything; the old directory is gone back to, which *)
(* raises if it is not there any more.                                     *)
ChdirBack(b) ==
    /\ fut[b] = "printed"
    /\ IF kept[b].cwd = Nowhere
       THEN came' = [came EXCEPT ![b] = Result(b, Failed)] /\ cwd' = cwd
       ELSE /\ \E s \in IF buf[b] = {b} THEN {script[b]} ELSE Blends :
                  came' = [came EXCEPT ![b] = Like(b, s)]
            /\ cwd' = kept[b].cwd
    /\ kept' = [kept EXCEPT ![b].cwd = 0]
    /\ buf' = [buf EXCEPT ![b] = {}]
    /\ Goto(b, "outside")
    /\ UNCHANGED <<out, apart, done, runnerVars>>

Release(b) ==
    /\ fut[b] = "outside"
    /\ out' = kept[b].out
    /\ kept' = [kept EXCEPT ![b].out = 0]
    /\ Goto(b, "closing")
    /\ UNCHANGED <<cwd, buf, came, apart, done, runnerVars>>

(* cleanup() removes the directory of the sandbox, whoever is in it or has *)
(* kept it, and the future is done.                                        *)
Finish(b) ==
    /\ fut[b] = "closing"
    /\ LET Left(x) == IF x = b THEN Nowhere ELSE x IN
       /\ out' = Left(out) /\ cwd' = Left(cwd)
       /\ kept' = [c \in Branch |-> [out |-> Left(kept[c].out),
                                     cwd |-> Left(kept[c].cwd)]]
    /\ Goto(b, "finished")
    /\ done' = Append(done, b)
    /\ UNCHANGED <<buf, came, apart, runnerVars>>

Runs(b) ==
    Capture(b) \/ Chdir(b) \/ Prints(b) \/ ChdirBack(b) \/ Release(b) \/ Finish(b)

(* ------------------------------ run ------------------------------------ *)

(* as_completed yields what was done before it was called in any order, *)
(* the others as they come.                                             *)
Watch ==
    /\ phase = "submit"
    /\ done' \in SetToSeqs(ToSet(done))
    /\ phase' = "collect"
    /\ UNCHANGED <<script, poolVars, shareVars, runVars, searchVars, top>>

Higher(x, y) == IF x = None \/ y > x THEN y ELSE x

(* As Collect, but the branches that came before a perfect one are dropped. *)
Collect_FirstPerfect ==
    /\ phase = "collect" /\ done # <<>>
    /\ LET b == Head(done)
           r == IF fut[b] = "notified" THEN Result(b, Failed) ELSE came[b]
           ends == r.total >= Perfect /\ early = 0
       IN /\ results' = IF early # 0 THEN [results EXCEPT ![b] = Result(b, Failed)]
                        ELSE [results EXCEPT ![b] = r]
          /\ early' = IF ends THEN b ELSE early
          /\ phase' = IF ends THEN "cancel" ELSE phase
          /\ top' = [call |-> Higher(top.call, r.total),
                     ever |-> Higher(top.ever, r.total)]
    /\ done' = Tail(done)
    /\ UNCHANGED <<script, poolVars, shareVars, cut, searchVars>>

Collect ==
    /\ phase = "collect" /\ done # <<>>
    /\ LET b == Head(done)
           r == IF fut[b] = "notified" THEN Result(b, Failed) ELSE came[b]
           ends == r.total >= Perfect /\ early = 0
       IN /\ results' = [results EXCEPT ![b] = r]
          /\ early' = IF ends THEN b ELSE early
          /\ phase' = IF ends THEN "cancel" ELSE phase
          /\ top' = [call |-> Higher(top.call, r.total),
                     ever |-> Higher(top.ever, r.total)]
    /\ done' = Tail(done)
    /\ UNCHANGED <<script, poolVars, shareVars, cut, searchVars>>

(* The rest is cancelled future by future, while the pool goes on taking *)
(* them: one that runs is not cancelled.                                 *)
Cancel ==
    /\ phase = "cancel"
    /\ IF cut > Branches
       THEN phase' = "collect" /\ UNCHANGED <<fut, cut>>
       ELSE /\ phase' = phase /\ cut' = cut + 1
            /\ fut' = IF fut[cut] = "pending" THEN [fut EXCEPT ![cut] = "cancelled"]
                      ELSE fut
    /\ UNCHANGED <<script, taken, shareVars, done, results, early, searchVars, top>>

(* max(..., key=total_score), which of equals is the first. *)
Above(r, q) ==
    \/ r.total > q.total
    \/ r.total = q.total /\ r.branch < q.branch
Best(rs) == CHOOSE r \in rs : \A q \in rs \ {r} : Above(r, q)

(* The branches that count: those that were not discarded, or else all. *)
Valid(rs) == LET ok == {r \in rs : r.total > Failed} IN
             IF ok = {} THEN rs ELSE ok

(* A set of branches as last_results has them. *)
Sorted(rs) ==
    CHOOSE s \in [1..Cardinality(rs) -> rs] :
        \A i, j \in DOMAIN s : i < j => Above(s[i], s[j])

FirstOf(s, n) == SubSeq(s, 1, IF Len(s) < n THEN Len(s) ELSE n)

(* top_results: the first of last_results, of those not discarded. *)
TopResults(rs) == FirstOf(Sorted({r \in rs : r.total > Failed}), Elite)

(* ------------------------- the archive and the rounds ------------------ *)

(* update: the best of its niche; then, if there are too many, the best *)
(* max_size of them, ordered by their score.                            *)
Insert(arc, r) ==
    LET entry == [niche |-> r.niche, total |-> r.total]
        at == {i \in DOMAIN arc : arc[i].niche = r.niche}
    IN IF at = {} THEN Append(arc, entry)
       ELSE [i \in DOMAIN arc |->
                IF i \in at /\ r.total > arc[i].total THEN entry ELSE arc[i]]

(* As Trimmed, but the oldest entries stay. *)
Trimmed_Oldest(arc) ==
    IF Len(arc) > MaxSize THEN SubSeq(arc, 1, MaxSize) ELSE arc

Trimmed(arc) ==
    IF Len(arc) <= MaxSize THEN arc
    ELSE LET order == Sorted({[branch |-> i, total |-> arc[i].total] : i \in DOMAIN arc})
         IN [k \in 1..MaxSize |-> arc[order[k].branch]]

Update(arc, rs) ==
    LET arcs[n \in 0..Len(rs)] ==
            IF n = 0 THEN arc ELSE Insert(arcs[n - 1], rs[n])
    IN Trimmed(arcs[Len(rs)])

(* As Better, but the last round wins. *)
Better_Latest(r) == TRUE

Better(r) == best = None \/ r.total > best.total

(* Every branch has come, and the pool is shut down. *)
Select ==
    /\ phase = "collect" /\ \A b \in Branch : results[b] # None
    /\ LET rs == {results[b] : b \in Branch}
           r == Best(Valid(rs))
       IN /\ chosen' = r
          /\ archive' = Update(archive, TopResults(rs))
          /\ history' = Append(history, r.total)
          /\ best' = IF Better(r) THEN r ELSE best
    /\ phase' = "next"
    /\ UNCHANGED <<script, poolVars, shareVars, done, runVars, round, seed, calls,
                   top>>

(* The next round, or none because the model's answer had no program in it: *)
(* an exception that the engine catches, to go on without a search.         *)
NextRound ==
    /\ phase = "next" /\ round < Rounds
    /\ \/ Submit /\ round' = round + 1 /\ UNCHANGED <<history, best>>
       \/ Return /\ round' = 0
    /\ UNCHANGED <<archive, seed, calls, top>>

(* The engine takes over the winner's variables and its strategy, and notes *)
(* in the prompt the round it came from: the first of the best.             *)
Seed ==
    /\ phase = "next" /\ round = Rounds
    /\ seed' = [of |-> best,
                round |-> CHOOSE i \in DOMAIN history :
                    /\ \A j \in DOMAIN history : history[i] >= history[j]
                    /\ \A j \in 1..(i - 1) : history[i] > history[j]]
    /\ Return /\ round' = 0
    /\ UNCHANGED <<archive, calls, top>>

Next ==
    \/ Begin \/ Take
    \/ \E b \in Branch : Runs(b)
    \/ Watch \/ Collect \/ Cancel \/ Select \/ NextRound \/ Seed

Spec == Init /\ [][Next]_vars

(* --------------------------- what it promises -------------------------- *)

(* What each variable holds: a branch has a script from the time a round is *)
(* submitted until the call is over.                                        *)
TypeOK ==
    /\ phase \in {"idle", "submit", "collect", "cancel", "next"}
    /\ script \in [Branch -> Scripts \cup {None}]
    /\ phase # "idle" => script \in [Branch -> Scripts]
    /\ fut \in [Branch -> {"none", "pending", "running", "captured", "inside",
                          "printed", "outside", "closing", "finished",
                          "cancelled", "notified"}]
    /\ {out, cwd} \subseteq Nowhere..Branches /\ apart \in BOOLEAN
    /\ kept \in [Branch -> [out : Nowhere..Branches, cwd : Nowhere..Branches]]
    /\ buf \in [Branch -> SUBSET Branch]
    /\ came \in [Branch -> Results \cup {None}]
    /\ taken \in 0..Branches /\ done \in Seq(Branch)
    /\ results \in [Branch -> Results \cup {None}]
    /\ early \in 0..Branches /\ cut \in 1..(Branches + 1)
    /\ chosen \in Results \cup {None} /\ best \in Results \cup {None}
    /\ round \in Nat /\ history \in Seq(Int)
    /\ archive \in Seq(Entries)
    /\ seed \in {None} \cup [of : Results, round : Nat]
    /\ calls \in 0..Calls
    /\ top \in [call : Int \cup {None}, ever : Int]

(* The winner of a round does not depend on the order in which its branches *)
(* came: it is the first of the best of what they came to, unless a perfect *)
(* one had the others cancelled; then it is perfect, and still the best of  *)
(* all that ran.  And what a branch comes to is its own, so that the winner *)
(* is the one of a sequential search, as long as no two branches of the     *)
(* process were ever executed at once - but no longer.                      *)
WinnerIsBest ==
    phase = "next" =>
        /\ early = 0 => chosen = Best(Valid({came[b] : b \in Branch}))
        /\ early # 0 =>
            /\ chosen.total >= Perfect
            /\ \A b \in Branch : fut[b] = "finished" =>
                   came[b].total <= chosen.total
        /\ apart => \A b \in Branch : fut[b] = "finished" => came[b] = Outcome(b)

(* What the engine is seeded with is the best of all branches of all rounds *)
(* of this search, and the note in the prompt names the round it is of.     *)
SeedIsBest ==
    seed # None => seed.of.total = top.call /\ seed.of.round = seed.round

(* The archive of a prompt never forgets the best branch there was, however *)
(* often it is updated and cut, and has one entry of each niche.            *)
ArchiveKeepsBest ==
    phase \notin {"collect", "cancel"} =>
        /\ Len(archive) <= MaxSize
        /\ \A i, j \in DOMAIN archive : archive[i].niche = archive[j].niche => i = j
        /\ top.ever > Failed => \E i \in DOMAIN archive : archive[i].total = top.ever
=============================================================================
