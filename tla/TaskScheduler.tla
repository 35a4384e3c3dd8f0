---------------------------- MODULE TaskScheduler ----------------------------
(***************************************************************************)
(* The daemon of scheduled tasks, rlm/server/scheduler.py: TaskStore, a    *)
(* table that outlives the process, and RLMScheduler, whose loop polls it  *)
(* and runs what is due on threads of its own.  The command line adds,     *)
(* cancels and deletes rows from other processes; run_once() dispatches a  *)
(* task from another thread of the daemon's.                               *)
(*                                                                         *)
(* Each call of the store is one step, made under its lock; between two of *)
(* them anybody may act.  Any number of polls may pass between two ticks.  *)
(* next_run_ts is kept as the time left until it: 0 when it is reached,    *)
(* Epoch when it is the 0.0 that stands for "never" or "disabled".  The    *)
(* unit of time is the minute of the cron scan, and the calendar repeats.  *)
(***************************************************************************)
EXTENDS Integers, FiniteSets

CONSTANTS
    Task,       \* the tasks ever added, each under its own uuid4
    Kind,       \* trigger_type of each
    Gap,        \* the interval, or for "once" the delay of its date
    Unparsed,   \* the one-shot tasks whose date is no ISO date
    CronAt,     \* the minutes of the calendar at which a cron task matches
    Year,       \* the length of the calendar
    Week,       \* how far the cron scan looks ahead
    Truth,      \* what literal_eval makes of a condition
    Thread,     \* bound: threads alive at a time
    MaxWorkers, \* max_workers
    InMain,     \* whether run() is called in the main thread
    MaxForces,  \* bound: calls of run_once
    MaxFaults,  \* bound: ends of the process and calls that raise
    None

ASSUME Triggers ==
    /\ Kind \in [Task -> {"once", "interval", "cron", "condition"}]
    /\ Gap \in [Task -> Nat]
    /\ CronAt \in [Task -> SUBSET Nat]
    /\ Truth \in [Task -> {"true", "false", "raises"}]
    /\ Year \in Nat \ {0}
    /\ Week \in Nat
ASSUME Sizes ==
    /\ MaxWorkers \in Nat \ {0}
    /\ MaxForces \in Nat
    /\ MaxFaults \in Nat
    /\ IsFiniteSet(Thread)
ASSUME Nothing == None \notin Task /\ None \notin Thread

VARIABLES
    table,    \* the tasks with a row in scheduled_tasks
    added,    \* history: the tasks added so far
    enabled,  \* the tasks with enabled = 1
    status,   \* last_status
    next,     \* next_run_ts
    clock,    \* the time of the calendar
    pc,       \* what the loop of run() is doing
    due,      \* the snapshot of _tick still to be handled, in any order:
              \* the query has no ORDER BY
    at,       \* the task it dispatches
    force,    \* what run_once is doing
    forcing,  \* the task it was called with
    active,   \* _active
    stage,    \* what each thread is doing
    job,      \* the task it was started with
    after,    \* its next_ts
    forced,   \* history: the tasks run_once was called with
    started,  \* history: the one-shot tasks the loop has started
    late,     \* history: how often after they were cancelled or deleted
    rest,     \* history: the time left of the gap after the last run
    forces, faults   \* what the bounds count

rowVars == <<table, added, enabled, status, next>>
loopVars == <<pc, due, at>>
forceVars == <<force, forcing>>
threadVars == <<active, stage, job, after>>
histVars == <<forced, started, late, rest>>
countVars == <<forces, faults>>
vars == <<rowVars, clock, loopVars, forceVars, threadVars, histVars, countVars>>

Epoch == -1
Up == pc # "down"

(* The threads that are still in _run_task or have its result to record,   *)
(* and those that is_alive() says are there.                               *)
Executing == {w \in Thread : stage[w] \in {"running", "cancelling", "recording"}}
Alive == {w \in Thread : stage[w] # "free"}

TypeOK ==
    /\ table \subseteq added
    /\ added \subseteq Task
    /\ enabled \subseteq table
    /\ status \in [Task -> {"pending", "running", "success", "error"}]
    /\ next \in [Task -> Nat \cup {Epoch}]
    /\ clock \in 0..Year - 1
    /\ pc \in {"down", "dead", "poll", "task", "marked", "waiting"}
    /\ due \subseteq Task
    /\ at \in Task \cup {None}
    /\ pc = "marked" => at \in Task
    /\ force \in {"idle", "found", "marked"}
    /\ forcing \in Task \cup {None}
    /\ force # "idle" => forcing \in Task
    /\ active \in [Task -> Thread \cup {None}]
    /\ stage \in [Thread -> {"free", "running", "cancelling", "recording", "notifying"}]
    /\ job \in [Thread -> Task \cup {None}]
    /\ \A w \in Alive : job[w] \in Task
    /\ after \in [Thread -> Nat \cup {Epoch}]
    /\ forced \subseteq Task
    /\ started \subseteq Task
    /\ late \in [Task -> Nat]
    /\ rest \in [Task -> Nat]
    /\ forces \in Nat
    /\ faults \in Nat

Init ==
    /\ table = {}
    /\ added = {}
    /\ enabled = {}
    /\ status = [t \in Task |-> "pending"]
    /\ next = [t \in Task |-> Epoch]
    /\ clock = 0
    /\ pc = "down"
    /\ due = {}
    /\ at = None
    /\ force = "idle"
    /\ forcing = None
    /\ active = [t \in Task |-> None]
    /\ stage = [w \in Thread |-> "free"]
    /\ job = [w \in Thread |-> None]
    /\ after = [w \in Thread |-> 0]
    /\ forced = {}
    /\ started = {}
    /\ late = [t \in Task |-> 0]
    /\ rest = [t \in Task |-> 0]
    /\ forces = 0
    /\ faults = 0

-----------------------------------------------------------------------------
(* _compute_next: what is left until the next run.                         *)

Matches(t, d) == (clock + d) % Year \in CronAt[t]

(* The first match after this minute, if there is one within the week.     *)
NextCron(t, n) ==
    \/ /\ n \in 1..Week
       /\ Matches(t, n)
       /\ \A d \in 1..n - 1 : ~Matches(t, d)
    \/ /\ n = Epoch
       /\ \A d \in 1..Week : ~Matches(t, d)

ComputesNext(t, n) ==
    CASE Kind[t] = "once" -> n = IF t \in Unparsed THEN Epoch ELSE Gap[t]
      [] Kind[t] = "interval" -> n = Gap[t]
      [] Kind[t] = "cron" -> NextCron(t, n)
      [] Kind[t] = "condition" -> n = 1

Outlook == {Epoch} \cup 0..Week \cup {Gap[t] : t \in Task} \cup {1}

-----------------------------------------------------------------------------
(* The command line, in processes of its own.                              *)

Add(t) ==
    /\ t \notin added
    /\ added' = added \cup {t}
    /\ table' = table \cup {t}
    /\ enabled' = enabled \cup {t}
    /\ \E n \in Outlook : ComputesNext(t, n) /\ next' = [next EXCEPT ![t] = n]
    /\ UNCHANGED <<status, clock, loopVars, forceVars, threadVars, histVars, countVars>>

Cancel(t) ==
    /\ t \in table
    /\ enabled' = enabled \ {t}
    /\ UNCHANGED <<table, added, status, next, clock, loopVars, forceVars,
                   threadVars, histVars, countVars>>

Delete(t) ==
    /\ t \in table
    /\ table' = table \ {t}
    /\ enabled' = enabled \ {t}
    /\ UNCHANGED <<added, status, next, clock, loopVars, forceVars,
                   threadVars, histVars, countVars>>

-----------------------------------------------------------------------------
(* The process and the loop of run().  A stop() or a signal is seen at the *)
(* test of the loop; _wait_active gives up after 30 seconds, so the        *)
(* process may end, and its threads with it, whatever they do.             *)

Fault == faults < MaxFaults /\ faults' = faults + 1

(* signal.signal() raises anywhere but in the main thread.                 *)
Start ==
    /\ pc = "down"
    /\ pc' = IF InMain THEN "poll" ELSE "dead"
    /\ UNCHANGED <<rowVars, clock, due, at, forceVars, threadVars, histVars, countVars>>

LoopEnds ==
    /\ pc = "poll"
    /\ faults < MaxFaults
    /\ pc' = "waiting"
    /\ UNCHANGED <<rowVars, clock, due, at, forceVars, threadVars, histVars, countVars>>

Exit ==
    /\ Up
    /\ Fault
    /\ pc' = "down"
    /\ due' = {}
    /\ at' = None
    /\ force' = "idle"
    /\ forcing' = None
    /\ active' = [t \in Task |-> None]
    /\ stage' = [w \in Thread |-> "free"]
    /\ job' = [w \in Thread |-> None]
    /\ after' = [w \in Thread |-> 0]
    /\ UNCHANGED <<rowVars, clock, histVars, forces>>

(* As IsDue below, without the test of the status, and of enabled.         *)
IsDue_Running(t) == t \in enabled /\ next[t] <= 0
IsDue_Cancelled(t) == next[t] <= 0 /\ status[t] # "running"

IsDue(t) == t \in enabled /\ next[t] <= 0 /\ status[t] # "running"

GetDue ==
    /\ pc = "poll"
    /\ due' = {t \in table : IsDue(t)}
    /\ pc' = IF due' = {} THEN "poll" ELSE "task"
    /\ UNCHANGED <<rowVars, clock, at, forceVars, threadVars, histVars, countVars>>

(* The loop over the snapshot, with T left of it.                          *)
GoOn(T) ==
    /\ due' = T
    /\ at' = None
    /\ pc' = IF T = {} THEN "poll" ELSE "task"

(* The threads of _active that are alive.                                  *)
Active == {w \in Alive : active[job[w]] = w}

(* As Full below, off by one.                                              *)
Full_Late == Cardinality(Active) > MaxWorkers

Full == Cardinality(Active) >= MaxWorkers

Condition(t, v) == Kind[t] = "condition" /\ Truth[t] = v

(* Deferred, or a condition that literal_eval does not take.               *)
Skip(t) ==
    /\ pc = "task"
    /\ t \in due
    /\ Full \/ Condition(t, "raises")
    /\ GoOn(due \ {t})
    /\ UNCHANGED <<rowVars, clock, forceVars, threadVars, histVars, countVars>>

NotMet(t) ==
    /\ pc = "task"
    /\ t \in due
    /\ ~Full
    /\ Condition(t, "false")
    /\ status' = [status EXCEPT ![t] = "success"]
    /\ next' = [next EXCEPT ![t] = 1]
    /\ GoOn(due \ {t})
    /\ UNCHANGED <<table, added, enabled, clock, forceVars, threadVars,
                   histVars, countVars>>

(* _dispatch: the row first, then the thread.                              *)
Mark(t) ==
    /\ pc = "task"
    /\ t \in due
    /\ ~Full
    /\ Kind[t] = "condition" => Truth[t] = "true"
    /\ status' = [status EXCEPT ![t] = "running"]
    /\ pc' = "marked"
    /\ due' = due \ {t}
    /\ at' = t
    /\ UNCHANGED <<table, added, enabled, next, clock, forceVars, threadVars,
                   histVars, countVars>>

StartThread(t, w) ==
    /\ stage[w] = "free"
    /\ stage' = [stage EXCEPT ![w] = "running"]
    /\ job' = [job EXCEPT ![w] = t]
    /\ active' = [active EXCEPT ![t] = w]
    /\ after' = after

Launch ==
    /\ pc = "marked"
    /\ \E w \in Thread : StartThread(at, w)
    /\ GoOn(due)
    /\ started' = IF Kind[at] = "once" THEN started \cup {at} ELSE started
    /\ late' = IF at \in enabled THEN late ELSE [late EXCEPT ![at] = @ + 1]
    /\ UNCHANGED <<rowVars, clock, forceVars, forced, rest, countVars>>

(* run() logs what _tick raises and goes on with the next one.             *)
TickRaises ==
    /\ pc \in {"poll", "task", "marked"}
    /\ Fault
    /\ GoOn({})
    /\ UNCHANGED <<rowVars, clock, forceVars, threadVars, histVars, forces>>

-----------------------------------------------------------------------------
(* run_once: no lock, and no test but that the row is there.               *)

ForceFind(t) ==
    /\ Up
    /\ force = "idle"
    /\ forces < MaxForces
    /\ t \in table
    /\ force' = "found"
    /\ forcing' = t
    /\ forces' = forces + 1
    /\ forced' = forced \cup {t}
    /\ UNCHANGED <<rowVars, clock, loopVars, threadVars, started, late, rest,
                   faults>>

ForceMark ==
    /\ force = "found"
    /\ force' = "marked"
    /\ status' = [status EXCEPT ![forcing] = "running"]
    /\ UNCHANGED <<table, added, enabled, next, clock, loopVars, forcing,
                   threadVars, histVars, countVars>>

ForceLaunch ==
    /\ force = "marked"
    /\ force' = "idle"
    /\ forcing' = None
    /\ \E w \in Thread : StartThread(forcing, w)
    /\ UNCHANGED <<rowVars, clock, loopVars, histVars, countVars>>

ForceRaises ==
    /\ force # "idle"
    /\ Fault
    /\ force' = "idle"
    /\ forcing' = None
    /\ UNCHANGED <<rowVars, clock, loopVars, threadVars, histVars,
                   forces>>

-----------------------------------------------------------------------------
(* _worker                                                                 *)

(* As Finish below, leaving a one-shot task enabled.                       *)
Finish_KeepsOnce(w) ==
    /\ stage[w] = "running"
    /\ stage' = [stage EXCEPT ![w] = "recording"]
    /\ \/ /\ Kind[job[w]] = "once"
          /\ after' = [after EXCEPT ![w] = Epoch]
       \/ /\ Kind[job[w]] # "once"
          /\ \E n \in Outlook : ComputesNext(job[w], n) /\ after' = [after EXCEPT ![w] = n]
    /\ rest' = [rest EXCEPT ![job[w]] = IF Kind[job[w]] = "interval" THEN Gap[job[w]] ELSE 0]
    /\ UNCHANGED <<rowVars, clock, loopVars, forceVars, active, job, forced,
                   started, late, countVars>>

Finish(w) ==
    /\ stage[w] = "running"
    /\ \/ /\ Kind[job[w]] = "once"
          /\ stage' = [stage EXCEPT ![w] = "cancelling"]
          /\ after' = [after EXCEPT ![w] = Epoch]
       \/ /\ Kind[job[w]] # "once"
          /\ stage' = [stage EXCEPT ![w] = "recording"]
          /\ \E n \in Outlook : ComputesNext(job[w], n) /\ after' = [after EXCEPT ![w] = n]
    /\ rest' = [rest EXCEPT ![job[w]] = IF Kind[job[w]] = "interval" THEN Gap[job[w]] ELSE 0]
    /\ UNCHANGED <<rowVars, clock, loopVars, forceVars, active, job, forced,
                   started, late, countVars>>

CancelOnce(w) ==
    /\ stage[w] = "cancelling"
    /\ enabled' = enabled \ {job[w]}
    /\ stage' = [stage EXCEPT ![w] = "recording"]
    /\ UNCHANGED <<table, added, status, next, clock, loopVars, forceVars,
                   active, job, after, histVars, countVars>>

(* As Record below, without next_run_ts,                                   *)
Record_KeepsNext(w) ==
    /\ stage[w] = "recording"
    /\ \E s \in {"success", "error"} : status' = [status EXCEPT ![job[w]] = s]
    /\ stage' = [stage EXCEPT ![w] = "notifying"]
    /\ after' = [after EXCEPT ![w] = 0]
    /\ UNCHANGED <<table, added, enabled, next, clock, loopVars, forceVars,
                   active, job, histVars, countVars>>

(* or without last_status.                                                 *)
Record_KeepsStatus(w) ==
    /\ stage[w] = "recording"
    /\ next' = [next EXCEPT ![job[w]] = after[w]]
    /\ stage' = [stage EXCEPT ![w] = "notifying"]
    /\ after' = [after EXCEPT ![w] = 0]
    /\ UNCHANGED <<table, added, enabled, status, clock, loopVars, forceVars,
                   active, job, histVars, countVars>>

Record(w) ==
    /\ stage[w] = "recording"
    /\ \E s \in {"success", "error"} : status' = [status EXCEPT ![job[w]] = s]
    /\ next' = [next EXCEPT ![job[w]] = after[w]]
    /\ stage' = [stage EXCEPT ![w] = "notifying"]
    /\ after' = [after EXCEPT ![w] = 0]
    /\ UNCHANGED <<table, added, enabled, clock, loopVars, forceVars, active,
                   job, histVars, countVars>>

(* The thread is gone; its entry in _active stays.                         *)
Gone(w) ==
    /\ stage' = [stage EXCEPT ![w] = "free"]
    /\ job' = [job EXCEPT ![w] = None]
    /\ after' = [after EXCEPT ![w] = 0]

Notified(w) ==
    /\ stage[w] = "notifying"
    /\ Gone(w)
    /\ UNCHANGED <<rowVars, clock, loopVars, forceVars, active, histVars, countVars>>

(* A call of the store raises and ends the thread.                         *)
WorkerRaises(w) ==
    /\ stage[w] \in {"cancelling", "recording"}
    /\ Fault
    /\ Gone(w)
    /\ UNCHANGED <<rowVars, clock, loopVars, forceVars, active, histVars,
                   forces>>

-----------------------------------------------------------------------------
Down(n) == IF n > 0 THEN n - 1 ELSE n

PassTime ==
    /\ clock' = (clock + 1) % Year
    /\ next' = [t \in Task |-> Down(next[t])]
    /\ after' = [w \in Thread |-> Down(after[w])]
    /\ rest' = [t \in Task |-> Down(rest[t])]
    /\ UNCHANGED <<table, added, enabled, status, loopVars, forceVars, active,
                   stage, job, forced, started, late, countVars>>

CommandLine == \E t \in Task : Add(t) \/ Cancel(t) \/ Delete(t)

Loop ==
    \/ GetDue
    \/ \E t \in Task : Skip(t) \/ NotMet(t) \/ Mark(t)
    \/ Launch
    \/ TickRaises

RunOnce == ForceMark \/ ForceLaunch \/ ForceRaises

Worker(w) ==
    \/ Finish(w) \/ CancelOnce(w) \/ Record(w)
    \/ Notified(w) \/ WorkerRaises(w)

Next ==
    \/ CommandLine
    \/ Start \/ LoopEnds \/ Exit
    \/ Loop
    \/ \E t \in Task : ForceFind(t)
    \/ RunOnce
    \/ \E w \in Thread : Worker(w)
    \/ PassTime

Spec == Init /\ [][Next]_vars

(* The loop and the threads go on, completion() ends, time passes, the     *)
(* wait of a stopped process has a limit, and the daemon is started again. *)
FairSpec ==
    /\ Spec
    /\ WF_vars(Start)
    /\ WF_vars(Loop)
    /\ WF_vars(RunOnce)
    /\ \A w \in Thread : WF_vars(Worker(w))
    /\ WF_vars(PassTime)
    /\ WF_vars(pc = "waiting" /\ Exit)

-----------------------------------------------------------------------------
(* Two runs of a task never overlap unless run_once was used on it: the    *)
(* status in the row is the only claim, it is tested in the query and set  *)
(* in a later step, and the snapshot is used after that (get_due, _tick).  *)
NoOverlap == \A v, w \in Executing :
    job[v] = job[w] /\ job[v] \notin forced => v = w

(* At most max_workers tasks run at a time as long as run_once is not      *)
(* used, although a task may start again, and take its place in _active,   *)
(* while the thread of its last run still notifies (_tick, _dispatch).     *)
WithinWorkers == forced = {} => Cardinality(Executing) <= MaxWorkers

(* A task that is cancelled or deleted is started at most once more, by    *)
(* the tick that had already read it (get_due, _tick).                     *)
CancelHolds == \A t \in Task : late[t] <= 1

(* What one step of the loop starts.                                       *)
Starts(t) ==
    /\ pc = "marked" /\ pc' # "marked"
    /\ at = t
    /\ \E w \in Thread : stage[w] = "free" /\ stage'[w] # "free"

(* A one-shot task is started by the loop at most once, although its next  *)
(* run is set to 0.0, which is always due: the row is disabled before the  *)
(* result is recorded, and stays running after a crash (_worker).          *)
OnceOnly == [][\A t \in Task :
    Starts(t) => t \notin started]_vars

(* The loop leaves the whole interval between the end of a run and the     *)
(* next start, however late its ticks are (_compute_next, _worker).        *)
Spaced == [][\A t \in Task :
    Starts(t) /\ Kind[t] = "interval" /\ t \notin forced => rest[t] = 0]_vars

Waiting(t) == t \in enabled /\ next[t] <= 0

(* While a task is due that literal_eval does not refuse, some run goes on *)
(* in the end: finished runs give back their place and their status, as    *)
(* long as no process ends and no call raises.  (A single task may starve: *)
(* a place that becomes free during a tick goes to another row.)           *)
SomeDue == \E t \in Task : Waiting(t) /\ ~Condition(t, "raises")
PoolServes == SomeDue ~> (Executing # {} \/ ~SomeDue \/ faults > 0)
=============================================================================
