------------------------------ MODULE Sessions ------------------------------
(***************************************************************************)
(* The life of a session, from the request that opens it to the shutdown   *)
(* that closes it: SessionManager (rlm/core/session/_impl.py), the         *)
(* always-on RecursionDaemon that keeps one session warm, the DrainGuard   *)
(* of the server, the part of RLMSupervisor.execute that reads the         *)
(* session, and the shutdown at the end of the server's lifespan.          *)
(*                                                                         *)
(* Everybody is the same user: RLM_SESSION_SCOPE is "main", its default.   *)
(* The lock of the manager is held across steps (mlock); that of the       *)
(* daemon only by stop(), which makes its snapshot under it (stopping):    *)
(* every other use of it is one step, taken when stop() does not hold it.  *)
(***************************************************************************)
EXTENDS Integers, Sequences, FiniteSets, SequencesExt

CONSTANTS
    Prompt,    \* requests POST /webhook whose text goes to the model
    Sweep,     \* requests whose text is /maintenance
    Delete,    \* requests DELETE /sessions/{id}
    Job,       \* prompts of the in-process scheduler
    Stop,      \* the thread that shuts the program down
    Casts,     \* bound: the sets of threads that come together
    MaxFaults, \* bound: the writes, closes and callbacks that raise
    None

Request == Prompt \cup Sweep \cup Delete
Thread == Request \cup Job \cup {Stop}

(* Nobody plays two parts. *)
ASSUME Parts ==
    /\ Prompt \cap (Sweep \cup Delete \cup Job) = {}
    /\ Sweep \cap (Delete \cup Job) = {}
    /\ Delete \cap Job = {}
    /\ Stop \notin Request \cup Job
    /\ None \notin Thread
    /\ IsFiniteSet(Thread)
    /\ Casts \subseteq SUBSET Thread

ASSUME Bounded == MaxFaults \in Nat

VARIABLES
    recs,     \* the SessionRecords made: session id, status, rlm_instance
    row,      \* the status of each session in the database
    active,   \* _active_sessions, in the order of insertion
    mlock,    \* who holds the lock of the manager
    live,     \* the record whose runtime the daemon keeps, 0 for none
    running,  \* _running of the daemon
    draining, \* _draining
    inflight, \* _inflight_dispatches
    stopping, \* stop() holds the daemon's lock and makes its snapshot
    drain,    \* the DrainGuard drains
    reqs,     \* the requests it counts
    held,     \* the sessions whose execution lock is taken
    busy,     \* the sessions with an abort event: is_running
    pc,       \* where each thread is
    rec,      \* the record it works on; in a sweep, its place in todo
    todo,     \* the records whose sessions it still has to close
    keep,     \* should_rebootstrap_runtime of the close under way
    boot,     \* it is in bootstrap_session
    faults,   \* how many calls have raised
    raised,   \* history: the sessions whose execution raised out of its try
    failed,   \* history: the records an execution or a close of which failed
    hurried   \* history: a wait of the shutdown ran out

dbVars == <<recs, row, active>>
daemonVars == <<live, running, draining, inflight, stopping>>
guardVars == <<drain, reqs>>
execVars == <<held, busy, raised, faults>>
ownVars == <<rec, todo, keep, boot>>
vars == <<dbVars, mlock, daemonVars, guardVars, execVars, pc, ownVars,
          failed, hurried>>

Statuses == {"idle", "running", "error", "completed"}
Sid(r) == recs[r].sid
Alive(r) == recs[r].inst
Reusable(r) == recs[r].status \in {"idle", "running"}
ActiveSids == {Sid(r) : r \in ToSet(active)}

(* After startup: bootstrap_session has opened and warmed one session; the *)
(* threads of the cast are still to come.                                  *)
Starts(cast) ==
    /\ recs = <<[sid |-> 1, status |-> "idle", inst |-> TRUE]>>
    /\ row = <<"idle">> /\ active = <<1>>
    /\ mlock = None
    /\ live = 1 /\ running = TRUE /\ draining = FALSE /\ inflight = 0
    /\ stopping = FALSE
    /\ drain = FALSE /\ reqs = 0
    /\ held = {} /\ busy = {}
    /\ pc = [t \in Thread |-> IF t \in cast THEN "new" ELSE "done"]
    /\ rec = [t \in Thread |-> 0]
    /\ todo = [t \in Thread |-> <<>>]
    /\ keep = [t \in Thread |-> FALSE]
    /\ boot = [t \in Thread |-> FALSE]
    /\ faults = 0 /\ raised = {} /\ failed = {} /\ hurried = FALSE

Init == \E cast \in Casts : Starts(cast)

Goto(t, p) == pc' = [pc EXCEPT ![t] = p]
SetStatus(r, s) ==
    /\ recs' = [recs EXCEPT ![r].status = s]
    /\ row' = [row EXCEPT ![Sid(r)] = s]

(* The same when it raises: the record is set first, the row is written or *)
(* not (what is logged after the row may raise too).                       *)
SetStatusRaises(r, s) ==
    /\ faults < MaxFaults /\ faults' = faults + 1
    /\ recs' = [recs EXCEPT ![r].status = s]
    /\ row' \in {row, [row EXCEPT ![Sid(r)] = s]}

(* ----------------------- what a request goes through ------------------- *)

(* DrainMiddleware: counted, or refused with 503. *)
Arrive(t) ==
    /\ t \in Request /\ pc[t] = "new"
    /\ IF drain THEN reqs' = reqs /\ Goto(t, "done")
       ELSE reqs' = reqs + 1 /\ Goto(t, IF t \in Delete THEN "test" ELSE "find")
    /\ UNCHANGED <<dbVars, mlock, daemonVars, drain, execVars, ownVars,
                   failed, hurried>>

(* The middleware's finally. *)
Exit(t) ==
    /\ pc[t] = "exit"
    /\ reqs' = IF reqs = 0 THEN 0 ELSE reqs - 1
    /\ Goto(t, "done")
    /\ UNCHANGED <<dbVars, mlock, daemonVars, drain, execVars, ownVars,
                   failed, hurried>>

(* get_or_create: the first reusable active session, else the row of one, *)
(* else a new one; the last two are activated with the lock still held.   *)
AfterFind(t) ==
    IF boot[t] THEN "reboot" ELSE IF t \in Job THEN "check" ELSE "found"

Reuse(t) ==
    /\ pc[t] = "find" /\ mlock = None
    /\ \E i \in DOMAIN active :
          /\ Reusable(active[i])
          /\ \A j \in 1..(i - 1) : ~Reusable(active[j])
          /\ rec' = [rec EXCEPT ![t] = active[i]]
    /\ Goto(t, AfterFind(t))
    /\ UNCHANGED <<dbVars, mlock, daemonVars, guardVars, execVars, todo, keep,
                   boot, failed, hurried>>

(* An entry of the dictionary that is assigned again keeps its place. *)
Activate(t, s) ==
    LET r == Len(recs) + 1 IN
    /\ recs' = Append(recs, [sid |-> s, status |-> "idle", inst |-> TRUE])
    /\ active' = IF s \in ActiveSids
                 THEN [i \in DOMAIN active |->
                          IF Sid(active[i]) = s THEN r ELSE active[i]]
                 ELSE Append(active, r)
    /\ rec' = [rec EXCEPT ![t] = r]

(* As Open, but a session that runs is not taken for one to answer with. *)
Open_UnlessIdle(t) ==
    /\ pc[t] = "find" /\ mlock = None
    /\ \A r \in ToSet(active) : recs[r].status # "idle"
    /\ Activate(t, Len(row) + 1) /\ row' = Append(row, "idle")
    /\ mlock' = t
    /\ Goto(t, "activate")
    /\ UNCHANGED <<daemonVars, guardVars, execVars, todo, keep, boot, failed,
                   hurried>>

Open(t) ==
    /\ pc[t] = "find" /\ mlock = None
    /\ \A r \in ToSet(active) : ~Reusable(r)
    /\ LET rows == {s \in DOMAIN row : row[s] \in {"idle", "running"}} IN
       \/ \E s \in rows : Activate(t, s) /\ row' = row
       \/ rows = {} /\ Activate(t, Len(row) + 1) /\ row' = Append(row, "idle")
    /\ mlock' = t
    /\ Goto(t, "activate")
    /\ UNCHANGED <<daemonVars, guardVars, execVars, todo, keep, boot, failed,
                   hurried>>

(* The end of _activate_session: the daemon warms the session and takes *)
(* hold of its runtime, under the manager's lock.                       *)
WarmNew(t) ==
    /\ pc[t] = "activate" /\ ~stopping
    /\ live' = rec[t]
    /\ mlock' = None
    /\ Goto(t, AfterFind(t))
    /\ UNCHANGED <<dbVars, running, draining, inflight, stopping, guardVars,
                   execVars, ownVars, failed, hurried>>

(* warm_session of the pipeline: the runtime is read from the session *)
(* first, and kept under the daemon's lock later.                     *)
AfterWarm(t) == IF boot[t] THEN "closed" ELSE "enter"

WarmReads(t) ==
    /\ pc[t] = "found"
    /\ Goto(t, IF Alive(rec[t]) THEN "warm" ELSE AfterWarm(t))
    /\ UNCHANGED <<dbVars, mlock, daemonVars, guardVars, execVars, ownVars,
                   failed, hurried>>

WarmKeeps(t) ==
    /\ pc[t] = "warm" /\ ~stopping
    /\ live' = rec[t]
    /\ Goto(t, AfterWarm(t))
    /\ UNCHANGED <<dbVars, mlock, running, draining, inflight, stopping,
                   guardVars, execVars, ownVars, failed, hurried>>

(* _enter_dispatch, or its RuntimeError.  A job's comes first, before it *)
(* has a session; a prompt already has one.                              *)
Enter(t) ==
    /\ \/ pc[t] = "enter"
       \/ t \in Job /\ pc[t] = "new"
    /\ ~stopping
    /\ IF running /\ ~draining
       THEN /\ inflight' = inflight + 1
            /\ Goto(t, IF t \in Sweep THEN "list"
                       ELSE IF t \in Job THEN "find" ELSE "check")
       ELSE /\ inflight' = inflight
            /\ Goto(t, IF t \in Job THEN "done" ELSE "exit")
    /\ UNCHANGED <<dbVars, mlock, live, running, draining, stopping, guardVars,
                   execVars, ownVars, failed, hurried>>

(* _leave_dispatch, in the finally of dispatch_sync. *)
Leave(t) ==
    /\ pc[t] = "leave" /\ ~stopping
    /\ inflight' = IF inflight = 0 THEN 0 ELSE inflight - 1
    /\ Goto(t, IF t \in Job THEN "done" ELSE "exit")
    /\ UNCHANGED <<dbVars, mlock, live, running, draining, stopping, guardVars,
                   execVars, ownVars, failed, hurried>>

(* -------------------------- RLMSupervisor.execute ---------------------- *)

Check(t) ==
    /\ pc[t] = "check"
    /\ Goto(t, IF Alive(rec[t]) THEN "queue" ELSE "leave")
    /\ UNCHANGED <<dbVars, mlock, daemonVars, guardVars, execVars, ownVars,
                   failed, hurried>>

(* As Queue, but for as long as it takes. *)
Queue_Endless(t) ==
    /\ pc[t] = "queue"
    /\ Sid(rec[t]) \notin held /\ held' = held \cup {Sid(rec[t])}
    /\ Goto(t, "begin")
    /\ UNCHANGED <<dbVars, mlock, daemonVars, guardVars, busy, raised, faults, ownVars,
                   failed, hurried>>

(* The session's execution lock: taken, or given up after queue_timeout. *)
Queue(t) ==
    /\ pc[t] = "queue"
    /\ \/ Sid(rec[t]) \notin held /\ held' = held \cup {Sid(rec[t])}
          /\ Goto(t, "begin")
       \/ Sid(rec[t]) \in held /\ held' = held /\ Goto(t, "leave")
    /\ UNCHANGED <<dbVars, mlock, daemonVars, guardVars, busy, raised, faults, ownVars,
                   failed, hurried>>

(* The abort event is registered before the runtime is used: of a session *)
(* closed meanwhile the runtime is None, the assignment raises before the *)
(* try, and neither the event nor the lock is given back.                 *)
Begin(t) ==
    /\ pc[t] = "begin"
    /\ busy' = busy \cup {Sid(rec[t])}
    /\ IF Alive(rec[t])
       THEN SetStatus(rec[t], "running") /\ Goto(t, "work")
       ELSE UNCHANGED <<recs, row>> /\ Goto(t, "leave")
    /\ UNCHANGED <<active, mlock, daemonVars, guardVars, held, raised, faults,
                   ownVars, failed, hurried>>

(* The write of "running" raises, before the try too: the abort event and *)
(* the lock of a session that goes on living stay as they are.            *)
BeginRaises(t) ==
    /\ pc[t] = "begin" /\ Alive(rec[t])
    /\ busy' = busy \cup {Sid(rec[t])}
    /\ SetStatusRaises(rec[t], "running")
    /\ raised' = raised \cup {Sid(rec[t])}
    /\ Goto(t, "leave")
    /\ UNCHANGED <<active, mlock, daemonVars, guardVars, held, ownVars, failed,
                   hurried>>

(* As Finish, but an execution that failed gives the lock back only when *)
(* it is the last line of the try.                                       *)
Finish_NoFinally(t) ==
    /\ pc[t] = "work"
    /\ \E s \in {"idle", "error"} :
          /\ SetStatus(rec[t], s)
          /\ held' = IF s = "error" THEN held ELSE held \ {Sid(rec[t])}
          /\ busy' = busy \ {Sid(rec[t])}
          /\ failed' = IF s = "error" THEN failed \cup {rec[t]} ELSE failed
    /\ Goto(t, "leave")
    /\ UNCHANGED <<active, mlock, daemonVars, guardVars, raised, faults, ownVars,
                   hurried>>

(* The finally: with max_iterations_override set it writes to the runtime  *)
(* first, and of a closed session raises there, the lock still held.       *)
Finish(t) ==
    /\ pc[t] = "work"
    /\ \E s \in {"idle", "error"}, override \in BOOLEAN :
          IF override /\ ~Alive(rec[t])
          THEN UNCHANGED <<recs, row, held, busy, failed>>
          ELSE /\ SetStatus(rec[t], s)
               /\ held' = held \ {Sid(rec[t])}
               /\ busy' = busy \ {Sid(rec[t])}
               /\ failed' = IF s = "error" THEN failed \cup {rec[t]} ELSE failed
    /\ Goto(t, "leave")
    /\ UNCHANGED <<active, mlock, daemonVars, guardVars, raised, faults, ownVars,
                   hurried>>

(* The write of the last status raises, or on_complete does after it: the *)
(* abort event is gone already, the lock, which is given back last, is not. *)
FinishRaises(t) ==
    /\ pc[t] = "work"
    /\ \E s \in {"idle", "error"} :
          /\ SetStatusRaises(rec[t], s)
          /\ failed' = IF s = "error" THEN failed \cup {rec[t]} ELSE failed
    /\ busy' = busy \ {Sid(rec[t])}
    /\ raised' = raised \cup {Sid(rec[t])}
    /\ Goto(t, "leave")
    /\ UNCHANGED <<active, mlock, daemonVars, guardVars, held, ownVars, hurried>>

(* ------------------------------- closing ------------------------------- *)

(* prune_idle_sessions: a copy of the sessions, then one look at each; any *)
(* that is idle may also be old enough.  What is found is closed later.    *)
List(t) ==
    /\ pc[t] = "list" /\ mlock = None
    /\ todo' = [todo EXCEPT ![t] = active]
    /\ rec' = [rec EXCEPT ![t] = 1]
    /\ Goto(t, "look")
    /\ UNCHANGED <<dbVars, mlock, daemonVars, guardVars, execVars, keep, boot,
                   failed, hurried>>

(* should_preserve_session *)
Preserved(r) == running /\ ~draining /\ live # 0 /\ Sid(live) = Sid(r)

Look(t) ==
    /\ pc[t] = "look" /\ ~stopping
    /\ LET i == rec[t] IN
       IF i > Len(todo[t])
       THEN Goto(t, "closed") /\ UNCHANGED <<rec, todo>>
       ELSE LET r == todo[t][i] IN
            /\ pc' = pc
            /\ \/ /\ recs[r].status = "idle" /\ ~Preserved(r)
                  /\ rec' = [rec EXCEPT ![t] = i + 1]
                  /\ todo' = todo
               \/ /\ rec' = rec
                  /\ todo' = [todo EXCEPT ![t] = RemoveAt(@, i)]
    /\ UNCHANGED <<dbVars, mlock, daemonVars, guardVars, execVars, keep, boot,
                   failed, hurried>>

(* abort_session: is_running is tested here, the session is closed later. *)
Test(t) ==
    /\ pc[t] = "test"
    /\ \E r \in DOMAIN recs :
          IF Sid(r) \in busy THEN Goto(t, "exit") /\ todo' = todo
          ELSE Goto(t, "closed") /\ todo' = [todo EXCEPT ![t] = <<r>>]
    /\ UNCHANGED <<dbVars, mlock, daemonVars, guardVars, execVars, rec, keep,
                   boot, failed, hurried>>

(* close_session of the next one: a session that is not active is passed *)
(* over; with none left the thread goes on with what it was doing.       *)
AfterCloses(t) ==
    IF t = Stop THEN "off"
    ELSE IF t \in Delete THEN "exit" ELSE "leave"

Close(t) ==
    /\ pc[t] = "closed"
    /\ boot' = [boot EXCEPT ![t] = FALSE]
    /\ IF todo[t] = <<>>
       THEN Goto(t, AfterCloses(t)) /\ UNCHANGED <<mlock, todo>>
       ELSE /\ mlock = None
            /\ IF Sid(Head(todo[t])) \in ActiveSids
               THEN mlock' = t /\ Goto(t, "ask") /\ todo' = todo
               ELSE todo' = [todo EXCEPT ![t] = Tail(@)] /\ UNCHANGED <<mlock, pc>>
    /\ UNCHANGED <<dbVars, daemonVars, guardVars, execVars, rec, keep, failed,
                   hurried>>

Ask(t) ==
    /\ pc[t] = "ask" /\ ~stopping
    /\ keep' = [keep EXCEPT ![t] = Preserved(Head(todo[t]))]
    /\ Goto(t, "release")
    /\ UNCHANGED <<dbVars, mlock, daemonVars, guardVars, execVars, rec, todo,
                   boot, failed, hurried>>

(* release_session *)
Release(t) ==
    /\ pc[t] = "release" /\ ~stopping
    /\ live' = IF live # 0 /\ Sid(live) = Sid(Head(todo[t])) THEN 0 ELSE live
    /\ Goto(t, "drop")
    /\ UNCHANGED <<dbVars, mlock, running, draining, inflight, stopping,
                   guardVars, execVars, ownVars, failed, hurried>>

(* The runtime is saved, closed and forgotten, the session completed. *)
Drop(t) ==
    /\ pc[t] = "drop"
    /\ \E i \in DOMAIN active :
          /\ Sid(active[i]) = Sid(Head(todo[t]))
          /\ recs' = [recs EXCEPT ![active[i]].inst = FALSE,
                                 ![active[i]].status = "completed"]
          /\ row' = [row EXCEPT ![Sid(active[i])] = "completed"]
          /\ active' = RemoveAt(active, i)
    /\ mlock' = None
    /\ todo' = [todo EXCEPT ![t] = Tail(@)]
    /\ Goto(t, IF keep[t] THEN "boot" ELSE "closed")
    /\ UNCHANGED <<daemonVars, guardVars, execVars, rec, keep, boot, failed,
                   hurried>>

(* close() of the runtime raises and the session keeps it, or the write of *)
(* "completed" does and it has none: either way it stays active, nothing   *)
(* is opened in its place, and who closes it closes no other.              *)
AfterRaise(t) ==
    IF t = Stop THEN "done" ELSE IF t \in Delete THEN "exit" ELSE "leave"

DropRaises(t) ==
    /\ pc[t] = "drop"
    /\ faults < MaxFaults /\ faults' = faults + 1
    /\ \E i \in DOMAIN active :
          LET r == active[i] IN
          /\ Sid(r) = Sid(Head(todo[t]))
          /\ \/ Alive(r) /\ UNCHANGED <<recs, row>>
             \/ /\ recs' = [recs EXCEPT ![r].inst = FALSE,
                                        ![r].status = "completed"]
                /\ row' \in {row, [row EXCEPT ![Sid(r)] = "completed"]}
          /\ failed' = failed \cup {r}
    /\ mlock' = None
    /\ todo' = [todo EXCEPT ![t] = <<>>]
    /\ Goto(t, AfterRaise(t))
    /\ UNCHANGED <<active, daemonVars, guardVars, held, busy, raised, rec, keep,
                   boot, hurried>>

(* bootstrap_session: the test, then get_or_create, then warm_session *)
(* unless the session is already the one kept warm.                   *)
Bootstrap(t) ==
    /\ pc[t] = "boot" /\ ~stopping
    /\ IF running /\ ~draining /\ live = 0
       THEN boot' = [boot EXCEPT ![t] = TRUE] /\ Goto(t, "find")
       ELSE boot' = boot /\ Goto(t, "closed")
    /\ UNCHANGED <<dbVars, mlock, daemonVars, guardVars, execVars, rec, todo,
                   keep, failed, hurried>>

Booted(t) ==
    /\ pc[t] = "reboot" /\ ~stopping
    /\ Goto(t, IF Preserved(rec[t]) THEN "closed" ELSE "found")
    /\ UNCHANGED <<dbVars, mlock, daemonVars, guardVars, execVars, ownVars,
                   failed, hurried>>

(* ------------------------------- shutdown ------------------------------ *)

(* close_all: the sessions active now, one close_session each. *)
CloseAll ==
    /\ pc[Stop] = "closeall"
    /\ todo' = [todo EXCEPT ![Stop] = active]
    /\ Goto(Stop, "closed")
    /\ UNCHANGED <<dbVars, mlock, daemonVars, guardVars, execVars, rec, keep,
                   boot, failed, hurried>>

(* start_draining, then wait_active: until no request is left, or until *)
(* RLM_DRAIN_TIMEOUT.                                                   *)
StartDraining ==
    /\ pc[Stop] = "new"
    /\ drain' = TRUE
    /\ Goto(Stop, "wait")
    /\ UNCHANGED <<dbVars, mlock, daemonVars, reqs, execVars, ownVars, failed,
                   hurried>>

WaitActive ==
    /\ pc[Stop] = "wait"
    /\ hurried' = (hurried \/ reqs > 0)
    /\ Goto(Stop, "stop")
    /\ UNCHANGED <<dbVars, mlock, daemonVars, guardVars, execVars, ownVars,
                   failed>>

(* RecursionDaemon.stop: no new dispatch; a wait that lets the lock go; *)
(* then everything is cleared, and the snapshot is made, which asks the *)
(* manager for its sessions while the daemon's lock is held.            *)
StopDrains ==
    /\ pc[Stop] = "stop"
    /\ draining' = TRUE
    /\ Goto(Stop, "idle")
    /\ UNCHANGED <<dbVars, mlock, live, running, inflight, stopping, guardVars,
                   execVars, ownVars, failed, hurried>>

(* As StopClears, but _running is left set. *)
StopClears_StaysUp ==
    /\ pc[Stop] = "idle"
    /\ hurried' = (hurried \/ inflight > 0)
    /\ live' = 0 /\ draining' = FALSE
    /\ stopping' = TRUE
    /\ Goto(Stop, "snapshot")
    /\ UNCHANGED <<dbVars, mlock, running, inflight, guardVars, execVars, ownVars,
                   failed>>

StopClears ==
    /\ pc[Stop] = "idle"
    /\ hurried' = (hurried \/ inflight > 0)
    /\ live' = 0 /\ running' = FALSE /\ draining' = FALSE
    /\ stopping' = TRUE
    /\ Goto(Stop, "snapshot")
    /\ UNCHANGED <<dbVars, mlock, inflight, guardVars, execVars, ownVars, failed>>

Snapshot ==
    /\ pc[Stop] = "snapshot" /\ mlock = None
    /\ stopping' = FALSE
    /\ Goto(Stop, "closeall")
    /\ UNCHANGED <<dbVars, mlock, live, running, draining, inflight, guardVars,
                   execVars, ownVars, failed, hurried>>

Step(t) ==
    \/ Arrive(t) \/ Exit(t) \/ Reuse(t) \/ Open(t) \/ WarmNew(t)
    \/ WarmReads(t) \/ WarmKeeps(t) \/ Enter(t) \/ Leave(t)
    \/ Check(t) \/ Queue(t) \/ Begin(t) \/ BeginRaises(t)
    \/ Finish(t) \/ FinishRaises(t)
    \/ List(t) \/ Look(t) \/ Test(t) \/ Close(t) \/ Ask(t) \/ Release(t)
    \/ Drop(t) \/ DropRaises(t) \/ Bootstrap(t) \/ Booted(t)

Shutdown == CloseAll \/ StartDraining \/ WaitActive \/ StopDrains
            \/ StopClears \/ Snapshot

Next == (\E t \in Thread : Step(t)) \/ Shutdown

(* Every thread is scheduled; requests, jobs and the shutdown may never *)
(* come.                                                                *)
Fairness ==
    /\ \A t \in Thread : WF_vars(pc[t] # "new" /\ Step(t))
    /\ WF_vars(pc[Stop] # "new" /\ Shutdown)

Spec == Init /\ [][Next]_vars /\ Fairness

(* --------------------------- what it promises -------------------------- *)

Record == [sid : Nat \ {0}, status : Statuses, inst : BOOLEAN]

Places == {"new", "find", "activate", "found", "warm", "enter", "check", "queue",
           "begin", "work", "list", "look", "test", "closed", "ask", "release",
           "drop", "boot", "reboot", "leave", "exit", "done", "wait", "stop",
           "idle", "snapshot", "closeall", "off"}

TypeOK ==
    /\ recs \in Seq(Record) /\ row \in Seq(Statuses)
    /\ active \in Seq(1..Len(recs))
    /\ mlock \in Thread \cup {None}
    /\ live \in 0..Len(recs)
    /\ inflight \in Nat /\ reqs \in Nat
    /\ {running, draining, stopping, drain, hurried} \subseteq BOOLEAN
    /\ held \subseteq 1..Len(row) /\ busy \subseteq 1..Len(row)
    /\ raised \subseteq 1..Len(row) /\ faults \in 0..MaxFaults
    /\ failed \subseteq 1..Len(recs)
    /\ pc \in [Thread -> Places]
    /\ rec \in [Thread -> Nat]
    /\ todo \in [Thread -> Seq(1..Len(recs))]
    /\ keep \in [Thread -> BOOLEAN] /\ boot \in [Thread -> BOOLEAN]

Executing(t) == pc[t] \in {"begin", "work"}
Of(s) == {r \in DOMAIN recs : Sid(r) = s}

(* Whatever is opened, closed and reopened, the user has one session that *)
(* get_or_create can answer with; a second one comes only of an execution *)
(* that failed, whose session is not reusable until it runs again, or of  *)
(* a close that raised, which leaves its session active.                  *)
OneSession ==
    Cardinality({r \in ToSet(active) : Reusable(r) /\ r \notin failed}) <= 1

(* The lock of a session is held by an execution of it, or it is lost for  *)
(* ever, and that has one of two causes: the session was closed under an   *)
(* execution, or one of its executions raised before its try or in its     *)
(* finally.  An execution that fails, is aborted or answered an error      *)
(* loses none.                                                             *)
LockLostHasCause ==
    \A s \in held \ raised :
        \/ \E t \in Thread : Executing(t) /\ Sid(rec[t]) = s
        \/ \E r \in Of(s) : ~Alive(r)

(* A shutdown whose waits did not run out, and that no close cut short,    *)
(* ends with nothing left behind, not even a session whose close had       *)
(* raised before: none active, none kept warm, nobody executing, and no    *)
(* dispatch let in afterwards.                                             *)
ShutInPeace ==
    pc[Stop] = "off" /\ ~hurried =>
        /\ active = <<>> /\ live = 0 /\ ~running /\ inflight = 0
        /\ \A t \in Thread \ {Stop} : pc[t] \in {"new", "done"}

(* Every request and every job that has begun is answered, also behind a   *)
(* lock that is lost or after a call that raised, and a shutdown ends,     *)
(* unless one of its waits ran out (it then may not: the manager's lock    *)
(* and the daemon's are taken in either order).  As nobody begins twice,   *)
(* it is enough that always a time comes when nobody is under way.         *)
AllAnswered ==
    []<>(hurried \/ \A t \in Thread : pc[t] \in {"new", "done", "off"})
=============================================================================
