----------------------------- MODULE Supervisor -----------------------------
(***************************************************************************)
(* Supervised execution of sessions: RLMSupervisor of                      *)
(* rlm/core/orchestration/supervisor.py, with the part of SessionManager   *)
(* (rlm/core/session/_impl.py) that closes a session under it.             *)
(*                                                                         *)
(* A request is one call of execute() or execute_async(): it stands for    *)
(* the calling thread, and for the abort event, the cancel source and the  *)
(* timer that the call makes.  A session has one execution lock; the       *)
(* registries _abort_events and _cancel_sources have one entry per         *)
(* session, written and removed by key.                                    *)
(*                                                                         *)
(* Not here: the pool's futures table (write-only), telemetry, usage       *)
(* counters, and the loop inside completion(), which may return or raise   *)
(* at any time.                                                            *)
(***************************************************************************)
EXTENDS Naturals, FiniteSets

CONSTANTS
    Request,    \* the calls of execute()
    Async,      \* those made through execute_async(), on the worker pool
    Override,   \* those whose config overrides max_iterations
    Session,
    SessionOf,  \* the session of each request
    PoolSize,   \* max_workers of the pool
    MayClose,   \* the sessions that somebody may close
    None

ASSUME RequestType == Async \subseteq Request /\ Override \subseteq Request
ASSUME SessionType == SessionOf \in [Request -> Session] /\ MayClose \subseteq Session
ASSUME PoolType == PoolSize \in Nat \ {0}
ASSUME NoneIsNothing == None \notin Request

VARIABLES
    pc,         \* how far each request is
    holder,     \* the request that holds each session's execution lock
    events,     \* _abort_events
    sources,    \* _cancel_sources
    aborted,    \* the requests whose abort event is set
    tokens,     \* the requests whose cancel token is cancelled
    reason,     \* the _reason attribute of each abort event
    cause,      \* history: for whose sake each request was aborted
    timer,      \* the timeout timer of each request
    instEvent,  \* rlm_instance._abort_event
    instToken,  \* rlm_instance._cancel_token
    limit,      \* who set rlm_instance.max_iterations last
    saved,      \* original_max_iter of each request
    result,     \* the status of each ExecutionResult
    inst,       \* whether session.rlm_instance is there
    status,     \* session.status
    closing,    \* how far close_session() is
    shut,       \* how far shutdown() is
    toAbort     \* the sessions shutdown() has still to abort

lockVars == <<pc, holder>>
abortVars == <<events, sources, aborted, tokens, reason, cause>>
instVars == <<instEvent, instToken, limit, saved>>
sessionVars == <<inst, status, closing>>
shutVars == <<shut, toAbort>>

vars == <<lockVars, abortVars, timer, instVars, result, sessionVars, shutVars>>

Default == None    \* the value of max_iterations that no request has set

\* What abort() is told by its callers in the repository, as words.
Words == [timer    |-> {"Timeout", "after", "seconds"},
          user     |-> {"Aborted", "via", "API"},
          shutdown |-> {"Server", "shutdown"},
          none     |-> {}]

Statuses == {"running", "completed", "timeout", "aborted", "error_loop", "error"}

\* The places where the request holds the lock; "stuck" is an exception that
\* left execute() between acquire() and release().
Holding == {"acquired", "event", "source", "running", "finally", "popped",
            "release", "stuck"}

TypeOK ==
    /\ pc \in [Request -> {"idle", "queued", "locking", "done"} \cup Holding]
    /\ holder \in [Session -> Request \cup {None}]
    /\ events \in [Session -> Request \cup {None}]
    /\ sources \in [Session -> Request \cup {None}]
    /\ aborted \subseteq Request
    /\ tokens \subseteq Request
    /\ reason \in [Request -> {"timer", "user", "shutdown", "none"}]
    /\ cause \in [Request -> SUBSET (Request \cup {"user", "shutdown"})]
    /\ timer \in [Request -> {"off", "armed", "awake"}]
    /\ instEvent \in [Session -> Request \cup {None}]
    /\ instToken \in [Session -> Request \cup {None}]
    /\ limit \in [Session -> Request \cup {Default}]
    /\ saved \in [Request -> Request \cup {Default}]
    /\ result \in [Request -> Statuses \cup {"none", "cancelled"}]
    /\ inst \in [Session -> {"live", "gone"}]
    /\ status \in [Session -> {"idle", "running", "error", "completed"}]
    /\ closing \in [Session -> {"no", "decided", "released", "closed"}]
    /\ shut \in {"up", "aborting", "joining", "down"}
    /\ toAbort \subseteq Session

Init ==
    /\ pc = [r \in Request |-> "idle"]
    /\ holder = [s \in Session |-> None]
    /\ events = [s \in Session |-> None]
    /\ sources = [s \in Session |-> None]
    /\ aborted = {}
    /\ tokens = {}
    /\ reason = [r \in Request |-> "none"]
    /\ cause = [r \in Request |-> {}]
    /\ timer = [r \in Request |-> "off"]
    /\ instEvent = [s \in Session |-> None]
    /\ instToken = [s \in Session |-> None]
    /\ limit = [s \in Session |-> Default]
    /\ saved = [r \in Request |-> Default]
    /\ result = [r \in Request |-> "none"]
    /\ inst = [s \in Session |-> "live"]
    /\ status = [s \in Session |-> "idle"]
    /\ closing = [s \in Session |-> "no"]
    /\ shut = "up"
    /\ toAbort = {}

Goto(r, from, to) == pc[r] = from /\ pc' = [pc EXCEPT ![r] = to]

-----------------------------------------------------------------------------
(* execute() and execute_async()                                           *)

\* execute_async(): submit() to the pool, refused once the pool is shut down.
Submit(r) ==
    /\ r \in Async
    /\ shut \in {"up", "aborting"}
    /\ Goto(r, "idle", "queued")
    /\ UNCHANGED <<holder, abortVars, timer, instVars, result, sessionVars,
                   shutVars>>

\* As Working below, when a worker is lost to an exception.
Working_Lost == {r \in Async : pc[r] \in Holding \cup {"locking"}}

\* The requests that occupy a worker of the pool.
Working == {r \in Async : pc[r] \in (Holding \ {"stuck"}) \cup {"locking"}}

\* execute() up to its wait for the session's lock: at once in the caller's
\* thread, or when a worker takes the request from the pool's queue.
Call(r) ==
    /\ IF r \in Async
         THEN pc[r] = "queued" /\ Cardinality(Working) < PoolSize
         ELSE pc[r] = "idle"
    /\ IF inst[SessionOf[r]] = "gone"
         THEN /\ pc' = [pc EXCEPT ![r] = "done"]
              /\ result' = [result EXCEPT ![r] = "error"]
         ELSE /\ pc' = [pc EXCEPT ![r] = "locking"]
              /\ UNCHANGED result
    /\ UNCHANGED <<holder, abortVars, timer, instVars, sessionVars, shutVars>>

\* exec_lock.acquire() gets the lock,
Acquire(r) ==
    /\ holder[SessionOf[r]] = None
    /\ Goto(r, "locking", "acquired")
    /\ holder' = [holder EXCEPT ![SessionOf[r]] = r]
    /\ UNCHANGED <<abortVars, timer, instVars, result, sessionVars, shutVars>>

\* As QueueTimeout below, going on without the lock,
QueueTimeout_GoesOn(r) ==
    /\ holder[SessionOf[r]] # None
    /\ Goto(r, "locking", "acquired")
    /\ UNCHANGED <<holder, abortVars, timer, instVars, result, sessionVars,
                   shutVars>>

\* or with a lock that is awaited for ever.
QueueTimeout_Never(r) == FALSE

\* or does not get it within queue_timeout.
QueueTimeout(r) ==
    /\ holder[SessionOf[r]] # None
    /\ Goto(r, "locking", "done")
    /\ result' = [result EXCEPT ![r] = "error"]
    /\ UNCHANGED <<holder, abortVars, timer, instVars, sessionVars, shutVars>>

\* The abort event enters the registry.
RegisterEvent(r) ==
    /\ Goto(r, "acquired", "event")
    /\ events' = [events EXCEPT ![SessionOf[r]] = r]
    /\ UNCHANGED <<holder, sources, aborted, tokens, reason, cause, timer,
                   instVars, result, sessionVars, shutVars>>

\* The event is put into the instance and the cancel source into the
\* registry.  A session closed since the first test has no instance any more,
\* and the assignment raises before any try.
RegisterSource(r) ==
    LET s == SessionOf[r] IN
    /\ pc[r] = "event"
    /\ IF inst[s] = "gone"
         THEN /\ pc' = [pc EXCEPT ![r] = "stuck"]
              /\ UNCHANGED <<sources, instEvent>>
         ELSE /\ pc' = [pc EXCEPT ![r] = "source"]
              /\ sources' = [sources EXCEPT ![s] = r]
              /\ instEvent' = [instEvent EXCEPT ![s] = r]
    /\ UNCHANGED <<holder, events, aborted, tokens, reason, cause, timer,
                   instToken, limit, saved, result, sessionVars, shutVars>>

\* The cancel token and the iteration limit are set, the session becomes
\* running, the timer starts and completion() is called.
Start(r) ==
    LET s == SessionOf[r] IN
    /\ inst[s] = "live"
    /\ Goto(r, "source", "running")
    /\ instToken' = [instToken EXCEPT ![s] = r]
    /\ saved' = [saved EXCEPT ![r] = limit[s]]
    /\ limit' = IF r \in Override THEN [limit EXCEPT ![s] = r] ELSE limit
    /\ status' = [status EXCEPT ![s] = "running"]
    /\ timer' = [timer EXCEPT ![r] = "armed"]
    /\ result' = [result EXCEPT ![r] = "running"]
    /\ UNCHANGED <<holder, abortVars, instEvent, inst, closing, shutVars>>

\* The same stretch when it raises: the instance is gone, or
\* transition_status() cannot write the new status to the database.
StartRaises(r) ==
    LET s == SessionOf[r] IN
    /\ Goto(r, "source", "stuck")
    /\ IF inst[s] = "gone"
         THEN UNCHANGED <<instToken, saved, limit, status>>
         ELSE /\ instToken' = [instToken EXCEPT ![s] = r]
              /\ saved' = [saved EXCEPT ![r] = limit[s]]
              /\ limit' = IF r \in Override THEN [limit EXCEPT ![s] = r]
                          ELSE limit
              /\ status' = [status EXCEPT ![s] = "running"]
    /\ UNCHANGED <<holder, abortVars, timer, instEvent, result, inst, closing,
                   shutVars>>

\* completion() returns,
Returns(r) ==
    /\ Goto(r, "running", "finally")
    /\ result' = [result EXCEPT ![r] =
                    IF r \in aborted THEN "aborted" ELSE "completed"]
    /\ UNCHANGED <<holder, abortVars, timer, instVars, sessionVars, shutVars>>

\* or raises.  The patterns of an error loop are looked for before the abort
\* event, and the reason of an abort is searched for the word "timeout".
Raises(r) ==
    \E pattern \in BOOLEAN :
      /\ Goto(r, "running", "finally")
      /\ result' = [result EXCEPT ![r] =
           IF pattern THEN "error_loop"
           ELSE IF r \notin aborted THEN "error"
           ELSE IF "timeout" \in Words[reason[r]] THEN "timeout"
           ELSE "aborted"]
      /\ UNCHANGED <<holder, abortVars, timer, instVars, sessionVars, shutVars>>

\* As CleanUp below, without the restoration of the limit,
CleanUp_KeepsLimit(r) ==
    LET s == SessionOf[r] IN
    /\ Goto(r, "finally", "popped")
    /\ timer' = [timer EXCEPT ![r] = IF @ = "armed" THEN "off" ELSE @]
    /\ events' = [events EXCEPT ![s] = None]
    /\ sources' = [sources EXCEPT ![s] = None]
    /\ UNCHANGED <<holder, aborted, tokens, reason, cause, instVars, result,
                   sessionVars, shutVars>>

\* or without the removal of the cancel source.
CleanUp_KeepsSource(r) ==
    LET s == SessionOf[r] IN
    /\ Goto(r, "finally", "popped")
    /\ timer' = [timer EXCEPT ![r] = IF @ = "armed" THEN "off" ELSE @]
    /\ limit' = IF r \in Override THEN [limit EXCEPT ![s] = saved[r]] ELSE limit
    /\ events' = [events EXCEPT ![s] = None]
    /\ UNCHANGED <<holder, sources, aborted, tokens, reason, cause, instEvent,
                   instToken, saved, result, sessionVars, shutVars>>

\* The finally block: the timer is cancelled, which does nothing to a timer
\* thread that is awake already; the limit is restored; the registries lose
\* the session's entries.  Without an instance the restoration raises.
CleanUp(r) ==
    LET s == SessionOf[r]
        fails == r \in Override /\ inst[s] = "gone"
    IN
    /\ Goto(r, "finally", IF fails THEN "stuck" ELSE "popped")
    /\ timer' = [timer EXCEPT ![r] = IF @ = "armed" THEN "off" ELSE @]
    /\ IF fails
         THEN UNCHANGED <<limit, events, sources>>
         ELSE /\ limit' = IF r \in Override THEN [limit EXCEPT ![s] = saved[r]]
                          ELSE limit
              /\ events' = [events EXCEPT ![s] = None]
              /\ sources' = [sources EXCEPT ![s] = None]
    /\ UNCHANGED <<holder, aborted, tokens, reason, cause, instEvent,
                   instToken, saved, result, sessionVars, shutVars>>

StatusAfter(res) == IF res \in {"error", "error_loop"} THEN "error" ELSE "idle"

\* As Settle below, without the branch for an aborted execution.
Settle_NoAborted(r) ==
    LET s == SessionOf[r] IN
    /\ Goto(r, "popped", "release")
    /\ instEvent' = [instEvent EXCEPT ![s] = None]
    /\ instToken' = [instToken EXCEPT ![s] = None]
    /\ status' = IF result[r] = "aborted" THEN status
                 ELSE [status EXCEPT ![s] = StatusAfter(result[r])]
    /\ UNCHANGED <<holder, abortVars, timer, limit, saved, result, inst,
                   closing, shutVars>>

\* The instance lets go of the event and the token, the session gets its
\* status and on_complete is called; the last two may raise.
Settle(r) ==
    LET s == SessionOf[r] IN
    \E raised \in BOOLEAN :
      /\ Goto(r, "popped", IF raised THEN "stuck" ELSE "release")
      /\ IF inst[s] = "live"
           THEN /\ instEvent' = [instEvent EXCEPT ![s] = None]
                /\ instToken' = [instToken EXCEPT ![s] = None]
           ELSE UNCHANGED <<instEvent, instToken>>
      /\ status' = [status EXCEPT ![s] = StatusAfter(result[r])]
      /\ UNCHANGED <<holder, abortVars, timer, limit, saved, result, inst,
                     closing, shutVars>>

\* exec_lock.release()
Release(r) ==
    /\ Goto(r, "release", "done")
    /\ holder' = [holder EXCEPT ![SessionOf[r]] = None]
    /\ UNCHANGED <<abortVars, timer, instVars, result, sessionVars, shutVars>>

-----------------------------------------------------------------------------
(* abort(), the timer, shutdown()                                          *)

\* abort(): whatever the registries hold for the session is cancelled.
Abort(s, why, who) ==
    /\ tokens' = tokens \cup ({sources[s]} \ {None})
    /\ IF events[s] = None
         THEN UNCHANGED <<aborted, reason, cause>>
         ELSE /\ aborted' = aborted \cup {events[s]}
              /\ reason' = [reason EXCEPT ![events[s]] = why]
              /\ cause' = [cause EXCEPT ![events[s]] = @ \cup {who}]
    /\ UNCHANGED <<events, sources>>

\* The abort endpoint.
UserAbort(s) ==
    /\ events[s] # None
    /\ Abort(s, "user", "user")
    /\ UNCHANGED <<lockVars, timer, instVars, result, sessionVars, shutVars>>

\* The time limit passes: the timer thread wakes up and finds the timer not
\* cancelled,
Expire(r) ==
    /\ timer[r] = "armed"
    /\ timer' = [timer EXCEPT ![r] = "awake"]
    /\ UNCHANGED <<lockVars, abortVars, instVars, result, sessionVars, shutVars>>

\* and then calls _on_timeout(), which aborts the session by its id.
OnTimeout(r) ==
    /\ timer[r] = "awake"
    /\ timer' = [timer EXCEPT ![r] = "off"]
    /\ Abort(SessionOf[r], "timer", r)
    /\ UNCHANGED <<lockVars, instVars, result, sessionVars, shutVars>>

\* shutdown() takes the sessions that are active now,
ShutdownBegins ==
    /\ shut = "up"
    /\ shut' = "aborting"
    /\ toAbort' = {s \in Session : events[s] # None}
    /\ UNCHANGED <<lockVars, abortVars, timer, instVars, result, sessionVars>>

\* aborts them one by one,
ShutdownAborts(s) ==
    /\ s \in toAbort
    /\ toAbort' = toAbort \ {s}
    /\ Abort(s, "shutdown", "shutdown")
    /\ UNCHANGED <<lockVars, timer, instVars, result, sessionVars, shut>>

\* (As ShutdownPool below, leaving what is queued to the workers.)
ShutdownPool_Queue ==
    /\ shut = "aborting"
    /\ toAbort = {}
    /\ shut' = "joining"
    /\ UNCHANGED <<lockVars, abortVars, timer, instVars, result, sessionVars,
                   toAbort>>

\* waits until no session vetoes or ten seconds have passed, shuts the pool
\* down, which cancels what is still queued,
ShutdownPool ==
    /\ shut = "aborting"
    /\ toAbort = {}
    /\ shut' = "joining"
    /\ pc' = [r \in Request |-> IF pc[r] = "queued" THEN "done" ELSE pc[r]]
    /\ result' = [r \in Request |->
                    IF pc[r] = "queued" THEN "cancelled" ELSE result[r]]
    /\ UNCHANGED <<holder, abortVars, timer, instVars, sessionVars, toAbort>>

\* and waits for the workers.
ShutdownJoins ==
    /\ shut = "joining"
    /\ Working = {}
    /\ shut' = "down"
    /\ UNCHANGED <<lockVars, abortVars, timer, instVars, result, sessionVars,
                   toAbort>>

-----------------------------------------------------------------------------
(* SessionManager                                                          *)

Decide(s) ==
    /\ s \in MayClose
    /\ closing[s] = "no"
    /\ closing' = [closing EXCEPT ![s] = "decided"]
    /\ UNCHANGED <<lockVars, abortVars, timer, instVars, result, inst, status,
                   shutVars>>

\* DELETE /sessions/{id} finds the session not running.
DeleteDecides(s) == events[s] = None /\ Decide(s)

\* prune_idle_sessions() finds the session idle.
PruneDecides(s) == status[s] = "idle" /\ Decide(s)

\* The server's lifespan calls close_all() after shutdown().
CloseAll(s) == shut = "down" /\ Decide(s)

\* close_session() drops the instance,
CloseReleases(s) ==
    /\ closing[s] = "decided"
    /\ closing' = [closing EXCEPT ![s] = "released"]
    /\ inst' = [inst EXCEPT ![s] = "gone"]
    /\ UNCHANGED <<lockVars, abortVars, timer, instVars, result, status,
                   shutVars>>

\* and marks the session completed.
CloseMarks(s) ==
    /\ closing[s] = "released"
    /\ closing' = [closing EXCEPT ![s] = "closed"]
    /\ status' = [status EXCEPT ![s] = "completed"]
    /\ UNCHANGED <<lockVars, abortVars, timer, instVars, result, inst, shutVars>>

-----------------------------------------------------------------------------
Execution(r) ==
    \/ Acquire(r) \/ QueueTimeout(r)
    \/ RegisterEvent(r) \/ RegisterSource(r)
    \/ Start(r) \/ StartRaises(r)
    \/ Returns(r) \/ Raises(r)
    \/ CleanUp(r) \/ Settle(r) \/ Release(r)

Shutdown ==
    \/ \E s \in Session : ShutdownAborts(s)
    \/ ShutdownPool
    \/ ShutdownJoins

Next ==
    \/ \E r \in Request :
         Submit(r) \/ Call(r) \/ Execution(r) \/ Expire(r) \/ OnTimeout(r)
    \/ \E s \in Session :
         \/ UserAbort(s)
         \/ DeleteDecides(s) \/ PruneDecides(s) \/ CloseAll(s)
         \/ CloseReleases(s) \/ CloseMarks(s)
    \/ ShutdownBegins \/ Shutdown

Spec == Init /\ [][Next]_vars

\* The threads inside execute() and shutdown() go on, a worker that is free
\* takes a queued request, and completion() ends: its loop has an iteration
\* limit.  Nothing makes anybody call, abort or close.
FairSpec ==
    /\ Spec
    /\ \A r \in Request : WF_vars(Execution(r))
    /\ \A r \in Async : WF_vars(Call(r))
    /\ WF_vars(Shutdown)

-----------------------------------------------------------------------------
(* Properties                                                              *)

\* What the place of a request in execute() means to its caller: an execution
\* that lost the lock to an exception is still in the others' way.
Mode(place) ==
    CASE place \in {"idle", "queued"} -> "outside"
      [] place = "locking" -> "waiting"
      [] place \in Holding \ {"stuck"} -> "inside"
      [] place = "stuck" -> "lost"
      [] place = "done" -> "done"

\* Told to stop: by the abort event or by the cancel token, which two lookups
\* in two registries set.
Promise == INSTANCE Turnstile
    WITH mode <- [r \in Request |-> Mode(pc[r])], stopped <- aborted \cup tokens

\* The supervisor is a turnstile per session, although locks, registries and
\* instances are found by the session's id and several threads write them:
\* one execution at a time, no request gives up without a reason, and a stop
\* by a user, a timer or a shutdown reaches nobody who waits or has left.
AsTurnstile == Promise!Spec

\* Two executions of a session are never inside completion(), nor anywhere
\* between their registration and their clean-up, at the same time.
OneExecution ==
    \A r, q \in Request :
        (SessionOf[r] = SessionOf[q] /\ pc[r] \in Holding /\ pc[q] \in Holding)
            => r = q

\* abort() reaches the execution it is meant for: while a request is inside
\* completion() both registries hold its own entries, although every request
\* of the session writes and pops them by the session's id.
AbortReaches ==
    \A r \in Request :
        pc[r] = "running" =>
            events[SessionOf[r]] = r /\ sources[SessionOf[r]] = r

\* is_running() does not lie: an entry left in the registries belongs to the
\* request that has the session's lock.
RegistryOwned ==
    \A s \in Session :
        /\ events[s] # None => events[s] = holder[s]
        /\ sources[s] # None => sources[s] = holder[s]

\* The registries tell of the execution that runs, and of no other.
Registered == AbortReaches /\ RegistryOwned

\* An execution never runs with the event or the token of an earlier one.
OwnHooks ==
    \A r \in Request :
        pc[r] = "running" =>
            instEvent[SessionOf[r]] = r /\ instToken[SessionOf[r]] = r

\* The override of one request does not leak into the next: max_iterations is
\* back to what it was whenever the session's lock is free.
LimitRestored == \A s \in Session : holder[s] = None => limit[s] = Default

\* Nobody is told that an open session runs when no request has its lock, and
\* prune_idle_sessions() never selects one that is inside completion().
StatusHonest ==
    \A s \in Session :
        closing[s] # "closed" =>
            /\ status[s] = "running" => holder[s] # None
            /\ \A r \in Request :
                 (SessionOf[r] = s /\ pc[r] = "running") => status[s] = "running"

\* Once the pool is down no request of it runs or will run.
PoolQuiet ==
    shut = "down" => \A r \in Async : pc[r] \in {"idle", "done", "stuck"}

\* Every call of execute() ends, by its result or by an exception, even when
\* an earlier one never releases the lock.
EveryCallEnds ==
    \A r \in Request : (pc[r] = "locking") ~> (pc[r] \in {"done", "stuck"})

\* shutdown() returns.
ShutdownEnds == (shut = "aborting") ~> (shut = "down")

(* What the repository says and the code does not do                       *)

\* "Called by timer when execution exceeds the time limit": an execution is
\* aborted for a timeout only by its own timer.
TimeoutIsOwn == \A r \in Request : cause[r] \cap Request \subseteq {r}
=============================================================================
