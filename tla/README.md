# Arkhe in TLA+

Arkhe runs language-model agents: a request reaches a *session*, whose recursive model loop (RLM) may start
sub-agents, schedule tasks and send messages to chat channels. The canonical implementation is Python
(`src/rlm`, some 65,000 lines), with a TypeScript front end (`src/packages`) and Rust helpers (`src/native`).
What can go wrong in it, and no unit test reaches, is in the few places where threads, timers, signals, processes
and a database meet. This project models those places, checks them with TLC, and proves the main results with TLAPS.

Contents: [1 the system](#1-the-system), [2 the plan](#2-the-plan), [3 the modules](#3-the-modules),
[4 what the runs show](#4-what-the-runs-show), [5 what is proved](#5-what-is-proved),
[6 disagreements](#6-where-code-and-documents-disagree), [7 limits](#7-what-is-not-modelled).

## 1 The system

### 1.1 Components that carry the protocol

| Component | State it keeps | Operations | What makes it correct | Module |
|---|---|---|---|---|
| Cancellation tokens, `core/lifecycle/cancellation.py` | flag and listeners of a token, under its lock; a source's `_disposed`, under none | construct (with a parent), `cancel`, `on_cancelled`, dispose of a registration or of a source | a callback is called once, however registering and firing interleave; a cancelled parent reaches every child | `Cancellation`, `TokenTree` |
| Session supervisor, `core/orchestration/supervisor.py` | an execution lock per session; the registries of abort events and cancel sources; hooks on the shared `RLM` instance; a worker pool; a timer per execution | `execute`, `execute_async`, `abort`, `_on_timeout`, `shutdown` | one execution per session; an abort finds the execution it is meant for; what one execution changed is restored; every call ends | `Supervisor`, `Turnstile` |
| Session manager, daemon, drain and shutdown, `core/session/_impl.py`, `daemon/recursion_daemon.py`, `server/drain.py`, `server/api.py` | the sessions in memory and their rows; the one session kept warm; the counts of requests and dispatches; three locks | `get_or_create`, `close_session`, `prune_idle_sessions`, `close_all`; warm, release, bootstrap, dispatch, `stop`; the guard of the server | one session answers the user; a close does not pull a session from under an execution; a shutdown leaves nothing open; everyone is answered | `Sessions` |
| The turn, `server/runtime_pipeline.py`, `core/engine` | on the one runtime of a session: model, LM handler, the `reply()` closure and its flag; counts of the loop | dispatch of a prompt, model override, warm runtime, `completion()` with its loop | the loop calls the model a bounded number of times; an abort is honoured; what a turn changed is gone after it | `Turns` |
| Tree search, `core/orchestration/mcts.py`, with `execute_code` of `environments/local_repl.py` | futures and results of a round; the output and the working directory of the process; the archive, shared by the searches of one prompt | `run`, `evolutionary_branch_search`, `ProgramArchive.update`, the seeding | the winner does not depend on the order of results; the seed is the best there was | `Search` |
| Sibling bus, `core/orchestration/sibling_bus.py` | FIFO queues by topic; control channels with a generation and what each receiver has seen | `publish`, `subscribe_message`, `drain`, `publish_control`, `poll_control`, `wait_control` | nothing lost, duplicated or overtaken; limits hold; a waiting branch hears a signal | `SiblingBus` |
| Parallel sub-agents, `core/engine/sub_rlm.py` | results, cancel events and winner of a batch; the parent's task ledger | `_run_parallel_core` with its children, observer, both phases and time limit | every task gets a result; the winner stops the losers only; an answer is kept; no deadlock on `winner_lock` | `Parallel` |
| Outbox and its worker, `core/comms/outbox.py`, `delivery_worker.py` | a table of messages that outlives the process; the batch in the worker's memory | `enqueue`, `fetch_pending`, `mark_delivered`, `mark_failed`, start, stop, the end of the process | tries are counted and bounded; a message is settled once; order is kept; nothing is forgotten | `Outbox`, `Delivery` |
| Scheduled tasks, `server/scheduler.py` | a table of tasks that outlives the process; the loop's snapshot; `_active` and its threads | add, cancel, delete, the polling loop, dispatch, `run_once`, stop, restart | a task does not overlap itself; the pool is bounded; one-shot tasks start once; what is due is run | `TaskScheduler` |

### 1.2 How they interact

* An HTTP, WebSocket or chat request reaches `server/api.py` or `runtime_pipeline.py`, which gets a session from
  `SessionManager`, has the recursion daemon warm it and count the dispatch, prepares the REPL and the model of the
  session, and calls `RLMSupervisor.execute` in a thread of the server, or `execute_async` on the pool.
* The supervisor puts an abort event and a cancellation token on the session's `RLM` object; the loop looks at both.
  A sub-agent gets a source linked to its parent's token.
* A completion may start with a search: branches of generated code on a thread pool, the best of which seeds the REPL.
* The loop calls `sub_rlm_parallel`, which runs children on a thread pool. Children talk on the sibling bus; the batch
  observes the same bus, and its observer is called in the thread that publishes. The operator's controls
  (`environments/_runtime_state.py:432-519`) publish on that bus from a thread of the server.
* An answer for a channel is put into the outbox by the message bus; the worker, an asyncio task started in the server's
  lifespan, hands it to the channel's adapter.
* The command line edits the table of scheduled tasks in processes of its own; the daemon polls it.
* At the end the server drains its requests, stops the recursion daemon (which waits for its dispatches) and closes all
  sessions; `RLMSupervisor.shutdown()` aborts what runs and joins the pool.

Each module stands for the parts it does not contain by their contract. `Supervisor` lets `completion()` return or raise at any
time and a session be closed under it; `Sessions` has of `execute` what reads and writes the session; `Turns` has of it
the lock and the abort event, and fills `completion()` in; in the scheduler a run succeeds or fails; in the
batch a child answers, is stopped or raises.

### 1.3 Components without a protocol of their own, or not modelled

`PROJECT.json` lists every one with its sources. In short:

* **State machines left out**: the approval gate (`core/security/exec_approval.py`, one request and one decision under one
  event), the in-process cron scheduler (`core/orchestration/scheduler.py`, a simpler relative of `TaskScheduler`),
  the gateway state machine with its heartbeat (sequential, one per process), the disposables of `core/lifecycle`, which the
  server's shutdown does not use, and the gates of `server/backpressure.py`, which nothing in the server imports.
* **Callers and wiring**: the servers' other end points, the message bus and its routing, channel bootstrap, environments,
  model clients, the command line. What they call, and when, is taken from them.
* **I/O or text**: chat gateways, health monitor, memory, skills, tools, integrations, execution policy, the LM handler's
  sockets.
* **Other languages**: TypeScript packages and Rust crates, a second front end and a set of pure helpers.

### 1.4 The hard behaviours

The hazards are listed in `PROJECT.json`, each at the line where it bites, with a note where a property covers only a part
of one. They are of seven families:

* *registries written and removed by key while somebody else may own the entry* (supervisor, `_active` of the scheduler,
  cancel events of a batch);
* *a claim in a table that only the claimant releases*, and a claimant that may die (`delivering` rows of the outbox,
  `running` rows of the scheduler);
* *a callback or signal called while a lock is held, or after it is released* (tokens, control channels, `winner_lock`, the
  session manager that calls the daemon which calls it back);
* *time-outs that give up on a thread which goes on* (the stale timer, the total time of a batch, phase 2, the waits of a
  shutdown);
* *what is read early and used late* (a session that looked idle, a snapshot of due tasks, the model and handler an
  override saved before it had the execution lock);
* *what one call leaves behind in an object that the next one shares* (the `reply()` closure and flag, the loop detector, the
  archive of a prompt);
* *what belongs to the process and is changed under a lock of one object* (`sys.stdout`, `sys.stderr` and the working directory
  while a branch of a search is executed).

## 2 The plan

Modules are ordered by what depends on them and by how much of the system they decide:

1. `Cancellation`, the primitive under all the others. Done, proved.
2. `Supervisor`, with `Turnstile` as the abstract specification that it refines. Done, safety and refinement proved.
3. `SiblingBus`. Done, safety proved.
4. `Outbox`, with `Delivery` as the abstract specification that it refines. Done, safety and refinement proved.
5. `TaskScheduler`. Done, safety proved.
6. `Parallel`, the batch, which uses what 1 and 3 provide. Done, safety proved.
7. `Sessions`, the composition of session manager, recursion daemon, drain guard and shutdown. Done, safety proved.
8. `Turns`, the composition of dispatch, warm runtime, override and loop. Done, safety proved.
9. `Search`, the search before a completion. Done, safety proved.

What a further step would add: `Parallel` over the control channels of `SiblingBus` (today the batch has the bus's contract
built in: a signal reaches the observers that are on the bus, in the publisher's thread); two outbox workers on one file;
the approval gate and the cron scheduler; the streaming and sentinel loops.

Abstract specifications: `Delivery`, which `Outbox` implements, and `Turnstile`, which `Supervisor` implements. A next one
would be "one run per due date" for `TaskScheduler`; for `SiblingBus` the equation that the runs check already is the FIFO channel.

## 3 The modules

Each component has `X.tla` (the model and its properties), `MCX.tla` and its `.cfg` files (instances), and `XProofs.tla`;
the proofs about `Cancellation` and `SiblingBus` share `PrimitivesProofs.tla`.
Next to an action `A` there may be operators named `A_Something`: the same handler with a plausible bug. They are never
part of `Next`; each property names one of them in `PROJECT.json` that makes it fail.

Conventions: a variable named after a field is that field; a variable marked *history* records what happened so that a
property can speak of it and is never read by a guard; a bound is a constant named `Max...`, and says so.
An action is what the code does between two places where another thread can come in: the release of a lock, an await, a
call of the store, or a callback.

### Cancellation
A source stands for its token, since it owns one. `Make`, `Cancel`, `OnCancelled`, `Remove`, `Dispose` are the calls.
`cancel()` is split where the code leaves its lock: the test of `_disposed` (`Cancel`), taking the listeners
under the lock (`Fire`), one call of a listener at a time (`CallNext`), the return (`FireReturns`); `dispose` sets the flag
(`Dispose`) and only later unlinks from the parent (`Unlink`). A child's `cancel()` runs nested in the parent's loop,
hence `Innermost`. `on_cancelled` on a cancelled token calls the callback with the lock held (`inline`, `LockFree`).
Listeners are called in any order, which includes the code's. `TokenTree` instantiates the module, with the assumptions on
its constants and under names that can stand beside those of another primitive; its properties are what runs and theorems are about.

### Supervisor
`pc[r]` follows one call of `execute` from the wait for the session's lock through registration, start, `completion()`,
`finally`, status and release. The registries map a session to the request whose entry is there. The instance's hooks
(`instEvent`, `instToken`, `limit`) belong to the session, as several requests share one `RLM` object. A timer is *off*,
*armed* or *awake*: `cancel()` does nothing to one that is awake. `"stuck"` is an exception that leaves `execute`
with the lock taken; `StartRaises`, `RegisterSource`, `CleanUp` and `Settle` reach it where the code can raise.
`DeleteDecides`, `PruneDecides`, `CloseAll`, `CloseReleases`, `CloseMarks` are the session manager's and `api.py`'s part.
`Turnstile` says what the caller of `execute` may rely on, without locks and registries: one request inside a session at a
time; who finds it barred, and nobody else, may give up; who is inside leaves or is lost there; who is told to stop is inside.
`Mode` maps the places of `pc` to it (`"stuck"` is *lost*), and the stopped ones are those with an abort event or a token set.

### SiblingBus
A call finds or creates its channel under the bus lock, then works on it under the channel's lock: two steps each.
`Put`/`PutFull`, `Get`/`GetTimeout`, `DrainNext`/`DrainEnds`, `SendSignal`, `Poll`, `WaitHit`/`WaitTimeout` are the
second steps. Both kinds of channel count against one limit (`HasRoom`). `PublishInvalid` makes the channel and then
raises. `sends` bounds what a branch sends. Reads that change nothing are left out.

### Outbox and Delivery
The worker is one asyncio task; `pc` says at which await it is. `Fetch` is the ordered, limited query with the update
that claims its rows; `Send` is the call of the adapter; `MarkDelivered` and `MarkFailed` are the updates, each with a
variant that raises. `enqueue` takes its time stamp before the lock (`Stamp`) and inserts under it (`Insert`).
`Exit` is any end of the process, the one that follows `stop` included: nobody waits for the task.
`Delivery` says what one message may do, without batches, clock, worker or database. `Phase` maps a row to it: a row in
`delivering` is *claimed* while its `attempts` agree with the calls made and *sent* when they are one behind.

### TaskScheduler
The table survives `Exit`; everything else does not. The loop takes a snapshot (`GetDue`) and handles it row by row:
`Skip`, `NotMet`, or `Mark` (the row says running) followed by `Launch` (the thread starts). A thread goes through
`Finish` (the next run is computed), `CancelOnce`, `Record`, and stays alive while it notifies. `run_once` is `ForceFind`,
`ForceMark`, `ForceLaunch`, from another thread and without a lock. `next` is the time left until `next_run_ts`, and
`Epoch` its value 0.0; the calendar of cron tasks repeats after `Year` minutes and the scan looks `Week` minutes ahead.

### Parallel
A run is a branch and a phase, and stands for the pool's thread and the cancel event. `stage` follows it: the child ends
(`ChildEnds`), its result is stored (`Store`), a success registers under `winner_lock` (`Register`), publishes while it
holds it (`Tell`), and its observer sets event and ledger of one branch after the other (`Stop`) before the lock is given
back (`Told`). The calling thread collects, or lets the time run out (`Expires`, `ExpireNext`), leaves phase 1
(`Shut`), decides on phase 2 (`Replan`), collects it (`CollectNext`) and returns. `Focus` and `StopSignal` are the
operator's signals, `ParentCancels` the parent's token. `Reached` is `_evaluate_stop_condition` over the heuristics
that decide it. Evaluation, targets, signal and submission of phase 2 are one step, since nothing else writes
what they read while phase 1 is over; after an expired wait a late result could come between, which is left out.

### Sessions
Threads are prompts, maintenance sweeps, deletions, jobs of the in-process scheduler and the one that shuts down; `Casts`
says which of them come together. `pc[t]` follows one through the middleware (`Arrive`, `Exit`), `get_or_create`
(`Reuse`, `Open`), the daemon (`WarmReads`, `WarmKeeps`, `Enter`, `Leave`) and the part of `execute` that touches the
session (`Check`, `Queue`, `Begin`, `Finish`). A session record (`recs`) is made anew when its row is activated again, so that a
thread may hold one that was closed: `inst` says whether its `rlm_instance` is still there. `Close`, `Ask`, `Release`, `Drop`,
`Bootstrap`, `Booted` are one `close_session`, under the manager's lock `mlock` where the code holds it, with the two calls
into the daemon and the session the daemon opens in place of the one it lost. `StartDraining` to `CloseAll` are the
server's shutdown. What can raise does so, `MaxFaults` times in all: a write of the status (`SetStatusRaises` leaves it in
memory, and in the database or not) before the try of `execute` (`BeginRaises`) or in its finally (`FinishRaises`), which loses
the execution lock while the session lives, and the close of an instance or the status a close writes (`DropRaises`), which leaves
the session among the active ones and ends what closes, a shutdown too (`AfterRaise`; *api.py:409* catches nothing). `raised` and
`failed` are *history*: the sessions that lost their lock so, and the records whose execution failed or whose close raised. The daemon's lock is held across steps by `stop` alone (`stopping`), which is where the two locks cross.
Everybody is one user, which is what the default scope makes of all clients.

### Turns
Requests of one warm session. The dispatch admits (`Admit`), puts `reply()` into the REPL (`Inject`) and overrides the
model (`Override`, `Swap`, `Unhand`, then `StopHandler`, `RestoreModel`, `RestoreHandler`) without a lock, one assignment to
a shared field at a time; `Queue` to `Over` is the execution. `Warm` builds a handler when there is none and `Install`
assigns it, from the two places that call it. The loop's head `Top` is the only place that looks at the abort event; `Empty`,
`Text`, `Writes`, `Final` are the kinds of answer, `Compact` the summary. An answer with code has up to `Blocks` blocks, which run one
after the other (`More`) whatever the abort event says, until the last one ends or the loop detector finds one critical (`Score`). The
detector may find any block critical, for its history is not that of the turn alone. A block may call `reply()` (`Reply`) and,
up to `Asks` times, the model itself (`Ask`: `llm_query`, `llm_query_batched`), before an abort and after it. `calls` and `after`
count what the loop asks and `late` the blocks begun after the abort; what the blocks ask is not counted, for nothing in the code
bounds it. All three are *history*. `met` is *history*: from the first overlap on, `heard` and
`strayed` are no longer kept, since what overlapping requests do to each other's answers is described in section 6.

### Search
One completion at a time searches, for the same prompt, so that `archive` is shared. `Take` is the executor, which runs up to
`Branches` branches at once. A branch is six steps, each of which another branch may precede: it makes its sandbox and puts its
buffer into `sys.stdout` (`Capture`), goes to its directory (`Chdir`), prints into whichever buffer is there (`Prints`), reads its own
buffer and goes back (`ChdirBack`), restores the output it found (`Release`), and removes its directory, whoever is in it (`Finish`).
`out` and `cwd` are the process's, `kept` what each branch will put back. A branch whose buffer holds its own output and nothing
else comes to a function of its script (`Outcome`); one that reads anything else comes to the score of any of `Blends`; one that
asks for a working directory that was removed (`Nowhere`) raises and is discarded. `came` is what a branch came to, and `apart`,
a history, says that no two branches of the process have been executed at once. A cancelled future is reported
only when a thread takes it. `Watch` and `Collect` are `as_completed`, `Cancel` the loop over the other futures after a
perfect branch, which the pool overtakes. `Select`, `NextRound` and `Seed` are the selection, the archive and the rounds of
`evolutionary_branch_search`, with the algorithms as operators (`Best`, `Valid`, `TopResults`, `Update`, `Trimmed`).
`Sorted` says what `sorted` returns, by the order `Above`; `Update` goes through its results with a recursive function. `top` is
a history: the best total of this search and of all searches of the prompt.

## 4 What the runs show

| Run | Instance | What it asks |
|---|---|---|
| `MCCancellation` | 2 threads; 3 generations of sources; 1 callback on the middle one | a callback is called once and never lost (`CalledOnce`), children are reached and nothing is cancelled without a cause (`CancelFlows`), propagation in the end |
| `MCSupervisor` | 2 requests of 1 session, one on a pool of one worker, one that overrides the limit | the supervisor is a turnstile per session (`AsTurnstile`), aborts find what they are meant for in registries that have their owner (`Registered`), limit restored, status honest, pool quiet after shutdown |
| `MCSupervisorLive` | the same without closing | every call and `shutdown()` end, even when an earlier call lost its lock |
| `MCSupervisorStaleTimer` | as `MCSupervisor` | *violated*: a time-out aborts only its own execution |
| `MCSessions` | nine casts of two or three of: 2 prompts, a sweep, a deletion, a job, the shutdown; 2 calls that raise | one session answers (`OneSession`); a lock is lost only by a close under an execution or by an execution that raised outside its try (`LockLostHasCause`); a shutdown whose waits did not run out and that no close cut short leaves nothing (`ShutInPeace`); everyone is answered, also behind a lost lock (`AllAnswered`) |
| `MCTurns` | 2 requests, one or both for the fast model, 2 iterations, 1 retry of an empty answer, up to 2 blocks in an answer and 1 call of the model in each | the loop's calls of the model bounded (`CallsBounded`); after an abort three at most, and no block but those of one answer (`StopHonoured`); the model restored; nothing left over for the next request; turns end |
| `MCSearch` | 2 branches, 5 scripts, of which a mixed output may score like one, 2 rounds, 2 elites, an archive of 2, 2 searches of one prompt | the winner, the seed and the archive keep the best of what branches came to, in whatever order they are executed, end and are cancelled; it is their own if no two were executed at once |
| `MCSiblingBus` | 2 branches, 2 topics, room for 1 channel and 2 messages, 2 sends each | nothing lost, limits, each generation heard once and as said (`Heard`), no signal missed by a waiter |
| `MCOutbox` | 3 messages, 2 priorities, retries 2, 1 and 0, batches of 2, 1 exit, 1 database error | rows tell the tries made and the messages delivered, and none is forgotten without a fault (`RowsTell`), order of first tries, refinement of `Delivery`, settled unless a fault |
| `MCTaskScheduler` | a one-shot and an interval task, 1 worker, 3 threads, 1 forced run, 1 fault | pool bounded, a cancelled task starts at most once more, one-shot once, intervals spaced |
| `MCTaskSchedulerLive` | a condition that is false and a nightly cron task, 2 workers, 1 forced run | no overlap; the pool goes on serving |
| `MCParallel` | 2 branches that disagree, under three strategies, 1 signal from outside or 1 fault | a result for every task and an honest winner, which is never stopped and under `stop_on_solution` stops the others, answers kept, the call and every branch end |

**Why the bounds are enough.** Every hazard here is a race of two actors around one shared object, or of one actor
and one fault, and the instances have two actors, one object of each kind, and one fault at every possible point. Where a
third makes a difference there is one: three generations of sources (a listener nested in a listener), three threads
for one worker (one that runs, one that still notifies, one that `run_once` adds), three messages in batches of two (a batch,
and a row that waits behind it), two requests and a shutdown. Of a search two branches do: one that ends it and one that runs or
waits in the pool; executions that cross each other need no third. Limits are small enough to be reached: one channel of two topics, a
queue of two, a pool of one, retry limits of 0, 1 and 2, an archive of two for three niches. Counters are bounded in guards by
`MaxSends`, `MaxForces`, `MaxFaults`, `MaxExits`, `MaxErrors`, `Asks`, `Blocks` and `Calls`; the clock of the scheduler repeats; a turn calls
`reply()` once; a branch of a search runs one program, as the engine has it (*mcts.py:972*), which prints once. That code asks the
model once or a hundred times makes no difference to `Turns`, as the loop does not see it. Two faults of `MCSessions` are an execution
and a close that raise, or two of either. `Casts` of `MCSessions` leaves out four threads at once; each pair of kinds meets the shutdown, except two deletions
or two sweeps, of which there is one each. Threads of the scheduler are
interchangeable, and declared so for the runs that check safety only. The theorems remove the bounds for
most of the safety properties.

Deadlock is not checked, for each of these systems may really stop: a tree of tokens that is cancelled and disposed, a bus
nobody calls, a batch that returned, a server that was shut down. That a call does not hang is a property of its own
(`EveryCallEnds`, `ShutdownEnds`, `AllAnswered`, `TurnEnds`, `SignalReachesWaiter`, `EverythingEnds`, `PoolServes`).

**Fairness.** Only what a scheduler of threads owes: a thread inside a call goes on, a free worker takes a queued
request, an asyncio task that is ready runs, waits with a limit end, time passes. In addition
`completion()`, a call of a model and a child end (their loops have iteration limits, and `sub_rlm` waits no longer than its
time-out), and a block of code ends, which is a condition on the code and no merit of the program: `exec` (*local_repl.py:764*) has no
time limit, and a turn whose code does not end does not end either. A daemon that ended is started again and a stopped process ends in time (the service's supervision). Nothing is
assumed of users: nobody has to call, cancel, abort, close, publish or shut down. The fairness is weak throughout, except that the
disjunction of one actor's steps is taken as one action, so that an actor with a choice (to answer or to raise) may take
any. What raises in `Sessions` may do so, and never has to. No lock needs more: `winner_lock` is asked for a bounded number of times by a batch, so it is free in the end; a
request that waits for a session's lock either takes it or is timed out; and the lock of the session manager is asked for
a bounded number of times by the finitely many threads of a cast. `Search` states no fairness, as nothing is asked of it in the end.

Liveness is checked without symmetry.

## 5 What is proved

The theorems hold for every value of the constants that satisfies the modules' assumptions: sets of any size, any limits.
The assumptions are types of the constants, that `None` is not one of them, that kinds of threads are disjoint, and finiteness
where the code counts (threads, messages). Each module has an inductive invariant `IInv`, or several that are independent. The first and
the fifth bullet are about `PrimitivesProofs`, the others about the component's own module of proofs.

* **Cancellation** (`TokenTypes`, `ExactlyOnce`, `Flows`). The properties are not inductive, because they do
  not say where a listener is. The invariant does: in its token's list until the token fires, then in the loop's `todo`,
  then called (`OnePlace`), with one place more for a child, whose `cancel()` a thread has entered (`ChildKept`). That
  nothing is cancelled without a cause needs an invariant of its own (`CauseInv`).
* **Supervisor** (`TypeCorrect`, `Exclusion`, `Ownership`, `Hooks`, `Limits`, `Honesty`, `Quietness`, `Implementation`). The registries are popped by
  session id without a look at the owner; the proof shows that it is the lock that makes this right, by tying each entry
  to the place in `execute` of the lock's holder (`RegistryInv`, `HookInv`, `LimitInv`), stuck holders included. The same holds
  of the status an open session shows (`StatusInv`); what was queued before a shutdown is cancelled or waited for (`PoolInv`).
  Every step is a step of `Turnstile` or none: a session is barred exactly when its lock is taken (`BarredByHolder`), and whatever
  `abort` finds by the session's id in two registries is the one request that holds it (`AbortStops`).
* **Sessions** (`TypeCorrect`, `OneForTheUser`, `LocksReturned`, `ShutsInPeace`). `Known` ties records to rows and threads to records.
  `Table` says that active records are of different sessions and that at most one of them has not failed: a
  session is opened only when none is reusable, which is stronger than the property since it counts closed statuses too. `Locks` finds for
  each lock the execution that holds it, the record that was closed, or the execution that raised, for any number of faults. `Closing` is independent. The shutdown
  rests on two counts being true: of the requests inside (`Here`) and of the dispatches (`Sent`), which a close that opens a
  session again is not (`Counted`, `Station`); when they are zero only newcomers can step, and they are refused (`Shutting`).
* **Turns** (`TypeCorrect`, `CallsAreBounded`, `StopIsHonoured`, `ModelComesBack`, `NothingIsLeftOver`). `CallsAt` and `AfterAt` give, for each
  place in the loop, what the turn has spent and still may spend: the loop's own calls, and after an abort the blocks begun
  and those of the same answer still to come; `Spent` ties them to the holder of the execution lock (`Owned`), `Rests`
  says that they are back at zero when nobody holds it. `Overrides` says that whoever saved a model saved the session's
  own: an override that finds the fast model there changes nothing, so that nested and overlapping ones are harmless.
  `Alone` is about requests that do not overlap: what each place of the dispatch finds of the model, the handlers and
  what the override saved (`RuntimeAt`), and of the closure, the flag and the answers (`RepliesAt`), and that the session is its own
  again (`Own`) when nobody is inside.
* **SiblingBus** (`TypeCorrect`, `FifoOrder`, `LimitsHold`, `Broadcast`). FIFO order is the equation *sent = taken,
  then pending*, inductive with two lemmas about sequences. The limits need the sets of channels to be finite; the broadcast (each
  generation heard once, in order, with its own signal) needs that the generation counts the signals said and that no
  receiver has seen more than it (`GenInv`, `HeardInv`).
* **Outbox** (`TypeCorrect`, `Counting`, `Delivering`, `Remembering`, `Telling`, `Settling`, `Ordering`, `Implementation`). `RowHonest` says
  for each status what the columns tell of the calls made, `BatchClaimed` and `HeadSent` which rows the worker holds. They
  show that every step of `Outbox` is a step of `Delivery` or a stutter. The order of the first tries needs `OInv`: stamps
  grow with the rows there are (`Ranked`), what was never tried does not back off (`FreshIsDue`), so a fetch cannot pass it over,
  and whoever is tried or waits in the batch has its elders ahead of it there, tried or forgotten (`InTurn`).
* **TaskScheduler** (`TypeCorrect`, `Exclusion`, `PoolBounded`, `Cancelling`, `OneShot`, `Spacing`). `Claimed` says what the
  status column is worth to a task that is not forced although the snapshot is old, `Pooled` that every run is still counted in
  `_active` although entries are overwritten, `LateOnce` and `OnceOff` that a task once started late, or a one-shot one,
  stays out of every snapshot to come, through crashes. `Gapped` follows the gap after a run from the thread to the row.
* **Parallel** (`TypeCorrect`, `LockDiscipline`, `Reporting`, `LosersOnly`, `AnswersStay`). `Locked` says who has
  `winner_lock`, `Answered` that the calling thread leaves phase 1 with a result for all, whatever ran out. `InTurn` and
  `Kept` order the two phases as long as no wait ran out, `Won` and `Stopping` follow the first success and how
  far its signal is, as long as nobody signals from outside.

* **Search** (`TypeCorrect`, `OrderIsIrrelevant`, `BestIsSeeded`, `BestIsKept`). First the algorithms, for sequences of every length:
  a sorted sequence exists, because the number of those above a branch is its place (`SortedExists`); the first of it is above all
  others (`BestIsFirst`); inserting into the archive keeps niches different and the best entry (`InsertKeeps`), cutting too
  (`TrimmedKeeps`). That the recursive function of `Update` does what its equation says is shown by the least place at which it
  would not (`LeastNumber`, `InsertAll`), in place of an induction principle. Then the invariant: a result that has come is
  what its branch came to, and nothing is cancelled before a perfect one is there (`PoolInv`, `CameInv`); as long as no two branches
  were executed at once, the output and the directory of the process are those of the one that is, and every branch comes to its own
  (`ApartInv`); the best so far is the best winner's or among
  the results of the round, and stands in the history at its round (`ScoreInv`); the best there ever was is in the archive or
  still among the results (`ArchiveInv`). All that is assumed of the scripts is that
  their totals are integers (`Scores`). What mixed outputs score like is any of them.

What TLC alone shows: liveness and everything about `ENABLED`, which is beyond the prover: `CancelPropagates`, `EveryCallEnds`,
`ShutdownEnds`, `SignalReachesWaiter`, `SettledUnlessFault`, `PoolServes`, `EverythingEnds`, `AllAnswered`, `TurnEnds`. Every
safety property that a run checks is also a theorem.

## 6 Where code and documents disagree

One run shows a disagreement by a counterexample:

* **A stale timer** (`MCSupervisorStaleTimer`). `_on_timeout` aborts by session id (`supervisor.py:370`). A timer thread
  that woke just before `cancel()` aborts the next execution of the session, which is then reported as aborted.

Others were met while modelling. The models contain the behaviour, and the properties are stated so that they say what
holds in spite of it:

* *Overlapping requests* (*runtime_pipeline.py:386-427, 853*). The `reply()` closure and `__reply_delivered__` belong to the
  session, and are set before the execution lock is taken. A request that comes while another runs replaces the closure, so that the
  running one answers the newcomer's client; the flag it sets then suppresses the newcomer's own answer. A handler of the fast
  model may stay installed when a session is warmed inside another request's override. `NothingLeftOver` is therefore about requests
  that come one after the other.
* *rlm.py:330, 404* reset the loop detector in the streaming and the sentinel loop; `completion()` never does, so blocks of
  earlier turns count against the present one.
* *rlm_loop_mixin.py:474-493* runs all blocks of an answer although the turn was aborted during the first, and each may ask the model
  as often as it likes (*local_repl.py:287, 357*). `StopHonoured` bounds the loop and the blocks begun, and no more.
* *recursion_daemon.py:210, 224* makes its snapshot, which asks for the manager's lock, under the daemon's lock, while
  `close_session` holds the manager's and asks for the daemon's. After a wait that ran out the two may meet, and the shutdown does not
  end; `AllAnswered` excepts just that.
* *cli/tui/runtime_factory.py:42-52* closes the sessions before it stops the daemon, which may open one again
  in place of the one it lost; `close_all` (*_impl.py:580*) says that it closes all.
* *cancellation.py:83* calls the callback in the caller's thread, with the lock held, where the comment at :81 speaks of
  a separate thread: a callback that touches its own token would wait for itself.
* *supervisor.py:149, :165, :260-293*: an exception between `acquire` and `try`, or inside `finally` before `release`, leaves the
  lock taken (`"stuck"`). The session's close makes it happen, and so does a status that the database does not take or an
  `on_complete` that raises, with the session alive; `LockLostHasCause` says that nothing else does. Other calls end by
  `queue_timeout`, which `MCSupervisorLive` and `MCSessions` check; the session is lost.
* *_impl.py:538-551*: a close whose `rlm_instance.close()` or status write raises leaves the session among the active ones, perhaps
  without its instance, and *_impl.py:580-584* goes no further: at the end of the lifespan (*api.py:409*) the exception ends the
  shutdown, with the other sessions open. `ShutInPeace` is about shutdowns that no close cut short.
* *api.py:722-728* tests `is_running` before it closes: an execution may start in between, lose its instance, and
  overwrite the status `completed` with `idle` (*supervisor.py:259-262*).
* *supervisor.py:229* looks for `timeout` in a reason that says `Timeout`: a time-out that makes the loop raise is
  reported as `aborted`.
* *outbox.py:159* commits a batch as `delivering` before it is sent, and no query ever selects that status again: the end of
  the process, or a failing `mark_failed` (*delivery_worker.py:172*), loses the rows, though `docs/arquitetura-multichannel-unificada.md:1412` speaks of
  at-least-once delivery. `SettledUnlessFault` and `RowsTell` except the fault.
* *server/scheduler.py:233*: `last_status = 'running'` is a claim that only its own thread releases, and the daemon does not
  reset it when it starts: a task that a crash interrupted is never run again. `run_once` ignores `max_workers` and the
  status; one task may starve while others take the places; a cron task without a match within seven days gets `next_run_ts` 0.0,
  which the listing (:683) calls "never" and the query (:338) takes for due; `signal.signal` ends a `run()` outside the main thread.
* *sub_rlm.py:355*: a child that was stopped answers `[CANCELLED] ...`; the serial `sub_rlm` takes that for an answer and writes
  `completed` over `cancelled` in the ledger. The asynchronous path maps it.
* *sub_rlm.py*: the policy `consensus_reached` fires at the first success, as one answer has a
  `dominant_answer_ratio` of 1.0 (`_sub_rlm_helpers.py:353-360`), though `consensus_target` is 2 (:906) and a
  test (`tests/test_critical_subrlm_parallel.py:400`) is named `test_consensus_policy_waits_for_second_success_before_cancelling`.
  `StopsLosersOnly` says whom the winner's signal stops of `stop_on_solution` only, and of this policy just that the winner is not
  stopped. After the total time
  running branches are neither cancelled nor awaited, and their late results overwrite the reported ones; the time-out of
  phase 2 is not caught; a bus without room for a channel turns a success into a failure.
* *mcts.py:15* says that "each branch is completely isolated", and *local_repl.py:663* calls `_capture_output` thread-safe. But the
  lock is one of each instance (:99, :664), while `sys.stdout`, `sys.stderr` and the working directory are the process's. Branches that are
  executed at once write into each other's buffers, so that a branch is scored for what another printed, or for nothing. If they leave in
  the order in which they came, `sys.stdout` stays a buffer nobody reads, and the process may stay in a directory that `cleanup`
  removes: `os.getcwd()` (:97, :676) then raises, and every later branch fails. `WinnerIsBest` therefore says what holds in spite of it - the
  selection is right whatever was recorded - and what holds of a branch's own score as long as no two were executed at once.
* *mcts.py:671-674* reports as cancelled just the branches whose future was *not* cancelled; the comment (:636) gives the
  threshold of early termination as 1.0, the code (:660) as four times `max_depth`.

## 7 What is not modelled

Inside the modelled components: the wording of answers, prompts, telemetry, statistics and history tables;
the detection of a repeated error (its outcome is a choice); semantic types of bus messages beyond being refused; the two constant
tokens and the text of a cancellation's reason;
the contents of payloads and events; the asynchronous sub-agents and the child's own loop.
`Supervisor` has one instance per session and does not follow a session that is opened again under the same id; `Sessions`
does. `Outbox` has one worker per file, which is what the server starts. `TaskScheduler` has one daemon per table.
`Sessions` has one user, and events of the kind the daemon answers without a model are the maintenance sweeps only.
`Turns` has two models and no streaming, sentinel or role-orchestrated completion. `Search` has the Python scoring, integer
scores, and no choice of strategies; the tools of the session that the branches share (`extra_globals`, *mcts.py:534*) and the REPLs
of other sessions, which swap the same output and working directory, are left out. That an abort finds nothing between the
acquisition of the execution lock and the registration (*supervisor.py:128-146*) is in the model, and no property is about it.

Whole components: section 1.3 says which are left to other methods. Text processing, classification of
commands, network adapters and storage have no interleaving to explore and are better served by tests. The approval gate
(a late decision is accepted after its request timed out) and the compactor of session memory (which never compacts when it is
told to preserve nothing) are small and sequential once their event is given.

## Running

`tlc -config MCOutbox.cfg MCOutbox` checks one instance, `tlapm OutboxProofs.tla` one module of proofs; the other
components likewise. The slowest instances take a few minutes on two workers.
