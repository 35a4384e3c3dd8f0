------------------------------- MODULE Outbox -------------------------------
(***************************************************************************)
(* The persistent queue of outgoing messages and the task that empties it: *)
(* OutboxStore of rlm/core/comms/outbox.py and DeliveryWorker of           *)
(* rlm/core/comms/delivery_worker.py, started and stopped by the server.   *)
(*                                                                         *)
(* Producers are request threads: enqueue takes its time stamp before the  *)
(* store's lock and inserts under it.  The worker is one asyncio task; at  *)
(* every await the rest of the process may run, and each database call is  *)
(* one step, made under the store's lock.  A database call may raise (the  *)
(* file is shared with the session manager) and leave the row as it was.   *)
(* A crash, or the end of the process after stop, loses the task and keeps *)
(* the rows.  The channel's answer is the environment's.  The poll's waits *)
(* are not told apart from a slow step; payloads and events are left out.  *)
(***************************************************************************)
EXTENDS Integers, Sequences, FiniteSets

CONSTANTS
    Msg,        \* the messages ever enqueued, each under its own id
    Retries,    \* max_retries of each
    Priority,   \* priority of each
    Batch,      \* BATCH_SIZE
    MaxExits,   \* bound: crashes and shutdowns
    MaxErrors   \* bound: database calls that raise

ASSUME Sizes ==
    /\ Retries \in [Msg -> Nat]
    /\ Priority \in [Msg -> Int]
    /\ Batch \in Nat \ {0}
    /\ MaxExits \in Nat
    /\ MaxErrors \in Nat
ASSUME FiniteMsg == IsFiniteSet(Msg)

VARIABLES
    rows,      \* status of each message's row, or how far it is from one
    attempts,  \* its attempts
    wait,      \* the time left until its next_attempt_at
    stamp,     \* its created_at, as its rank; 0 before enqueue is called
    earlier,   \* history: the messages inserted before that
    pc,        \* what the worker's task is doing
    stopped,   \* _stopped
    batch,     \* the rows of _drain_batch still to be handled
    sends,     \* history: how often the channel was called with the message
    accepted,  \* history: how often it answered True
    exits,     \* how often the process ended
    errors     \* how many database calls raised

rowVars == <<rows, attempts, wait>>
producerVars == <<stamp, earlier>>
workerVars == <<pc, stopped, batch>>
channelVars == <<sends, accepted>>
faultVars == <<exits, errors>>
vars == <<rowVars, producerVars, workerVars, channelVars, faultVars>>

NoRow == {"new", "stamped", "refused"}
Settled == {"delivered", "dlq"}
Busy == {"send", "accepted", "failed", "excepted"}

TypeOK ==
    /\ rows \in [Msg -> NoRow \cup Settled \cup {"pending", "delivering"}]
    /\ attempts \in [Msg -> Nat]
    /\ wait \in [Msg -> Nat]
    /\ stamp \in [Msg -> Nat]
    /\ earlier \in [Msg -> SUBSET Msg]
    /\ pc \in Busy \cup {"down", "loop", "fetch", "ended"}
    /\ stopped \in BOOLEAN
    /\ batch \in Seq(Msg)
    /\ sends \in [Msg -> Nat]
    /\ accepted \in [Msg -> Nat]
    /\ exits \in Nat
    /\ errors \in Nat

Init ==
    /\ rows = [m \in Msg |-> "new"]
    /\ attempts = [m \in Msg |-> 0]
    /\ wait = [m \in Msg |-> 0]
    /\ stamp = [m \in Msg |-> 0]
    /\ earlier = [m \in Msg |-> {}]
    /\ pc = "down"
    /\ stopped = FALSE
    /\ batch = <<>>
    /\ sends = [m \in Msg |-> 0]
    /\ accepted = [m \in Msg |-> 0]
    /\ exits = 0
    /\ errors = 0

-----------------------------------------------------------------------------
(* The process: the server's lifespan builds the worker and starts it.     *)

Start ==
    /\ pc = "down"
    /\ pc' = "loop"
    /\ stopped' = FALSE
    /\ UNCHANGED <<rowVars, producerVars, batch, channelVars, faultVars>>

Stop ==
    /\ pc # "down"
    /\ exits < MaxExits
    /\ stopped' = TRUE
    /\ UNCHANGED <<rowVars, producerVars, pc, batch, channelVars, faultVars>>

(* The process ends: the task is cancelled wherever it waits, and a call   *)
(* to enqueue that has not inserted its row is lost.                       *)
Exit ==
    /\ pc # "down"
    /\ exits < MaxExits
    /\ exits' = exits + 1
    /\ pc' = "down"
    /\ stopped' = FALSE
    /\ batch' = <<>>
    /\ rows' = [m \in Msg |-> IF rows[m] = "stamped" THEN "refused" ELSE rows[m]]
    /\ UNCHANGED <<attempts, wait, producerVars, channelVars, errors>>

Raises ==
    /\ errors < MaxErrors
    /\ errors' = errors + 1
    /\ exits' = exits

-----------------------------------------------------------------------------
(* enqueue: the stamp before the lock, the insertion under it.             *)

Stamp(m) ==
    /\ pc # "down"
    /\ rows[m] = "new"
    /\ rows' = [rows EXCEPT ![m] = "stamped"]
    /\ stamp' = [stamp EXCEPT ![m] = Cardinality({n \in Msg : stamp[n] > 0}) + 1]
    /\ earlier' = [earlier EXCEPT ![m] = {n \in Msg : rows[n] \notin NoRow}]
    /\ UNCHANGED <<attempts, wait, workerVars, channelVars, faultVars>>

Insert(m) ==
    /\ rows[m] = "stamped"
    /\ rows' = [rows EXCEPT ![m] = "pending"]
    /\ UNCHANGED <<attempts, wait, producerVars, workerVars, channelVars, faultVars>>

InsertRaises(m) ==
    /\ rows[m] = "stamped"
    /\ Raises
    /\ rows' = [rows EXCEPT ![m] = "refused"]
    /\ UNCHANGED <<attempts, wait, producerVars, workerVars, channelVars>>

-----------------------------------------------------------------------------
(* _loop and fetch_pending.                                                *)

Loop ==
    /\ pc = "loop"
    /\ pc' = IF stopped THEN "ended" ELSE "fetch"
    /\ UNCHANGED <<rowVars, producerVars, stopped, batch, channelVars, faultVars>>

(* As Due below, but a row that failed never comes back.                   *)
Due_Fresh == {m \in Msg : rows[m] = "pending" /\ attempts[m] = 0}

Due == {m \in Msg : rows[m] = "pending" /\ wait[m] = 0}

(* As Before below, but the youngest first.                                *)
Before_Youngest(m, n) ==
    \/ Priority[m] > Priority[n]
    \/ Priority[m] = Priority[n] /\ stamp[m] > stamp[n]

Before(m, n) ==
    \/ Priority[m] > Priority[n]
    \/ Priority[m] = Priority[n] /\ stamp[m] < stamp[n]

(* s is the answer to the query over D: ordered, limited, nothing passed   *)
(* over.                                                                   *)
Selects(s, D) ==
    LET taken == {s[i] : i \in DOMAIN s} IN
    /\ Len(s) = IF Cardinality(D) < Batch THEN Cardinality(D) ELSE Batch
    /\ \A i, j \in DOMAIN s : i < j => Before(s[i], s[j])
    /\ \A m \in taken, n \in D \ taken : Before(m, n)

Fetch ==
    /\ pc = "fetch"
    /\ \E k \in 0..Batch : \E s \in [1..k -> Due] :
        /\ Selects(s, Due)
        /\ batch' = s
        /\ pc' = IF k = 0 THEN "loop" ELSE "send"
        /\ rows' = [m \in Msg |->
                      IF \E i \in 1..k : s[i] = m THEN "delivering" ELSE rows[m]]
    /\ UNCHANGED <<attempts, wait, producerVars, stopped, channelVars, faultVars>>

FetchRaises ==
    /\ pc = "fetch"
    /\ Raises
    /\ pc' = "loop"
    /\ UNCHANGED <<rowVars, producerVars, stopped, batch, channelVars>>

-----------------------------------------------------------------------------
(* _drain_batch: one row after the other.                                  *)

Send ==
    /\ pc = "send"
    /\ LET m == Head(batch) IN
        /\ sends' = [sends EXCEPT ![m] = @ + 1]
        /\ \/ /\ pc' = "accepted"
              /\ accepted' = [accepted EXCEPT ![m] = @ + 1]
           \/ /\ pc' \in {"failed", "excepted"}
              /\ UNCHANGED accepted
    /\ UNCHANGED <<rowVars, producerVars, stopped, batch, faultVars>>

NextRow ==
    /\ batch' = Tail(batch)
    /\ pc' = IF Tail(batch) = <<>> THEN "loop" ELSE "send"

MarkDelivered ==
    /\ pc = "accepted"
    /\ rows' = [rows EXCEPT ![Head(batch)] = "delivered"]
    /\ NextRow
    /\ UNCHANGED <<attempts, wait, producerVars, stopped, channelVars, faultVars>>

(* Inside the try: the message is then treated as one that failed.         *)
MarkDeliveredRaises ==
    /\ pc = "accepted"
    /\ Raises
    /\ pc' = "excepted"
    /\ UNCHANGED <<rowVars, producerVars, stopped, batch, channelVars>>

(* min(2 ** n, 300), for n > 0                                             *)
Backoff(n) == IF n < 9 THEN <<2, 4, 8, 16, 32, 64, 128, 256>>[n] ELSE 300

(* As GivesUp below, but one try early.                                    *)
GivesUp_Early(m, n) == n + 1 >= Retries[m]

GivesUp(m, n) == n >= Retries[m]

(* The number of failures after which a message is given up.               *)
Tries == [m \in Msg |-> IF Retries[m] = 0 THEN 1 ELSE Retries[m]]

MarkFailed ==
    /\ pc \in {"failed", "excepted"}
    /\ LET m == Head(batch)
           n == attempts[m] + 1
       IN  /\ attempts' = [attempts EXCEPT ![m] = n]
           /\ \/ /\ GivesUp(m, n)
                 /\ rows' = [rows EXCEPT ![m] = "dlq"]
                 /\ UNCHANGED wait
              \/ /\ ~GivesUp(m, n)
                 /\ rows' = [rows EXCEPT ![m] = "pending"]
                 /\ wait' = [wait EXCEPT ![m] = Backoff(n)]
    /\ NextRow
    /\ UNCHANGED <<producerVars, stopped, channelVars, faultVars>>

(* In the try, the handler marks it again; in the handler, the exception   *)
(* leaves the batch and the loop goes on with the next one.                *)
MarkFailedRaises ==
    /\ Raises
    /\ \/ /\ pc = "failed"
          /\ pc' = "excepted"
          /\ UNCHANGED batch
       \/ /\ pc = "excepted"
          /\ pc' = "loop"
          /\ batch' = <<>>
    /\ UNCHANGED <<rowVars, producerVars, stopped, channelVars>>

Tick ==
    /\ \E m \in Msg : wait[m] > 0
    /\ wait' = [m \in Msg |-> IF wait[m] > 0 THEN wait[m] - 1 ELSE 0]
    /\ UNCHANGED <<rows, attempts, producerVars, workerVars, channelVars, faultVars>>

Producer(m) == Stamp(m) \/ Insert(m) \/ InsertRaises(m)

Worker ==
    \/ Loop
    \/ Fetch \/ FetchRaises
    \/ Send
    \/ MarkDelivered \/ MarkDeliveredRaises
    \/ MarkFailed \/ MarkFailedRaises

Next ==
    \/ Start \/ Stop \/ Exit
    \/ \E m \in Msg : Producer(m)
    \/ Worker
    \/ Tick

Spec == Init /\ [][Next]_vars

(* A call of enqueue ends and the event loop runs the task; time passes;   *)
(* the server is started again, and a process that is stopped ends.        *)
FairSpec ==
    /\ Spec
    /\ \A m \in Msg : WF_vars(Insert(m) \/ InsertRaises(m))
    /\ WF_vars(Worker)
    /\ WF_vars(Tick)
    /\ WF_vars(Start)
    /\ WF_vars(stopped /\ Exit)

-----------------------------------------------------------------------------
InBatch(m) == \E i \in DOMAIN batch : batch[i] = m

(* The attempts that the row records are the calls of the channel: a       *)
(* message is sent at most max_retries times (once if that is 0), whatever *)
(* crashes, restarts and failed writes come between, and it is in the      *)
(* dead-letter queue only after all of them (mark_failed, _drain_batch).   *)
TriesCounted == \A m \in Msg :
    /\ sends[m] <= Tries[m]
    /\ rows[m] = "pending" => sends[m] = attempts[m]
    /\ rows[m] = "dlq" => sends[m] = Tries[m]

(* A row says delivered only if the channel accepted the message, and a    *)
(* channel that accepted it more than once did so because a write failed   *)
(* in between (the except around mark_delivered).                          *)
DeliveredOnce == \A m \in Msg :
    /\ rows[m] = "delivered" => accepted[m] > 0
    /\ accepted[m] <= 1 + errors

(* A row in delivering is being handled by the worker, unless the process  *)
(* ended or a write failed: nothing else loses a row.                      *)
NoneForgotten == \A m \in Msg :
    rows[m] = "delivering" => InBatch(m) \/ exits + errors > 0

(* The database and the channel agree: what a row says of its message is   *)
(* what became of it.                                                      *)
RowsTell == TriesCounted /\ DeliveredOnce /\ NoneForgotten

(* Between messages of one priority, one that was stored before another    *)
(* was submitted is first tried first, however the batches fall, unless    *)
(* its row was forgotten (ORDER BY in fetch_pending).                      *)
FirstTriesInOrder == \A m \in Msg : \A n \in earlier[m] :
    Priority[n] = Priority[m] /\ sends[m] > 0
        => sends[n] > 0 \/ (rows[n] = "delivering" /\ ~InBatch(n))

(* A message that is delivered or given up stays so, and the channel is    *)
(* not called with it again (the writes are not guarded by the status).    *)
SettledForGood == [][\A m \in Msg : rows[m] \in Settled =>
    /\ rows'[m] = rows[m]
    /\ sends'[m] = sends[m]]_vars

(* The outbox is a delivery service: see Delivery.  A row in delivering is *)
(* one that is claimed or sent; the columns tell which.                    *)
Phase(m) ==
    CASE rows[m] \in NoRow -> "unknown"
      [] rows[m] = "pending" -> "queued"
      [] rows[m] = "delivering" /\ sends[m] = attempts[m] -> "claimed"
      [] rows[m] = "delivering" /\ sends[m] # attempts[m] -> "sent"
      [] rows[m] = "delivered" -> "delivered"
      [] rows[m] = "dlq" -> "dead"
Promise == INSTANCE Delivery WITH phase <- [m \in Msg |-> Phase(m)]
Refines == Promise!Spec

(* A stored message is delivered or given up in the end if no process ends *)
(* and no write fails, however batches, retries and backoffs interleave.   *)
SettledUnlessFault == \A m \in Msg :
    rows[m] = "pending" ~> (rows[m] \in Settled \/ exits + errors > 0)
=============================================================================
