-------------------------------- MODULE Turns --------------------------------
(***************************************************************************)
(* The turns of one session, as the requests that share it take them: the  *)
(* dispatch of rlm/server/runtime_pipeline.py, which prepares the REPL and *)
(* overrides the root model before the execution lock is taken; the warm   *)
(* runtime of rlm_context_mixin.py; the loop of rlm_loop_mixin.py with its *)
(* loop detector and its compaction.                                       *)
(*                                                                         *)
(* The session is warm and open.  Each assignment to what requests share   *)
(* is a step of its own.  RLM_MODEL_FAST is set: the policy gives simple   *)
(* queries one other model, always the same.  Not here: the text of        *)
(* prompts and answers, role orchestration, sub-agents.                    *)
(***************************************************************************)
EXTENDS Integers, Sequences, FiniteSets

CONSTANTS
    Request,  \* prompts, each of a client of its own
    Classes,  \* bound: the sets of those of the policy's simple_inspect class
    Limit,    \* max_iterations
    Retries,  \* max_empty_response_retries
    Blocks,   \* bound: the blocks of code in one answer
    Asks,     \* bound: the calls of the model that one block makes itself
    None

ASSUME Sizes ==
    /\ Limit \in Nat \ {0} /\ Retries \in Nat
    /\ Blocks \in Nat \ {0} /\ Asks \in Nat
    /\ Classes \subseteq SUBSET Request
    /\ None \notin Request

VARIABLES
    fast,     \* the requests the policy gives the fast model
    pc,       \* where each request is
    model,    \* backend_kwargs["model_name"]
    handler,  \* _persistent_lm_handler, 0 for None
    made,     \* the handlers ever built: their model, whether they listen
    built,    \* the handler each request has in its hands
    saved,    \* previous_model and previous_handler of its override
    swapped,  \* the requests inside an override that changed something
    replyTo,  \* whose client the reply() of the REPL answers
    replied,  \* __reply_delivered__ of the session
    lock,     \* who holds the execution lock
    iter, empties, critical, \* of the loop: iteration_index, empty_retry_count,
                             \* _loop_detector_critical
    abort,    \* the abort event of the execution is set
    blocks,   \* the blocks of the answer that have not ended, in code
    asks,     \* the calls of the model the block that runs has made
    calls,    \* history: calls of the model in this turn, for an answer
    after,    \* history: calls the loop made since its abort event was set
    late,     \* history: blocks of code begun since then
    spoke,    \* history: the turn has called reply()
    heard,    \* history: the answers each client got to its request, and
    strayed,  \* that one got the answer to another's, both kept until
    met       \* history: two requests overlapped

runtimeVars == <<model, handler, made, built, saved, swapped>>
replyVars == <<replyTo, replied>>
codeVars == <<blocks, asks>>
loopVars == <<iter, empties, critical, abort, codeVars>>
countVars == <<calls, after, late>>
clientVars == <<spoke, heard, strayed>>
vars == <<fast, pc, runtimeVars, replyVars, lock, loopVars, countVars,
          clientVars, met>>

Models == {"base", "fast"}
InLoop == {"top", "compact", "call", "code", "default", "over"}
Inside == {t \in Request : pc[t] \notin {"new", "done"}}

Nothing == [model |-> "base", handler |-> 0]

(* Warm after the bootstrap: one handler, of the session's own model. *)
Starts(class) ==
    /\ fast = class
    /\ pc = [t \in Request |-> "new"]
    /\ model = "base" /\ handler = 1
    /\ made = <<[model |-> "base", up |-> TRUE]>>
    /\ built = [t \in Request |-> 0]
    /\ saved = [t \in Request |-> Nothing]
    /\ swapped = {}
    /\ replyTo = None /\ replied = FALSE
    /\ lock = None
    /\ iter = 0 /\ empties = 0 /\ critical = FALSE /\ abort = FALSE
    /\ blocks = 0 /\ asks = 0
    /\ calls = 0 /\ after = 0 /\ late = 0
    /\ spoke = FALSE
    /\ heard = [t \in Request |-> 0]
    /\ strayed = FALSE
    /\ met = FALSE

Init == \E class \in Classes : Starts(class)

Goto(t, p) == pc' = [pc EXCEPT ![t] = p]

(* ------------------------------ the dispatch --------------------------- *)

(* ensure_warm_runtime: by the daemon's warm_session for every request, *)
(* and by _spawn_completion_context with the execution lock held.  What *)
(* is missing is built, of the model of the moment, and assigned later. *)
Warm(t, p, q) ==
    IF handler # 0
    THEN /\ built' = [built EXCEPT ![t] = handler]
         /\ Goto(t, q)
         /\ UNCHANGED made
    ELSE /\ built' = [built EXCEPT ![t] = Len(made) + 1]
         /\ made' = Append(made, [model |-> model, up |-> TRUE])
         /\ Goto(t, p)

Come(t) ==
    /\ pc[t] = "new"
    /\ Warm(t, "built", "admit")
    /\ met' = (met \/ Inside # {})
    /\ heard' = IF met' THEN [u \in Request |-> 0] ELSE heard
    /\ strayed' = (strayed /\ ~met')
    /\ UNCHANGED <<model, handler, saved, swapped, replyVars, lock, loopVars,
                   countVars, spoke>>

Install(t) ==
    /\ pc[t] \in {"built", "spawned"}
    /\ handler' = built[t]
    /\ Goto(t, IF pc[t] = "built" THEN "admit" ELSE "top")
    /\ UNCHANGED <<model, made, built, saved, swapped, replyVars, lock, loopVars,
                   countVars, clientVars, met>>

(* As Admit, but __reply_delivered__ is left as it is. *)
Admit_NoReset(t) ==
    /\ pc[t] = "admit"
    /\ replied' = replied
    /\ \/ Goto(t, "inject")
       \/ Goto(t, "done")
    /\ UNCHANGED <<runtimeVars, replyTo, lock, loopVars, countVars, clientVars,
                   met>>

(* __reply_delivered__ is reset, and the security policy may refuse. *)
Admit(t) ==
    /\ pc[t] = "admit"
    /\ replied' = FALSE
    /\ \/ Goto(t, "inject")
       \/ Goto(t, "done")
    /\ UNCHANGED <<runtimeVars, replyTo, lock, loopVars, countVars,
                   clientVars, met>>

(* _apply_repl_injections puts reply(), a closure over the client, into *)
(* the locals of the one REPL.                                          *)
Inject(t) ==
    /\ pc[t] = "inject"
    /\ replyTo' = t
    /\ built' = [built EXCEPT ![t] = 0]
    /\ Goto(t, IF t \in fast THEN "override" ELSE "queue")
    /\ UNCHANGED <<model, handler, made, saved, swapped, replied, lock, loopVars,
                   countVars, clientVars, met>>

Current == [model |-> model, handler |-> handler]

(* As Override, but without the comparison. *)
Override_Always(t) ==
    /\ pc[t] = "override"
    /\ saved' = [saved EXCEPT ![t] = Current]
    /\ Goto(t, "swap")
    /\ UNCHANGED <<model, handler, made, built, swapped, replyVars, lock,
                   loopVars, countVars, clientVars, met>>

(* _temporary_root_model_override: nothing to do if the model is the one *)
(* already; else the model and the handler are replaced.                 *)
Override(t) ==
    /\ pc[t] = "override"
    /\ IF model = "fast" THEN saved' = saved /\ Goto(t, "queue")
       ELSE saved' = [saved EXCEPT ![t] = Current] /\ Goto(t, "swap")
    /\ UNCHANGED <<model, handler, made, built, swapped, replyVars, lock,
                   loopVars, countVars, clientVars, met>>

Swap(t) ==
    /\ pc[t] = "swap"
    /\ model' = "fast"
    /\ swapped' = swapped \cup {t}
    /\ Goto(t, "swapped")
    /\ UNCHANGED <<handler, made, built, saved, replyVars, lock, loopVars,
                   countVars, clientVars, met>>

Unhand(t) ==
    /\ pc[t] = "swapped"
    /\ handler' = 0
    /\ Goto(t, "queue")
    /\ UNCHANGED <<model, made, built, saved, swapped, replyVars, lock, loopVars,
                   countVars, clientVars, met>>

(* The finally of the override.  stop() of the handler the turn has built, *)
(* or of whichever is there now.                                           *)
StopHandler(t) ==
    /\ pc[t] = "stop"
    /\ made' = IF handler \notin {0, saved[t].handler}
               THEN [made EXCEPT ![handler].up = FALSE] ELSE made
    /\ Goto(t, "restore")
    /\ UNCHANGED <<model, handler, built, saved, swapped, replyVars, lock,
                   loopVars, countVars, clientVars, met>>

RestoreModel(t) ==
    /\ pc[t] = "restore"
    /\ model' = saved[t].model
    /\ swapped' = swapped \ {t}
    /\ Goto(t, "restored")
    /\ UNCHANGED <<handler, made, built, saved, replyVars, lock, loopVars,
                   countVars, clientVars, met>>

RestoreHandler(t) ==
    /\ pc[t] = "restored"
    /\ handler' = saved[t].handler
    /\ saved' = [saved EXCEPT ![t] = Nothing]
    /\ Goto(t, "answer")
    /\ UNCHANGED <<model, made, built, swapped, replyVars, lock, loopVars,
                   countVars, clientVars, met>>

(* The answer, of whatever status, is sent to the client of the request *)
(* unless already_replied says that it has got one.                     *)
Answer(t) ==
    /\ pc[t] = "answer"
    /\ heard' = IF replied \/ met THEN heard ELSE [heard EXCEPT ![t] = @ + 1]
    /\ Goto(t, "done")
    /\ UNCHANGED <<runtimeVars, replyVars, lock, loopVars, countVars,
                   spoke, strayed, met>>

(* ---------------------- the execution and its loop --------------------- *)

AfterTurn(t) == IF t \in swapped THEN "stop" ELSE "answer"

(* The execution lock of RLMSupervisor.execute, or its queue timeout; the *)
(* abort event is new.                                                    *)
Queue(t) ==
    /\ pc[t] = "queue"
    /\ IF lock = None
       THEN lock' = t /\ Goto(t, "spawn")
       ELSE lock' = lock /\ Goto(t, AfterTurn(t))
    /\ UNCHANGED <<runtimeVars, replyVars, loopVars, countVars,
                   clientVars, met>>

Spawn(t) ==
    /\ pc[t] = "spawn"
    /\ Warm(t, "spawned", "top")
    /\ UNCHANGED <<model, handler, saved, swapped, replyVars, lock, loopVars,
                   countVars, clientVars, met>>

(* The user's abort, or the timer's. *)
Abort(t) ==
    /\ lock = t /\ pc[t] \in InLoop \cup {"spawn", "spawned"}
    /\ abort' = TRUE
    /\ UNCHANGED <<pc, runtimeVars, replyVars, lock, iter, empties, critical,
                   codeVars, countVars, clientVars, met>>

(* The head of the loop: only here is it asked whether to stop.  Of the *)
(* size of the history nothing is said.                                 *)
Stops == iter = Limit \/ abort \/ critical

(* As Top, but an empty answer is tried again whatever happens. *)
Top_Retrying(t) ==
    /\ pc[t] = "top"
    /\ IF Stops /\ empties = 0 THEN Goto(t, "default")
       ELSE \E p \in {"compact", "call"} : Goto(t, p)
    /\ UNCHANGED <<runtimeVars, replyVars, lock, loopVars, countVars,
                   clientVars, met>>

Top(t) ==
    /\ pc[t] = "top"
    /\ IF Stops THEN Goto(t, "default")
       ELSE \E p \in {"compact", "call"} : Goto(t, p)
    /\ UNCHANGED <<runtimeVars, replyVars, lock, loopVars, countVars,
                   clientVars, met>>

(* Bound: the histories stop counting past what is allowed. *)
Bounded == Limit * (Retries + 1) + 1
Follows == after' = IF abort /\ after <= 3 THEN after + 1 ELSE after
Begins == late' = IF abort /\ late <= Blocks THEN late + 1 ELSE late
Called ==
    /\ calls' = IF calls <= Bounded THEN calls + 1 ELSE calls
    /\ Follows

(* compact(): the summary is asked of the model; if that fails it is made *)
(* without.                                                               *)
Compact(t) ==
    /\ pc[t] = "compact"
    /\ calls' = calls /\ Follows
    /\ Goto(t, "call")
    /\ UNCHANGED <<runtimeVars, replyVars, lock, loopVars, late, clientVars,
                   met>>

(* The call raises, or its answer is FINAL(...); of _default_answer, the *)
(* last call of a turn that was stopped or has no iteration left, any    *)
(* answer is.                                                            *)
Final(t) ==
    /\ pc[t] \in {"call", "default"}
    /\ Called
    /\ Goto(t, "over")
    /\ UNCHANGED <<runtimeVars, replyVars, lock, loopVars, late, clientVars,
                   met>>

(* As Empty, but the count starts again with every answer. *)
Empty_Forgets(t) ==
    /\ pc[t] = "call"
    /\ Called
    /\ empties' = 0
    /\ iter' = IF Retries > 0 THEN iter ELSE iter + 1
    /\ Goto(t, "top")
    /\ UNCHANGED <<runtimeVars, replyVars, lock, critical, abort, codeVars,
                   late, clientVars, met>>

(* Or its answer is empty, which is tried again a few times, or is text, *)
(* or has code in it.                                                    *)
Empty(t) ==
    /\ pc[t] = "call"
    /\ Called
    /\ IF empties < Retries
       THEN empties' = empties + 1 /\ iter' = iter
       ELSE empties' = 0 /\ iter' = iter + 1
    /\ Goto(t, "top")
    /\ UNCHANGED <<runtimeVars, replyVars, lock, critical, abort, codeVars,
                   late, clientVars, met>>

Text(t) ==
    /\ pc[t] = "call"
    /\ Called
    /\ empties' = 0 /\ iter' = iter + 1
    /\ Goto(t, "top")
    /\ UNCHANGED <<runtimeVars, replyVars, lock, critical, abort, codeVars,
                   late, clientVars, met>>

(* The blocks of the answer run one after the other; nobody asks, in *)
(* between, whether the turn has been told to stop.                  *)
Writes(t) ==
    /\ pc[t] = "call"
    /\ Called /\ Begins
    /\ blocks' \in 1..Blocks /\ asks' = 0
    /\ Goto(t, "code")
    /\ UNCHANGED <<runtimeVars, replyVars, lock, iter, empties, critical, abort,
                   clientVars, met>>

(* A block of code may call llm_query or llm_query_batched, as often as it *)
(* likes, before an abort and after it.  Bound: Asks times.                *)
Ask(t) ==
    /\ pc[t] = "code" /\ asks < Asks
    /\ asks' = asks + 1
    /\ UNCHANGED <<pc, runtimeVars, replyVars, lock, iter, empties, critical,
                   abort, blocks, countVars, clientVars, met>>

(* It may call reply(): the adapter delivers to the client of the closure. *)
(* Bound: once in a turn.                                                  *)
Reply(t) ==
    /\ pc[t] = "code" /\ ~spoke
    /\ spoke' = TRUE
    /\ replied' = TRUE
    /\ strayed' = (strayed \/ (replyTo # t /\ ~met))
    /\ heard' = IF replyTo # t \/ met THEN heard ELSE [heard EXCEPT ![t] = @ + 1]
    /\ UNCHANGED <<pc, runtimeVars, replyTo, lock, loopVars, countVars, met>>

(* The detector records the block and looks at the history it has, which *)
(* is not that of this turn alone: completion() never resets it, so that *)
(* any block may be the critical one.  If it is not, the next block runs.  *)
More(t) ==
    /\ pc[t] = "code" /\ blocks > 1
    /\ blocks' = blocks - 1 /\ asks' = 0
    /\ Begins
    /\ UNCHANGED <<pc, runtimeVars, replyVars, lock, iter, empties, critical,
                   abort, calls, after, clientVars, met>>

(* The critical block sets the abort event too, and no other runs after it. *)
(* Then, as after the last one, the answer may be final, by its text or by  *)
(* what the code set.                                                       *)
Score(t) ==
    /\ pc[t] = "code"
    /\ \E stuck \in BOOLEAN :
          /\ stuck \/ blocks = 1
          /\ critical' = (critical \/ stuck) /\ abort' = (abort \/ stuck)
    /\ blocks' = 0 /\ asks' = 0
    /\ \/ empties' = 0 /\ iter' = iter + 1 /\ Goto(t, "top")
       \/ UNCHANGED <<empties, iter>> /\ Goto(t, "over")
    /\ UNCHANGED <<runtimeVars, replyVars, lock, countVars, clientVars, met>>

(* The execution ends: its event and its counts are of no use any more. *)
Over(t) ==
    /\ pc[t] = "over"
    /\ lock' = None
    /\ abort' = FALSE /\ critical' = FALSE /\ iter' = 0 /\ empties' = 0
    /\ calls' = 0 /\ after' = 0 /\ late' = 0 /\ spoke' = FALSE
    /\ built' = [built EXCEPT ![t] = 0]
    /\ Goto(t, AfterTurn(t))
    /\ UNCHANGED <<model, handler, made, saved, swapped, replyVars, codeVars,
                   heard, strayed, met>>

Step(t) ==
    \/ Come(t) \/ Install(t) \/ Admit(t) \/ Inject(t)
    \/ Override(t) \/ Swap(t) \/ Unhand(t)
    \/ StopHandler(t) \/ RestoreModel(t) \/ RestoreHandler(t) \/ Answer(t)
    \/ Queue(t) \/ Spawn(t) \/ Top(t) \/ Compact(t)
    \/ Empty(t) \/ Text(t) \/ Writes(t)
    \/ Ask(t) \/ Reply(t) \/ More(t) \/ Score(t)
    \/ Final(t) \/ Over(t)

Next ==
    /\ \E t \in Request : Step(t) \/ Abort(t)
    /\ UNCHANGED fast

(* Every thread is scheduled, a call of the model returns or raises, and *)
(* a block of code ends, of which the code sees to nothing: exec has no  *)
(* time limit.  Nobody has to come or to abort.                          *)
Fairness ==
    \A t \in Request : WF_vars(pc[t] # "new" /\ Step(t) /\ UNCHANGED fast)

Spec == Init /\ [][Next]_vars /\ Fairness

(* --------------------------- what it promises -------------------------- *)

TypeOK ==
    /\ pc \in [Request -> {"new", "built", "admit", "inject", "override", "swap",
                           "swapped", "queue", "spawn", "spawned", "stop",
                           "restore", "restored", "answer", "done"} \cup InLoop]
    /\ model \in Models /\ handler \in Nat
    /\ lock \in Request \cup {None}
    /\ made \in Seq([model : Models, up : BOOLEAN])
    /\ built \in [Request -> Nat]
    /\ saved \in [Request -> [model : Models, handler : Nat]]
    /\ swapped \subseteq Request
    /\ replyTo \in Request \cup {None} /\ replied \in BOOLEAN
    /\ fast \subseteq Request
    /\ iter \in 0..Limit /\ empties \in 0..Retries
    /\ critical \in BOOLEAN /\ abort \in BOOLEAN
    /\ blocks \in 0..Blocks /\ asks \in 0..Asks
    /\ calls \in Nat /\ after \in Nat /\ late \in Nat
    /\ spoke \in BOOLEAN /\ strayed \in BOOLEAN /\ met \in BOOLEAN
    /\ heard \in [Request -> Nat]

(* The loop asks the model for an answer a bounded number of times, its   *)
(* empty answers and the last call counted, however many blocks the       *)
(* answers have; what the blocks ask themselves is theirs.                *)
CallsBounded == calls <= Bounded

(* A turn that is told to stop is not stopped at once, but soon: its loop  *)
(* asks the model three times more at most - for a summary, for an answer  *)
(* on its way, and for the last one - and it begins no block of code but   *)
(* those of one answer.  What a block that runs asks is not counted, and   *)
(* nothing in the code bounds it.                                          *)
StopHonoured == after <= 3 /\ late <= Blocks

(* Whoever overrides the model, in whatever order they begin and end, the *)
(* session's own is back when the last of them has ended.                 *)
ModelRestored == swapped = {} => model = "base"

(* As long as requests come one after the other each hears exactly one *)
(* answer, its own, unless it is refused.                              *)
AnsweredAlone ==
    /\ ~strayed
    /\ \A t \in Request :
          pc[t] = "answer" => heard[t] = IF replied THEN 1 ELSE 0

(* It is served by a handler that listens, of the model it is to have. *)
ServedAlone ==
    \A t \in Request : pc[t] \in InLoop =>
        made[built[t]] =
            [up |-> TRUE, model |-> IF t \in fast THEN "fast" ELSE "base"]

(* What the requests leave behind in the session - the closure, the flag, *)
(* the model, the handlers - never harms one that comes after them.       *)
NothingLeftOver == ~met => AnsweredAlone /\ ServedAlone

(* Every request that comes is answered or refused.  As nobody comes twice, *)
(* it is enough that always a time comes when nobody is under way.         *)
TurnEnds == []<>(Inside = {})
=============================================================================
