----------------------------- MODULE SiblingBus -----------------------------
(***************************************************************************)
(* The bus between parallel children: SiblingBus of                        *)
(* rlm/core/orchestration/sibling_bus.py.                                  *)
(*                                                                         *)
(* A topic may have a FIFO channel, a bounded queue from which a message   *)
(* is consumed once, and a control channel, which keeps the latest signal  *)
(* and its generation and lets each receiver see a generation once.  The   *)
(* two kinds share one limit on the number of channels.                    *)
(*                                                                         *)
(* Each branch is one thread.  A call finds or creates its channel under   *)
(* the bus lock, and then works on the channel under that channel's own    *)
(* lock: the two are separate steps here.  Calls that only read (peek,     *)
(* topics, statistics) are left out, and so is telemetry.  A message is    *)
(* its sender and the sender's count.                                      *)
(***************************************************************************)
EXTENDS Naturals, Sequences, FiniteSets

CONSTANTS
    Branch,       \* the children, as senders and as receivers
    Topic,
    MaxChannels,  \* _MAX_CHANNELS
    MaxSize,      \* _CHANNEL_MAXSIZE
    MaxSends,     \* bound: messages and signals each branch sends
    None

ASSUME Limits == MaxChannels \in Nat /\ MaxSize \in Nat \ {0} /\ MaxSends \in Nat
ASSUME NoneIsNothing == None \notin Branch \cup Topic

VARIABLES
    channels,  \* the topics in _channels
    controls,  \* the topics in _control_channels
    queue,     \* the queue of each FIFO channel
    latest,    \* the sender of each control channel's latest signal
    gen,       \* the generation of each control channel
    seen,      \* seen_generations: per topic and receiver
    pc,        \* what each branch is doing
    on,        \* the topic it does it on
    sends,     \* how many messages and signals each branch has sent
    sent,      \* history: what was put into each queue
    taken,     \* history: what was got out of each queue
    said,      \* history: who sent each generation of a control channel
    heard      \* history: what each receiver saw on each control channel

fifoVars == <<channels, queue, sent, taken>>
controlVars == <<controls, latest, gen, seen, said, heard>>
vars == <<fifoVars, controlVars, pc, on, sends>>

Message == [sender : Branch, n : Nat]
Signal == [gen : Nat, from : Branch]

TypeOK ==
    /\ channels \subseteq Topic
    /\ controls \subseteq Topic
    /\ queue \in [Topic -> Seq(Message)]
    /\ latest \in [Topic -> Branch \cup {None}]
    /\ gen \in [Topic -> Nat]
    /\ seen \in [Topic -> [Branch -> Nat]]
    /\ pc \in [Branch -> {"idle", "put", "get", "drain", "signal", "wait"}]
    /\ on \in [Branch -> Topic \cup {None}]
    /\ \A b \in Branch : (pc[b] # "idle") => on[b] # None
    /\ sends \in [Branch -> Nat]
    /\ sent \in [Topic -> Seq(Message)]
    /\ taken \in [Topic -> Seq(Message)]
    /\ said \in [Topic -> Seq(Branch)]
    /\ heard \in [Topic -> [Branch -> Seq(Signal)]]

Init ==
    /\ channels = {}
    /\ controls = {}
    /\ queue = [t \in Topic |-> <<>>]
    /\ latest = [t \in Topic |-> None]
    /\ gen = [t \in Topic |-> 0]
    /\ seen = [t \in Topic |-> [b \in Branch |-> 0]]
    /\ pc = [b \in Branch |-> "idle"]
    /\ on = [b \in Branch |-> None]
    /\ sends = [b \in Branch |-> 0]
    /\ sent = [t \in Topic |-> <<>>]
    /\ taken = [t \in Topic |-> <<>>]
    /\ said = [t \in Topic |-> <<>>]
    /\ heard = [t \in Topic |-> [b \in Branch |-> <<>>]]

-----------------------------------------------------------------------------
Begin(b, t, doing) ==
    /\ pc[b] = "idle"
    /\ pc' = [pc EXCEPT ![b] = doing]
    /\ on' = [on EXCEPT ![b] = t]

End(b, doing) ==
    /\ pc[b] = doing
    /\ pc' = [pc EXCEPT ![b] = "idle"]
    /\ on' = [on EXCEPT ![b] = None]

\* The limit as a bug would test it: each kind of channel by itself.
HasRoom_Each(set, t) == t \in set \/ Cardinality(set) < MaxChannels

\* The test of _get_or_create_channel and _get_or_create_control_channel: a
\* new topic of either kind counts against the one limit.
HasRoom(set, t) ==
    t \in set \/ Cardinality(channels) + Cardinality(controls) < MaxChannels

-----------------------------------------------------------------------------
(* FIFO channels                                                           *)

\* publish(), up to the channel.
Publish(b, t) ==
    /\ sends[b] < MaxSends
    /\ HasRoom(channels, t)
    /\ Begin(b, t, "put")
    /\ channels' = channels \cup {t}
    /\ UNCHANGED <<queue, sent, taken, controlVars, sends>>

\* publish() with an invalid semantic type raises when the channel is made.
PublishInvalid(b, t) ==
    /\ pc[b] = "idle"
    /\ HasRoom(channels, t)
    /\ channels' = channels \cup {t}
    /\ UNCHANGED <<queue, sent, taken, controlVars, pc, on, sends>>

\* As Put below, on a queue that drops its oldest message when it is full.
Put_Dropping(b) ==
    LET t == on[b]
        msg == [sender |-> b, n |-> sends[b] + 1]
    IN
    /\ End(b, "put")
    /\ queue' = [queue EXCEPT ![t] =
                   Append(IF Len(@) = MaxSize THEN Tail(@) ELSE @, msg)]
    /\ sent' = [sent EXCEPT ![t] = Append(@, msg)]
    /\ sends' = [sends EXCEPT ![b] = @ + 1]
    /\ UNCHANGED <<channels, taken, controlVars>>

\* put_nowait()
Put(b) ==
    LET t == on[b]
        msg == [sender |-> b, n |-> sends[b] + 1]
    IN
    /\ End(b, "put")
    /\ Len(queue[t]) < MaxSize
    /\ queue' = [queue EXCEPT ![t] = Append(@, msg)]
    /\ sent' = [sent EXCEPT ![t] = Append(@, msg)]
    /\ sends' = [sends EXCEPT ![b] = @ + 1]
    /\ UNCHANGED <<channels, taken, controlVars>>

\* put_nowait() on a full queue: publish() raises SiblingBusError.
PutFull(b) ==
    /\ End(b, "put")
    /\ Len(queue[on[b]]) >= MaxSize
    /\ UNCHANGED <<fifoVars, controlVars, sends>>

\* subscribe_message(), up to the channel.
Subscribe(b, t) ==
    /\ HasRoom(channels, t)
    /\ Begin(b, t, "get")
    /\ channels' = channels \cup {t}
    /\ UNCHANGED <<queue, sent, taken, controlVars, sends>>

\* The head of the queue leaves it.
Take(t) ==
    /\ queue[t] # <<>>
    /\ queue' = [queue EXCEPT ![t] = Tail(@)]
    /\ taken' = [taken EXCEPT ![t] = Append(@, Head(queue[t]))]
    /\ UNCHANGED <<channels, sent>>

\* q.get() finds a message,
Get(b) ==
    /\ End(b, "get")
    /\ Take(on[b])
    /\ UNCHANGED <<controlVars, sends>>

\* or none until its timeout.
GetTimeout(b) ==
    /\ End(b, "get")
    /\ queue[on[b]] = <<>>
    /\ UNCHANGED <<fifoVars, controlVars, sends>>

\* drain() takes the messages one by one,
Drain(b, t) ==
    /\ t \in channels
    /\ Begin(b, t, "drain")
    /\ UNCHANGED <<fifoVars, controlVars, sends>>

DrainNext(b) ==
    /\ pc[b] = "drain"
    /\ Take(on[b])
    /\ UNCHANGED <<controlVars, pc, on, sends>>

\* until get_nowait() finds the queue empty.
DrainEnds(b) ==
    /\ End(b, "drain")
    /\ queue[on[b]] = <<>>
    /\ UNCHANGED <<fifoVars, controlVars, sends>>

-----------------------------------------------------------------------------
(* Control channels                                                        *)

\* publish_control(), up to the channel.
PublishControl(b, t) ==
    /\ sends[b] < MaxSends
    /\ HasRoom(controls, t)
    /\ Begin(b, t, "signal")
    /\ controls' = controls \cup {t}
    /\ UNCHANGED <<latest, gen, seen, said, heard, fifoVars, sends>>

\* A new generation replaces the latest signal, under the condition's lock.
SendSignal(b) ==
    LET t == on[b] IN
    /\ End(b, "signal")
    /\ gen' = [gen EXCEPT ![t] = @ + 1]
    /\ latest' = [latest EXCEPT ![t] = b]
    /\ said' = [said EXCEPT ![t] = Append(@, b)]
    /\ sends' = [sends EXCEPT ![b] = @ + 1]
    /\ UNCHANGED <<controls, seen, heard, fifoVars>>

Unseen(b, t) == latest[t] # None /\ seen[t][b] < gen[t]

\* As See below, forgetting to mark the generation as seen.
See_Unmarked(b, t) ==
    /\ Unseen(b, t)
    /\ heard' = [heard EXCEPT ![t][b] =
                   Append(@, [gen |-> gen[t], from |-> latest[t]])]
    /\ UNCHANGED <<controls, latest, gen, seen, said, fifoVars, sends>>

\* A receiver gets the latest signal and has seen its generation.
See(b, t) ==
    /\ Unseen(b, t)
    /\ seen' = [seen EXCEPT ![t][b] = gen[t]]
    /\ heard' = [heard EXCEPT ![t][b] =
                   Append(@, [gen |-> gen[t], from |-> latest[t]])]
    /\ UNCHANGED <<controls, latest, gen, said, fifoVars, sends>>

\* poll_control() with a hit; a miss changes nothing.
Poll(b, t) ==
    /\ pc[b] = "idle"
    /\ t \in controls
    /\ See(b, t)
    /\ UNCHANGED <<pc, on>>

\* wait_control(), up to the channel, which it creates if there is none.
WaitControl(b, t) ==
    /\ HasRoom(controls, t)
    /\ Begin(b, t, "wait")
    /\ controls' = controls \cup {t}
    /\ UNCHANGED <<latest, gen, seen, said, heard, fifoVars, sends>>

\* It finds a new generation, at once or when it is notified,
WaitHit(b) ==
    /\ End(b, "wait")
    /\ See(b, on[b])

\* As WaitTimeout below, without the second look at the channel.
WaitTimeout_Blind(b) ==
    /\ End(b, "wait")
    /\ UNCHANGED <<fifoVars, controlVars, sends>>

\* or still none when the wait is over.
WaitTimeout(b) ==
    /\ End(b, "wait")
    /\ ~Unseen(b, on[b])
    /\ UNCHANGED <<fifoVars, controlVars, sends>>

-----------------------------------------------------------------------------
\* What a branch does once it is inside a call.
Progress(b) ==
    \/ Put(b) \/ PutFull(b)
    \/ Get(b) \/ GetTimeout(b)
    \/ DrainNext(b) \/ DrainEnds(b)
    \/ SendSignal(b)
    \/ WaitHit(b) \/ WaitTimeout(b)

Call(b, t) ==
    \/ Publish(b, t) \/ PublishInvalid(b, t)
    \/ Subscribe(b, t) \/ Drain(b, t)
    \/ PublishControl(b, t) \/ WaitControl(b, t)

Next ==
    \E b \in Branch :
      \/ Progress(b)
      \/ \E t \in Topic : Call(b, t) \/ Poll(b, t)

Spec == Init /\ [][Next]_vars

\* A call that has begun goes on: every wait has a timeout.
FairSpec == Spec /\ \A b \in Branch : WF_vars(Progress(b))

-----------------------------------------------------------------------------
(* Properties                                                              *)

\* What was published on a topic is what was consumed, followed by what is
\* pending: nothing is lost, duplicated or overtaken, with any number of
\* publishers, subscribers and drains on the topic.
NothingLost == \A t \in Topic : sent[t] = taken[t] \o queue[t]

\* The limits on topics and pending messages hold although each call looks
\* at them in a step of its own.
WithinLimits ==
    /\ Cardinality(channels) + Cardinality(controls) <= MaxChannels
    /\ \A t \in Topic : Len(queue[t]) <= MaxSize

\* A receiver sees a generation of a control channel at most once, and never
\* an older one after a newer one.
HeardOnce ==
    \A t \in Topic, b \in Branch :
        \A i, j \in 1 .. Len(heard[t][b]) :
            i < j => heard[t][b][i].gen < heard[t][b][j].gen

\* The generation and the signal that a receiver sees belong together.
HeardAsSaid ==
    \A t \in Topic, b \in Branch :
        \A i \in 1 .. Len(heard[t][b]) :
            /\ heard[t][b][i].gen \in 1 .. Len(said[t])
            /\ heard[t][b][i].from = said[t][heard[t][b][i].gen]

\* A broadcast is heard once by each receiver, in order and as it was said.
Heard == HeardOnce /\ HeardAsSaid

\* A branch that waits on a control channel and has not seen its generation
\* sees that one or a later one: no signal falls between the test and the wait.
SignalReachesWaiter ==
    \A b \in Branch, t \in Topic :
        \A g \in 1 .. MaxSends * Cardinality(Branch) :
            (pc[b] = "wait" /\ on[b] = t /\ gen[t] = g /\ seen[t][b] < g)
                ~> (seen[t][b] >= g)
=============================================================================
