------------------------------ MODULE Delivery ------------------------------
(***************************************************************************)
(* What the outbox promises of one message, without the worker, its        *)
(* batches, its clock or its database: a message is claimed, sent once     *)
(* per claim, and then it is delivered, queued again or given up.  It is   *)
(* given up exactly when its tries are used up, delivered only after the   *)
(* channel accepted it, and nothing happens to it after either.  Nothing   *)
(* says that a claimed message is ever sent: a crash leaves it claimed.    *)
(***************************************************************************)
EXTENDS Naturals

CONSTANTS Msg, Tries

VARIABLES
    phase,    \* where each message is
    sends,    \* how often it was given to the channel
    accepted  \* how often the channel accepted it

vars == <<phase, sends, accepted>>

Init ==
    /\ phase = [m \in Msg |-> "unknown"]
    /\ sends = [m \in Msg |-> 0]
    /\ accepted = [m \in Msg |-> 0]

Move(m, from, to) ==
    /\ phase[m] = from
    /\ phase' = [phase EXCEPT ![m] = to]

Enqueue(m) == Move(m, "unknown", "queued") /\ UNCHANGED <<sends, accepted>>

Claim(M) ==
    /\ \A m \in M : phase[m] = "queued"
    /\ phase' = [m \in Msg |-> IF m \in M THEN "claimed" ELSE phase[m]]
    /\ UNCHANGED <<sends, accepted>>

Transmit(m) ==
    /\ Move(m, "claimed", "sent")
    /\ sends' = [sends EXCEPT ![m] = @ + 1]
    /\ \/ accepted' = [accepted EXCEPT ![m] = @ + 1]
       \/ UNCHANGED accepted

Deliver(m) ==
    /\ accepted[m] > 0
    /\ Move(m, "sent", "delivered")
    /\ UNCHANGED <<sends, accepted>>

Retry(m) ==
    /\ sends[m] < Tries[m]
    /\ Move(m, "sent", "queued")
    /\ UNCHANGED <<sends, accepted>>

GiveUp(m) ==
    /\ sends[m] >= Tries[m]
    /\ Move(m, "sent", "dead")
    /\ UNCHANGED <<sends, accepted>>

Next ==
    \/ \E M \in SUBSET Msg : Claim(M)
    \/ \E m \in Msg :
        Enqueue(m) \/ Transmit(m) \/ Deliver(m) \/ Retry(m) \/ GiveUp(m)

Spec == Init /\ [][Next]_vars
=============================================================================
