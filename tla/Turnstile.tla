----------------------------- MODULE Turnstile -----------------------------
(***************************************************************************)
(* What RLMSupervisor promises those who call execute(), without its       *)
(* locks, registries, timers, instances or status columns: every session   *)
(* is a turnstile that lets one request in at a time.  Who finds somebody  *)
(* inside may give up, and only then; who is inside leaves, or is lost     *)
(* there and bars the way for good; who is told to stop is inside.         *)
(* Nothing says that anybody ever gets in.                                 *)
(***************************************************************************)
CONSTANTS Request, SessionOf

VARIABLES
    mode,     \* where each request is
    stopped   \* the requests that were told to stop

vars == <<mode, stopped>>

Init ==
    /\ mode = [r \in Request |-> "outside"]
    /\ stopped = {}

Move(r, from, to) ==
    /\ mode[r] = from
    /\ mode' = [mode EXCEPT ![r] = to]
    /\ UNCHANGED stopped

Within == {"inside", "lost"}

\* Somebody bars the way into the session of r.
Barred(r) ==
    \E q \in Request : SessionOf[q] = SessionOf[r] /\ mode[q] \in Within

Wait(r) == Move(r, "outside", "waiting")
Enter(r) == ~Barred(r) /\ Move(r, "waiting", "inside")
GiveUp(r) == Barred(r) /\ Move(r, "waiting", "done")
Leave(r) == Move(r, "inside", "done")
Lose(r) == Move(r, "inside", "lost")

\* Requests are turned away before they wait: one at a session that is
\* closed, many when the supervisor shuts down.
TurnAway(R) ==
    /\ \A r \in R : mode[r] = "outside"
    /\ mode' = [r \in Request |-> IF r \in R THEN "done" ELSE mode[r]]
    /\ UNCHANGED stopped

\* A user, a timer or the shutdown stops whoever is inside the session.
Stop(r) ==
    /\ mode[r] \in Within
    /\ stopped' = stopped \cup {r}
    /\ UNCHANGED mode

Next ==
    \/ \E R \in SUBSET Request : TurnAway(R)
    \/ \E r \in Request :
         Wait(r) \/ Enter(r) \/ GiveUp(r) \/ Leave(r) \/ Lose(r) \/ Stop(r)

Spec == Init /\ [][Next]_vars
=============================================================================
