---------------------------- MODULE MCSupervisor ----------------------------
(* Two requests of one session, one of them on the pool and one with an    *)
(* override of the iteration limit.                                        *)
EXTENDS Supervisor, TLC

CONSTANTS s1, r1, r2

MCRequest == {r1, r2}
MCAsync == {r1}
MCOverride == {r2}
MCSession == {s1}
MCSessionOf == [r \in MCRequest |-> s1]
=============================================================================
