------------------------------ MODULE MCOutbox ------------------------------
(* Three messages: two of one priority, one more urgent; the first may be  *)
(* retried.  A batch is smaller than the queue.                            *)
EXTENDS Outbox, TLC

CONSTANTS m1, m2, m3

MCMsg == {m1, m2, m3}
MCRetries == (m1 :> 2) @@ (m2 :> 1) @@ (m3 :> 0)
MCPriority == (m1 :> 0) @@ (m2 :> 0) @@ (m3 :> 1)
=============================================================================
