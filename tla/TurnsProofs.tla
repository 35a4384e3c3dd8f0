---------------------------- MODULE TurnsProofs ----------------------------
(***************************************************************************)
(* Theorems about Turns, for any requests, classes, iterations and        *)
(* retries.  The invariant follows the loop: what each of its places may   *)
(* have spent, of the calls that are allowed and of those that an abort    *)
(* leaves, and that only the request that holds the lock is in it.  Of     *)
(* requests that do not overlap a second one says what each place finds    *)
(* of the runtime and of the replies.                                      *)
(***************************************************************************)
EXTENDS Turns, TLAPS

Places == {"new", "built", "admit", "inject", "override", "swap", "swapped",
           "queue", "spawn", "spawned", "stop", "restore", "restored",
           "answer", "done"} \cup InLoop
Handler == [model : Models, up : BOOLEAN]
Holding == InLoop \cup {"spawn", "spawned"}

(* The calls of one iteration: the retries and the one that ends it. *)
Each == Retries + 1

(* What has been spent of the turn at a place of the loop. *)
CallsAt(p) ==
    /\ p \in {"spawn", "spawned"} =>
           /\ iter = 0 /\ empties = 0 /\ calls = 0
    /\ p \in {"top", "compact", "call"} => calls <= iter * Each + empties
    /\ p = "code" => calls <= iter * Each + empties + 1
    /\ p \in {"compact", "call", "code"} => iter < Limit
    /\ p = "top" /\ iter = Limit => empties = 0
    /\ p = "default" => calls <= Limit * Each
    /\ p = "over" => calls <= Limit * Each + 1

(* What the loop has asked and begun since the turn was told to stop, and   *)
(* what it has still to run: blocks of the answer it has, and no other.     *)
AfterAt(p) ==
    /\ ~abort => after = 0 /\ late = 0
    /\ p \in {"spawn", "spawned", "compact", "call"} => late = 0
    /\ p = "code" => blocks >= 1 /\ late + blocks <= Blocks + 1
    /\ p \in {"top", "default", "over"} => late <= Blocks
    /\ p \in {"spawn", "spawned", "compact"} => after = 0
    /\ p = "call" => after <= 1
    /\ p \in {"top", "code", "default"} => after <= 2
    /\ p = "over" => after <= 3

(* The loop is run by the holder of the lock, and leaves nothing behind. *)
Owned == \A t \in Request : pc[t] \in Holding <=> lock = t
Rests ==
    lock = None =>
        /\ iter = 0 /\ empties = 0 /\ calls = 0 /\ after = 0 /\ late = 0
        /\ ~abort /\ ~critical
Spent == \A t \in Request : lock = t => CallsAt(pc[t]) /\ AfterAt(pc[t])

(* What any override has found is the model of the session. *)
Overrides ==
    /\ \A t \in Request : saved[t].model = "base"
    /\ ModelRestored

IInv == TypeOK /\ Owned /\ Rests /\ Spent /\ Overrides

-----------------------------------------------------------------------------
(* An iteration more is its calls more.                                    *)
LEMMA OneMore ==
  ASSUME NEW k \in Nat
  PROVE  /\ k * Each \in Nat /\ Each \in Nat
         /\ (k + 1) * Each = k * Each + Retries + 1
  BY Sizes DEF Each

(* Iterations that are left are calls that are left.                       *)
LEMMA Below ==
  ASSUME NEW k \in 0..(Limit - 1)
  PROVE  k * Each + Retries + 1 <= Limit * Each
  <1>1. /\ Limit \in Nat /\ Retries \in Nat /\ Each \in Nat
        /\ k \in Nat /\ Limit - (k + 1) \in Nat
    BY Sizes DEF Each
  <1>2. \A a, b \in Nat : a * b \in Nat
    OBVIOUS
  <1>3. (Limit - (k + 1)) * Each \in Nat
    BY <1>1, <1>2
  <1>4. Limit * Each = (Limit - (k + 1)) * Each + (k + 1) * Each
    BY <1>1
  <1>5. (k + 1) * Each = k * Each + Retries + 1
    BY <1>1, OneMore
  <1>6. k * Each \in Nat /\ Limit * Each \in Nat /\ (k + 1) * Each \in Nat
    BY <1>1, <1>2
  <1> QED BY <1>1, <1>3, <1>4, <1>5, <1>6

(* A handler that is built, and the one that is stopped, are handlers.     *)
LEMMA HandlersTyped ==
  ASSUME made \in Seq(Handler), model \in Models
  PROVE  /\ Append(made, [model |-> model, up |-> TRUE]) \in Seq(Handler)
         /\ Len(made) + 1 \in Nat
         /\ \A h \in Nat : [made EXCEPT ![h].up = FALSE] \in Seq(Handler)
  <1>1. [model |-> model, up |-> TRUE] \in Handler
    BY DEF Handler
  <1>2. Append(made, [model |-> model, up |-> TRUE]) \in Seq(Handler)
    BY <1>1
  <1>3. ASSUME NEW h \in Nat
        PROVE  [made EXCEPT ![h].up = FALSE] \in Seq(Handler)
    <2> DEFINE n == Len(made)
               f == [made EXCEPT ![h].up = FALSE]
    <2>1. n \in Nat /\ DOMAIN f = 1..n
      OBVIOUS
    <2>2. \A i \in 1..n : made[i] \in Handler
      OBVIOUS
    <2>3. \A i \in 1..n : [made[i] EXCEPT !.up = FALSE] \in Handler
      BY <2>2 DEF Handler
    <2>4. \A i \in 1..n :
              f[i] = IF i = h THEN [made[i] EXCEPT !.up = FALSE] ELSE made[i]
      BY Zenon, <2>1
    <2>5. f = [i \in 1..n |-> f[i]]
      BY <2>1
    <2>6. \A i \in 1..n : f[i] \in Handler
      BY <2>2, <2>3, <2>4
    <2> HIDE DEF f
    <2>7. f \in Seq(Handler)
      BY <2>1, <2>5, <2>6
    <2> QED BY Zenon, <2>7 DEF f
  <1>4. Len(made) + 1 \in Nat
    OBVIOUS
  <1> QED BY Zenon, <1>2, <1>3, <1>4

(* What Warm leaves of the requests' handlers.                             *)
LEMMA WarmTyped ==
  ASSUME TypeOK, NEW t \in Request, NEW p, NEW q, Warm(t, p, q)
  PROVE  /\ made' \in Seq(Handler) /\ built' \in [Request -> Nat]
         /\ \E x \in {p, q} : Goto(t, x)
  <1>1. /\ made \in Seq(Handler) /\ model \in Models /\ handler \in Nat
        /\ built \in [Request -> Nat]
    BY DEF TypeOK, Handler
  <1>2. CASE handler # 0
    BY <1>1, <1>2 DEF Warm
  <1>3. CASE handler = 0
    BY <1>1, <1>3, HandlersTyped DEF Warm
  <1> QED BY <1>2, <1>3

-----------------------------------------------------------------------------
(* The calls stay within the bound at every place of the loop.             *)
LEMMA Within ==
  ASSUME TypeOK, NEW p \in Holding, CallsAt(p)
  PROVE  calls <= Bounded
  <1>a. /\ iter \in 0..Limit /\ empties \in 0..Retries /\ calls \in Nat
        /\ Limit \in Nat /\ Retries \in Nat
    BY Sizes DEF TypeOK
  <1>b. Limit * Each \in Nat /\ iter * Each \in Nat
    BY <1>a, OneMore
  <1>1. /\ iter \in 0..Limit /\ empties \in 0..Retries /\ calls \in Nat
        /\ Limit \in Nat /\ Retries \in Nat
        /\ Limit * Each \in Nat /\ iter * Each \in Nat
    BY <1>a, <1>b
  <1>2. Bounded = Limit * Each + 1
    BY DEF Bounded, Each
  <1>3. CASE p \in {"top", "compact", "call", "code"}
    <2>1. calls <= iter * Each + empties + 1
      BY <1>1, <1>3 DEF CallsAt
    <2>2. CASE iter < Limit
      <3>1. iter * Each + Retries + 1 <= Limit * Each
        BY <1>1, <2>2, Below
      <3> QED BY <1>1, <1>2, <2>1, <3>1
    <2>3. CASE iter = Limit
      <3>1. empties = 0
        BY <1>1, <1>3, <2>3 DEF CallsAt
      <3> QED BY <1>1, <1>2, <2>1, <2>3, <3>1
    <2> QED BY <1>1, <2>2, <2>3
  <1>4. CASE p \in {"spawn", "spawned", "default", "over"}
    BY <1>1, <1>2, <1>4 DEF CallsAt
  <1> QED BY <1>3, <1>4 DEF Holding, InLoop

(* A step outside the loop of a request outside it.                        *)
LEMMA StaysOut ==
  ASSUME IInv, NEW t \in Request, NEW p, Goto(t, p),
         pc[t] \notin Holding, p \notin Holding,
         UNCHANGED <<lock, loopVars, countVars>>
  PROVE  (Owned /\ Rests /\ Spent)'
  <1>1. /\ pc' = [pc EXCEPT ![t] = p] /\ pc \in [Request -> Places]
        /\ lock' = lock
    BY DEF Goto, IInv, TypeOK, Places
  <1>2. lock # t
    BY DEF IInv, Owned
  <1>3. Owned'
    BY <1>1 DEF IInv, Owned
  <1>4. Rests'
    BY <1>1 DEF IInv, Rests, loopVars, countVars
  <1>5. ASSUME NEW u \in Request, lock' = u
        PROVE  (CallsAt(pc[u]) /\ AfterAt(pc[u]))'
    <2>1. pc'[u] = pc[u] /\ lock = u
      BY <1>1, <1>2, <1>5
    <2>2. CallsAt(pc[u]) /\ AfterAt(pc[u])
      BY <2>1 DEF IInv, Spent
    <2>3. UNCHANGED <<iter, empties, abort, blocks, calls, after, late>>
      BY DEF loopVars, codeVars, countVars
    <2> QED BY <2>1, <2>2, <2>3 DEF CallsAt, AfterAt
  <1> QED BY <1>3, <1>4, <1>5 DEF Spent

(* A step in the loop is one of the holder, and it has to keep the         *)
(* account of the place it goes to.                                        *)
LEMMA StaysIn ==
  ASSUME IInv, NEW t \in Request, NEW p \in Holding, Goto(t, p),
         pc[t] \in Holding, lock' = lock, (CallsAt(p) /\ AfterAt(p))'
  PROVE  (Owned /\ Rests /\ Spent)'
  <1>1. /\ pc' = [pc EXCEPT ![t] = p] /\ pc \in [Request -> Places]
        /\ lock' = lock
    BY DEF Goto, IInv, TypeOK, Places
  <1>2. lock = t /\ lock # None
    BY Sizes DEF IInv, Owned
  <1>3. Owned'
    BY <1>1 DEF IInv, Owned
  <1>4. Rests'
    BY <1>1, <1>2 DEF Rests
  <1>5. pc'[t] = p
    BY <1>1
  <1>6. ASSUME NEW u \in Request, lock' = u
        PROVE  (CallsAt(pc[u]) /\ AfterAt(pc[u]))'
    <2>1. u = t
      BY <1>1, <1>2, <1>6
    <2> QED BY <2>1, <1>5 DEF CallsAt, AfterAt
  <1> QED BY <1>3, <1>4, <1>6 DEF Spent

(* What is known of a request in the loop.                                 *)
LEMMA Account ==
  ASSUME IInv, NEW t \in Request, pc[t] \in Holding
  PROVE  /\ lock = t /\ CallsAt(pc[t]) /\ AfterAt(pc[t])
         /\ iter \in 0..Limit /\ empties \in 0..Retries
         /\ calls \in Nat /\ after \in Nat /\ calls <= Bounded
         /\ blocks \in 0..Blocks /\ late \in Nat /\ Blocks \in Nat \ {0}
         /\ Limit \in Nat \ {0} /\ Retries \in Nat /\ Each \in Nat
         /\ iter * Each \in Nat /\ Limit * Each \in Nat
         /\ (iter + 1) * Each = iter * Each + Retries + 1
         /\ abort \in BOOLEAN /\ critical \in BOOLEAN
  <1>1. lock = t /\ CallsAt(pc[t]) /\ AfterAt(pc[t])
    BY DEF IInv, Owned, Spent
  <1>2. /\ iter \in 0..Limit /\ empties \in 0..Retries
        /\ calls \in Nat /\ after \in Nat
        /\ blocks \in 0..Blocks /\ late \in Nat
        /\ abort \in BOOLEAN /\ critical \in BOOLEAN
    BY DEF IInv, TypeOK
  <1>3. calls <= Bounded
    BY <1>1, Within DEF IInv
  <1>4. Limit \in Nat \ {0} /\ Retries \in Nat /\ Blocks \in Nat \ {0}
    BY Sizes
  <1>5. /\ Each \in Nat /\ iter * Each \in Nat /\ Limit * Each \in Nat
        /\ (iter + 1) * Each = iter * Each + Retries + 1
    BY <1>2, <1>4, OneMore
  <1> QED BY <1>1, <1>2, <1>3, <1>4, <1>5

(* A call of the model for an answer is counted.                           *)
LEMMA CallCounts ==
  ASSUME IInv, NEW t \in Request, pc[t] \in {"call", "default"}, Called
  PROVE  calls' = calls + 1
  <1>1. calls <= Bounded
    BY Account DEF Holding, InLoop
  <1> QED BY <1>1 DEF Called

(* The account of every place of the loop a step goes to.                  *)
LEMMA LoopStep ==
  ASSUME IInv, NEW t \in Request, pc[t] \in Holding,
         \/ Install(t) \/ Spawn(t) \/ Top(t) \/ Compact(t)
         \/ Empty(t) \/ Text(t) \/ Writes(t) \/ Score(t) \/ Final(t)
  PROVE  (Owned /\ Rests /\ Spent)'
  <1>1. /\ lock = t /\ CallsAt(pc[t]) /\ AfterAt(pc[t])
        /\ iter \in 0..Limit /\ empties \in 0..Retries
        /\ calls \in Nat /\ after \in Nat
        /\ blocks \in 0..Blocks /\ late \in Nat /\ Blocks \in Nat \ {0}
        /\ Limit \in Nat \ {0} /\ Retries \in Nat /\ Each \in Nat
        /\ iter * Each \in Nat /\ Limit * Each \in Nat
        /\ (iter + 1) * Each = iter * Each + Retries + 1
        /\ abort \in BOOLEAN /\ critical \in BOOLEAN
    BY Account
  <1>2. iter < Limit => iter * Each + Retries + 1 <= Limit * Each
    BY <1>1, Below
  <1>3. SUFFICES \E p \in Holding :
                    /\ Goto(t, p) /\ lock' = lock
                    /\ CallsAt(p)' /\ AfterAt(p)'
    BY StaysIn
  <1>4. CASE Install(t) \/ Spawn(t)
    <2>1. PICK p \in {"spawned", "top"} : Goto(t, p)
      BY <1>4 DEF Install, Spawn, Warm, Holding, InLoop
    <2>2. /\ pc[t] \in {"spawn", "spawned"} /\ lock' = lock
          /\ UNCHANGED <<iter, empties, abort, calls, after, late>>
      BY <1>4 DEF Install, Spawn, Holding, InLoop, loopVars, countVars
    <2>3. iter = 0 /\ empties = 0 /\ calls = 0 /\ after = 0 /\ late = 0
      BY <1>1, <2>2 DEF CallsAt, AfterAt
    <2>4. calls' <= iter' * Each + empties' /\ (iter' = Limit => empties' = 0)
      BY <1>1, <2>2, <2>3
    <2>5. CallsAt(p)'
      BY <2>1, <2>2, <2>3, <2>4 DEF CallsAt
    <2>6. AfterAt(p)'
      BY <1>1, <2>1, <2>2, <2>3 DEF AfterAt
    <2> QED BY <2>1, <2>2, <2>5, <2>6 DEF Holding, InLoop
  <1>5. CASE Top(t)
    <2>1. /\ pc[t] = "top" /\ lock' = lock
          /\ UNCHANGED <<iter, empties, abort, calls, after, late>>
      BY <1>5 DEF Top, loopVars, countVars
    <2>2. /\ calls <= iter * Each + empties /\ (iter = Limit => empties = 0)
          /\ after <= 2 /\ late <= Blocks /\ (~abort => after = 0 /\ late = 0)
      BY <1>1, <2>1 DEF CallsAt, AfterAt
    <2>3. CASE Stops
      <3>1. Goto(t, "default")
        BY <1>5, <2>3 DEF Top
      <3>2. calls <= Limit * Each
        <4>1. CASE iter = Limit
          BY <1>1, <2>2, <4>1
        <4>2. CASE iter < Limit
          BY <1>1, <1>2, <2>2, <4>2
        <4> QED BY <1>1, <4>1, <4>2
      <3>3. CallsAt("default")'
        BY <2>1, <3>2 DEF CallsAt
      <3>4. AfterAt("default")'
        BY <2>1, <2>2 DEF AfterAt
      <3> QED BY <2>1, <3>1, <3>3, <3>4 DEF Holding, InLoop
    <2>4. CASE ~Stops
      <3>1. PICK p \in {"compact", "call"} : Goto(t, p)
        BY <1>5, <2>4 DEF Top
      <3>2. iter < Limit /\ after = 0 /\ late = 0
        BY <1>1, <2>2, <2>4 DEF Stops
      <3>3. CallsAt(p)'
        BY <2>1, <2>2, <3>1, <3>2 DEF CallsAt
      <3>4. AfterAt(p)'
        BY <2>1, <2>2, <3>1, <3>2 DEF AfterAt
      <3> QED BY <2>1, <3>1, <3>3, <3>4 DEF Holding, InLoop
    <2> QED BY <2>3, <2>4
  <1>6. CASE Compact(t)
    <2>1. /\ pc[t] = "compact" /\ lock' = lock /\ Goto(t, "call")
          /\ UNCHANGED <<iter, empties, abort, calls, late>> /\ Follows
      BY <1>6 DEF Compact, loopVars
    <2>2. calls <= iter * Each + empties /\ iter < Limit /\ after = 0 /\ late = 0
      BY <1>1, <2>1 DEF CallsAt, AfterAt
    <2>3. CallsAt("call")'
      BY <2>1, <2>2 DEF CallsAt
    <2>4. after' <= 1 /\ (~abort => after' = 0)
      BY <2>1, <2>2 DEF Follows
    <2>5. AfterAt("call")'
      BY <2>1, <2>2, <2>4 DEF AfterAt
    <2> QED BY <2>1, <2>3, <2>5 DEF Holding, InLoop
  <1>7. ASSUME pc[t] = "call", Called
        PROVE  /\ calls' = calls + 1 /\ calls <= iter * Each + empties
               /\ iter < Limit /\ iter * Each + Retries + 1 <= Limit * Each
               /\ after' <= 2 /\ (~abort => after' = 0) /\ late = 0
    <2>1. calls' = calls + 1
      BY <1>7, CallCounts
    <2>2. calls <= iter * Each + empties /\ iter < Limit /\ after <= 1 /\ late = 0
      BY <1>1, <1>7 DEF CallsAt, AfterAt
    <2>3. after' <= 2 /\ (~abort => after' = 0)
      BY <1>1, <1>7, <2>2 DEF Called, Follows, AfterAt
    <2> QED BY <1>2, <2>1, <2>2, <2>3
  <1>8. CASE Empty(t) \/ Text(t)
    <2>1. /\ pc[t] = "call" /\ lock' = lock /\ Goto(t, "top") /\ Called
          /\ abort' = abort /\ late' = late
      BY <1>8 DEF Empty, Text
    <2>2. \/ empties < Retries /\ empties' = empties + 1 /\ iter' = iter
          \/ empties' = 0 /\ iter' = iter + 1
      BY <1>8 DEF Empty, Text
    <2>3. calls' <= iter' * Each + empties' /\ (iter' = Limit => empties' = 0)
      <3>1. CASE empties' = empties + 1 /\ iter' = iter
        BY <1>1, <1>7, <2>1, <3>1
      <3>2. CASE empties' = 0 /\ iter' = iter + 1
        <4>1. iter' * Each = iter * Each + Retries + 1
          BY <1>1, <3>2
        <4>2. calls' <= iter * Each + Retries + 1
          BY <1>1, <1>7, <2>1
        <4> QED BY <1>1, <3>2, <4>1, <4>2
      <3> QED BY <2>2, <3>1, <3>2
    <2>4. CallsAt("top")'
      BY <2>3 DEF CallsAt
    <2>5. AfterAt("top")'
      BY <1>1, <1>7, <2>1 DEF AfterAt
    <2> QED BY <2>1, <2>4, <2>5 DEF Holding, InLoop
  <1>9. CASE Writes(t)
    <2>1. /\ pc[t] = "call" /\ lock' = lock /\ Goto(t, "code") /\ Called
          /\ UNCHANGED <<iter, empties, abort>> /\ Begins /\ blocks' \in 1..Blocks
      BY <1>9 DEF Writes
    <2>2. calls' <= iter * Each + empties + 1
      BY <1>1, <1>7, <2>1
    <2>3. CallsAt("code")'
      BY <1>7, <2>1, <2>2 DEF CallsAt
    <2>4. late' <= 1 /\ late' \in Nat /\ (~abort => late' = 0)
      BY <1>1, <1>7, <2>1 DEF Begins
    <2>5. blocks' >= 1 /\ late' + blocks' <= Blocks + 1
      <3>1. blocks' \in 1..Blocks /\ late' \in 0..1 /\ Blocks \in Nat
        BY <1>1, <2>1, <2>4
      <3>2. \A x \in 1..Blocks, y \in 0..1 : x >= 1 /\ y + x <= Blocks + 1
        BY <3>1
      <3> QED BY <3>1, <3>2
    <2>6. after' <= 2 /\ (~abort => after' = 0) /\ abort' = abort
      BY <1>7, <2>1
    <2>7. AfterAt("code")'
      BY <2>4, <2>5, <2>6 DEF AfterAt
    <2> QED BY <2>1, <2>3, <2>7 DEF Holding, InLoop
  <1>11. CASE Score(t)
    <2>1. /\ pc[t] = "code" /\ lock' = lock /\ (abort => abort')
          /\ calls' = calls /\ after' = after /\ late' = late
      BY <1>11 DEF Score, countVars
    <2>2. /\ calls <= iter * Each + empties + 1 /\ iter < Limit
          /\ after <= 2 /\ late <= Blocks /\ (~abort => after = 0 /\ late = 0)
      BY <1>1, <2>1 DEF CallsAt, AfterAt
    <2>3. CASE empties' = 0 /\ iter' = iter + 1 /\ Goto(t, "top")
      <3>1. iter' * Each = iter * Each + Retries + 1
        BY <1>1, <2>3
      <3>2. calls' <= iter' * Each + empties' /\ (iter' = Limit => empties' = 0)
        BY <1>1, <2>1, <2>2, <2>3, <3>1
      <3>3. CallsAt("top")'
        BY <3>2 DEF CallsAt
      <3>4. AfterAt("top")'
        BY <2>1, <2>2 DEF AfterAt
      <3> QED BY <2>1, <2>3, <3>3, <3>4 DEF Holding, InLoop
    <2>4. CASE UNCHANGED <<empties, iter>> /\ Goto(t, "over")
      <3>1. calls' <= Limit * Each + 1
        BY <1>1, <1>2, <2>1, <2>2
      <3>2. CallsAt("over")'
        BY <3>1 DEF CallsAt
      <3>3. after <= 3
        BY <1>1, <2>2
      <3>4. AfterAt("over")'
        BY <2>1, <2>2, <3>3 DEF AfterAt
      <3> QED BY <2>1, <2>4, <3>2, <3>4 DEF Holding, InLoop
    <2> QED BY <1>11, <2>3, <2>4 DEF Score
  <1>12. CASE Final(t)
    <2>1. /\ pc[t] \in {"call", "default"} /\ lock' = lock /\ Called
          /\ Goto(t, "over") /\ UNCHANGED <<iter, empties, abort, late>>
      BY <1>12 DEF Final, loopVars
    <2>2. calls' <= Limit * Each + 1
      <3>1. CASE pc[t] = "call"
        BY <1>1, <1>7, <2>1, <3>1
      <3>2. CASE pc[t] = "default"
        <4>1. calls' = calls + 1
          BY <2>1, CallCounts
        <4>2. calls <= Limit * Each
          BY <1>1, <3>2 DEF CallsAt
        <4> QED BY <1>1, <4>1, <4>2
      <3> QED BY <2>1, <3>1, <3>2
    <2>3. after' <= 3 /\ (~abort => after' = 0)
      <3>1. after <= 2 /\ (~abort => after = 0)
        BY <1>1, <2>1 DEF AfterAt
      <3> QED BY <1>1, <2>1, <3>1 DEF Called, Follows
    <2>4. CallsAt("over")'
      BY <2>2 DEF CallsAt
    <2>5. late <= Blocks /\ (~abort => late = 0)
      BY <1>1, <2>1 DEF AfterAt
    <2>6. AfterAt("over")'
      BY <2>1, <2>3, <2>5 DEF AfterAt
    <2> QED BY <2>1, <2>4, <2>6 DEF Holding, InLoop
  <1> QED BY <1>4, <1>5, <1>6, <1>8, <1>9, <1>11, <1>12

(* While the blocks of an answer run, each that is begun is one less that  *)
(* is left; a call that a block makes, or a reply, is not the loop's.      *)
LEMMA CodeStep ==
  ASSUME IInv, NEW t \in Request, Ask(t) \/ Reply(t) \/ More(t)
  PROVE  (Owned /\ Rests /\ Spent)'
  <1>1. /\ pc[t] = "code" /\ pc' = pc /\ lock' = lock
        /\ UNCHANGED <<iter, empties, abort, calls, after>>
    BY DEF Ask, Reply, More, loopVars, codeVars, countVars
  <1>2. /\ lock = t /\ AfterAt("code") /\ CallsAt("code")
        /\ blocks \in 0..Blocks /\ late \in Nat /\ Blocks \in Nat \ {0}
        /\ None \notin Request
    BY <1>1, Account, Sizes DEF Holding, InLoop
  <1>3. /\ ~abort => late' = 0
        /\ blocks' >= 1 /\ late' + blocks' <= Blocks + 1
    <2>1. late + blocks <= Blocks + 1 /\ blocks >= 1 /\ (~abort => late = 0)
      BY <1>2 DEF AfterAt
    <2>2. CASE More(t)
      BY <1>2, <2>1, <2>2 DEF More, Begins
    <2>3. CASE Ask(t) \/ Reply(t)
      BY <2>1, <2>3 DEF Ask, Reply, loopVars, codeVars, countVars
    <2> QED BY <2>2, <2>3
  <1>4. AfterAt("code")' /\ CallsAt("code")'
    BY <1>1, <1>2, <1>3 DEF AfterAt, CallsAt
  <1>5. Owned' /\ Rests'
    BY <1>1, <1>2 DEF IInv, Owned, Rests
  <1>6. ASSUME NEW u \in Request, lock' = u
        PROVE  (CallsAt(pc[u]) /\ AfterAt(pc[u]))'
    <2>1. pc'[u] = "code"
      BY <1>1, <1>2, <1>6
    <2> QED BY <1>4, <2>1 DEF CallsAt, AfterAt
  <1> QED BY <1>5, <1>6 DEF Spent

(* The lock is taken for a turn that has spent nothing, and given back     *)
(* with nothing left in the account.                                       *)
LEMMA LockStep ==
  ASSUME IInv, NEW t \in Request, Queue(t) \/ Over(t)
  PROVE  (Owned /\ Rests /\ Spent)'
  <1>1. /\ pc \in [Request -> Places] /\ None \notin Request
        /\ AfterTurn(t) \in {"stop", "answer"}
    BY Sizes DEF IInv, TypeOK, Places, AfterTurn
  <1>2. CASE Queue(t) /\ lock = None
    <2>1. /\ pc' = [pc EXCEPT ![t] = "spawn"] /\ lock' = t
          /\ UNCHANGED <<iter, empties, abort, calls, after, late>>
      BY <1>2 DEF Queue, Goto, loopVars, countVars
    <2>2. iter = 0 /\ empties = 0 /\ calls = 0 /\ after = 0 /\ late = 0
      BY <1>2 DEF IInv, Rests
    <2>3. Owned'
      BY <1>1, <1>2, <2>1 DEF IInv, Owned, Holding, InLoop
    <2>4. Rests'
      BY <1>1, <2>1 DEF Rests
    <2>5. pc'[t] = "spawn"
      BY <1>1, <2>1
    <2>6. CallsAt("spawn")' /\ AfterAt("spawn")'
      BY <2>1, <2>2 DEF CallsAt, AfterAt
    <2>7. ASSUME NEW u \in Request, lock' = u
          PROVE  (CallsAt(pc[u]) /\ AfterAt(pc[u]))'
      <3>1. u = t
        BY <2>1, <2>7
      <3> QED BY <3>1, <2>5, <2>6 DEF CallsAt, AfterAt
    <2> QED BY <2>3, <2>4, <2>7 DEF Spent
  <1>3. CASE Queue(t) /\ lock # None
    <2>1. /\ pc[t] = "queue" /\ Goto(t, AfterTurn(t))
          /\ UNCHANGED <<lock, loopVars, countVars>>
      BY <1>3 DEF Queue
    <2> QED BY <1>1, <2>1, StaysOut DEF Holding, InLoop
  <1>4. CASE Over(t)
    <2>1. /\ pc[t] = "over" /\ pc' = [pc EXCEPT ![t] = AfterTurn(t)]
          /\ lock' = None /\ iter' = 0 /\ empties' = 0 /\ calls' = 0
          /\ after' = 0 /\ late' = 0 /\ abort' = FALSE /\ critical' = FALSE
      BY <1>4 DEF Over, Goto
    <2>2. lock = t
      BY <2>1, Account DEF Holding, InLoop
    <2>3. Owned'
      BY <1>1, <2>1, <2>2 DEF IInv, Owned, Holding, InLoop
    <2>4. Rests'
      BY <2>1 DEF Rests
    <2>5. Spent'
      BY <1>1, <2>1 DEF Spent
    <2> QED BY <2>3, <2>4, <2>5
  <1> QED BY <1>2, <1>3, <1>4

(* An abort changes the event alone.                                       *)
LEMMA AbortStep ==
  ASSUME IInv, NEW t \in Request, Abort(t)
  PROVE  (Owned /\ Rests /\ Spent)'
  <1>1. /\ lock = t /\ abort' = TRUE /\ None \notin Request
        /\ UNCHANGED <<pc, lock, iter, empties, blocks, calls, after, late>>
    BY Sizes DEF Abort, codeVars, countVars
  <1>2. Owned'
    BY <1>1 DEF IInv, Owned
  <1>3. Rests'
    BY <1>1 DEF Rests
  <1>4. ASSUME NEW u \in Request, lock' = u
        PROVE  (CallsAt(pc[u]) /\ AfterAt(pc[u]))'
    <2>1. CallsAt(pc[u]) /\ AfterAt(pc[u])
      BY <1>1, <1>4 DEF IInv, Spent
    <2> QED BY <1>1, <2>1 DEF CallsAt, AfterAt
  <1> QED BY <1>2, <1>3, <1>4 DEF Spent

(* Whatever a request does, the account is kept.                           *)
LEMMA AccountStep ==
  ASSUME IInv, NEW t \in Request, Step(t) \/ Abort(t)
  PROVE  (Owned /\ Rests /\ Spent)'
  <1>1. CASE \/ Come(t) \/ (Install(t) /\ pc[t] = "built") \/ Admit(t)
             \/ Inject(t) \/ Override(t) \/ Swap(t) \/ Unhand(t)
             \/ StopHandler(t) \/ RestoreModel(t) \/ RestoreHandler(t)
             \/ Answer(t)
    <2>1. /\ pc[t] \notin Holding
          /\ UNCHANGED <<lock, loopVars, countVars>>
      BY <1>1 DEF Come, Install, Admit, Inject, Override, Swap, Unhand,
                  StopHandler, RestoreModel, RestoreHandler, Answer,
                  Holding, InLoop
    <2>2. PICK p \in {"built", "admit", "inject", "done", "override", "queue",
                      "swap", "swapped", "restore", "restored", "answer"} :
                  Goto(t, p)
      BY <1>1 DEF Come, Install, Admit, Inject, Override, Swap, Unhand,
                  StopHandler, RestoreModel, RestoreHandler, Answer, Warm
    <2> QED BY <2>1, <2>2, StaysOut DEF Holding, InLoop
  <1>2. CASE \/ (Install(t) /\ pc[t] = "spawned") \/ Spawn(t) \/ Top(t)
             \/ Compact(t) \/ Empty(t) \/ Text(t) \/ Writes(t)
             \/ Score(t) \/ Final(t)
    <2>1. pc[t] \in Holding
      BY <1>2 DEF Spawn, Top, Compact, Empty, Text, Writes, Score,
                  Final, Holding, InLoop
    <2> QED BY <1>2, <2>1, LoopStep
  <1>3. CASE Queue(t) \/ Over(t)
    BY <1>3, LockStep
  <1>4. CASE Abort(t)
    BY <1>4, AbortStep
  <1>5. Install(t) => pc[t] \in {"built", "spawned"}
    BY DEF Install
  <1>6. CASE Ask(t) \/ Reply(t) \/ More(t)
    BY <1>6, CodeStep
  <1> QED BY <1>1, <1>2, <1>3, <1>4, <1>5, <1>6 DEF Step

-----------------------------------------------------------------------------
(* An override saves the session's own model, since the one that it        *)
(* replaces it by is the only other one.                                   *)
LEMMA OverrideStep ==
  ASSUME IInv, NEW t \in Request, Step(t) \/ Abort(t)
  PROVE  Overrides'
  <1>1. /\ saved \in [Request -> [model : Models, handler : Nat]]
        /\ model \in Models /\ swapped \subseteq Request
        /\ \A u \in Request : saved[u].model = "base"
        /\ swapped = {} => model = "base"
    BY DEF IInv, TypeOK, Overrides, ModelRestored
  <1>2. CASE Override(t)
    <2>1. CASE model = "fast"
      BY <1>1, <1>2, <2>1 DEF Override, Overrides, ModelRestored
    <2>2. CASE model = "base"
      <3>1. /\ saved' = [saved EXCEPT ![t] = Current]
            /\ model' = model /\ swapped' = swapped
        BY <1>2, <2>2 DEF Override
      <3>2. Current.model = "base"
        BY <2>2 DEF Current
      <3> QED BY <1>1, <3>1, <3>2 DEF Overrides, ModelRestored
    <2> QED BY <1>1, <2>1, <2>2 DEF Models
  <1>3. CASE Swap(t)
    BY <1>1, <1>3 DEF Swap, Overrides, ModelRestored
  <1>4. CASE RestoreModel(t)
    BY <1>1, <1>4 DEF RestoreModel, Overrides, ModelRestored
  <1>5. CASE RestoreHandler(t)
    BY <1>1, <1>5 DEF RestoreHandler, Nothing, Overrides, ModelRestored
  <1>6. CASE UNCHANGED <<model, saved, swapped>>
    BY <1>1, <1>6 DEF Overrides, ModelRestored
  <1>7. \/ Override(t) \/ Swap(t) \/ RestoreModel(t) \/ RestoreHandler(t)
        \/ UNCHANGED <<model, saved, swapped>>
    BY DEF Step, Come, Install, Admit, Inject, Unhand, StopHandler, Answer,
           Queue, Spawn, Abort, Top, Compact, Empty, Text, Writes, Ask, Reply, More,
           Score, Final, Over, runtimeVars
  <1> QED BY <1>2, <1>3, <1>4, <1>5, <1>6, <1>7

-----------------------------------------------------------------------------
(* Types are kept: the iterations and the retries stay within their        *)
(* limits, because the head of the loop asks for the first and Empty for   *)
(* the second.                                                             *)
LEMMA TypeStep ==
  ASSUME IInv, NEW t \in Request, Step(t) \/ Abort(t), fast' = fast
  PROVE  TypeOK'
  <1>1. TypeOK /\ Limit \in Nat \ {0} /\ Retries \in Nat
    BY Sizes DEF IInv
  <1>2. pc' \in [Request -> Places]
    <2>1. \/ UNCHANGED pc
          \/ \E p \in Places : Goto(t, p)
      BY DEF Step, Come, Install, Admit, Inject, Override, Swap, Unhand,
             StopHandler, RestoreModel, RestoreHandler, Answer, Queue, Spawn,
             Abort, Top, Compact, Empty, Text, Writes, Ask, Reply, More, Score, Final,
             Over, Warm, AfterTurn, Places, InLoop
    <2> QED BY <1>1, <2>1 DEF TypeOK, Places, Goto
  <1>3. made' \in Seq(Handler) /\ built' \in [Request -> Nat]
    <2>1. /\ made \in Seq(Handler) /\ built \in [Request -> Nat]
          /\ model \in Models /\ handler \in Nat
      BY <1>1 DEF TypeOK, Handler
    <2>2. CASE Come(t)
      BY <1>1, <2>2, WarmTyped DEF Come
    <2>3. CASE Spawn(t)
      BY <1>1, <2>3, WarmTyped DEF Spawn
    <2>4. CASE StopHandler(t)
      BY <2>1, <2>4, HandlersTyped DEF StopHandler
    <2>5. CASE Inject(t) \/ Over(t)
      BY <2>1, <2>5 DEF Inject, Over
    <2>6. CASE UNCHANGED <<made, built>>
      BY <2>1, <2>6
    <2>7. \/ Come(t) \/ Spawn(t) \/ StopHandler(t) \/ Inject(t) \/ Over(t)
          \/ UNCHANGED <<made, built>>
      BY DEF Step, Install, Admit, Override, Swap, Unhand, RestoreModel,
             RestoreHandler, Answer, Queue, Abort, Top, Compact, Empty, Text,
             Writes, Ask, Reply, More, Score, Final, runtimeVars
    <2> QED BY <2>2, <2>3, <2>4, <2>5, <2>6, <2>7
  <1>4. /\ model' \in Models /\ handler' \in Nat
        /\ saved' \in [Request -> [model : Models, handler : Nat]]
        /\ swapped' \subseteq Request
    <2>1. /\ model \in Models /\ handler \in Nat /\ swapped \subseteq Request
          /\ saved \in [Request -> [model : Models, handler : Nat]]
          /\ built \in [Request -> Nat]
      BY <1>1 DEF TypeOK
    <2>2. CASE Install(t)
      BY <2>1, <2>2 DEF Install
    <2>3. CASE Override(t)
      <3>1. Current \in [model : Models, handler : Nat]
        BY <2>1 DEF Current
      <3> QED BY <2>1, <2>3, <3>1 DEF Override
    <2>4. CASE Swap(t) \/ Unhand(t)
      BY <2>1, <2>4 DEF Swap, Unhand, Models
    <2>5. CASE RestoreModel(t) \/ RestoreHandler(t)
      <3>1. saved[t].model \in Models /\ saved[t].handler \in Nat
        BY <2>1
      <3>2. Nothing \in [model : Models, handler : Nat]
        BY DEF Nothing, Models
      <3> QED BY <2>1, <2>5, <3>1, <3>2 DEF RestoreModel, RestoreHandler
    <2>6. CASE UNCHANGED <<model, handler, saved, swapped>>
      BY <2>1, <2>6
    <2>7. \/ Install(t) \/ Override(t) \/ Swap(t) \/ Unhand(t)
          \/ RestoreModel(t) \/ RestoreHandler(t)
          \/ UNCHANGED <<model, handler, saved, swapped>>
      BY DEF Step, Come, Admit, Inject, StopHandler, Answer, Queue, Spawn,
             Abort, Top, Compact, Empty, Text, Writes, Ask, Reply, More, Score, Final,
             Over, runtimeVars
    <2> QED BY <2>2, <2>3, <2>4, <2>5, <2>6, <2>7
  <1>5. iter' \in 0..Limit /\ empties' \in 0..Retries
    <2>1. iter \in 0..Limit /\ empties \in 0..Retries
      BY <1>1 DEF TypeOK
    <2>2. CASE UNCHANGED <<iter, empties>>
      BY <2>1, <2>2
    <2>3. CASE Empty(t) \/ Text(t) \/ Score(t)
      <3>1. pc[t] \in {"call", "code"}
        BY <2>3 DEF Empty, Text, Score
      <3>2. iter < Limit
        BY <3>1, Account DEF CallsAt, Holding, InLoop
      <3>3. \/ UNCHANGED <<iter, empties>>
            \/ empties < Retries /\ empties' = empties + 1 /\ iter' = iter
            \/ empties' = 0 /\ iter' = iter + 1
        BY <2>3 DEF Empty, Text, Score
      <3> QED BY <1>1, <2>1, <3>2, <3>3
    <2>4. CASE Over(t)
      BY <1>1, <2>4 DEF Over
    <2>5. \/ UNCHANGED <<iter, empties>>
          \/ Empty(t) \/ Text(t) \/ Score(t) \/ Over(t)
      BY DEF Step, Come, Install, Admit, Inject, Override, Swap, Unhand,
             StopHandler, RestoreModel, RestoreHandler, Answer, Queue, Spawn,
             Abort, Top, Compact, Writes, Ask, Reply, More, Final, loopVars
    <2> QED BY <2>2, <2>3, <2>4, <2>5
  <1>6. calls' \in Nat /\ after' \in Nat /\ late' \in Nat
    <2>1. calls \in Nat /\ after \in Nat /\ late \in Nat
      BY <1>1 DEF TypeOK
    <2>2. /\ calls' \in {calls, calls + 1, 0}
          /\ after' \in {after, after + 1, 0}
          /\ late' \in {late, late + 1, 0}
      BY DEF Step, Come, Install, Admit, Inject, Override, Swap, Unhand,
             StopHandler, RestoreModel, RestoreHandler, Answer, Queue, Spawn,
             Abort, Top, Compact, Empty, Text, Writes, Ask, Reply, More, Score, Final,
             Over, Called, Follows, Begins, countVars
    <2> QED BY <2>1, <2>2
  <1>7. /\ lock' \in Request \cup {None} /\ replyTo' \in Request \cup {None}
        /\ fast' \subseteq Request
    BY <1>1 DEF TypeOK, Step, Come, Install, Admit, Inject, Override, Swap,
                Unhand, StopHandler, RestoreModel, RestoreHandler, Answer,
                Queue, Spawn, Abort, Top, Compact, Empty, Text, Writes, Ask, Reply, More,
                Score, Final, Over, replyVars
  <1>8. /\ replied' \in BOOLEAN /\ critical' \in BOOLEAN /\ abort' \in BOOLEAN
        /\ spoke' \in BOOLEAN /\ strayed' \in BOOLEAN /\ met' \in BOOLEAN
    BY <1>1 DEF TypeOK, Step, Come, Install, Admit, Inject, Override, Swap,
                Unhand, StopHandler, RestoreModel, RestoreHandler, Answer,
                Queue, Spawn, Abort, Top, Compact, Empty, Text, Writes, Ask, Reply, More,
                Score, Final, Over, replyVars, loopVars, clientVars
  <1>9. heard' \in [Request -> Nat]
    <2>1. heard \in [Request -> Nat]
      BY <1>1 DEF TypeOK
    <2>2. \/ heard' = heard
          \/ heard' = [u \in Request |-> 0]
          \/ heard' = [heard EXCEPT ![t] = @ + 1]
      BY DEF Step, Come, Install, Admit, Inject, Override, Swap, Unhand,
             StopHandler, RestoreModel, RestoreHandler, Answer, Queue, Spawn,
             Abort, Top, Compact, Empty, Text, Writes, Ask, Reply, More, Score, Final,
             Over, clientVars
    <2> QED BY <2>1, <2>2
  <1>10. blocks' \in 0..Blocks /\ asks' \in 0..Asks
    <2>1. /\ blocks \in 0..Blocks /\ asks \in 0..Asks
          /\ Blocks \in Nat \ {0} /\ Asks \in Nat
      BY <1>1, Sizes DEF TypeOK
    <2>2. CASE Writes(t) \/ Ask(t) \/ More(t) \/ Score(t)
      BY <2>1, <2>2 DEF Writes, Ask, More, Score
    <2>3. CASE UNCHANGED <<blocks, asks>>
      BY <2>1, <2>3
    <2>4. \/ Writes(t) \/ Ask(t) \/ More(t) \/ Score(t)
          \/ UNCHANGED <<blocks, asks>>
      BY DEF Step, Come, Install, Admit, Inject, Override, Swap, Unhand,
             StopHandler, RestoreModel, RestoreHandler, Answer, Queue, Spawn,
             Abort, Top, Compact, Empty, Text, Reply, Final, Over, loopVars,
             codeVars
    <2> QED BY <2>2, <2>3, <2>4
  <1> QED
    BY <1>2, <1>3, <1>4, <1>5, <1>6, <1>7, <1>8, <1>9, <1>10
    DEF TypeOK, Places, Handler

(* A session that is warm starts within the invariant.                     *)
LEMMA InitInv == Init => IInv
  <1> SUFFICES ASSUME NEW class \in Classes, Starts(class)
               PROVE  IInv
    BY DEF Init
  <1>1. Limit \in Nat \ {0} /\ Retries \in Nat /\ class \subseteq Request
    BY Sizes
  <1>2. made \in Seq([model : Models, up : BOOLEAN])
    <2>1. [model |-> "base", up |-> TRUE] \in [model : Models, up : BOOLEAN]
      BY DEF Models
    <2> QED BY <2>1 DEF Starts
  <1>3. saved \in [Request -> [model : Models, handler : Nat]]
    BY DEF Starts, Nothing, Models
  <1>4. pc = [t \in Request |-> "new"] /\ lock = None /\ None \notin Request
    BY Sizes DEF Starts
  <1>a. pc \in [Request -> Places]
    BY <1>4 DEF Places
  <1>b. /\ lock \in Request \cup {None} /\ replyTo \in Request \cup {None}
        /\ fast \subseteq Request /\ swapped \subseteq Request
    BY <1>1 DEF Starts
  <1>c. /\ model \in Models /\ handler \in Nat
        /\ built \in [Request -> Nat] /\ heard \in [Request -> Nat]
        /\ calls \in Nat /\ after \in Nat /\ late \in Nat
    BY DEF Starts, Models
  <1>d. /\ iter \in 0..Limit /\ empties \in 0..Retries
        /\ blocks \in 0..Blocks /\ asks \in 0..Asks
    BY <1>1, Sizes DEF Starts
  <1>e. /\ replied \in BOOLEAN /\ critical \in BOOLEAN /\ abort \in BOOLEAN
        /\ spoke \in BOOLEAN /\ strayed \in BOOLEAN /\ met \in BOOLEAN
    BY DEF Starts
  <1>5. TypeOK
    BY <1>2, <1>3, <1>a, <1>b, <1>c, <1>d, <1>e DEF TypeOK, Places
  <1>6. Owned /\ Rests /\ Spent
    BY <1>4 DEF Starts, Owned, Rests, Spent, Holding, InLoop
  <1>7. Overrides
    BY DEF Starts, Overrides, ModelRestored, Nothing
  <1> QED BY <1>5, <1>6, <1>7 DEF IInv

(* The invariant holds in every behaviour, fair or not.                    *)
THEOREM Invariance == Spec => []IInv
  <1>1. IInv /\ [Next]_vars => IInv'
    <2> SUFFICES ASSUME IInv, [Next]_vars PROVE IInv'
      OBVIOUS
    <2>1. CASE Next
      <3>1. PICK t \in Request : Step(t) \/ Abort(t)
        BY <2>1 DEF Next
      <3>2. fast' = fast
        BY <2>1 DEF Next
      <3> QED BY <3>1, <3>2, TypeStep, AccountStep, OverrideStep DEF IInv
    <2>2. CASE UNCHANGED vars
      BY <2>2 DEF vars, runtimeVars, replyVars, loopVars, codeVars, countVars,
                  clientVars, IInv, TypeOK, Owned, Rests, Spent, CallsAt,
                  AfterAt, Overrides, ModelRestored
    <2> QED BY <2>1, <2>2
  <1> QED BY InitInv, <1>1, PTL DEF Spec

(* The variables keep their types: no count passes its limit.              *)
THEOREM TypeCorrect == Spec => []TypeOK
  <1>1. IInv => TypeOK
    BY DEF IInv
  <1> QED BY Invariance, <1>1, PTL

(* However the answers come - empty, text, code - and whatever stops it, a *)
(* turn calls the model max_iterations times the retries of each and once  *)
(* more at most (_run_inner_loop, _default_answer).                        *)
THEOREM CallsAreBounded == Spec => []CallsBounded
  <1>1. IInv => CallsBounded
    <2> SUFFICES ASSUME IInv PROVE CallsBounded
      OBVIOUS
    <2>1. CASE lock = None
      <3>1. Limit * Each \in Nat
        BY Sizes, OneMore
      <3> QED BY <2>1, <3>1 DEF IInv, Rests, CallsBounded, Bounded, Each
    <2>2. CASE lock # None
      <3>1. lock \in Request /\ pc[lock] \in Holding
        BY <2>2 DEF IInv, TypeOK, Owned
      <3> QED BY <3>1, Account DEF CallsBounded
    <2> QED BY <2>1, <2>2
  <1> QED BY Invariance, <1>1, PTL

(* The loop of a turn that is told to stop asks three times more at most:  *)
(* the abort is looked at only at its head, and what it asks until then    *)
(* may be a summary and an answer, and then the last answer; and it begins *)
(* no block of code but those of one answer (_run_inner_loop).  What the   *)
(* code itself asks is not counted.                                        *)
THEOREM StopIsHonoured == Spec => []StopHonoured
  <1>1. IInv => StopHonoured
    <2> SUFFICES ASSUME IInv PROVE StopHonoured
      OBVIOUS
    <2>1. CASE lock = None
      BY <2>1, Sizes DEF IInv, Rests, StopHonoured
    <2>2. CASE lock # None
      <3>1. lock \in Request /\ pc[lock] \in Holding
        BY <2>2 DEF IInv, TypeOK, Owned
      <3>2. /\ AfterAt(pc[lock]) /\ after \in Nat /\ late \in Nat
            /\ blocks \in 0..Blocks /\ Blocks \in Nat \ {0}
        BY <3>1, Account
      <3> QED BY <3>1, <3>2 DEF AfterAt, StopHonoured, Holding, InLoop
    <2> QED BY <2>1, <2>2
  <1> QED BY Invariance, <1>1, PTL

(* However many requests override the model of the session, and in         *)
(* whatever order, it has its own again when none is left                  *)
(* (_temporary_root_model_override).                                       *)
THEOREM ModelComesBack == Spec => []ModelRestored
  <1>1. IInv => ModelRestored
    BY DEF IInv, Overrides
  <1> QED BY Invariance, <1>1, PTL

-----------------------------------------------------------------------------
(* As long as no requests overlap: a handler that listens, of a model; the *)
(* session as the bootstrap left it; and inside an override.               *)
Serves(h, m) == h \in DOMAIN made /\ made[h] = [model |-> m, up |-> TRUE]
Own == model = "base" /\ swapped = {} /\ Serves(handler, "base")
Lent(t) == model = "fast" /\ swapped = {t} /\ Serves(saved[t].handler, "base")

(* What a lone request finds of the runtime at each place.                 *)
RuntimeAt(t, p) ==
    /\ p # "built"
    /\ p \in {"override", "swap", "swapped", "spawned", "stop", "restore",
              "restored"} => t \in fast
    /\ t \notin fast \/ p \in {"admit", "inject", "override", "swap", "answer"}
           => Own
    /\ p = "swap" => saved[t].handler = handler
    /\ t \in fast /\ p \in {"swapped", "queue", "stop", "restore"} \cup Holding
           => Lent(t)
    /\ t \in fast /\ p \in {"queue", "spawn", "spawned"} => handler = 0
    /\ p = "spawned" => Serves(built[t], "fast")
    /\ p \in InLoop =>
           handler = built[t] /\ (t \in fast => Serves(handler, "fast"))
    /\ p = "stop" => handler = 0 \/ Serves(handler, "fast")
    /\ p = "restored" =>
           model = "base" /\ swapped = {} /\ Serves(saved[t].handler, "base")

(* And of the replies: whose they are, and whether there has been one.     *)
RepliesAt(t, p) ==
    /\ heard[t] = IF replied /\ p # "admit" THEN 1 ELSE 0
    /\ p \notin {"admit", "inject"} => replyTo = t
    /\ p \in {"inject", "override", "swap", "swapped", "queue", "spawn",
              "spawned"} => ~replied
    /\ p \in InLoop => (replied <=> spoke)

Alone ==
    ~met =>
        /\ ~strayed
        /\ \A t, u \in Inside : t = u
        /\ Inside = {} => Own
        /\ \A t \in Inside : RuntimeAt(t, pc[t]) /\ RepliesAt(t, pc[t])
        /\ \A t \in Request : pc[t] = "new" => heard[t] = 0
        /\ spoke => lock # None /\ pc[lock] \in InLoop

(* A step of a lone request, which has to keep what is said of the place   *)
(* it goes to.                                                             *)
LEMMA GoesAlone ==
  ASSUME IInv, Alone, ~met, ~met', NEW t \in Request,
         NEW p \in Places \ {"new"}, t \in Inside, Goto(t, p), ~strayed',
         \A u \in Request \ {t} : heard'[u] = heard[u],
         p = "done" => Own',
         p # "done" => RuntimeAt(t, p)' /\ RepliesAt(t, p)',
         spoke' => lock' = t /\ p \in InLoop
  PROVE  Alone'
  <1>1. /\ pc' = [pc EXCEPT ![t] = p] /\ pc \in [Request -> Places]
    BY DEF Goto, IInv, TypeOK, Places
  <1>2. \A u \in Request : pc'[u] = IF u = t THEN p ELSE pc[u]
    BY <1>1
  <1>3. Inside' = IF p = "done" THEN {} ELSE {t}
    <2>1. \A u \in Inside : u = t
      BY DEF Alone
    <2>2. \A u \in Request \ {t} : pc[u] \in {"new", "done"}
      BY <2>1 DEF Inside
    <2> QED BY <1>2, <2>2 DEF Inside
  <1>4. (Inside = {} => Own)'
    BY <1>3
  <1>5. (\A u \in Inside : RuntimeAt(u, pc[u]) /\ RepliesAt(u, pc[u]))'
    <2> SUFFICES ASSUME NEW u \in Inside'
                 PROVE  (RuntimeAt(u, pc[u]) /\ RepliesAt(u, pc[u]))'
      OBVIOUS
    <2>1. u = t /\ p # "done" /\ pc'[t] = p
      BY <1>2, <1>3
    <2>2. RuntimeAt(t, p)' /\ RepliesAt(t, p)'
      BY <2>1
    <2> QED BY <2>1, <2>2 DEF RuntimeAt, RepliesAt
  <1>6. \A u \in Request : pc'[u] = "new" => heard'[u] = 0
    BY <1>2 DEF Alone
  <1>7. spoke' => lock' # None /\ pc'[lock'] \in InLoop
    BY <1>2, Sizes
  <1> QED BY <1>3, <1>4, <1>5, <1>6, <1>7 DEF Alone

(* A place of a lone request is of this kind.                              *)
LEMMA OnlyOne ==
  ASSUME Alone, ~met, NEW t \in Inside
  PROVE  /\ RuntimeAt(t, pc[t]) /\ RepliesAt(t, pc[t]) /\ ~strayed
         /\ pc[t] \notin InLoop => (spoke => lock # t)
  <1>1. RuntimeAt(t, pc[t]) /\ RepliesAt(t, pc[t]) /\ ~strayed
    BY DEF Alone
  <1>2. spoke /\ lock = t => pc[t] \in InLoop
    BY DEF Alone
  <1> QED BY <1>1, <1>2

(* Only in its loop has a lone request spoken.                             *)
LEMMA SilentOutside ==
  ASSUME IInv, Alone, ~met, NEW t \in Inside, pc[t] \notin InLoop
  PROVE  ~spoke
  <1> SUFFICES ASSUME spoke PROVE FALSE
    OBVIOUS
  <1>1. lock \in Request /\ pc[lock] \in InLoop
    BY DEF Alone, IInv, TypeOK
  <1>2. lock \in Inside
    BY <1>1 DEF Inside, InLoop
  <1>3. lock = t
    BY <1>2 DEF Alone
  <1> QED BY <1>1, <1>3

(* The runtime is as the next place wants it where the step leaves it.     *)
LEMMA RuntimeStays ==
  ASSUME NEW t \in Request, NEW p, NEW q, RuntimeAt(t, p), fast' = fast,
         UNCHANGED runtimeVars,
         \/ p = "admit" /\ q = "inject"
         \/ p = "queue" /\ q = "spawn"
         \/ p = "queue" /\ q = AfterTurn(t)
         \/ p \in InLoop /\ q \in InLoop
  PROVE  RuntimeAt(t, q)'
  <1>1. /\ model' = model /\ handler' = handler /\ made' = made
        /\ built' = built /\ saved' = saved /\ swapped' = swapped
    BY DEF runtimeVars
  <1>2. \A h, m : Serves(h, m)' <=> Serves(h, m)
    BY <1>1 DEF Serves
  <1>3. (Own' <=> Own) /\ (Lent(t)' <=> Lent(t))
    BY <1>1, <1>2 DEF Own, Lent
  <1>4. CASE p = "admit" /\ q = "inject"
    BY <1>1, <1>3, <1>4 DEF RuntimeAt, InLoop, Holding
  <1>5. CASE p = "queue" /\ q = "spawn"
    BY <1>1, <1>3, <1>5 DEF RuntimeAt, InLoop, Holding
  <1>6. CASE p = "queue" /\ q = AfterTurn(t)
    <2>1. CASE t \in fast
      <3>1. Lent(t) /\ handler = 0 /\ q = "stop"
        BY <1>6, <2>1 DEF RuntimeAt, Lent, AfterTurn
      <3> QED BY <1>1, <1>3, <2>1, <3>1 DEF RuntimeAt, InLoop, Holding
    <2>2. CASE t \notin fast
      <3>1. Own /\ q = "answer"
        BY <1>6, <2>2 DEF RuntimeAt, Own, AfterTurn
      <3> QED BY <1>1, <1>3, <2>2, <3>1 DEF RuntimeAt, InLoop, Holding
    <2> QED BY <2>1, <2>2
  <1>7. CASE p \in InLoop /\ q \in InLoop
    <2>1. /\ t \notin fast => Own
          /\ t \in fast => Lent(t) /\ Serves(handler, "fast")
          /\ handler = built[t]
      BY <1>7 DEF RuntimeAt, Holding
    <2>2. q \notin {"built", "admit", "inject", "override", "swap", "swapped",
                    "queue", "spawn", "spawned", "stop", "restore",
                    "restored", "answer"}
      BY <1>7 DEF InLoop
    <2>3. Serves(handler, "fast")' <=> Serves(handler, "fast")
      BY <1>1, <1>2
    <2> QED BY <1>1, <1>3, <2>1, <2>2, <2>3 DEF RuntimeAt
  <1> QED BY <1>4, <1>5, <1>6, <1>7

(* A handler that is built serves, and those before it still do.           *)
LEMMA Built ==
  ASSUME TypeOK, NEW m \in Models, NEW k, k = Len(made) + 1,
         made' = Append(made, [model |-> m, up |-> TRUE])
  PROVE  /\ Serves(k, m)'
         /\ \A h, n : Serves(h, n) => Serves(h, n)'
  <1>1. made \in Seq(Handler) /\ [model |-> m, up |-> TRUE] \in Handler
    BY DEF TypeOK, Handler
  <1>2. /\ Len(made) \in Nat /\ DOMAIN made = 1..Len(made)
        /\ DOMAIN made' = 1..(Len(made) + 1)
        /\ made'[Len(made) + 1] = [model |-> m, up |-> TRUE]
        /\ \A h \in 1..Len(made) : made'[h] = made[h]
    BY <1>1
  <1> QED BY <1>2 DEF Serves

(* Handlers of other models serve on when one is stopped.                  *)
LEMMA Stopped ==
  ASSUME TypeOK, NEW g, made' = [made EXCEPT ![g].up = FALSE]
  PROVE  \A h, n : h # g /\ Serves(h, n) => Serves(h, n)'
  <1>1. DOMAIN made' = DOMAIN made
    OBVIOUS
  <1>2. \A h \in DOMAIN made : h # g => made'[h] = made[h]
    BY Zenon
  <1> QED BY <1>1, <1>2 DEF Serves

(* A request that comes to a session in which nobody is finds it clean.    *)
LEMMA ComesAlone ==
  ASSUME IInv, Alone, NEW t \in Request, Come(t), ~met', fast' = fast
  PROVE  Alone'
  <1>1. ~met /\ Inside = {} /\ pc[t] = "new" /\ heard' = heard
    BY DEF Come
  <1>2. Own /\ ~strayed /\ heard[t] = 0 /\ (spoke => lock # None)
    BY <1>1 DEF Alone
  <1>3. handler # 0
    <2>1. made \in Seq(Handler)
      BY DEF IInv, TypeOK, Handler
    <2> QED BY <1>2, <2>1 DEF Own, Serves
  <1>4. /\ Goto(t, "admit") /\ made' = made /\ ~strayed'
        /\ UNCHANGED <<model, handler, saved, swapped, replyVars, lock, spoke>>
    BY <1>1, <1>2, <1>3 DEF Come, Warm
  <1>5. pc' = [pc EXCEPT ![t] = "admit"] /\ pc \in [Request -> Places]
    BY <1>4 DEF Goto, IInv, TypeOK, Places
  <1>6. Inside' = {t} /\ pc'[t] = "admit"
    BY <1>1, <1>5 DEF Inside
  <1>7. Own'
    BY <1>2, <1>4 DEF Own, Serves
  <1>8. RuntimeAt(t, "admit")' /\ RepliesAt(t, "admit")'
    BY <1>1, <1>2, <1>4, <1>7 DEF RuntimeAt, RepliesAt, Holding, InLoop
  <1>9. ~spoke'
    <2> SUFFICES ASSUME spoke PROVE FALSE
      BY <1>4
    <2>1. lock \in Request /\ pc[lock] \in InLoop
      BY <1>1, <1>2 DEF Alone, IInv, TypeOK
    <2> QED BY <1>1, <2>1 DEF Inside, InLoop
  <1>10. (\A u \in Inside : RuntimeAt(u, pc[u]) /\ RepliesAt(u, pc[u]))'
    <2> SUFFICES ASSUME NEW u \in Inside'
                 PROVE  (RuntimeAt(u, pc[u]) /\ RepliesAt(u, pc[u]))'
      OBVIOUS
    <2>1. u = t
      BY <1>6
    <2> QED BY <1>6, <1>8, <2>1 DEF RuntimeAt, RepliesAt
  <1>11. \A u \in Request : pc'[u] = "new" => heard'[u] = 0
    BY <1>1, <1>5 DEF Alone
  <1> QED BY <1>2, <1>4, <1>6, <1>9, <1>10, <1>11 DEF Alone

(* The dispatch of a lone request, before the execution.                   *)
LEMMA DispatchAlone ==
  ASSUME IInv, Alone, NEW t \in Request, ~met, ~met', fast' = fast,
         \/ Admit(t) \/ Inject(t) \/ Override(t) \/ Swap(t) \/ Unhand(t)
         \/ Queue(t) \/ Spawn(t) \/ Install(t)
  PROVE  Alone'
  <1>1. t \in Inside /\ pc[t] \notin InLoop
    BY DEF Admit, Inject, Override, Swap, Unhand, Queue, Spawn, Install,
           Inside, InLoop
  <1>2. RuntimeAt(t, pc[t]) /\ RepliesAt(t, pc[t]) /\ ~strayed /\ ~spoke
    BY <1>1, OnlyOne, SilentOutside
  <1>3. /\ saved \in [Request -> [model : Models, handler : Nat]]
        /\ built \in [Request -> Nat] /\ made \in Seq(Handler) /\ TypeOK
        /\ saved[t].model = "base"
    BY DEF IInv, TypeOK, Handler, Overrides
  <1>4. UNCHANGED clientVars
    BY DEF Admit, Inject, Override, Swap, Unhand, Queue, Spawn, Install,
           clientVars
  <1>5. ~strayed' /\ ~spoke' /\ heard' = heard
    BY <1>2, <1>4 DEF clientVars
  <1>6. SUFFICES \E p \in Places \ {"new"} :
                    /\ Goto(t, p) /\ (p = "done" => Own')
                    /\ p # "done" => RuntimeAt(t, p)' /\ RepliesAt(t, p)'
    BY <1>1, <1>5, GoesAlone
  <1>7. CASE Admit(t)
    <2>1. pc[t] = "admit" /\ UNCHANGED runtimeVars /\ ~replied'
      BY <1>7 DEF Admit
    <2>2. PICK p \in {"inject", "done"} : Goto(t, p)
      BY <1>7 DEF Admit
    <2>3. Own'
      BY <1>2, <2>1 DEF RuntimeAt, Own, Serves, runtimeVars
    <2>4. RuntimeAt(t, "inject")'
      BY <1>2, <2>1, RuntimeStays
    <2>5. RepliesAt(t, "inject")'
      BY <1>2, <1>5, <2>1 DEF RepliesAt, InLoop
    <2> QED BY <2>2, <2>3, <2>4, <2>5 DEF Places
  <1>8. CASE Inject(t)
    <2>1. /\ pc[t] = "inject" /\ replyTo' = t /\ replied' = replied
          /\ UNCHANGED <<model, handler, made, saved, swapped>>
      BY <1>8 DEF Inject
    <2>2. PICK p \in {"override", "queue"} :
                  Goto(t, p) /\ (p = "override" <=> t \in fast)
      BY <1>8 DEF Inject
    <2>3. Own'
      BY <1>2, <2>1 DEF RuntimeAt, Own, Serves
    <2>4. RuntimeAt(t, p)'
      BY <2>2, <2>3 DEF RuntimeAt, Holding, InLoop
    <2>5. RepliesAt(t, p)'
      BY <1>2, <1>5, <2>1, <2>2 DEF RepliesAt, InLoop
    <2> QED BY <2>2, <2>4, <2>5 DEF Places
  <1>9. CASE Override(t)
    <2>1. pc[t] = "override" /\ Own /\ t \in fast
      BY <1>2, <1>9 DEF Override, RuntimeAt
    <2>2. /\ Goto(t, "swap") /\ saved' = [saved EXCEPT ![t] = Current]
          /\ UNCHANGED <<model, handler, made, swapped, replyVars>>
      BY <1>9, <2>1 DEF Override, Own
    <2>3. Own' /\ saved'[t].handler = handler'
      BY <1>3, <2>1, <2>2 DEF Own, Serves, Current
    <2>4. RuntimeAt(t, "swap")'
      BY <2>1, <2>3 DEF RuntimeAt, Holding, InLoop
    <2>5. RepliesAt(t, "swap")'
      BY <1>2, <1>5, <2>1, <2>2 DEF RepliesAt, InLoop, replyVars
    <2> QED BY <2>2, <2>4, <2>5 DEF Places
  <1>10. CASE Swap(t)
    <2>1. pc[t] = "swap" /\ Own /\ t \in fast /\ saved[t].handler = handler
      BY <1>2, <1>10 DEF Swap, RuntimeAt
    <2>2. /\ Goto(t, "swapped") /\ model' = "fast" /\ swapped' = {t}
          /\ UNCHANGED <<handler, made, saved, replyVars>>
      BY <1>10, <2>1 DEF Swap, Own
    <2>3. Lent(t)'
      BY <2>1, <2>2 DEF Own, Lent, Serves
    <2>4. RuntimeAt(t, "swapped")'
      BY <2>1, <2>3 DEF RuntimeAt, Holding, InLoop
    <2>5. RepliesAt(t, "swapped")'
      BY <1>2, <1>5, <2>1, <2>2 DEF RepliesAt, InLoop, replyVars
    <2> QED BY <2>2, <2>4, <2>5 DEF Places
  <1>11. CASE Unhand(t)
    <2>1. pc[t] = "swapped" /\ Lent(t) /\ t \in fast
      BY <1>2, <1>11 DEF Unhand, RuntimeAt
    <2>2. /\ Goto(t, "queue") /\ handler' = 0
          /\ UNCHANGED <<model, swapped, made, saved, replyVars>>
      BY <1>11 DEF Unhand
    <2>3. Lent(t)'
      BY <2>1, <2>2 DEF Lent, Serves
    <2>4. RuntimeAt(t, "queue")'
      BY <2>1, <2>2, <2>3 DEF RuntimeAt, Holding, InLoop
    <2>5. RepliesAt(t, "queue")'
      BY <1>2, <1>5, <2>1, <2>2 DEF RepliesAt, InLoop, replyVars
    <2> QED BY <2>2, <2>4, <2>5 DEF Places
  <1>12. CASE Queue(t)
    <2>1. pc[t] = "queue" /\ UNCHANGED runtimeVars /\ UNCHANGED replyVars
      BY <1>12 DEF Queue
    <2>2. PICK p \in {"spawn", AfterTurn(t)} : Goto(t, p)
      BY <1>12 DEF Queue
    <2>3. p \in {"spawn", "stop", "answer"}
      BY DEF AfterTurn
    <2>4. RuntimeAt(t, p)'
      BY <1>2, <2>1, <2>2, RuntimeStays
    <2>5. RepliesAt(t, p)'
      BY <1>2, <1>5, <2>1, <2>3 DEF RepliesAt, InLoop, replyVars
    <2> QED BY <2>2, <2>3, <2>4, <2>5 DEF Places
  <1>13. CASE Spawn(t)
    <2>1. /\ pc[t] = "spawn" /\ Warm(t, "spawned", "top")
          /\ UNCHANGED <<model, handler, saved, swapped, replyVars>>
      BY <1>13 DEF Spawn
    <2>2. \A p \in {"spawned", "top"} : RepliesAt(t, p)'
      BY <1>2, <1>5, <2>1 DEF RepliesAt, InLoop, replyVars
    <2>3. CASE t \in fast
      <3>1. Lent(t) /\ handler = 0
        BY <1>2, <2>1, <2>3 DEF RuntimeAt, Holding
      <3> DEFINE k == Len(made) + 1
      <3>2. /\ Goto(t, "spawned") /\ built'[t] = k
            /\ made' = Append(made, [model |-> "fast", up |-> TRUE])
        BY <1>3, <2>1, <3>1 DEF Warm, Lent
      <3>3. Serves(built[t], "fast")' /\ Lent(t)'
        <4> HIDE DEF k
        <4>1. \A h, n : Serves(h, n) => Serves(h, n)'
          BY <1>3, <3>2, Built DEF Models, k
        <4>2. made'[k] = [model |-> "fast", up |-> TRUE] /\ k \in DOMAIN made'
          BY <1>3, <3>2 DEF k, Handler, Models
        <4>3. Serves(built[t], "fast")'
          BY <3>2, <4>2 DEF Serves
        <4>4. /\ Serves(saved[t].handler, "base")
              /\ saved'[t].handler = saved[t].handler
              /\ model' = "fast" /\ swapped' = {t}
          BY <2>1, <3>1 DEF Lent
        <4> QED BY <4>1, <4>3, <4>4 DEF Lent, Serves
      <3>4. RuntimeAt(t, "spawned")'
        BY <1>2, <2>1, <2>3, <3>1, <3>3 DEF RuntimeAt, Holding, InLoop
      <3> QED BY <2>2, <3>2, <3>4 DEF Places
    <2>4. CASE t \notin fast
      <3>1. Own
        BY <1>2, <2>4 DEF RuntimeAt
      <3>2. handler # 0
        BY <1>3, <3>1 DEF Own, Serves
      <3>3. Goto(t, "top") /\ built'[t] = handler /\ made' = made
        BY <1>3, <2>1, <3>2 DEF Warm
      <3>4. Own' /\ handler' = built'[t]
        BY <2>1, <3>1, <3>3 DEF Own, Serves
      <3>5. RuntimeAt(t, "top")'
        BY <2>4, <3>4 DEF RuntimeAt, InLoop
      <3> QED BY <2>2, <3>3, <3>5 DEF Places, InLoop
    <2> QED BY <2>3, <2>4
  <1>14. CASE Install(t)
    <2>1. /\ pc[t] = "spawned" /\ handler' = built[t] /\ Goto(t, "top")
          /\ UNCHANGED <<model, made, built, saved, swapped, replyVars>>
      BY <1>2, <1>14 DEF Install, RuntimeAt
    <2>2. t \in fast /\ Serves(built[t], "fast") /\ Lent(t)
      BY <1>2, <2>1 DEF RuntimeAt, Holding
    <2>3. Lent(t)' /\ Serves(handler, "fast")' /\ handler' = built'[t]
      BY <2>1, <2>2 DEF Lent, Serves
    <2>4. RuntimeAt(t, "top")'
      BY <2>2, <2>3 DEF RuntimeAt, InLoop
    <2>5. RepliesAt(t, "top")'
      BY <1>2, <1>5, <2>1 DEF RepliesAt, InLoop, replyVars
    <2> QED BY <2>1, <2>4, <2>5 DEF Places, InLoop
  <1> QED BY <1>7, <1>8, <1>9, <1>10, <1>11, <1>12, <1>13, <1>14

(* Its loop: the code it runs may reply, once, to the client that waits.   *)
LEMMA LoopAlone ==
  ASSUME IInv, Alone, NEW t \in Request, ~met, ~met', fast' = fast,
         \/ Top(t) \/ Compact(t) \/ Empty(t) \/ Text(t) \/ Writes(t)
         \/ Ask(t) \/ Reply(t) \/ More(t) \/ Score(t) \/ Final(t)
  PROVE  Alone'
  <1>1. /\ pc[t] \in InLoop /\ lock' = lock
        /\ UNCHANGED runtimeVars /\ UNCHANGED replyTo
    BY DEF Top, Compact, Empty, Text, Writes, Ask, Reply, More, Score, Final, InLoop,
           replyVars
  <1>2. t \in Inside
    BY <1>1 DEF Inside, InLoop
  <1>3. RuntimeAt(t, pc[t]) /\ RepliesAt(t, pc[t]) /\ ~strayed
    BY <1>2, OnlyOne
  <1>4. lock = t
    BY <1>1 DEF IInv, Owned, Holding
  <1>5. PICK p \in InLoop : Goto(t, p)
    <2>1. CASE Ask(t) \/ Reply(t) \/ More(t)
      <3>1. pc' = pc /\ pc \in [Request -> Places]
        BY <2>1 DEF Ask, Reply, More, IInv, TypeOK, Places
      <3> QED BY <1>1, <3>1 DEF Goto
    <2>2. CASE ~(Ask(t) \/ Reply(t) \/ More(t))
      BY <2>2 DEF Top, Compact, Empty, Text, Writes, Score, Final, InLoop
    <2> QED BY <2>1, <2>2
  <1>6. RuntimeAt(t, p)'
    BY <1>1, <1>3, RuntimeStays
  <1>7. /\ replyTo = t /\ (replied <=> spoke)
        /\ heard[t] = IF replied THEN 1 ELSE 0
    BY <1>1, <1>3 DEF RepliesAt, InLoop
  <1>8. /\ ~strayed' /\ (replied' <=> spoke') /\ replyTo' = t
        /\ heard'[t] = IF replied' THEN 1 ELSE 0
        /\ \A u \in Request \ {t} : heard'[u] = heard[u]
    <2>1. CASE Reply(t)
      <3>1. heard \in [Request -> Nat]
        BY DEF IInv, TypeOK
      <3>2. /\ ~spoke /\ spoke' /\ replied'
            /\ heard' = [heard EXCEPT ![t] = @ + 1] /\ ~strayed'
        BY <1>3, <1>7, <2>1 DEF Reply
      <3> QED BY <1>1, <1>7, <3>1, <3>2
    <2>2. CASE UNCHANGED <<replied, spoke, heard, strayed>>
      BY <1>1, <1>3, <1>7, <2>2
    <2>3. Reply(t) \/ UNCHANGED <<replied, spoke, heard, strayed>>
      BY DEF Top, Compact, Empty, Text, Writes, Ask, More, Score, Final, replyVars,
             clientVars
    <2> QED BY <2>1, <2>2, <2>3
  <1>9. RepliesAt(t, p)'
    BY <1>5, <1>8 DEF RepliesAt, InLoop
  <1>10. p \in Places \ {"new"} /\ p # "done"
    BY <1>5 DEF Places, InLoop
  <1> QED BY <1>1, <1>2, <1>4, <1>5, <1>6, <1>8, <1>9, <1>10, GoesAlone

(* What it has changed is put back before its client is answered.          *)
LEMMA LeavesAlone ==
  ASSUME IInv, Alone, NEW t \in Request, ~met, ~met', fast' = fast,
         \/ Over(t) \/ StopHandler(t) \/ RestoreModel(t) \/ RestoreHandler(t)
         \/ Answer(t)
  PROVE  Alone'
  <1>1. t \in Inside
    BY DEF Over, StopHandler, RestoreModel, RestoreHandler, Answer, Inside
  <1>2. RuntimeAt(t, pc[t]) /\ RepliesAt(t, pc[t]) /\ ~strayed
    BY <1>1, OnlyOne
  <1>3. /\ saved \in [Request -> [model : Models, handler : Nat]]
        /\ heard \in [Request -> Nat] /\ TypeOK
        /\ saved[t].model = "base"
    BY DEF IInv, TypeOK, Overrides
  <1>4. ~strayed' /\ ~spoke'
    <2>1. CASE Over(t)
      BY <1>2, <2>1 DEF Over
    <2>2. CASE ~Over(t)
      <3>1. pc[t] \notin InLoop /\ UNCHANGED <<spoke, strayed>>
        BY <2>2 DEF StopHandler, RestoreModel, RestoreHandler, Answer, InLoop,
                    clientVars
      <3> QED BY <1>1, <1>2, <3>1, SilentOutside
    <2> QED BY <2>1, <2>2
  <1>5. SUFFICES \E p \in Places \ {"new"} :
                    /\ Goto(t, p) /\ (p = "done" => Own')
                    /\ p # "done" => RuntimeAt(t, p)' /\ RepliesAt(t, p)'
                    /\ \A u \in Request \ {t} : heard'[u] = heard[u]
    BY <1>1, <1>4, GoesAlone
  <1>6. CASE Over(t)
    <2>1. /\ pc[t] = "over" /\ Goto(t, AfterTurn(t)) /\ heard' = heard
          /\ UNCHANGED <<model, handler, made, saved, swapped, replyVars>>
      BY <1>6 DEF Over
    <2>2. RepliesAt(t, "stop")' /\ RepliesAt(t, "answer")'
      BY <1>2, <2>1 DEF RepliesAt, InLoop, replyVars
    <2>3. CASE t \in fast
      <3>1. Lent(t) /\ Serves(handler, "fast") /\ AfterTurn(t) = "stop"
        BY <1>2, <2>1, <2>3 DEF RuntimeAt, Holding, InLoop, Lent, AfterTurn
      <3>2. Lent(t)' /\ Serves(handler, "fast")'
        BY <2>1, <3>1 DEF Lent, Serves
      <3>3. RuntimeAt(t, "stop")'
        BY <2>3, <3>2 DEF RuntimeAt, Holding, InLoop
      <3> QED BY <2>1, <2>2, <3>1, <3>3 DEF Places
    <2>4. CASE t \notin fast
      <3>1. Own /\ AfterTurn(t) = "answer"
        BY <1>2, <2>4 DEF RuntimeAt, Own, AfterTurn
      <3>2. Own'
        BY <2>1, <3>1 DEF Own, Serves
      <3>3. RuntimeAt(t, "answer")'
        BY <2>4, <3>2 DEF RuntimeAt, Holding, InLoop
      <3> QED BY <2>1, <2>2, <3>1, <3>3 DEF Places
    <2> QED BY <2>3, <2>4
  <1>7. CASE StopHandler(t)
    <2>1. /\ pc[t] = "stop" /\ Goto(t, "restore") /\ heard' = heard
          /\ UNCHANGED <<model, handler, saved, swapped, replyVars>>
      BY <1>7 DEF StopHandler, clientVars
    <2>2. t \in fast /\ Lent(t) /\ (handler = 0 \/ Serves(handler, "fast"))
      BY <1>2, <2>1 DEF RuntimeAt
    <2>3. Lent(t)'
      <3>1. CASE handler \in {0, saved[t].handler}
        <4>1. made' = made
          BY <1>7, <3>1 DEF StopHandler
        <4> QED BY <2>1, <2>2, <4>1 DEF Lent, Serves
      <3>2. CASE handler \notin {0, saved[t].handler}
        <4>1. made' = [made EXCEPT ![handler].up = FALSE]
          BY <1>7, <3>2 DEF StopHandler
        <4>2. \A h, n : h # handler /\ Serves(h, n) => Serves(h, n)'
          BY <1>3, <4>1, Stopped
        <4> QED BY <2>1, <2>2, <3>2, <4>2 DEF Lent, Serves
      <3> QED BY <3>1, <3>2
    <2>4. RuntimeAt(t, "restore")'
      BY <2>2, <2>3 DEF RuntimeAt, Holding, InLoop
    <2>5. RepliesAt(t, "restore")'
      BY <1>2, <2>1 DEF RepliesAt, InLoop, replyVars
    <2> QED BY <2>1, <2>4, <2>5 DEF Places
  <1>8. CASE RestoreModel(t)
    <2>1. /\ pc[t] = "restore" /\ Goto(t, "restored") /\ heard' = heard
          /\ model' = saved[t].model /\ swapped' = swapped \ {t}
          /\ UNCHANGED <<handler, made, saved, replyVars>>
      BY <1>8 DEF RestoreModel, clientVars
    <2>2. t \in fast /\ Lent(t)
      BY <1>2, <2>1 DEF RuntimeAt
    <2>3. /\ model' = "base" /\ swapped' = {}
          /\ Serves(saved[t].handler, "base")'
      BY <1>3, <2>1, <2>2 DEF Lent, Serves
    <2>4. RuntimeAt(t, "restored")'
      BY <2>2, <2>3 DEF RuntimeAt, Holding, InLoop
    <2>5. RepliesAt(t, "restored")'
      BY <1>2, <2>1 DEF RepliesAt, InLoop, replyVars
    <2> QED BY <2>1, <2>4, <2>5 DEF Places
  <1>9. CASE RestoreHandler(t)
    <2>1. /\ pc[t] = "restored" /\ Goto(t, "answer") /\ heard' = heard
          /\ handler' = saved[t].handler
          /\ UNCHANGED <<model, made, swapped, replyVars>>
      BY <1>9 DEF RestoreHandler, clientVars
    <2>2. /\ t \in fast /\ model = "base" /\ swapped = {}
          /\ Serves(saved[t].handler, "base")
      BY <1>2, <2>1 DEF RuntimeAt
    <2>3. Own'
      BY <2>1, <2>2 DEF Own, Serves
    <2>4. RuntimeAt(t, "answer")'
      BY <2>3 DEF RuntimeAt, Holding, InLoop
    <2>5. RepliesAt(t, "answer")'
      BY <1>2, <2>1 DEF RepliesAt, InLoop, replyVars
    <2> QED BY <2>1, <2>4, <2>5 DEF Places
  <1>10. CASE Answer(t)
    <2>1. pc[t] = "answer" /\ Goto(t, "done") /\ UNCHANGED runtimeVars
      BY <1>10 DEF Answer
    <2>2. Own'
      BY <1>2, <2>1 DEF RuntimeAt, Own, Serves, runtimeVars
    <2>3. \A u \in Request \ {t} : heard'[u] = heard[u]
      BY <1>3, <1>10 DEF Answer
    <2> QED BY <2>1, <2>2, <2>3 DEF Places
  <1> QED BY <1>6, <1>7, <1>8, <1>9, <1>10

(* An abort changes nothing of what requests leave behind.                 *)
LEMMA AbortAlone ==
  ASSUME IInv, Alone, NEW t \in Request, Abort(t), fast' = fast
  PROVE  Alone'
  <1>1. UNCHANGED <<pc, runtimeVars, replyVars, lock, clientVars, met, fast>>
    BY DEF Abort
  <1> QED
    BY <1>1 DEF Alone, Inside, Own, Lent, Serves, RuntimeAt, RepliesAt,
                runtimeVars, replyVars, clientVars

(* Whatever a request does, lone ones find and leave the session clean.    *)
LEMMA AloneStep ==
  ASSUME IInv, Alone, NEW t \in Request, Step(t) \/ Abort(t), fast' = fast
  PROVE  Alone'
  <1> SUFFICES ASSUME ~met' PROVE Alone'
    BY DEF Alone
  <1>1. CASE Come(t)
    BY <1>1, ComesAlone
  <1>2. CASE Abort(t)
    BY <1>2, AbortAlone
  <1>3. CASE ~Come(t) /\ ~Abort(t)
    <2>1. ~met
      BY <1>3 DEF Step, Install, Admit, Inject, Override, Swap, Unhand,
                  StopHandler, RestoreModel, RestoreHandler, Answer, Queue,
                  Spawn, Top, Compact, Empty, Text, Writes, Ask, Reply, More, Score,
                  Final, Over
    <2> QED BY <1>3, <2>1, DispatchAlone, LoopAlone, LeavesAlone DEF Step
  <1> QED BY <1>1, <1>2, <1>3

(* What requests leave behind in a session - the reply() closure, the flag *)
(* that says that it was called, the model, the handlers - never harms one *)
(* that comes after them: it is served by a handler that listens, of its   *)
(* own model, and hears one answer (runtime_pipeline.py).                  *)
THEOREM NothingIsLeftOver == Spec => []NothingLeftOver
  <1>1. Init => Alone
    <2> SUFFICES ASSUME NEW class \in Classes, Starts(class)
                 PROVE  Alone
      BY DEF Init
    <2>1. Own
      BY DEF Starts, Own, Serves
    <2>2. Inside = {}
      BY DEF Starts, Inside
    <2> QED BY <2>1, <2>2 DEF Starts, Alone
  <1>2. IInv /\ Alone /\ [Next]_vars => Alone'
    <2> SUFFICES ASSUME IInv, Alone, [Next]_vars PROVE Alone'
      OBVIOUS
    <2>1. CASE Next
      <3>1. PICK t \in Request : Step(t) \/ Abort(t)
        BY <2>1 DEF Next
      <3>2. fast' = fast
        BY <2>1 DEF Next
      <3> QED BY <3>1, <3>2, AloneStep
    <2>2. CASE UNCHANGED vars
      BY <2>2 DEF vars, Alone, Inside, Own, Lent, Serves, RuntimeAt, RepliesAt,
                  runtimeVars, replyVars, clientVars
    <2> QED BY <2>1, <2>2
  <1>3. IInv /\ Alone => NothingLeftOver
    <2> SUFFICES ASSUME Alone, ~met PROVE AnsweredAlone /\ ServedAlone
      BY DEF NothingLeftOver
    <2>1. ~strayed
      BY DEF Alone
    <2>2. ASSUME NEW t \in Request, pc[t] = "answer"
          PROVE  heard[t] = IF replied THEN 1 ELSE 0
      <3>1. t \in Inside
        BY <2>2 DEF Inside
      <3> QED BY <2>2, <3>1, OnlyOne DEF RepliesAt
    <2>3. ASSUME NEW t \in Request, pc[t] \in InLoop
          PROVE  made[built[t]] =
                    [up |-> TRUE,
                     model |-> IF t \in fast THEN "fast" ELSE "base"]
      <3>1. RuntimeAt(t, pc[t])
        BY <2>3, OnlyOne DEF Inside, InLoop
      <3>2. /\ handler = built[t] /\ (t \in fast => Serves(handler, "fast"))
            /\ t \notin fast => Own
        BY <2>3, <3>1 DEF RuntimeAt
      <3> QED BY <3>2 DEF Own, Serves
    <2> QED BY <2>1, <2>2, <2>3 DEF AnsweredAlone, ServedAlone
  <1> QED BY Invariance, <1>1, <1>2, <1>3, PTL DEF Spec
=============================================================================
