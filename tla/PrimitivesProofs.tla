-------------------------- MODULE PrimitivesProofs --------------------------
(***************************************************************************)
(* What the two primitives that agents are coordinated with guarantee: the *)
(* sibling bus, for any number of branches, topics and sends and for any   *)
(* limits, and the cancellation tokens, for any tree of sources and any    *)
(* set of threads and callbacks.                                           *)
(***************************************************************************)
EXTENDS SiblingBus, TokenTree, SequenceTheorems, FiniteSetTheorems, TLAPS

-----------------------------------------------------------------------------
(* Two facts about a queue and what was taken from it                      *)

\* A message put at the end of the queue is at the end of the history.
LEMMA PutAtEnd ==
    ASSUME NEW old \in Seq(Message), NEW q \in Seq(Message), NEW m \in Message
    PROVE  Append(old \o q, m) = old \o Append(q, m)
<1>1. <<m>> \in Seq(Message) /\ old \o q \in Seq(Message)
    BY ConcatProperties
<1>2. Append(old \o q, m) = (old \o q) \o <<m>>
    BY <1>1, AppendIsConcat
<1>3. (old \o q) \o <<m>> = old \o (q \o <<m>>)
    BY <1>1, ConcatAssociative
<1> QED
    BY <1>2, <1>3, AppendIsConcat

\* A message taken from the head moves from one part of the history to the
\* other.
LEMMA TakenFromHead ==
    ASSUME NEW old \in Seq(Message), NEW q \in Seq(Message), q # <<>>
    PROVE  Append(old, Head(q)) \o Tail(q) = old \o q
<1> DEFINE h == Head(q)
           u == Tail(q)
<1>1. h \in Message /\ u \in Seq(Message) /\ Len(u) = Len(q) - 1
    BY HeadTailProperties
<1>2. <<h>> \in Seq(Message)
    BY <1>1
<1>3. <<h>> \o u = q
    BY <1>1
<1>4. Append(old, h) = old \o <<h>>
    BY <1>1, AppendIsConcat
<1>5. (old \o <<h>>) \o u = old \o (<<h>> \o u)
    BY <1>1, <1>2, ConcatAssociative
<1> QED
    BY <1>3, <1>4, <1>5

-----------------------------------------------------------------------------
\* Every call preserves the types.
LEMMA TypeStep == TypeOK /\ [Next]_vars => TypeOK'
<1> SUFFICES ASSUME TypeOK, [Next]_vars PROVE TypeOK'
    OBVIOUS
<1>a. ASSUME NEW t \in Topic, Take(t)
      PROVE  /\ queue' \in [Topic -> Seq(Message)]
             /\ taken' \in [Topic -> Seq(Message)]
    <2>1. /\ queue[t] \in Seq(Message) /\ queue[t] # <<>>
          /\ taken[t] \in Seq(Message)
        BY <1>a DEF TypeOK, Take
    <2>2. Head(queue[t]) \in Message /\ Tail(queue[t]) \in Seq(Message)
        BY <2>1, HeadTailProperties
    <2>3. Append(taken[t], Head(queue[t])) \in Seq(Message)
        BY <2>1, <2>2, AppendProperties
    <2> QED
        BY <1>a, <2>2, <2>3 DEF TypeOK, Take
<1>b. ASSUME NEW b \in Branch, NEW t \in Topic, See(b, t)
      PROVE  /\ seen' \in [Topic -> [Branch -> Nat]]
             /\ heard' \in [Topic -> [Branch -> Seq(Signal)]]
    <2> DEFINE new == [gen |-> gen[t], from |-> latest[t]]
    <2>1. heard[t][b] \in Seq(Signal) /\ gen[t] \in Nat /\ latest[t] \in Branch
        BY <1>b DEF TypeOK, See, Unseen
    <2>2. new \in Signal
        BY <2>1 DEF Signal
    <2>3. Append(heard[t][b], new) \in Seq(Signal)
        BY <2>1, <2>2, AppendProperties
    <2> QED
        BY <1>b, <2>1, <2>3 DEF TypeOK, See
<1>c. ASSUME NEW b \in Branch, SendSignal(b)
      PROVE  /\ on[b] \in Topic
             /\ said' \in [Topic -> Seq(Branch)]
    <2>1. on[b] \in Topic /\ said[on[b]] \in Seq(Branch)
        BY <1>c DEF TypeOK, SendSignal, End
    <2>2. Append(said[on[b]], b) \in Seq(Branch)
        BY <2>1, AppendProperties
    <2> QED
        BY <1>c, <2>1, <2>2 DEF TypeOK, SendSignal
<1>d. ASSUME NEW b \in Branch, Put(b)
      PROVE  /\ queue' \in [Topic -> Seq(Message)]
             /\ sent' \in [Topic -> Seq(Message)]
             /\ sends' \in [Branch -> Nat]
    <2> DEFINE m == [sender |-> b, n |-> sends[b] + 1]
    <2>1. /\ on[b] \in Topic /\ sends[b] + 1 \in Nat
          /\ queue[on[b]] \in Seq(Message) /\ sent[on[b]] \in Seq(Message)
        BY <1>d DEF TypeOK, Put, End
    <2>2. m \in Message
        BY <2>1 DEF Message
    <2>3. /\ Append(queue[on[b]], m) \in Seq(Message)
          /\ Append(sent[on[b]], m) \in Seq(Message)
        BY <2>1, <2>2, AppendProperties
    <2> QED
        BY <1>d, <2>1, <2>3 DEF TypeOK, Put
<1> USE NoneIsNothing DEF TypeOK, fifoVars, controlVars
<1>1. ASSUME NEW b \in Branch, NEW t \in Topic, Publish(b, t)
      PROVE TypeOK'
    BY <1>1 DEF Publish, Begin
<1>2. ASSUME NEW b \in Branch, NEW t \in Topic, PublishInvalid(b, t)
      PROVE TypeOK'
    BY <1>2 DEF PublishInvalid
<1>3. ASSUME NEW b \in Branch, NEW t \in Topic, Subscribe(b, t)
      PROVE TypeOK'
    BY <1>3 DEF Subscribe, Begin
<1>4. ASSUME NEW b \in Branch, NEW t \in Topic, Drain(b, t)
      PROVE TypeOK'
    BY <1>4 DEF Drain, Begin
<1>5. ASSUME NEW b \in Branch, NEW t \in Topic, PublishControl(b, t)
      PROVE TypeOK'
    BY <1>5 DEF PublishControl, Begin
<1>6. ASSUME NEW b \in Branch, NEW t \in Topic, WaitControl(b, t)
      PROVE TypeOK'
    BY <1>6 DEF WaitControl, Begin
<1>7. ASSUME NEW b \in Branch, NEW t \in Topic, Poll(b, t)
      PROVE TypeOK'
    BY <1>b, <1>7 DEF Poll, See
<1>8. ASSUME NEW b \in Branch, Put(b)
      PROVE TypeOK'
    BY <1>d, <1>8 DEF Put, End
<1>9. ASSUME NEW b \in Branch, PutFull(b)
      PROVE TypeOK'
    BY <1>9 DEF PutFull, End
<1>10. ASSUME NEW b \in Branch, Get(b)
      PROVE TypeOK'
    BY <1>a, <1>10 DEF Get, Take, End
<1>11. ASSUME NEW b \in Branch, GetTimeout(b)
      PROVE TypeOK'
    BY <1>11 DEF GetTimeout, End
<1>12. ASSUME NEW b \in Branch, DrainNext(b)
      PROVE TypeOK'
    BY <1>a, <1>12 DEF DrainNext, Take
<1>13. ASSUME NEW b \in Branch, DrainEnds(b)
      PROVE TypeOK'
    BY <1>13 DEF DrainEnds, End
<1>14. ASSUME NEW b \in Branch, SendSignal(b)
      PROVE TypeOK'
    BY <1>c, <1>14 DEF SendSignal, End
<1>15. ASSUME NEW b \in Branch, WaitHit(b)
      PROVE TypeOK'
    <2>1. on[b] \in Topic
        BY <1>15 DEF WaitHit, End
    <2>2. seen' \in [Topic -> [Branch -> Nat]] /\ heard' \in [Topic -> [Branch -> Seq(Signal)]]
        BY <1>b, <1>15, <2>1 DEF WaitHit
    <2> QED
        BY <1>15, <2>2 DEF WaitHit, See, End
<1>16. ASSUME NEW b \in Branch, WaitTimeout(b)
      PROVE TypeOK'
    BY <1>16 DEF WaitTimeout, End
<1>17. CASE UNCHANGED vars
    BY <1>17 DEF vars
<1> QED
    BY <1>1, <1>2, <1>3, <1>4, <1>5, <1>6, <1>7, <1>8, <1>9, <1>10, <1>11,
       <1>12, <1>13, <1>14, <1>15, <1>16, <1>17
       DEF Next, Progress, Call

\* The initial state has the types.
LEMMA InitType == Init => TypeOK
BY NoneIsNothing DEF Init, TypeOK, Message, Signal

\* Types hold in every reachable state.
THEOREM TypeCorrect == Spec => []TypeOK
BY InitType, TypeStep, PTL DEF Spec

-----------------------------------------------------------------------------
(* FIFO channels                                                           *)

\* Only put_nowait() and the three ways to take a message touch a queue.
LEMMA LostStep == TypeOK /\ NothingLost /\ [Next]_vars => NothingLost'
<1> SUFFICES ASSUME TypeOK, NothingLost, [Next]_vars PROVE NothingLost'
    OBVIOUS
<1> USE DEF NothingLost, fifoVars, controlVars
<1>0. ASSUME NEW t \in Topic, Take(t) PROVE NothingLost'
    <2>1. /\ queue[t] \in Seq(Message) /\ queue[t] # <<>>
          /\ taken[t] \in Seq(Message)
        BY <1>0 DEF TypeOK, Take
    <2>2. Append(taken[t], Head(queue[t])) \o Tail(queue[t]) = sent[t]
        BY <2>1, TakenFromHead
    <2> QED
        BY <1>0, <2>2 DEF TypeOK, Take
<1>1. ASSUME NEW b \in Branch, NEW t \in Topic, Publish(b, t)
      PROVE NothingLost'
    BY <1>1 DEF Publish, Begin
<1>2. ASSUME NEW b \in Branch, NEW t \in Topic, PublishInvalid(b, t)
      PROVE NothingLost'
    BY <1>2 DEF PublishInvalid
<1>3. ASSUME NEW b \in Branch, NEW t \in Topic, Subscribe(b, t)
      PROVE NothingLost'
    BY <1>3 DEF Subscribe, Begin
<1>4. ASSUME NEW b \in Branch, NEW t \in Topic, Drain(b, t)
      PROVE NothingLost'
    BY <1>4 DEF Drain, Begin
<1>5. ASSUME NEW b \in Branch, NEW t \in Topic, PublishControl(b, t)
      PROVE NothingLost'
    BY <1>5 DEF PublishControl, Begin
<1>6. ASSUME NEW b \in Branch, NEW t \in Topic, WaitControl(b, t)
      PROVE NothingLost'
    BY <1>6 DEF WaitControl, Begin
<1>7. ASSUME NEW b \in Branch, NEW t \in Topic, Poll(b, t)
      PROVE NothingLost'
    BY <1>7 DEF Poll, See, Unseen
<1>8. ASSUME NEW b \in Branch, Put(b)
      PROVE NothingLost'
    <2> DEFINE t == on[b]
               m == [sender |-> b, n |-> sends[b] + 1]
               q == queue[t]
               old == taken[t]
    <2>1. /\ t \in Topic /\ m \in Message
          /\ q \in Seq(Message) /\ old \in Seq(Message)
        BY <1>8 DEF TypeOK, Message, Put, End
    <2>2. sent[t] = old \o q
        BY <2>1
    <2> HIDE DEF t, m, q, old
    <2>3. Append(old \o q, m) = old \o Append(q, m)
        BY <2>1, PutAtEnd
    <2> QED
        BY <1>8, <2>1, <2>2, <2>3 DEF TypeOK, Put, t, m, q, old
<1>9. ASSUME NEW b \in Branch, PutFull(b)
      PROVE NothingLost'
    BY <1>9 DEF PutFull, End
<1>10. ASSUME NEW b \in Branch, Get(b)
      PROVE NothingLost'
    BY <1>0, <1>10 DEF TypeOK, Get, End
<1>11. ASSUME NEW b \in Branch, GetTimeout(b)
      PROVE NothingLost'
    BY <1>11 DEF GetTimeout, End
<1>12. ASSUME NEW b \in Branch, DrainNext(b)
      PROVE NothingLost'
    BY <1>0, <1>12 DEF TypeOK, DrainNext
<1>13. ASSUME NEW b \in Branch, DrainEnds(b)
      PROVE NothingLost'
    BY <1>13 DEF DrainEnds, End
<1>14. ASSUME NEW b \in Branch, SendSignal(b)
      PROVE NothingLost'
    BY <1>14 DEF SendSignal, End
<1>15. ASSUME NEW b \in Branch, WaitHit(b)
      PROVE NothingLost'
    BY <1>15 DEF WaitHit, See, Unseen, End
<1>16. ASSUME NEW b \in Branch, WaitTimeout(b)
      PROVE NothingLost'
    BY <1>16 DEF WaitTimeout, End
<1>17. CASE UNCHANGED vars
    BY <1>17 DEF vars
<1> QED
    BY <1>1, <1>2, <1>3, <1>4, <1>5, <1>6, <1>7, <1>8, <1>9, <1>10, <1>11,
       <1>12, <1>13, <1>14, <1>15, <1>16, <1>17
       DEF Next, Progress, Call

\* What was published is what was consumed and what is pending, in order.
THEOREM FifoOrder == Spec => []NothingLost
<1>1. Init => NothingLost
    BY DEF Init, NothingLost
<1> QED
    BY <1>1, InitType, TypeStep, LostStep, PTL DEF Spec

-----------------------------------------------------------------------------
(* The limits                                                              *)

LimitInv ==
    /\ IsFiniteSet(channels)
    /\ IsFiniteSet(controls)
    /\ WithinLimits

\* Making a channel, when there is room for it, stays within the limit.
LEMMA RoomForOne ==
    ASSUME NEW A, NEW B, NEW t, IsFiniteSet(A), IsFiniteSet(B),
           Cardinality(A) + Cardinality(B) <= MaxChannels,
           t \in A \/ Cardinality(A) + Cardinality(B) < MaxChannels
    PROVE  /\ IsFiniteSet(A \cup {t})
           /\ Cardinality(A \cup {t}) + Cardinality(B) <= MaxChannels
<1>1. /\ IsFiniteSet(A \cup {t})
      /\ Cardinality(A \cup {t}) =
           IF t \in A THEN Cardinality(A) ELSE Cardinality(A) + 1
    BY FS_AddElement
<1>2. Cardinality(A) \in Nat /\ Cardinality(B) \in Nat
    BY FS_CardinalityType
<1> QED
    BY <1>1, <1>2, Limits

\* The number of channels and the length of the queues stay within bounds.
LEMMA LimitStep == TypeOK /\ LimitInv /\ [Next]_vars => LimitInv'
<1> SUFFICES ASSUME TypeOK, LimitInv, [Next]_vars PROVE LimitInv'
    OBVIOUS
<1> USE Limits DEF LimitInv, WithinLimits, fifoVars, controlVars
<1>a. ASSUME NEW t \in Topic, HasRoom(channels, t),
             channels' = channels \cup {t}, UNCHANGED <<queue, controls>>
      PROVE LimitInv'
    BY <1>a, RoomForOne DEF HasRoom
<1>b. ASSUME NEW t \in Topic, HasRoom(controls, t),
             controls' = controls \cup {t}, UNCHANGED <<queue, channels>>
      PROVE LimitInv'
    <2>1. Cardinality(controls) + Cardinality(channels) <= MaxChannels
        BY FS_CardinalityType
    <2>2. t \in controls
            \/ Cardinality(controls) + Cardinality(channels) < MaxChannels
        BY <1>b, FS_CardinalityType DEF HasRoom
    <2>3. /\ IsFiniteSet(controls \cup {t})
          /\ Cardinality(controls \cup {t}) + Cardinality(channels)
                <= MaxChannels
        BY <2>1, <2>2, RoomForOne
    <2>4. Cardinality(controls \cup {t}) \in Nat /\ Cardinality(channels) \in Nat
        BY <2>3, FS_CardinalityType
    <2> QED
        BY <1>b, <2>3, <2>4
<1>c. ASSUME NEW t \in Topic, Take(t), UNCHANGED controls PROVE LimitInv'
    <2>1. Len(Tail(queue[t])) = Len(queue[t]) - 1 /\ Len(queue[t]) \in Nat
        BY <1>c, HeadTailProperties DEF TypeOK, Take
    <2> QED
        BY <1>c, <2>1 DEF TypeOK, Take
<1>1. ASSUME NEW b \in Branch, NEW t \in Topic, Publish(b, t)
      PROVE LimitInv'
    BY <1>a, <1>1 DEF Publish
<1>2. ASSUME NEW b \in Branch, NEW t \in Topic, PublishInvalid(b, t)
      PROVE LimitInv'
    BY <1>a, <1>2 DEF PublishInvalid
<1>3. ASSUME NEW b \in Branch, NEW t \in Topic, Subscribe(b, t)
      PROVE LimitInv'
    BY <1>a, <1>3 DEF Subscribe
<1>4. ASSUME NEW b \in Branch, NEW t \in Topic, Drain(b, t)
      PROVE LimitInv'
    BY <1>4 DEF Drain, Begin
<1>5. ASSUME NEW b \in Branch, NEW t \in Topic, PublishControl(b, t)
      PROVE LimitInv'
    BY <1>b, <1>5 DEF PublishControl
<1>6. ASSUME NEW b \in Branch, NEW t \in Topic, WaitControl(b, t)
      PROVE LimitInv'
    BY <1>b, <1>6 DEF WaitControl
<1>7. ASSUME NEW b \in Branch, NEW t \in Topic, Poll(b, t)
      PROVE LimitInv'
    BY <1>7 DEF Poll, See, Unseen
<1>8. ASSUME NEW b \in Branch, Put(b)
      PROVE LimitInv'
    <2> DEFINE t == on[b]
               m == [sender |-> b, n |-> sends[b] + 1]
    <2>1. t \in Topic /\ m \in Message /\ queue[t] \in Seq(Message)
        BY <1>8 DEF TypeOK, Message, Put, End
    <2>2. Len(Append(queue[t], m)) = Len(queue[t]) + 1 /\ Len(queue[t]) \in Nat
        BY <2>1, AppendProperties
    <2> QED
        BY <1>8, <2>1, <2>2 DEF TypeOK, Put
<1>9. ASSUME NEW b \in Branch, PutFull(b)
      PROVE LimitInv'
    BY <1>9 DEF PutFull, End
<1>10. ASSUME NEW b \in Branch, Get(b)
      PROVE LimitInv'
    BY <1>c, <1>10 DEF TypeOK, Get, End
<1>11. ASSUME NEW b \in Branch, GetTimeout(b)
      PROVE LimitInv'
    BY <1>11 DEF GetTimeout, End
<1>12. ASSUME NEW b \in Branch, DrainNext(b)
      PROVE LimitInv'
    BY <1>c, <1>12 DEF TypeOK, DrainNext
<1>13. ASSUME NEW b \in Branch, DrainEnds(b)
      PROVE LimitInv'
    BY <1>13 DEF DrainEnds, End
<1>14. ASSUME NEW b \in Branch, SendSignal(b)
      PROVE LimitInv'
    BY <1>14 DEF SendSignal, End
<1>15. ASSUME NEW b \in Branch, WaitHit(b)
      PROVE LimitInv'
    BY <1>15 DEF WaitHit, See, Unseen, End
<1>16. ASSUME NEW b \in Branch, WaitTimeout(b)
      PROVE LimitInv'
    BY <1>16 DEF WaitTimeout, End
<1>17. CASE UNCHANGED vars
    BY <1>17 DEF vars
<1> QED
    BY <1>1, <1>2, <1>3, <1>4, <1>5, <1>6, <1>7, <1>8, <1>9, <1>10, <1>11,
       <1>12, <1>13, <1>14, <1>15, <1>16, <1>17
       DEF Next, Progress, Call

\* No interleaving of calls exceeds the limits of the bus.
THEOREM LimitsHold == Spec => []WithinLimits
<1>1. Init => LimitInv
    BY FS_EmptySet, Limits DEF Init, LimitInv, WithinLimits
<1>2. LimitInv => WithinLimits
    BY DEF LimitInv
<1> QED
    BY <1>1, <1>2, InitType, TypeStep, LimitStep, PTL DEF Spec

-----------------------------------------------------------------------------
(* Control channels                                                        *)

\* The generation counts the signals, the latest signal is the last of them,
\* and a receiver has heard, in order, some of those up to the one it has
\* marked as seen.
GenInv ==
    \A t \in Topic :
        /\ gen[t] = Len(said[t])
        /\ latest[t] # None => gen[t] > 0 /\ latest[t] = said[t][gen[t]]
        /\ \A b \in Branch : seen[t][b] <= gen[t]

HeardInv ==
    \A t \in Topic, b \in Branch :
        \A i \in 1 .. Len(heard[t][b]) : heard[t][b][i].gen <= seen[t][b]

ControlInv == GenInv /\ HeardInv /\ HeardOnce /\ HeardAsSaid

\* What one receiver has heard, extended by a later signal.
LEMMA HearMore ==
    ASSUME NEW h \in Seq(Signal), NEW new \in Signal,
           NEW old \in Nat, old < new.gen,
           NEW hist, new.gen \in 1 .. Len(hist), new.from = hist[new.gen],
           \A i \in 1 .. Len(h) : h[i].gen <= old,
           \A i, j \in 1 .. Len(h) : i < j => h[i].gen < h[j].gen,
           \A i \in 1 .. Len(h) :
               h[i].gen \in 1 .. Len(hist) /\ h[i].from = hist[h[i].gen]
    PROVE  LET more == Append(h, new) IN
           /\ \A i \in 1 .. Len(more) : more[i].gen <= new.gen
           /\ \A i, j \in 1 .. Len(more) : i < j => more[i].gen < more[j].gen
           /\ \A i \in 1 .. Len(more) :
                more[i].gen \in 1 .. Len(hist) /\ more[i].from = hist[more[i].gen]
<1> DEFINE more == Append(h, new)
           n == Len(h)
<1>1. /\ n \in Nat
      /\ Len(more) = n + 1
      /\ \A i \in 1 .. n : more[i] = h[i]
      /\ more[n + 1] = new
    BY AppendProperties
<1>2. /\ new.gen \in Nat
      /\ \A i \in 1 .. n : h[i].gen \in Nat
    BY DEF Signal
<1>3. \A i \in 1 .. n : more[i].gen < new.gen
    BY <1>1, <1>2
<1> HIDE DEF more, n
<1>4. \A i \in 1 .. Len(more) : i \in 1 .. n \/ i = n + 1
    BY <1>1
<1>5. \A i \in 1 .. Len(more) : more[i].gen <= new.gen
    BY <1>1, <1>2, <1>3, <1>4
<1>6. ASSUME NEW i \in 1 .. Len(more), NEW j \in 1 .. Len(more), i < j
      PROVE more[i].gen < more[j].gen
    <2>1. i \in 1 .. n
        BY <1>1, <1>6
    <2>2. CASE j = n + 1
        BY <1>1, <1>3, <2>1, <2>2
    <2>3. CASE j \in 1 .. n
        BY <1>1, <2>1, <2>3, <1>6 DEF n
    <2> QED
        BY <1>4, <2>2, <2>3
<1>7. \A i \in 1 .. Len(more) :
        more[i].gen \in 1 .. Len(hist) /\ more[i].from = hist[more[i].gen]
    BY <1>1, <1>4 DEF n
<1> QED
    BY <1>5, <1>6, <1>7 DEF more

\* A receiver that sees the latest signal extends what it has heard by it.
LEMMA SeeStep ==
    ASSUME TypeOK, ControlInv, NEW b \in Branch, NEW t \in Topic, See(b, t)
    PROVE  ControlInv'
<1> DEFINE new == [gen |-> gen[t], from |-> latest[t]]
           h == heard[t][b]
<1>0. /\ gen[t] \in Nat /\ seen[t][b] \in Nat /\ seen[t][b] < gen[t]
      /\ latest[t] \in Branch /\ latest[t] # None
    BY DEF See, Unseen, TypeOK
<1>1. /\ new \in Signal
      /\ new.gen = gen[t] /\ new.from = latest[t]
    BY <1>0 DEF Signal
<1>b. h \in Seq(Signal)
    BY DEF TypeOK
<1>2. gen[t] \in 1 .. Len(said[t]) /\ latest[t] = said[t][gen[t]]
    BY <1>0 DEF ControlInv, GenInv, TypeOK
<1>3. /\ heard'[t][b] = Append(h, new)
      /\ seen'[t][b] = gen[t]
      /\ UNCHANGED <<gen, latest, said>>
    BY DEF See, TypeOK
<1>4. \A u \in Topic, c \in Branch : ~(u = t /\ c = b) =>
        heard'[u][c] = heard[u][c] /\ seen'[u][c] = seen[u][c]
    BY DEF See, TypeOK
<1>5. /\ \A i \in 1 .. Len(h) : h[i].gen <= seen[t][b]
      /\ \A i, j \in 1 .. Len(h) : i < j => h[i].gen < h[j].gen
      /\ \A i \in 1 .. Len(h) :
           h[i].gen \in 1 .. Len(said[t]) /\ h[i].from = said[t][h[i].gen]
    BY DEF ControlInv, HeardInv, HeardOnce, HeardAsSaid
<1> HIDE DEF new, h
<1>a. /\ seen[t][b] \in Nat /\ seen[t][b] < new.gen
      /\ new.gen \in 1 .. Len(said[t]) /\ new.from = said[t][new.gen]
    BY <1>0, <1>1, <1>2
<1>6. LET more == Append(h, new) IN
      /\ \A i \in 1 .. Len(more) : more[i].gen <= new.gen
      /\ \A i, j \in 1 .. Len(more) : i < j => more[i].gen < more[j].gen
      /\ \A i \in 1 .. Len(more) :
           /\ more[i].gen \in 1 .. Len(said[t])
           /\ more[i].from = said[t][more[i].gen]
    BY <1>1, <1>5, <1>a, <1>b, HearMore
<1>7. GenInv'
    <2> SUFFICES ASSUME NEW u \in Topic, NEW c \in Branch
                 PROVE  seen'[u][c] <= gen[u]
        BY <1>3 DEF ControlInv, GenInv
    <2>1. CASE u = t /\ c = b
        BY <1>0, <1>3, <2>1
    <2>2. CASE ~(u = t /\ c = b)
        BY <1>4, <2>2 DEF ControlInv, GenInv
    <2> QED
        BY <2>1, <2>2
<1>8. HeardInv'
    <2> SUFFICES ASSUME NEW u \in Topic, NEW c \in Branch
                 PROVE  \A i \in 1 .. Len(heard'[u][c]) :
                            heard'[u][c][i].gen <= seen'[u][c]
        BY DEF HeardInv
    <2>1. CASE u = t /\ c = b
        BY <1>1, <1>3, <1>6, <2>1
    <2>2. CASE ~(u = t /\ c = b)
        BY <1>4, <2>2 DEF ControlInv, HeardInv
    <2> QED
        BY <2>1, <2>2
<1>9. HeardOnce'
    <2> SUFFICES ASSUME NEW u \in Topic, NEW c \in Branch
                 PROVE  \A i, j \in 1 .. Len(heard'[u][c]) :
                            i < j => heard'[u][c][i].gen < heard'[u][c][j].gen
        BY DEF HeardOnce
    <2>1. CASE u = t /\ c = b
        BY <1>3, <1>6, <2>1
    <2>2. CASE ~(u = t /\ c = b)
        BY <1>4, <2>2 DEF ControlInv, HeardOnce
    <2> QED
        BY <2>1, <2>2
<1>10. HeardAsSaid'
    <2> SUFFICES ASSUME NEW u \in Topic, NEW c \in Branch
                 PROVE  \A i \in 1 .. Len(heard'[u][c]) :
                          /\ heard'[u][c][i].gen \in 1 .. Len(said[u])
                          /\ heard'[u][c][i].from = said[u][heard'[u][c][i].gen]
        BY <1>3 DEF HeardAsSaid
    <2>1. CASE u = t /\ c = b
        BY <1>3, <1>6, <2>1
    <2>2. CASE ~(u = t /\ c = b)
        BY <1>4, <2>2 DEF ControlInv, HeardAsSaid
    <2> QED
        BY <2>1, <2>2
<1> QED
    BY <1>7, <1>8, <1>9, <1>10 DEF ControlInv

\* A new signal extends the history; what was heard of it stays right.
LEMMA SignalStep ==
    ASSUME TypeOK, ControlInv, NEW b \in Branch, SendSignal(b)
    PROVE  ControlInv'
<1> DEFINE t == on[b]
<1>1. /\ t \in Topic
      /\ said[t] \in Seq(Branch) /\ gen[t] \in Nat /\ gen[t] = Len(said[t])
    BY DEF TypeOK, SendSignal, End, ControlInv, GenInv
<1>2. /\ gen' = [gen EXCEPT ![t] = gen[t] + 1]
      /\ latest' = [latest EXCEPT ![t] = b]
      /\ said' = [said EXCEPT ![t] = Append(said[t], b)]
      /\ UNCHANGED <<seen, heard>>
    BY DEF SendSignal
<1>3. /\ Len(Append(said[t], b)) = Len(said[t]) + 1
      /\ \A i \in 1 .. Len(said[t]) : Append(said[t], b)[i] = said[t][i]
      /\ Append(said[t], b)[Len(said[t]) + 1] = b
    BY <1>1, AppendProperties
<1>4. \A u \in Topic : u # t =>
        gen'[u] = gen[u] /\ latest'[u] = latest[u] /\ said'[u] = said[u]
    BY <1>2 DEF TypeOK
<1>5. /\ gen'[t] = gen[t] + 1
      /\ latest'[t] = b
      /\ said'[t] = Append(said[t], b)
    BY <1>1, <1>2 DEF TypeOK
<1>6. \A c \in Branch : seen[t][c] \in Nat
    BY <1>1 DEF TypeOK
<1> HIDE DEF t
<1>7. GenInv'
    <2> SUFFICES ASSUME NEW u \in Topic
                 PROVE  /\ gen'[u] = Len(said'[u])
                        /\ latest'[u] # None =>
                             gen'[u] > 0 /\ latest'[u] = said'[u][gen'[u]]
                        /\ \A c \in Branch : seen[u][c] <= gen'[u]
        BY <1>2 DEF GenInv
    <2>1. CASE u = t
        BY <1>1, <1>3, <1>5, <1>6, <2>1 DEF ControlInv, GenInv
    <2>2. CASE u # t
        BY <1>4, <2>2 DEF ControlInv, GenInv
    <2> QED
        BY <2>1, <2>2
<1>8. HeardInv' /\ HeardOnce'
    BY <1>2 DEF ControlInv, HeardInv, HeardOnce
<1>9. HeardAsSaid'
    <2> SUFFICES ASSUME NEW u \in Topic, NEW c \in Branch,
                        NEW i \in 1 .. Len(heard[u][c])
                 PROVE  /\ heard[u][c][i].gen \in 1 .. Len(said'[u])
                        /\ heard[u][c][i].from = said'[u][heard[u][c][i].gen]
        BY <1>2 DEF HeardAsSaid
    <2>1. /\ heard[u][c][i].gen \in 1 .. Len(said[u])
          /\ heard[u][c][i].from = said[u][heard[u][c][i].gen]
        BY DEF ControlInv, HeardAsSaid
    <2>2. CASE u = t
        <3>1. /\ heard[u][c][i].gen \in 1 .. Len(said[t])
              /\ heard[u][c][i].from = said[t][heard[u][c][i].gen]
            BY <2>1, <2>2
        <3>2. said'[u] = Append(said[t], b)
            BY <1>5, <2>2
        <3>3. Len(said[t]) \in Nat
            BY <1>1
        <3>4. heard[u][c][i].gen \in 1 .. Len(said'[u])
            BY <1>3, <3>1, <3>2, <3>3
        <3>5. said'[u][heard[u][c][i].gen] = said[t][heard[u][c][i].gen]
            BY <1>3, <3>1, <3>2
        <3> QED
            BY <3>1, <3>4, <3>5
    <2>3. CASE u # t
        BY <1>4, <2>1, <2>3
    <2> QED
        BY <2>2, <2>3
<1> QED
    BY <1>7, <1>8, <1>9 DEF ControlInv

\* The other calls leave the control channels' signals alone.
LEMMA ControlStep == TypeOK /\ ControlInv /\ [Next]_vars => ControlInv'
<1> SUFFICES ASSUME TypeOK, ControlInv, [Next]_vars PROVE ControlInv'
    OBVIOUS
<1>0. ASSUME UNCHANGED <<gen, latest, seen, said, heard>> PROVE ControlInv'
    BY <1>0 DEF ControlInv, GenInv, HeardInv, HeardOnce, HeardAsSaid
<1> USE DEF fifoVars, controlVars
<1>1. ASSUME NEW b \in Branch, NEW t \in Topic, Publish(b, t)
      PROVE ControlInv'
    BY <1>0, <1>1 DEF Publish
<1>2. ASSUME NEW b \in Branch, NEW t \in Topic, PublishInvalid(b, t)
      PROVE ControlInv'
    BY <1>0, <1>2 DEF PublishInvalid
<1>3. ASSUME NEW b \in Branch, NEW t \in Topic, Subscribe(b, t)
      PROVE ControlInv'
    BY <1>0, <1>3 DEF Subscribe
<1>4. ASSUME NEW b \in Branch, NEW t \in Topic, Drain(b, t)
      PROVE ControlInv'
    BY <1>0, <1>4 DEF Drain
<1>5. ASSUME NEW b \in Branch, NEW t \in Topic, PublishControl(b, t)
      PROVE ControlInv'
    BY <1>0, <1>5 DEF PublishControl
<1>6. ASSUME NEW b \in Branch, NEW t \in Topic, WaitControl(b, t)
      PROVE ControlInv'
    BY <1>0, <1>6 DEF WaitControl
<1>7. ASSUME NEW b \in Branch, NEW t \in Topic, Poll(b, t)
      PROVE ControlInv'
    BY <1>7, SeeStep DEF Poll
<1>8. ASSUME NEW b \in Branch, Put(b)
      PROVE ControlInv'
    BY <1>0, <1>8 DEF Put
<1>9. ASSUME NEW b \in Branch, PutFull(b)
      PROVE ControlInv'
    BY <1>0, <1>9 DEF PutFull
<1>10. ASSUME NEW b \in Branch, Get(b)
      PROVE ControlInv'
    BY <1>0, <1>10 DEF Get
<1>11. ASSUME NEW b \in Branch, GetTimeout(b)
      PROVE ControlInv'
    BY <1>0, <1>11 DEF GetTimeout
<1>12. ASSUME NEW b \in Branch, DrainNext(b)
      PROVE ControlInv'
    BY <1>0, <1>12 DEF DrainNext
<1>13. ASSUME NEW b \in Branch, DrainEnds(b)
      PROVE ControlInv'
    BY <1>0, <1>13 DEF DrainEnds
<1>14. ASSUME NEW b \in Branch, SendSignal(b)
      PROVE ControlInv'
    BY <1>14, SignalStep
<1>15. ASSUME NEW b \in Branch, WaitHit(b)
      PROVE ControlInv'
    BY <1>15, SeeStep DEF WaitHit, End, TypeOK
<1>16. ASSUME NEW b \in Branch, WaitTimeout(b)
      PROVE ControlInv'
    BY <1>0, <1>16 DEF WaitTimeout
<1>17. CASE UNCHANGED vars
    BY <1>0, <1>17 DEF vars
<1> QED
    BY <1>1, <1>2, <1>3, <1>4, <1>5, <1>6, <1>7, <1>8, <1>9, <1>10, <1>11,
       <1>12, <1>13, <1>14, <1>15, <1>16, <1>17
       DEF Next, Progress, Call

\* Receivers see generations once, in order, with the signal that belongs
\* to each.
THEOREM Broadcast == Spec => []Heard
<1>1. Init => ControlInv
    BY NoneIsNothing
       DEF Init, ControlInv, GenInv, HeardInv, HeardOnce, HeardAsSaid
<1>2. ControlInv => Heard
    BY DEF ControlInv, Heard
<1> QED
    BY <1>1, <1>2, InitType, TypeStep, ControlStep, PTL DEF Spec

-----------------------------------------------------------------------------
(* The cancellation tokens.  The argument is about where a listener is: in *)
(* the list of its token until the token fires, then in what _fire() has   *)
(* still to call, then called.                                             *)

USE ParentType, TokenType, NothingApart, ListenersDiffer

\* A token's listeners are in its list before it fires and only in the
\* _fire() loop afterwards; a callback in either place has not been called.
OnePlace ==
    /\ \A s \in Source :
         /\ firing[s] = Nothing => todo[s] = {}
         /\ (s \in cancelled \/ s \notin made) => listeners[s] = {}
         /\ s \notin cancelled => (todo[s] = {} /\ firing[s] = Nothing)
    /\ \A c \in Callback, s \in Source :
         c \in listeners[s] \cup todo[s] =>
             s = TokenOf[c] /\ c \in registered /\ calls[c] = 0
    /\ \A c \in Callback :
         /\ c \notin registered => calls[c] = 0
         /\ calls[c] \in {0, 1}

\* A callback that was not removed waits in one of the two places or has been
\* called.
CallbackKept ==
    \A c \in registered \ removed :
        \/ c \in listeners[TokenOf[c]]
        \/ c \in todo[TokenOf[c]]
        \/ calls[c] = 1

\* So does the listener of a child source, with one place more: the thread in
\* the parent's loop may be inside the child's cancel().
ChildKept ==
    \A s \in made \ (disposed \cup cancelled) :
        ParentOf[s] # Nothing =>
            \/ s \in listeners[ParentOf[s]]
            \/ s \in todo[ParentOf[s]]
            \/ /\ firing[ParentOf[s]] # Nothing
               /\ entering[firing[ParentOf[s]]] = s

TokenInv == Tokens!TypeOK /\ OnePlace /\ CallbackKept /\ ChildKept

\* The initial states satisfy the invariant.
LEMMA TokenInit == Tokens!Init => TokenInv
BY DEF Tokens!Init, TokenInv, Tokens!TypeOK, OnePlace, CallbackKept, ChildKept, Tokens!Listener

\* Every call preserves the types.
LEMMA TokenTypeStep == Tokens!TypeOK /\ [Tokens!Next]_(Tokens!vars) => Tokens!TypeOK'
<1> SUFFICES ASSUME Tokens!TypeOK, [Tokens!Next]_(Tokens!vars) PROVE Tokens!TypeOK'
    OBVIOUS
<1> USE DEF Tokens!TypeOK, Tokens!Listener
<1>1. ASSUME NEW s \in Source, Tokens!Make(s) PROVE Tokens!TypeOK'
    BY <1>1 DEF Tokens!Make
<1>2. ASSUME NEW s \in Source, Tokens!Dispose(s) PROVE Tokens!TypeOK'
    BY <1>2 DEF Tokens!Dispose
<1>3. ASSUME NEW s \in Source, Tokens!Unlink(s) PROVE Tokens!TypeOK'
    BY <1>3 DEF Tokens!Unlink
<1>4. ASSUME NEW c \in Callback, Tokens!Remove(c) PROVE Tokens!TypeOK'
    BY <1>4 DEF Tokens!Remove
<1>5. ASSUME NEW t \in Thread, NEW s \in Source, Tokens!Cancel(t, s) PROVE Tokens!TypeOK'
    BY <1>5 DEF Tokens!Cancel
<1>6. ASSUME NEW t \in Thread, NEW c \in Callback, Tokens!OnCancelled(t, c)
      PROVE Tokens!TypeOK'
    BY <1>6 DEF Tokens!OnCancelled
<1>7. ASSUME NEW t \in Thread, Tokens!Fire(t) PROVE Tokens!TypeOK'
    BY <1>7 DEF Tokens!Fire
<1>8. ASSUME NEW t \in Thread, NEW s \in Source, Tokens!FireReturns(t, s) PROVE Tokens!TypeOK'
    BY <1>8 DEF Tokens!FireReturns
<1>9. ASSUME NEW t \in Thread, NEW s \in Source, NEW l \in Tokens!Listener,
             Tokens!CallNext(t, s, l)
      PROVE Tokens!TypeOK'
    BY <1>9 DEF Tokens!CallNext
<1>10. ASSUME NEW t \in Thread, Tokens!InlineReturns(t) PROVE Tokens!TypeOK'
    BY <1>10 DEF Tokens!InlineReturns
<1>11. CASE UNCHANGED Tokens!vars
    BY <1>11 DEF Tokens!vars
<1> QED
    BY <1>1, <1>2, <1>3, <1>4, <1>5, <1>6, <1>7, <1>8, <1>9, <1>10, <1>11
       DEF Tokens!Next, Tokens!Progress

\* A listener moves from the list to the loop, and from the loop to its call.
LEMMA OnePlaceStep == TokenInv /\ [Tokens!Next]_(Tokens!vars) => OnePlace'
<1> SUFFICES ASSUME TokenInv, Tokens!TypeOK, OnePlace, [Tokens!Next]_(Tokens!vars) PROVE OnePlace'
    BY DEF TokenInv
<1> USE DEF Tokens!TypeOK, OnePlace, Tokens!Listener
<1>1. ASSUME NEW s \in Source, Tokens!Make(s)
      PROVE OnePlace'
    BY <1>1 DEF Tokens!Make
<1>2. ASSUME NEW s \in Source, Tokens!Dispose(s)
      PROVE OnePlace'
    BY <1>2 DEF Tokens!Dispose
<1>3. ASSUME NEW s \in Source, Tokens!Unlink(s)
      PROVE OnePlace'
    BY <1>3 DEF Tokens!Unlink
<1>4. ASSUME NEW c \in Callback, Tokens!Remove(c)
      PROVE OnePlace'
    BY <1>4 DEF Tokens!Remove
<1>5. ASSUME NEW t \in Thread, NEW s \in Source, Tokens!Cancel(t, s)
      PROVE OnePlace'
    BY <1>5 DEF Tokens!Cancel, Tokens!Idle
<1>6. ASSUME NEW t \in Thread, NEW c \in Callback, Tokens!OnCancelled(t, c)
      PROVE OnePlace'
    BY <1>6 DEF Tokens!OnCancelled
<1>7. ASSUME NEW t \in Thread, Tokens!Fire(t)
      PROVE OnePlace'
    BY <1>7 DEF Tokens!Fire
<1>8. ASSUME NEW t \in Thread, NEW s \in Source, Tokens!FireReturns(t, s)
      PROVE OnePlace'
    BY <1>8 DEF Tokens!FireReturns, Tokens!Innermost
<1>9. ASSUME NEW t \in Thread, NEW s \in Source, NEW l \in Tokens!Listener,
             Tokens!CallNext(t, s, l)
      PROVE OnePlace'
    BY <1>9 DEF Tokens!CallNext, Tokens!Innermost
<1>10. ASSUME NEW t \in Thread, Tokens!InlineReturns(t)
      PROVE OnePlace'
    BY <1>10 DEF Tokens!InlineReturns
<1>11. CASE UNCHANGED Tokens!vars
    BY <1>11 DEF Tokens!vars
<1> QED
    BY <1>1, <1>2, <1>3, <1>4, <1>5, <1>6, <1>7, <1>8, <1>9, <1>10, <1>11
       DEF Tokens!Next, Tokens!Progress

\* No step drops a callback that was not removed.
LEMMA CallbackKeptStep == TokenInv /\ [Tokens!Next]_(Tokens!vars) => CallbackKept'
<1> SUFFICES ASSUME TokenInv, Tokens!TypeOK, OnePlace, CallbackKept, [Tokens!Next]_(Tokens!vars) PROVE CallbackKept'
    BY DEF TokenInv
<1> USE DEF Tokens!TypeOK, OnePlace, CallbackKept, Tokens!Listener
<1>1. ASSUME NEW s \in Source, Tokens!Make(s)
      PROVE CallbackKept'
    BY <1>1 DEF Tokens!Make
<1>2. ASSUME NEW s \in Source, Tokens!Dispose(s)
      PROVE CallbackKept'
    BY <1>2 DEF Tokens!Dispose
<1>3. ASSUME NEW s \in Source, Tokens!Unlink(s)
      PROVE CallbackKept'
    BY <1>3 DEF Tokens!Unlink
<1>4. ASSUME NEW c \in Callback, Tokens!Remove(c)
      PROVE CallbackKept'
    BY <1>4 DEF Tokens!Remove
<1>5. ASSUME NEW t \in Thread, NEW s \in Source, Tokens!Cancel(t, s)
      PROVE CallbackKept'
    BY <1>5 DEF Tokens!Cancel, Tokens!Idle
<1>6. ASSUME NEW t \in Thread, NEW c \in Callback, Tokens!OnCancelled(t, c)
      PROVE CallbackKept'
    BY <1>6 DEF Tokens!OnCancelled
<1>7. ASSUME NEW t \in Thread, Tokens!Fire(t)
      PROVE CallbackKept'
    BY <1>7 DEF Tokens!Fire
<1>8. ASSUME NEW t \in Thread, NEW s \in Source, Tokens!FireReturns(t, s)
      PROVE CallbackKept'
    BY <1>8 DEF Tokens!FireReturns, Tokens!Innermost
<1>9. ASSUME NEW t \in Thread, NEW s \in Source, NEW l \in Tokens!Listener,
             Tokens!CallNext(t, s, l)
      PROVE CallbackKept'
    BY <1>9 DEF Tokens!CallNext, Tokens!Innermost
<1>10. ASSUME NEW t \in Thread, Tokens!InlineReturns(t)
      PROVE CallbackKept'
    BY <1>10 DEF Tokens!InlineReturns
<1>11. CASE UNCHANGED Tokens!vars
    BY <1>11 DEF Tokens!vars
<1> QED
    BY <1>1, <1>2, <1>3, <1>4, <1>5, <1>6, <1>7, <1>8, <1>9, <1>10, <1>11
       DEF Tokens!Next, Tokens!Progress

\* No step drops the listener of a live child.
LEMMA ChildKeptStep == TokenInv /\ [Tokens!Next]_(Tokens!vars) => ChildKept'
<1> SUFFICES ASSUME TokenInv, Tokens!TypeOK, OnePlace, ChildKept, [Tokens!Next]_(Tokens!vars) PROVE ChildKept'
    BY DEF TokenInv
<1> USE DEF Tokens!TypeOK, OnePlace, ChildKept, Tokens!Listener
<1>1. ASSUME NEW s \in Source, Tokens!Make(s)
      PROVE ChildKept'
    BY <1>1 DEF Tokens!Make
<1>2. ASSUME NEW s \in Source, Tokens!Dispose(s)
      PROVE ChildKept'
    BY <1>2 DEF Tokens!Dispose
<1>3. ASSUME NEW s \in Source, Tokens!Unlink(s)
      PROVE ChildKept'
    BY <1>3 DEF Tokens!Unlink
<1>4. ASSUME NEW c \in Callback, Tokens!Remove(c)
      PROVE ChildKept'
    BY <1>4 DEF Tokens!Remove
<1>5. ASSUME NEW t \in Thread, NEW s \in Source, Tokens!Cancel(t, s)
      PROVE ChildKept'
    BY <1>5 DEF Tokens!Cancel, Tokens!Idle
<1>6. ASSUME NEW t \in Thread, NEW c \in Callback, Tokens!OnCancelled(t, c)
      PROVE ChildKept'
    BY <1>6 DEF Tokens!OnCancelled
<1>7. ASSUME NEW t \in Thread, Tokens!Fire(t)
      PROVE ChildKept'
    BY <1>7 DEF Tokens!Fire
<1>8. ASSUME NEW t \in Thread, NEW s \in Source, Tokens!FireReturns(t, s)
      PROVE ChildKept'
    BY <1>8 DEF Tokens!FireReturns, Tokens!Innermost
<1>9. ASSUME NEW t \in Thread, NEW s \in Source, NEW l \in Tokens!Listener,
             Tokens!CallNext(t, s, l)
      PROVE ChildKept'
    BY <1>9 DEF Tokens!CallNext, Tokens!Innermost
<1>10. ASSUME NEW t \in Thread, Tokens!InlineReturns(t)
      PROVE ChildKept'
    BY <1>10 DEF Tokens!InlineReturns
<1>11. CASE UNCHANGED Tokens!vars
    BY <1>11 DEF Tokens!vars
<1> QED
    BY <1>1, <1>2, <1>3, <1>4, <1>5, <1>6, <1>7, <1>8, <1>9, <1>10, <1>11
       DEF Tokens!Next, Tokens!Progress

\* The invariant is inductive.
LEMMA TokenStep == TokenInv /\ [Tokens!Next]_(Tokens!vars) => TokenInv'
BY TokenTypeStep, OnePlaceStep, CallbackKeptStep, ChildKeptStep DEF TokenInv

\* The invariant holds in every reachable state.
THEOREM TokenInvariance == TokenSpec => []TokenInv
BY TokenInit, TokenStep, PTL DEF TokenSpec, Tokens!Spec

\* The types of the variables hold in every reachable state.
THEOREM TokenTypes == TokenSpec => []Tokens!TypeOK
BY TokenInvariance, PTL DEF TokenInv

\* A callback is called at most once, for any number of threads, and
\* registration and cancellation never miss each other.
THEOREM ExactlyOnce == TokenSpec => []CalledOnce
<1>1. TokenInv => Tokens!CalledAtMostOnce
    BY DEF TokenInv, OnePlace, Tokens!CalledAtMostOnce
<1>2. TokenInv => Tokens!NoLostCallback
    BY DEF TokenInv, Tokens!TypeOK, OnePlace, CallbackKept, Tokens!NoLostCallback
<1> QED
    BY <1>1, <1>2, TokenInvariance, PTL DEF CalledOnce

\* Why a source is cancelled: what waits in a token's list or loop is a child
\* of that token, and a thread that is entering cancel() was told to by a
\* caller or by the parent's loop.
CauseInv ==
    /\ Tokens!CancelHasCause
    /\ \A s, k \in Source :
         k \in listeners[s] \cup todo[s] => s = ParentOf[k]
    /\ \A t \in Thread :
         entering[t] # Nothing =>
             entering[t] \in asked \/ ParentOf[entering[t]] \in cancelled

\* Every call preserves it.
LEMMA CauseStep == TokenInv /\ CauseInv /\ [Tokens!Next]_(Tokens!vars) => CauseInv'
<1> SUFFICES ASSUME TokenInv, Tokens!TypeOK, OnePlace, CauseInv, [Tokens!Next]_(Tokens!vars)
             PROVE  CauseInv'
    BY DEF TokenInv
<1> USE DEF Tokens!TypeOK, CauseInv, Tokens!CancelHasCause, Tokens!Listener
<1>1. ASSUME NEW s \in Source, Tokens!Make(s)
      PROVE CauseInv'
    BY <1>1 DEF Tokens!Make
<1>2. ASSUME NEW s \in Source, Tokens!Dispose(s)
      PROVE CauseInv'
    BY <1>2 DEF Tokens!Dispose
<1>3. ASSUME NEW s \in Source, Tokens!Unlink(s)
      PROVE CauseInv'
    BY <1>3 DEF Tokens!Unlink
<1>4. ASSUME NEW c \in Callback, Tokens!Remove(c)
      PROVE CauseInv'
    BY <1>4 DEF Tokens!Remove
<1>5. ASSUME NEW t \in Thread, NEW s \in Source, Tokens!Cancel(t, s)
      PROVE CauseInv'
    BY <1>5 DEF Tokens!Cancel
<1>6. ASSUME NEW t \in Thread, NEW c \in Callback, Tokens!OnCancelled(t, c)
      PROVE CauseInv'
    BY <1>6 DEF Tokens!OnCancelled
<1>7. ASSUME NEW t \in Thread, Tokens!Fire(t)
      PROVE CauseInv'
    BY <1>7 DEF Tokens!Fire
<1>8. ASSUME NEW t \in Thread, NEW s \in Source, Tokens!FireReturns(t, s)
      PROVE CauseInv'
    BY <1>8 DEF Tokens!FireReturns
<1>9. ASSUME NEW t \in Thread, NEW s \in Source, NEW l \in Tokens!Listener,
             Tokens!CallNext(t, s, l)
      PROVE CauseInv'
    <2>1. todo[s] # {} => s \in cancelled
      BY DEF OnePlace
    <2> QED BY <1>9, <2>1 DEF Tokens!CallNext
<1>10. ASSUME NEW t \in Thread, Tokens!InlineReturns(t)
      PROVE CauseInv'
    BY <1>10 DEF Tokens!InlineReturns
<1>11. CASE UNCHANGED Tokens!vars
    BY <1>11 DEF Tokens!vars
<1> QED
    BY <1>1, <1>2, <1>3, <1>4, <1>5, <1>6, <1>7, <1>8, <1>9, <1>10, <1>11
       DEF Tokens!Next, Tokens!Progress

\* A finished cancellation of a parent has reached every live child, and no
\* token is cancelled but by its own source or from above.
THEOREM Flows == TokenSpec => []CancelFlows
<1>1. TokenInv => Tokens!CancelReachesChildren
    BY DEF TokenInv, Tokens!TypeOK, OnePlace, ChildKept, Tokens!CancelReachesChildren
<1>2. Tokens!Init => CauseInv
    BY DEF Tokens!Init, CauseInv, Tokens!CancelHasCause
<1>3. CauseInv => Tokens!CancelHasCause
    BY DEF CauseInv
<1> QED
    BY <1>1, <1>2, <1>3, CauseStep, TokenInvariance, PTL DEF TokenSpec, Tokens!Spec, CancelFlows
=============================================================================
