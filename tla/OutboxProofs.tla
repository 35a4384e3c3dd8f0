---------------------------- MODULE OutboxProofs ----------------------------
(***************************************************************************)
(* Theorems about Outbox, for any set of messages, limits and bounds.  The *)
(* invariant ties the columns of a row to the calls of the channel, status *)
(* by status, and the worker's batch to the rows it claimed.               *)
(***************************************************************************)
EXTENDS Outbox, SequenceTheorems, FiniteSetTheorems, TLAPS

(* What the columns of a row say about the calls made with its message.    *)
RowHonest(m) ==
    /\ rows[m] \in NoRow =>
        sends[m] = 0 /\ attempts[m] = 0 /\ accepted[m] = 0
    /\ rows[m] = "pending" =>
        sends[m] = attempts[m] /\ attempts[m] < Tries[m] /\ accepted[m] <= errors
    /\ rows[m] = "delivering" =>
        /\ attempts[m] < Tries[m]
        /\ \/ sends[m] = attempts[m] /\ accepted[m] <= errors
           \/ sends[m] = attempts[m] + 1 /\ accepted[m] <= errors + 1
    /\ rows[m] = "delivered" =>
        /\ sends[m] = attempts[m] + 1 /\ attempts[m] < Tries[m]
        /\ accepted[m] > 0 /\ accepted[m] <= errors + 1
    /\ rows[m] = "dlq" =>
        sends[m] = attempts[m] /\ attempts[m] = Tries[m] /\ accepted[m] <= errors
RowsHonest == \A m \in Msg : RowHonest(m)

(* The batch holds claimed rows, each once; only the first may be sent.    *)
BatchClaimed ==
    /\ \A i \in 1..Len(batch) : rows[batch[i]] = "delivering"
    /\ \A i, j \in 1..Len(batch) : i # j => batch[i] # batch[j]
    /\ \A i \in 1..Len(batch) :
        i > 1 \/ pc = "send" => sends[batch[i]] = attempts[batch[i]]
HeadSent ==
    /\ pc \in Busy <=> batch # <<>>
    /\ pc \in Busy \ {"send"} =>
        sends[batch[1]] = attempts[batch[1]] + 1
    /\ pc = "accepted" => accepted[batch[1]] > 0
    /\ pc \in {"failed", "excepted"} => accepted[batch[1]] <= errors

IInv == TypeOK /\ RowsHonest /\ BatchClaimed /\ HeadSent

-----------------------------------------------------------------------------
(* The head and the tail of a batch that is not empty.                     *)
LEMMA BatchFacts ==
    ASSUME NEW b \in Seq(Msg), b # <<>>
    PROVE  /\ Tail(b) \in Seq(Msg)
           /\ Len(b) \in Nat \ {0}
           /\ Len(Tail(b)) = Len(b) - 1
           /\ Head(b) = b[1] /\ b[1] \in Msg
           /\ \A i \in 1..Len(Tail(b)) : Tail(b)[i] = b[i + 1]
           /\ Tail(b) = <<>> <=> Len(b) = 1
  <1>1. Tail(b) \in Seq(Msg) /\ Len(b) \in Nat \ {0} /\ Len(Tail(b)) = Len(b) - 1
    BY HeadTailProperties, EmptySeq, LenProperties, SMT
  <1>2. \A i \in 1..Len(Tail(b)) : Tail(b)[i] = b[i + 1]
    BY HeadTailProperties
  <1>3. Head(b) = b[1] /\ b[1] \in Msg
    BY <1>1, ElementOfSeq, SMT
  <1>4. Tail(b) = <<>> <=> Len(b) = 1
    BY <1>1, EmptySeq, SMT
  <1> QED BY <1>1, <1>2, <1>3, <1>4

(* Every message may be tried at least once.                               *)
LEMMA TriesPositive == \A m \in Msg : Tries[m] \in Nat \ {0}
  BY Sizes DEF Tries

(* A backoff is a time.                                                    *)
LEMMA BackoffIsTime == \A n \in Nat \ {0} : Backoff(n) \in Nat
  <1> SUFFICES ASSUME NEW n \in Nat \ {0} PROVE Backoff(n) \in Nat
    OBVIOUS
  <1>1. CASE n < 9
    <2>1. n \in {1, 2, 3, 4, 5, 6, 7, 8}
      BY <1>1, SMT
    <2> QED BY <2>1, <1>1, SMT DEF Backoff
  <1>2. CASE ~(n < 9)
    BY <1>2 DEF Backoff
  <1> QED BY <1>1, <1>2

-----------------------------------------------------------------------------
(* The steps of the producers, of the process and of time leave the batch  *)
(* and the rows in it alone, or end them both.                             *)
LEMMA QuietSteps ==
    ASSUME IInv,
           \/ Start \/ Stop \/ Tick \/ Loop \/ FetchRaises \/ UNCHANGED vars
    PROVE  IInv'
  <1> USE DEF vars, rowVars, producerVars, workerVars, channelVars, faultVars
  <1>1. TypeOK'
    <2>1. UNCHANGED <<rows, attempts, stamp, earlier, batch, sends, accepted, exits>>
      BY DEF Start, Stop, Tick, Loop, FetchRaises, Raises
    <2>2. pc' \in {pc, "loop", "fetch", "ended"}
      BY SMT DEF Start, Stop, Tick, Loop, FetchRaises
    <2>3. stopped' \in {stopped, TRUE, FALSE}
      BY DEF Start, Stop, Tick, Loop, FetchRaises
    <2>4. errors' \in {errors, errors + 1}
      BY DEF Start, Stop, Tick, Loop, FetchRaises, Raises
    <2>5. wait' \in [Msg -> Nat]
      <3>1. wait \in [Msg -> Nat]
        BY DEF IInv, TypeOK
      <3>2. CASE Tick
        BY <3>1, <3>2, SMT DEF Tick
      <3>3. CASE wait' = wait
        BY <3>1, <3>3
      <3> QED BY <3>2, <3>3 DEF Start, Stop, Loop, FetchRaises
    <2>6. errors' \in Nat
      BY <2>4, SMT DEF IInv, TypeOK
    <2>7. stopped' \in BOOLEAN
      BY <2>3 DEF IInv, TypeOK
    <2> QED BY <2>1, <2>2, <2>5, <2>6, <2>7 DEF IInv, TypeOK
  <1>2. UNCHANGED <<rows, attempts, batch, sends, accepted>>
    BY DEF Start, Stop, Tick, Loop, FetchRaises
  <1>3. errors <= errors' /\ errors \in Nat /\ errors' \in Nat
    BY <1>1, SMT DEF IInv, TypeOK, Start, Stop, Tick, Loop, FetchRaises, Raises
  <1>4. RowsHonest'
    BY <1>2, <1>3, TriesPositive, SMTT(60) DEF IInv, TypeOK, RowsHonest, RowHonest
  <1>5. pc' = pc \/ (pc \notin Busy /\ pc' \notin Busy)
    <2>1. CASE Start \/ Loop \/ FetchRaises
      <3>1. pc \in {"down", "loop", "fetch"} /\ pc' \in {"loop", "fetch", "ended"}
        BY <2>1, SMT DEF Start, Loop, FetchRaises
      <3> QED BY <3>1 DEF Busy
    <2>2. CASE Stop \/ Tick \/ UNCHANGED vars
      BY <2>2 DEF Stop, Tick
    <2> QED BY <2>1, <2>2
  <1>6. BatchClaimed'
    <2>1. CASE pc' = pc
      BY <2>1, <1>2 DEF IInv, BatchClaimed
    <2>2. CASE pc \notin Busy
      <3>1. batch = <<>>
        BY <2>2 DEF IInv, HeadSent
      <3> QED BY <3>1, <1>2, EmptySeq, SMT DEF BatchClaimed
    <2> QED BY <1>5, <2>1, <2>2
  <1>7. HeadSent'
    <2>1. CASE pc' = pc
      <3>1. pc \in {"failed", "excepted"} => errors' = errors
        BY DEF Start, Stop, Tick, Loop, FetchRaises
      <3> QED BY <2>1, <1>2, <3>1 DEF IInv, HeadSent, Busy
    <2>2. CASE pc \notin Busy /\ pc' \notin Busy
      BY <2>2, <1>2 DEF IInv, HeadSent, Busy
    <2> QED BY <1>5, <2>1, <2>2
  <1> QED BY <1>1, <1>4, <1>6, <1>7 DEF IInv

(* A producer's step touches neither the batch nor a claimed row.          *)
LEMMA ProducerSteps ==
    ASSUME IInv, NEW m \in Msg, Producer(m)
    PROVE  IInv'
  <1> USE DEF vars, rowVars, producerVars, workerVars, channelVars, faultVars
  <1>1. TypeOK'
    <2>1. Cardinality({n \in Msg : stamp[n] > 0}) + 1 \in Nat
      BY FiniteMsg, FS_Subset, FS_CardinalityType
    <2>2. stamp' \in [Msg -> Nat]
      BY <2>1 DEF IInv, TypeOK, Producer, Stamp, Insert, InsertRaises
    <2>3. earlier' \in [Msg -> SUBSET Msg]
      <3>1. {n \in Msg : rows[n] \notin NoRow} \in SUBSET Msg
        OBVIOUS
      <3> QED BY <3>1 DEF IInv, TypeOK, Producer, Stamp, Insert, InsertRaises
    <2>4. rows' \in [Msg -> NoRow \cup Settled \cup {"pending", "delivering"}]
      BY DEF IInv, TypeOK, Producer, Stamp, Insert, InsertRaises, NoRow
    <2>5. errors' \in Nat /\ exits' \in Nat
      BY SMT DEF IInv, TypeOK, Producer, Stamp, Insert, InsertRaises, Raises
    <2>6. UNCHANGED <<attempts, wait, pc, stopped, batch, sends, accepted>>
      BY DEF Producer, Stamp, Insert, InsertRaises
    <2> QED BY <2>2, <2>3, <2>4, <2>5, <2>6 DEF IInv, TypeOK
  <1>2. UNCHANGED <<pc, attempts, batch, sends, accepted>> /\ rows[m] \in NoRow
        /\ \E st \in {"stamped", "refused", "pending"} :
             rows' = [rows EXCEPT ![m] = st]
    BY DEF Producer, Stamp, Insert, InsertRaises, NoRow
  <1>3. errors <= errors' /\ errors \in Nat /\ errors' \in Nat
    BY <1>1, SMT DEF IInv, TypeOK, Producer, Stamp, Insert, InsertRaises, Raises
  <1>4. RowsHonest'
    BY <1>2, <1>3, TriesPositive, SMTT(60)
       DEF IInv, TypeOK, RowsHonest, RowHonest, NoRow
  <1>5. \A i \in 1..Len(batch) : batch[i] \in Msg /\ batch[i] # m
    BY <1>2, ElementOfSeq DEF IInv, TypeOK, BatchClaimed, NoRow
  <1>6. BatchClaimed'
    BY <1>2, <1>5 DEF IInv, TypeOK, BatchClaimed
  <1>7. HeadSent'
    <2>1. batch # <<>> => batch[1] \in Msg
      BY BatchFacts DEF IInv, TypeOK
    <2>2. pc \in {"failed", "excepted"} => accepted[batch[1]] <= errors'
      BY <2>1, <1>3, SMT DEF IInv, TypeOK, HeadSent, Busy
    <2> QED BY <1>2, <2>2 DEF IInv, HeadSent
  <1> QED BY <1>1, <1>4, <1>6, <1>7 DEF IInv

(* The end of the process keeps the rows and loses the batch.              *)
LEMMA ExitStep ==
    ASSUME IInv, Exit
    PROVE  IInv'
  <1> USE DEF vars, rowVars, producerVars, workerVars, channelVars, faultVars
  <1>1. TypeOK'
    <2>1. rows' \in [Msg -> NoRow \cup Settled \cup {"pending", "delivering"}]
      BY DEF IInv, TypeOK, Exit, NoRow
    <2>2. batch' \in Seq(Msg)
      BY EmptySeq DEF Exit
    <2>3. exits' \in Nat
      BY SMT DEF IInv, TypeOK, Exit
    <2> QED BY <2>1, <2>2, <2>3 DEF IInv, TypeOK, Exit
  <1>2. RowsHonest'
    BY SMTT(60) DEF IInv, TypeOK, RowsHonest, RowHonest, NoRow, Exit
  <1>3. batch' = <<>> /\ pc' = "down"
    BY DEF Exit
  <1>4. BatchClaimed' /\ HeadSent'
    BY <1>3, EmptySeq, SMT DEF BatchClaimed, HeadSent, Busy
  <1> QED BY <1>1, <1>2, <1>4 DEF IInv

-----------------------------------------------------------------------------
(* The steps of the worker.                                                *)
LEMMA FetchStep ==
    ASSUME IInv, Fetch
    PROVE  IInv'
  <1> USE DEF vars, rowVars, producerVars, workerVars, channelVars, faultVars
  <1> DEFINE Claims(k, s) ==
        /\ Selects(s, Due)
        /\ batch' = s
        /\ pc' = IF k = 0 THEN "loop" ELSE "send"
        /\ rows' = [m \in Msg |->
                      IF \E i \in 1..k : s[i] = m THEN "delivering" ELSE rows[m]]
  <1>0. PICK k \in 0..Batch : \E s \in [1..k -> Due] : Claims(k, s)
    BY DEF Fetch
  <1>1. PICK s \in [1..k -> Due] : Claims(k, s)
    BY <1>0
  <1>2. k \in Nat
    BY Sizes, SMT
  <1>3. s \in Seq(Msg) /\ Len(s) = k /\ DOMAIN s = 1..k
    <2>1. s \in Seq(Due) /\ Len(s) = k
      BY <1>2, SMT
    <2>2. Seq(Due) \subseteq Seq(Msg)
      BY SeqMonotonic DEF Due
    <2> QED BY <2>1, <2>2
  <1>4. \A i \in 1..k : s[i] \in Msg /\ rows[s[i]] = "pending"
    BY DEF Due
  <1>5. \A i, j \in 1..k : i < j => s[i] # s[j]
    <2> SUFFICES ASSUME NEW i \in 1..k, NEW j \in 1..k, i < j, s[i] = s[j]
                 PROVE  FALSE
      OBVIOUS
    <2>1. Before(s[i], s[i])
      BY <1>1, <1>3 DEF Selects
    <2>2. Priority[s[i]] \in Int /\ stamp[s[i]] \in Nat
      BY <1>4, Sizes DEF IInv, TypeOK
    <2> QED BY <2>1, <2>2, SMT DEF Before
  <1>6. UNCHANGED <<attempts, wait, stamp, earlier, stopped, sends, accepted,
                    exits, errors>>
    BY DEF Fetch
  <1>7. TypeOK'
    BY <1>1, <1>3, <1>6, SMTT(60) DEF IInv, TypeOK, Busy
  <1>8. RowsHonest'
    <2> SUFFICES ASSUME NEW m \in Msg PROVE RowHonest(m)'
      BY DEF RowsHonest
    <2>1. CASE \E i \in 1..k : s[i] = m
      <3>1. rows[m] = "pending" /\ rows'[m] = "delivering"
        BY <2>1, <1>1, <1>4
      <3> QED BY <3>1, <1>6 DEF IInv, RowsHonest, RowHonest, NoRow
    <2>2. CASE ~\E i \in 1..k : s[i] = m
      <3>1. rows'[m] = rows[m]
        BY <2>2, <1>1
      <3> QED BY <3>1, <1>6 DEF IInv, RowsHonest, RowHonest
    <2> QED BY <2>1, <2>2
  <1>9. BatchClaimed'
    <2>1. \A i \in 1..k : rows'[s[i]] = "delivering" /\ sends[s[i]] = attempts[s[i]]
      BY <1>1, <1>4 DEF IInv, RowsHonest, RowHonest
    <2>2. \A i, j \in 1..k : i # j => s[i] # s[j]
      BY <1>5, <1>2, SMT
    <2>3. batch' = s /\ Len(batch') = k
      BY <1>1, <1>3
    <2> QED BY <2>1, <2>2, <2>3, <1>6 DEF BatchClaimed
  <1>10. HeadSent'
    <2>1. s = <<>> <=> k = 0
      BY <1>2, <1>3, EmptySeq, SMT
    <2> QED BY <2>1, <1>1 DEF HeadSent, Busy
  <1> QED BY <1>7, <1>8, <1>9, <1>10 DEF IInv

(* A call of the channel puts the head of the batch one call ahead of its row. *)
LEMMA SendStep ==
    ASSUME IInv, Send
    PROVE  IInv'
  <1> USE DEF vars, rowVars, producerVars, workerVars, channelVars, faultVars
  <1> DEFINE h == batch[1]
  <1>1. batch \in Seq(Msg) /\ batch # <<>> /\ pc = "send"
    BY DEF IInv, TypeOK, HeadSent, Send, Busy
  <1>2. Head(batch) = h /\ h \in Msg /\ 1 \in 1..Len(batch) /\ Len(batch) \in Nat
    BY <1>1, BatchFacts, SMT
  <1>3. rows[h] = "delivering" /\ sends[h] = attempts[h]
    BY <1>1, <1>2 DEF IInv, BatchClaimed
  <1>4. accepted[h] \in Nat /\ accepted[h] <= errors /\ sends[h] \in Nat /\ errors \in Nat
    BY <1>2, <1>3, SMT DEF IInv, TypeOK, RowsHonest, RowHonest
  <1>5. sends' = [sends EXCEPT ![h] = @ + 1]
    BY <1>2 DEF Send
  <1>6. \/ pc' = "accepted" /\ accepted' = [accepted EXCEPT ![h] = @ + 1]
        \/ pc' \in {"failed", "excepted"} /\ accepted' = accepted
    BY <1>2 DEF Send
  <1>7. UNCHANGED <<rows, attempts, wait, stamp, earlier, stopped, batch, exits, errors>>
    BY DEF Send
  <1> HIDE DEF h
  <1>8. TypeOK'
    BY <1>2, <1>5, <1>6, <1>7, SMTT(60) DEF IInv, TypeOK, Busy
  <1>9. RowsHonest'
    <2> SUFFICES ASSUME NEW m \in Msg PROVE RowHonest(m)'
      BY DEF RowsHonest
    <2>1. CASE m = h
      <3>1. sends'[m] = attempts[m] + 1 /\ accepted'[m] <= errors + 1
            /\ rows'[m] = "delivering" /\ attempts[m] < Tries[m]
        BY <2>1, <1>2, <1>3, <1>4, <1>5, <1>6, <1>7, SMT
           DEF IInv, TypeOK, RowsHonest, RowHonest
      <3> QED BY <3>1, <1>7 DEF RowHonest, NoRow
    <2>2. CASE m # h
      <3>1. sends'[m] = sends[m] /\ accepted'[m] = accepted[m]
        BY <2>2, <1>5, <1>6 DEF IInv, TypeOK
      <3> QED BY <3>1, <1>7 DEF IInv, RowsHonest, RowHonest
    <2> QED BY <2>1, <2>2
  <1>10. BatchClaimed'
    <2>1. \A i \in 1..Len(batch) : i > 1 => batch[i] \in Msg /\ batch[i] # h
      BY <1>1, <1>2, ElementOfSeq, SMT DEF IInv, BatchClaimed, h
    <2>2. \A i \in 1..Len(batch) : i > 1 => sends'[batch[i]] = attempts[batch[i]]
      BY <2>1, <1>1, <1>5 DEF IInv, TypeOK, BatchClaimed
    <2>3. pc' # "send"
      BY <1>6
    <2> QED BY <2>2, <2>3, <1>7 DEF IInv, BatchClaimed
  <1>11. HeadSent'
    <2>1. sends'[h] = attempts[h] + 1
      BY <1>2, <1>3, <1>5 DEF IInv, TypeOK
    <2>2. pc' = "accepted" => accepted'[h] > 0
      BY <1>2, <1>4, <1>6, SMT DEF IInv, TypeOK
    <2>3. pc' \in {"failed", "excepted"} => accepted'[h] <= errors
      BY <1>4, <1>6
    <2> QED BY <1>1, <2>1, <2>2, <2>3, <1>6, <1>7 DEF HeadSent, Busy, h
  <1> QED BY <1>8, <1>9, <1>10, <1>11 DEF IInv

(* What is left of a batch after its first row, whose status alone may     *)
(* change, is still a batch.                                               *)
LEMMA RestOfBatch ==
    ASSUME IInv, batch # <<>>, NextRow, UNCHANGED sends,
           NEW st, rows' = [rows EXCEPT ![batch[1]] = st],
           \A m \in Msg : m # batch[1] => attempts'[m] = attempts[m]
    PROVE  /\ batch' \in Seq(Msg) /\ pc' \in {"loop", "send"}
           /\ BatchClaimed' /\ HeadSent'
  <1>1. batch \in Seq(Msg)
    BY DEF IInv, TypeOK
  <1>2. /\ batch' \in Seq(Msg) /\ Len(batch') = Len(batch) - 1
        /\ \A i \in 1..Len(batch') : batch'[i] = batch[i + 1]
        /\ Len(batch) \in Nat \ {0}
    BY <1>1, BatchFacts DEF NextRow
  <1>3. \A i \in 1..Len(batch') :
            /\ i + 1 \in 1..Len(batch) /\ batch'[i] = batch[i + 1]
            /\ batch'[i] \in Msg /\ batch'[i] # batch[1]
            /\ i + 1 > 1
    BY <1>1, <1>2, ElementOfSeq, SMT DEF IInv, BatchClaimed
  <1>4. \A i \in 1..Len(batch') : rows'[batch'[i]] = "delivering"
    <2> SUFFICES ASSUME NEW i \in 1..Len(batch')
                 PROVE  rows'[batch'[i]] = "delivering"
      OBVIOUS
    <2>1. rows'[batch'[i]] = rows[batch'[i]]
      BY <1>3 DEF IInv, TypeOK
    <2>2. rows[batch[i + 1]] = "delivering"
      BY <1>3 DEF IInv, BatchClaimed
    <2> QED BY <2>1, <2>2, <1>3
  <1>5. \A i \in 1..Len(batch') : sends'[batch'[i]] = attempts'[batch'[i]]
    BY <1>3 DEF IInv, BatchClaimed
  <1>6. \A i, j \in 1..Len(batch') : i # j => batch'[i] # batch'[j]
    <2> SUFFICES ASSUME NEW i \in 1..Len(batch'), NEW j \in 1..Len(batch'), i # j
                 PROVE  batch'[i] # batch'[j]
      OBVIOUS
    <2>1. i + 1 # j + 1
      BY <1>2, SMT
    <2> QED BY <2>1, <1>3 DEF IInv, BatchClaimed
  <1>7. pc' = IF batch' = <<>> THEN "loop" ELSE "send"
    BY DEF NextRow
  <1>8. BatchClaimed'
    BY <1>4, <1>5, <1>6 DEF BatchClaimed
  <1>9. HeadSent'
    BY <1>7 DEF HeadSent, Busy
  <1> QED BY <1>2, <1>7, <1>8, <1>9

(* Marking the head delivered settles its row and goes on with the rest.   *)
LEMMA MarkDeliveredStep ==
    ASSUME IInv, MarkDelivered
    PROVE  IInv'
  <1> USE DEF vars, rowVars, producerVars, workerVars, channelVars, faultVars
  <1>1. batch \in Seq(Msg) /\ batch # <<>> /\ pc = "accepted"
    BY DEF IInv, TypeOK, HeadSent, MarkDelivered, Busy
  <1>2. Head(batch) = batch[1] /\ batch[1] \in Msg /\ 1 \in 1..Len(batch)
    BY <1>1, BatchFacts, SMT
  <1>3. rows' = [rows EXCEPT ![batch[1]] = "delivered"] /\ NextRow
    BY <1>2 DEF MarkDelivered
  <1>4. UNCHANGED <<attempts, wait, stamp, earlier, stopped, sends, accepted, exits, errors>>
    BY DEF MarkDelivered
  <1>5. batch' \in Seq(Msg) /\ pc' \in {"loop", "send"} /\ BatchClaimed' /\ HeadSent'
    BY <1>1, <1>3, <1>4, RestOfBatch
  <1>6. TypeOK'
    BY <1>2, <1>3, <1>4, <1>5, SMTT(60) DEF IInv, TypeOK, Busy, Settled
  <1>7. RowsHonest'
    <2> SUFFICES ASSUME NEW m \in Msg PROVE RowHonest(m)'
      BY DEF RowsHonest
    <2>1. CASE m = batch[1]
      <3>1. rows[m] = "delivering" /\ sends[m] = attempts[m] + 1 /\ accepted[m] > 0
        BY <2>1, <1>1, <1>2 DEF IInv, BatchClaimed, HeadSent, Busy
      <3>2. rows'[m] = "delivered"
        BY <2>1, <1>2, <1>3 DEF IInv, TypeOK
      <3>3. attempts[m] < Tries[m] /\ accepted[m] <= errors + 1
        BY <3>1, SMT DEF IInv, TypeOK, RowsHonest, RowHonest
      <3> QED BY <3>1, <3>2, <3>3, <1>4 DEF RowHonest, NoRow
    <2>2. CASE m # batch[1]
      <3>1. rows'[m] = rows[m]
        BY <2>2, <1>3 DEF IInv, TypeOK
      <3> QED BY <3>1, <1>4 DEF IInv, RowsHonest, RowHonest
    <2> QED BY <2>1, <2>2
  <1> QED BY <1>5, <1>6, <1>7 DEF IInv

(* Marking the head failed makes its row catch up with the calls.          *)
LEMMA MarkFailedStep ==
    ASSUME IInv, MarkFailed
    PROVE  IInv'
  <1> USE DEF vars, rowVars, producerVars, workerVars, channelVars, faultVars
  <1> DEFINE h == batch[1]
             n == attempts[h] + 1
  <1>1. batch \in Seq(Msg) /\ batch # <<>> /\ pc \in {"failed", "excepted"}
    BY DEF IInv, TypeOK, HeadSent, MarkFailed, Busy
  <1>2. Head(batch) = h /\ h \in Msg /\ 1 \in 1..Len(batch)
    BY <1>1, BatchFacts, SMT
  <1>3. /\ attempts' = [attempts EXCEPT ![h] = n]
        /\ \/ n >= Retries[h] /\ rows' = [rows EXCEPT ![h] = "dlq"] /\ wait' = wait
           \/ /\ ~(n >= Retries[h])
              /\ rows' = [rows EXCEPT ![h] = "pending"]
              /\ wait' = [wait EXCEPT ![h] = Backoff(n)]
        /\ NextRow
    BY <1>2 DEF MarkFailed, GivesUp
  <1>4. UNCHANGED <<stamp, earlier, stopped, sends, accepted, exits, errors>>
    BY DEF MarkFailed
  <1>5. /\ rows[h] = "delivering" /\ sends[h] = n /\ accepted[h] <= errors
        /\ attempts[h] \in Nat /\ attempts[h] < Tries[h] /\ Retries[h] \in Nat
    BY <1>1, <1>2, Sizes
       DEF IInv, TypeOK, BatchClaimed, HeadSent, Busy, RowsHonest, RowHonest
  <1>6. n \in Nat \ {0} /\ Backoff(n) \in Nat
    BY <1>5, BackoffIsTime, SMT
  <1>7. Tries[h] = IF Retries[h] = 0 THEN 1 ELSE Retries[h]
    BY <1>2 DEF Tries
  <1>8. \E st \in {"dlq", "pending"} : rows' = [rows EXCEPT ![h] = st]
    BY <1>3
  <1>9. \A m \in Msg : m # h => attempts'[m] = attempts[m]
    BY <1>2, <1>3 DEF IInv, TypeOK
  <1>10. batch' \in Seq(Msg) /\ pc' \in {"loop", "send"} /\ BatchClaimed' /\ HeadSent'
    BY <1>1, <1>3, <1>4, <1>8, <1>9, RestOfBatch
  <1> HIDE DEF h, n
  <1>11. TypeOK'
    <2>1. rows' \in [Msg -> NoRow \cup Settled \cup {"pending", "delivering"}]
      BY <1>8 DEF IInv, TypeOK, Settled
    <2>2. attempts' \in [Msg -> Nat] /\ wait' \in [Msg -> Nat]
      BY <1>3, <1>6 DEF IInv, TypeOK
    <2> QED BY <2>1, <2>2, <1>4, <1>10 DEF IInv, TypeOK, Busy
  <1>12. RowsHonest'
    <2> SUFFICES ASSUME NEW m \in Msg PROVE RowHonest(m)'
      BY DEF RowsHonest
    <2>1. CASE m = h /\ n >= Retries[h]
      <3>1. rows'[m] = "dlq" /\ attempts'[m] = n
        BY <2>1, <1>2, <1>3 DEF IInv, TypeOK
      <3>2. n = Tries[h]
        BY <2>1, <1>5, <1>7, SMT DEF n
      <3> QED BY <2>1, <3>1, <3>2, <1>4, <1>5 DEF RowHonest, NoRow
    <2>2. CASE m = h /\ ~(n >= Retries[h])
      <3>1. rows'[m] = "pending" /\ attempts'[m] = n
        BY <2>2, <1>2, <1>3 DEF IInv, TypeOK
      <3>2. n < Tries[h]
        BY <2>2, <1>5, <1>6, <1>7, SMT
      <3> QED BY <2>2, <3>1, <3>2, <1>4, <1>5 DEF RowHonest, NoRow
    <2>3. CASE m # h
      <3>1. rows'[m] = rows[m] /\ attempts'[m] = attempts[m]
        BY <2>3, <1>8, <1>9 DEF IInv, TypeOK
      <3> QED BY <3>1, <1>4 DEF IInv, RowsHonest, RowHonest
    <2> QED BY <2>1, <2>2, <2>3
  <1> QED BY <1>10, <1>11, <1>12 DEF IInv

(* A mark that raises leaves the rows and counts an error.                 *)
LEMMA RaisingSteps ==
    ASSUME IInv, MarkDeliveredRaises \/ MarkFailedRaises
    PROVE  IInv'
  <1> USE DEF vars, rowVars, producerVars, workerVars, channelVars, faultVars
  <1>1. UNCHANGED <<rows, attempts, sends, accepted>> /\ errors' = errors + 1
        /\ errors \in Nat /\ pc \in Busy \ {"send"}
    BY DEF MarkDeliveredRaises, MarkFailedRaises, Raises, IInv, TypeOK, Busy
  <1>2. \/ batch' = batch /\ pc' = "excepted"
        \/ batch' = <<>> /\ pc' = "loop"
    <2>1. CASE MarkDeliveredRaises
      BY <2>1 DEF MarkDeliveredRaises
    <2>2. CASE MarkFailedRaises
      BY <2>2 DEF MarkFailedRaises
    <2> QED BY <2>1, <2>2
  <1>3. TypeOK'
    <2>1. batch' \in Seq(Msg) /\ pc' \in Busy \cup {"down", "loop", "fetch", "ended"}
      BY <1>2, EmptySeq DEF IInv, TypeOK, Busy
    <2>2. UNCHANGED <<rowVars, producerVars, stopped, channelVars>> /\ exits' = exits
      BY DEF MarkDeliveredRaises, MarkFailedRaises, Raises
    <2> QED BY <2>1, <2>2, <1>1 DEF IInv, TypeOK
  <1>4. RowsHonest'
    BY <1>1, TriesPositive, SMTT(60) DEF IInv, TypeOK, RowsHonest, RowHonest
  <1>5. CASE batch' = <<>> /\ pc' = "loop"
    BY <1>3, <1>4, <1>5, EmptySeq, SMT DEF IInv, BatchClaimed, HeadSent, Busy
  <1>6. CASE batch' = batch /\ pc' = "excepted"
    <2>1. BatchClaimed'
      BY <1>1, <1>6 DEF IInv, BatchClaimed
    <2>2. batch # <<>> /\ batch[1] \in Msg /\ 1 \in 1..Len(batch)
      BY <1>1, BatchFacts, SMT DEF IInv, TypeOK, HeadSent
    <2>3. rows[batch[1]] = "delivering" /\ sends[batch[1]] = attempts[batch[1]] + 1
      BY <1>1, <2>2 DEF IInv, BatchClaimed, HeadSent
    <2>4. accepted[batch[1]] <= errors + 1
      BY <2>2, <2>3, SMT DEF IInv, TypeOK, RowsHonest, RowHonest
    <2>5. HeadSent'
      BY <1>1, <1>6, <2>2, <2>3, <2>4 DEF HeadSent, Busy
    <2> QED BY <1>3, <1>4, <2>1, <2>5 DEF IInv
  <1> QED BY <1>2, <1>5, <1>6

(* The invariant holds in every reachable state.                           *)
LEMMA Invariance == Spec => []IInv
  <1>1. Init => IInv
    <2> SUFFICES ASSUME Init PROVE IInv
      OBVIOUS
    <2>1. TypeOK
      BY EmptySeq DEF Init, TypeOK, NoRow
    <2>2. RowsHonest
      BY DEF Init, RowsHonest, RowHonest, NoRow
    <2>3. BatchClaimed /\ HeadSent
      BY EmptySeq, SMT DEF Init, BatchClaimed, HeadSent, Busy
    <2> QED BY <2>1, <2>2, <2>3 DEF IInv
  <1>2. IInv /\ [Next]_vars => IInv'
    BY QuietSteps, ProducerSteps, ExitStep, FetchStep, SendStep,
       MarkDeliveredStep, MarkFailedStep, RaisingSteps DEF Next, Worker
  <1> QED BY <1>1, <1>2, PTL DEF Spec
-----------------------------------------------------------------------------
(* The statuses and the columns are those of TypeOK in every behaviour.    *)
THEOREM TypeCorrect == Spec => []TypeOK
  BY Invariance, PTL DEF IInv

(* The attempts recorded are the calls made, for any number of crashes and *)
(* failed writes.                                                          *)
THEOREM Counting == Spec => []TriesCounted
  <1>1. IInv => TriesCounted
    <2> SUFFICES ASSUME IInv, NEW m \in Msg
                 PROVE  /\ sends[m] <= Tries[m]
                        /\ rows[m] = "pending" => sends[m] = attempts[m]
                        /\ rows[m] = "dlq" => sends[m] = Tries[m]
      BY DEF TriesCounted
    <2>1. RowHonest(m) /\ Tries[m] \in Nat /\ sends[m] \in Nat /\ attempts[m] \in Nat
      BY TriesPositive DEF IInv, TypeOK, RowsHonest
    <2>2. rows[m] \in NoRow \cup Settled \cup {"pending", "delivering"}
      BY DEF IInv, TypeOK
    <2> QED BY <2>1, <2>2, SMT DEF RowHonest, Settled, NoRow
  <1> QED BY <1>1, Invariance, PTL

(* A row that says delivered was accepted, and it was accepted twice only  *)
(* around failed writes.                                                   *)
THEOREM Delivering == Spec => []DeliveredOnce
  <1>1. IInv => DeliveredOnce
    <2> SUFFICES ASSUME IInv, NEW m \in Msg
                 PROVE  /\ rows[m] = "delivered" => accepted[m] > 0
                        /\ accepted[m] <= 1 + errors
      BY DEF DeliveredOnce
    <2>1. RowHonest(m) /\ accepted[m] \in Nat /\ errors \in Nat
      BY DEF IInv, TypeOK, RowsHonest
    <2>2. rows[m] \in NoRow \cup Settled \cup {"pending", "delivering"}
      BY DEF IInv, TypeOK
    <2> QED BY <2>1, <2>2, SMT DEF RowHonest, Settled, NoRow
  <1> QED BY <1>1, Invariance, PTL

-----------------------------------------------------------------------------
(* The only row whose status a step of the worker may set to anything but  *)
(* delivering is the first of the batch.                                   *)
LEMMA FirstIsClaimed ==
    ASSUME IInv, batch # <<>>
    PROVE  /\ Head(batch) = batch[1] /\ batch[1] \in Msg
           /\ 1 \in 1..Len(batch) /\ rows[batch[1]] = "delivering"
  <1>1. Head(batch) = batch[1] /\ batch[1] \in Msg /\ 1 \in 1..Len(batch)
    BY BatchFacts, SMT DEF IInv, TypeOK
  <1> QED BY <1>1 DEF IInv, BatchClaimed

(* The worker handles a row only when its batch has one.                   *)
LEMMA BusyHasBatch == IInv /\ pc \in Busy => batch # <<>>
  BY DEF IInv, HeadSent

(* What is delivered or given up is left alone, by every step.             *)
THEOREM Settling == Spec => SettledForGood
  <1> DEFINE Kept(m) == rows'[m] = rows[m] /\ sends'[m] = sends[m]
  <1>1. ASSUME IInv, Next, NEW m \in Msg, rows[m] \in Settled
        PROVE  Kept(m)
    <2> USE DEF Settled, NoRow
    <2>1. CASE Start \/ Stop \/ Tick \/ Loop \/ FetchRaises
               \/ MarkDeliveredRaises \/ MarkFailedRaises
      BY <2>1 DEF Start, Stop, Tick, Loop, FetchRaises, MarkDeliveredRaises,
         MarkFailedRaises, rowVars, channelVars
    <2>2. CASE Exit
      BY <1>1, <2>2 DEF Exit, channelVars
    <2>3. CASE \E n \in Msg : Producer(n)
      BY <1>1, <2>3 DEF Producer, Stamp, Insert, InsertRaises, channelVars, IInv, TypeOK
    <2>4. CASE Fetch
      <3>1. PICK k \in 0..Batch : \E s \in [1..k -> Due] :
                rows' = [n \in Msg |->
                    IF \E i \in 1..k : s[i] = n THEN "delivering" ELSE rows[n]]
        BY <2>4 DEF Fetch
      <3>2. rows'[m] = rows[m]
        BY <1>1, <3>1 DEF Due
      <3> QED BY <3>2, <2>4 DEF Fetch, channelVars
    <2>5. CASE Send \/ MarkDelivered \/ MarkFailed
      <3>1. batch # <<>>
        BY <1>1, <2>5, BusyHasBatch DEF Send, MarkDelivered, MarkFailed, Busy
      <3>2. m # Head(batch)
        BY <1>1, <3>1, FirstIsClaimed
      <3> QED BY <1>1, <2>5, <3>2 DEF Send, MarkDelivered, MarkFailed,
            rowVars, channelVars, IInv, TypeOK
    <2> QED BY <1>1, <2>1, <2>2, <2>3, <2>4, <2>5 DEF Next, Worker
  <1>2. ASSUME IInv, [Next]_vars, NEW m \in Msg, rows[m] \in Settled
        PROVE  Kept(m)
    BY <1>1, <1>2 DEF vars, rowVars, channelVars
  <1>3. IInv /\ [Next]_vars =>
            [\A m \in Msg : rows[m] \in Settled =>
                /\ rows'[m] = rows[m]
                /\ sends'[m] = sends[m]]_vars
    BY <1>2
  <1> QED BY <1>3, Invariance, PTL DEF Spec, SettledForGood

-----------------------------------------------------------------------------
(* A row stays in delivering without being handled only after the process  *)
(* ended or a write failed.                                                *)
THEOREM Remembering == Spec => []NoneForgotten
  <1> USE DEF vars, rowVars, producerVars, workerVars, channelVars, faultVars
  <1> DEFINE Known(m) == rows[m] = "delivering" => InBatch(m) \/ exits + errors > 0
  <1>1. Init => NoneForgotten
    BY DEF Init, NoneForgotten
  <1>2. ASSUME IInv, IInv', NoneForgotten, [Next]_vars, NEW m \in Msg,
               rows'[m] = "delivering", ~(exits' + errors' > 0)
        PROVE  InBatch(m)'
    <2>0. /\ exits \in Nat /\ errors \in Nat /\ exits' \in Nat /\ errors' \in Nat
          /\ batch \in Seq(Msg)
          /\ rows \in [Msg -> NoRow \cup Settled \cup {"pending", "delivering"}]
      BY <1>2 DEF IInv, TypeOK
    <2>1. exits' = 0 /\ errors' = 0
      <3>1. ~(exits' + errors' > 0)
        BY <1>2
      <3>2. exits' \in Nat /\ errors' \in Nat
        BY <2>0
      <3>3. \A x, y \in Nat : ~(x + y > 0) => x = 0 /\ y = 0
        BY SMT
      <3> QED BY <3>1, <3>2, <3>3
    <2>2. CASE rows' = rows /\ batch' = batch /\ exits' = exits /\ errors' = errors
      BY <1>2, <2>2 DEF NoneForgotten, InBatch
    <2>3. CASE Start \/ Stop \/ Tick \/ Loop \/ Send \/ UNCHANGED vars
      BY <2>2, <2>3 DEF Start, Stop, Tick, Loop, Send
    <2>4. CASE FetchRaises \/ MarkDeliveredRaises \/ MarkFailedRaises
      BY <2>0, <2>1, <2>4, SMT DEF FetchRaises, MarkDeliveredRaises, MarkFailedRaises, Raises
    <2>5. CASE Exit
      BY <2>0, <2>1, <2>5, SMT DEF Exit
    <2>6. CASE \E n \in Msg : Producer(n)
      <3>1. PICK n \in Msg : Stamp(n) \/ Insert(n) \/ InsertRaises(n)
        BY <2>6 DEF Producer
      <3>2. ~InsertRaises(n)
        BY <2>0, <2>1, SMT DEF InsertRaises, Raises
      <3>3. \E st \in {"stamped", "pending"} : rows' = [rows EXCEPT ![n] = st]
        BY <3>1, <3>2 DEF Stamp, Insert
      <3>4. rows[m] = "delivering"
        BY <1>2, <2>0, <3>3
      <3>5. batch' = batch /\ exits' = exits /\ errors' = errors
        BY <3>1, <3>2 DEF Stamp, Insert
      <3> QED BY <1>2, <3>4, <3>5 DEF NoneForgotten, InBatch
    <2>7. CASE Fetch
      <3>1. PICK k \in 0..Batch : \E s \in [1..k -> Due] :
                /\ batch' = s
                /\ rows' = [n \in Msg |->
                    IF \E i \in 1..k : s[i] = n THEN "delivering" ELSE rows[n]]
        BY <2>7 DEF Fetch
      <3>2. PICK s \in [1..k -> Due] :
                /\ batch' = s
                /\ rows' = [n \in Msg |->
                    IF \E i \in 1..k : s[i] = n THEN "delivering" ELSE rows[n]]
        BY <3>1
      <3>3. exits' = exits /\ errors' = errors /\ pc = "fetch"
        BY <2>7 DEF Fetch
      <3>4. batch = <<>>
        BY <1>2, <3>3 DEF IInv, HeadSent, Busy
      <3>5. ~InBatch(m)
        BY <3>4, EmptySeq, SMT DEF InBatch
      <3>6. rows[m] # "delivering"
        BY <1>2, <3>3, <3>5 DEF NoneForgotten
      <3>7. \E i \in 1..k : s[i] = m
        BY <1>2, <3>2, <3>6
      <3>8. DOMAIN s = 1..k
        OBVIOUS
      <3> QED BY <3>2, <3>7, <3>8 DEF InBatch
    <2>8. CASE MarkDelivered \/ MarkFailed
      <3>1. batch # <<>>
        BY <1>2, <2>8, BusyHasBatch DEF MarkDelivered, MarkFailed, Busy
      <3>2. Head(batch) = batch[1] /\ batch[1] \in Msg
        BY <1>2, <3>1, FirstIsClaimed
      <3>3. /\ \E st \in {"delivered", "pending", "dlq"} : rows' = [rows EXCEPT ![batch[1]] = st]
            /\ batch' = Tail(batch) /\ exits' = exits /\ errors' = errors
        BY <2>8, <3>2 DEF MarkDelivered, MarkFailed, NextRow
      <3>4. m # batch[1] /\ rows[m] = "delivering"
        BY <1>2, <2>0, <3>2, <3>3
      <3>5. InBatch(m)
        BY <1>2, <3>3, <3>4 DEF NoneForgotten
      <3>6. PICK i \in DOMAIN batch : batch[i] = m
        BY <3>5 DEF InBatch
      <3>7. i \in 1..Len(batch) /\ i # 1
        BY <2>0, <3>4, <3>6, LenProperties
      <3>8. /\ Len(batch) \in Nat \ {0} /\ Len(Tail(batch)) = Len(batch) - 1
            /\ \A j \in 1..Len(Tail(batch)) : Tail(batch)[j] = batch[j + 1]
            /\ Tail(batch) \in Seq(Msg)
        BY <2>0, <3>1, BatchFacts
      <3>9. i - 1 \in 1..Len(Tail(batch)) /\ (i - 1) + 1 = i
        BY <3>7, <3>8, SMT
      <3>10. Tail(batch)[i - 1] = m
        BY <3>6, <3>8, <3>9
      <3>11. DOMAIN Tail(batch) = 1..Len(Tail(batch))
        BY <3>8, LenProperties
      <3> QED BY <3>3, <3>9, <3>10, <3>11 DEF InBatch
    <2> QED BY <1>2, <2>3, <2>4, <2>5, <2>6, <2>7, <2>8 DEF Next, Worker
  <1>3. IInv /\ IInv' /\ NoneForgotten /\ [Next]_vars => NoneForgotten'
    BY <1>2 DEF NoneForgotten
  <1> QED BY <1>1, <1>3, Invariance, PTL DEF Spec

(* What the rows say of their messages is what the channel did with them.  *)
THEOREM Telling == Spec => []RowsTell
  BY Counting, Delivering, Remembering, PTL DEF RowsTell

-----------------------------------------------------------------------------
(* The order of the first tries.                                           *)

(* n was tried, or its row was forgotten: nobody need wait for it.         *)
Ahead(n) == sends[n] > 0 \/ (rows[n] = "delivering" /\ ~InBatch(n))

(* Stamps count the calls of enqueue, so a row that is there when one is   *)
(* taken has a smaller one; and what was never tried does not back off.    *)
Stamped == {m \in Msg : stamp[m] > 0}
Ranked ==
    /\ \A m \in Msg : stamp[m] = 0 <=> rows[m] = "new"
    /\ \A m \in Msg : stamp[m] <= Cardinality(Stamped)
    /\ \A m \in Msg : \A n \in earlier[m] : rows[n] \notin NoRow /\ stamp[n] < stamp[m]
FreshIsDue == \A m \in Msg : attempts[m] = 0 => wait[m] = 0

(* Whoever is tried, or waits in the batch, has those before it ahead.     *)
InTurn(m, n) ==
    /\ sends[m] > 0 => Ahead(n)
    /\ \A i \in 1..Len(batch) : batch[i] = m =>
          Ahead(n) \/ \E j \in 1..Len(batch) : j < i /\ batch[j] = n
AllInTurn == \A m \in Msg : \A n \in earlier[m] :
    Priority[n] = Priority[m] => InTurn(m, n)

OInv == Ranked /\ FreshIsDue /\ AllInTurn

(* A row that is there stays, and only a stamp ends "new".                 *)
LEMMA RowsStay ==
    ASSUME IInv, [Next]_vars, NEW m \in Msg
    PROVE  /\ rows[m] \notin NoRow => rows'[m] \notin NoRow
           /\ rows'[m] = "new" => rows[m] = "new"
           /\ rows[m] = "new" /\ rows'[m] # "new" => Stamp(m)
  <1> USE DEF vars, rowVars, producerVars, workerVars, channelVars, faultVars
  <1>0. rows \in [Msg -> NoRow \cup Settled \cup {"pending", "delivering"}]
    BY DEF IInv, TypeOK
  <1>1. CASE \/ Start \/ Stop \/ Tick \/ Loop \/ Send \/ FetchRaises
             \/ MarkDeliveredRaises \/ MarkFailedRaises \/ UNCHANGED vars
    <2>1. rows' = rows
      BY <1>1 DEF Start, Stop, Tick, Loop, Send, FetchRaises,
                  MarkDeliveredRaises, MarkFailedRaises
    <2> QED BY <2>1
  <1>2. CASE Exit
    BY <1>0, <1>2 DEF Exit, NoRow
  <1>3. CASE \E k \in Msg : Producer(k)
    <2>1. PICK k \in Msg : Stamp(k) \/ Insert(k) \/ InsertRaises(k)
      BY <1>3 DEF Producer
    <2>2. CASE Stamp(k)
      BY <1>0, <2>2 DEF Stamp, NoRow
    <2>3. CASE Insert(k) \/ InsertRaises(k)
      BY <1>0, <2>3 DEF Insert, InsertRaises, NoRow
    <2> QED BY <2>1, <2>2, <2>3
  <1>4. CASE Fetch
    <2>1. PICK k \in 0..Batch : \E s \in [1..k -> Due] :
              rows' = [n \in Msg |->
                  IF \E i \in 1..k : s[i] = n THEN "delivering" ELSE rows[n]]
      BY <1>4 DEF Fetch
    <2>2. PICK s \in [1..k -> Due] :
              rows' = [n \in Msg |->
                  IF \E i \in 1..k : s[i] = n THEN "delivering" ELSE rows[n]]
      BY <2>1
    <2>3. \A i \in 1..k : s[i] = m => rows[m] = "pending"
      BY DEF Due
    <2>4. rows'[m] = rows[m] \/ (rows[m] = "pending" /\ rows'[m] = "delivering")
      BY <2>2, <2>3
    <2> QED BY <2>4 DEF NoRow
  <1>5. CASE MarkDelivered \/ MarkFailed
    <2>1. batch # <<>>
      BY <1>5, BusyHasBatch DEF MarkDelivered, MarkFailed, Busy
    <2>2. rows[Head(batch)] = "delivering"
      BY <2>1, FirstIsClaimed
    <2>3. \E st \in {"delivered", "pending", "dlq"} :
              rows' = [rows EXCEPT ![Head(batch)] = st]
      BY <1>5 DEF MarkDelivered, MarkFailed
    <2> QED BY <1>0, <2>2, <2>3 DEF NoRow
  <1> QED BY <1>1, <1>2, <1>3, <1>4, <1>5 DEF Next, Worker

(* Only a producer's step takes a stamp.                                   *)
LEMMA StampsStay ==
    ASSUME [Next]_vars, ~\E k \in Msg : Stamp(k)
    PROVE  stamp' = stamp /\ earlier' = earlier
  BY DEF Next, Worker, Producer, Start, Stop, Exit, Insert, InsertRaises, Loop, Fetch,
         FetchRaises, Send, MarkDelivered, MarkDeliveredRaises, MarkFailed,
         MarkFailedRaises, Tick, vars, producerVars

(* A new stamp is larger than those there are.                             *)
LEMMA RankStep ==
    ASSUME IInv, Ranked, [Next]_vars
    PROVE  Ranked'
  <1>0. /\ stamp \in [Msg -> Nat] /\ earlier \in [Msg -> SUBSET Msg]
        /\ IsFiniteSet(Stamped) /\ Cardinality(Stamped) \in Nat
    BY FiniteMsg, FS_Subset, FS_CardinalityType DEF IInv, TypeOK, Stamped
  <1>1. CASE ~\E k \in Msg : Stamp(k)
    <2>1. stamp' = stamp /\ earlier' = earlier /\ Stamped' = Stamped
      BY <1>1, StampsStay DEF Stamped
    <2>2. \A m \in Msg : stamp'[m] = 0 <=> rows'[m] = "new"
      BY <1>1, <2>1, RowsStay DEF Ranked
    <2>3. \A m \in Msg : \A n \in earlier'[m] : rows'[n] \notin NoRow
      BY <1>0, <2>1, RowsStay DEF Ranked
    <2> QED BY <2>1, <2>2, <2>3 DEF Ranked
  <1>2. CASE \E k \in Msg : Stamp(k)
    <2>1. PICK k \in Msg : Stamp(k)
      BY <1>2
    <2>2. /\ rows[k] = "new" /\ rows' = [rows EXCEPT ![k] = "stamped"]
          /\ stamp' = [stamp EXCEPT ![k] = Cardinality(Stamped) + 1]
          /\ earlier' = [earlier EXCEPT ![k] = {n \in Msg : rows[n] \notin NoRow}]
      BY <2>1 DEF Stamp, Stamped
    <2>3. Stamped' = Stamped \cup {k} /\ k \notin Stamped
      BY <1>0, <2>2 DEF Ranked, Stamped
    <2>4. Cardinality(Stamped') = Cardinality(Stamped) + 1
      BY <1>0, <2>3, FS_AddElement
    <2>5. \A m \in Msg : stamp'[m] = 0 <=> rows'[m] = "new"
      BY <1>0, <2>2 DEF IInv, TypeOK, Ranked
    <2>6. \A m \in Msg : stamp'[m] <= Cardinality(Stamped')
      BY <1>0, <2>2, <2>4 DEF Ranked
    <2>7. ASSUME NEW m \in Msg, NEW n \in earlier'[m]
          PROVE  rows'[n] \notin NoRow /\ stamp'[n] < stamp'[m]
      <3>1. n \in Msg /\ rows[n] \notin NoRow /\ n # k
        BY <1>0, <2>2, <2>7 DEF Ranked, NoRow
      <3>2. rows'[n] = rows[n] /\ stamp'[n] = stamp[n]
        BY <1>0, <2>2, <3>1 DEF IInv, TypeOK
      <3>3. CASE m = k
        BY <1>0, <2>2, <3>1, <3>2, <3>3 DEF Ranked
      <3>4. CASE m # k
        BY <1>0, <2>2, <2>7, <3>1, <3>2, <3>4 DEF Ranked
      <3> QED BY <3>3, <3>4
    <2> QED BY <2>5, <2>6, <2>7 DEF Ranked
  <1> QED BY <1>1, <1>2

(* Only a failure starts a backoff.                                        *)
LEMMA FreshStep ==
    ASSUME IInv, FreshIsDue, [Next]_vars
    PROVE  FreshIsDue'
  <1> USE DEF vars, rowVars, producerVars, workerVars, channelVars, faultVars
  <1>0. attempts \in [Msg -> Nat] /\ wait \in [Msg -> Nat]
    BY DEF IInv, TypeOK
  <1>1. CASE Tick
    BY <1>0, <1>1 DEF Tick, FreshIsDue
  <1>2. CASE MarkFailed
    <2>1. batch # <<>>
      BY <1>2, BusyHasBatch DEF MarkFailed, Busy
    <2>2. Head(batch) \in Msg
      BY <2>1, FirstIsClaimed
    <2>3. attempts' = [attempts EXCEPT ![Head(batch)] = attempts[Head(batch)] + 1]
          /\ \A m \in Msg : m # Head(batch) => wait'[m] = wait[m]
      BY <1>0, <1>2, <2>2 DEF MarkFailed
    <2> QED BY <1>0, <2>2, <2>3 DEF FreshIsDue
  <1>3. CASE ~Tick /\ ~MarkFailed
    <2>1. attempts' = attempts /\ wait' = wait
      BY <1>3 DEF Next, Worker, Producer, Start, Stop, Exit, Stamp, Insert, InsertRaises,
           Loop, Fetch, FetchRaises, Send, MarkDelivered, MarkDeliveredRaises,
           MarkFailedRaises
    <2> QED BY <2>1 DEF FreshIsDue
  <1> QED BY <1>1, <1>2, <1>3

(* Being ahead is for good: a row in delivering is nobody's but the        *)
(* worker's.                                                               *)
LEMMA AheadStays ==
    ASSUME IInv, [Next]_vars, NEW n \in Msg, Ahead(n)
    PROVE  Ahead(n)'
  <1> USE DEF vars, rowVars, producerVars, workerVars, channelVars, faultVars
  <1>0. /\ rows \in [Msg -> NoRow \cup Settled \cup {"pending", "delivering"}]
        /\ sends \in [Msg -> Nat] /\ batch \in Seq(Msg)
    BY DEF IInv, TypeOK
  <1>1. CASE UNCHANGED <<rows, sends, batch>>
    BY <1>1 DEF Ahead, InBatch
  <1>2. CASE Start \/ Stop \/ Tick \/ Loop \/ FetchRaises \/ MarkDeliveredRaises
             \/ UNCHANGED vars
    BY <1>1, <1>2 DEF Start, Stop, Tick, Loop, FetchRaises, MarkDeliveredRaises
  <1>3. CASE Exit \/ MarkFailedRaises
    <2>1. sends' = sends /\ batch' \in {<<>>, batch}
          /\ (rows[n] = "delivering" => rows'[n] = "delivering")
      BY <1>3 DEF Exit, MarkFailedRaises
    <2>2. ~InBatch(n) => ~InBatch(n)'
      BY <2>1, EmptySeq DEF InBatch
    <2> QED BY <2>1, <2>2 DEF Ahead
  <1>4. CASE \E k \in Msg : Producer(k)
    <2>1. PICK k \in Msg : Stamp(k) \/ Insert(k) \/ InsertRaises(k)
      BY <1>4 DEF Producer
    <2>2. sends' = sends /\ batch' = batch /\ rows[k] \in NoRow
          /\ \E st \in {"stamped", "pending", "refused"} : rows' = [rows EXCEPT ![k] = st]
      BY <2>1 DEF Stamp, Insert, InsertRaises, NoRow
    <2>3. rows[n] = "delivering" => rows'[n] = "delivering"
      BY <1>0, <2>2 DEF NoRow
    <2> QED BY <2>2, <2>3 DEF Ahead, InBatch
  <1>5. CASE Fetch
    <2>1. PICK k \in 0..Batch : \E s \in [1..k -> Due] :
              /\ batch' = s
              /\ rows' = [m \in Msg |->
                  IF \E i \in 1..k : s[i] = m THEN "delivering" ELSE rows[m]]
      BY <1>5 DEF Fetch
    <2>2. PICK s \in [1..k -> Due] :
              /\ batch' = s
              /\ rows' = [m \in Msg |->
                  IF \E i \in 1..k : s[i] = m THEN "delivering" ELSE rows[m]]
      BY <2>1
    <2>3. sends' = sends
      BY <1>5 DEF Fetch
    <2>4. ASSUME rows[n] = "delivering" PROVE rows'[n] = "delivering" /\ ~InBatch(n)'
      <3>1. \A i \in 1..k : s[i] # n
        BY <2>4 DEF Due
      <3>2. DOMAIN s = 1..k
        OBVIOUS
      <3> QED BY <2>2, <2>4, <3>1, <3>2 DEF InBatch
    <2> QED BY <2>3, <2>4 DEF Ahead
  <1>6. CASE Send
    <2>1. Head(batch) \in Msg
      BY <1>6, BusyHasBatch, FirstIsClaimed DEF Send, Busy
    <2>2. sends[n] > 0 => sends'[n] > 0
      BY <1>0, <1>6, <2>1 DEF Send
    <2>3. rows' = rows /\ batch' = batch
      BY <1>6 DEF Send
    <2> QED BY <2>2, <2>3 DEF Ahead, InBatch
  <1>7. CASE MarkDelivered \/ MarkFailed
    <2>1. batch # <<>>
      BY <1>7, BusyHasBatch DEF MarkDelivered, MarkFailed, Busy
    <2>2. Head(batch) = batch[1] /\ batch[1] \in Msg
      BY <2>1, FirstIsClaimed
    <2>3. /\ \E st \in {"delivered", "pending", "dlq"} : rows' = [rows EXCEPT ![batch[1]] = st]
          /\ batch' = Tail(batch) /\ sends' = sends
      BY <1>7, <2>2 DEF MarkDelivered, MarkFailed, NextRow
    <2>4. /\ Len(batch) \in Nat \ {0} /\ Len(Tail(batch)) = Len(batch) - 1
          /\ \A j \in 1..Len(Tail(batch)) : Tail(batch)[j] = batch[j + 1]
          /\ Tail(batch) \in Seq(Msg)
      BY <1>0, <2>1, BatchFacts
    <2>5. DOMAIN batch = 1..Len(batch) /\ DOMAIN Tail(batch) = 1..Len(Tail(batch))
      BY <1>0, <2>4, LenProperties
    <2>6. \A j \in 1..Len(Tail(batch)) : j + 1 \in 1..Len(batch)
      BY <2>4, SMT
    <2>7. ASSUME ~InBatch(n) PROVE ~InBatch(n)' /\ n # batch[1]
      <3>1. 1 \in 1..Len(batch)
        BY <2>4, SMT
      <3> QED BY <2>3, <2>4, <2>5, <2>6, <2>7, <3>1 DEF InBatch
    <2> QED BY <1>0, <2>2, <2>3, <2>7 DEF Ahead
  <1> QED BY <1>2, <1>3, <1>4, <1>5, <1>6, <1>7 DEF Next, Worker

(* A batch is taken in order, and nobody before it is passed over.         *)
LEMMA FetchInTurn ==
    ASSUME IInv, OInv, Fetch, NEW m \in Msg, NEW n \in earlier[m],
           Priority[n] = Priority[m], NEW i \in 1..Len(batch'), batch'[i] = m
    PROVE  Ahead(n)' \/ \E j \in 1..Len(batch') : j < i /\ batch'[j] = n
  <1>0. n \in Msg /\ stamp[n] < stamp[m] /\ rows[n] \notin NoRow
        /\ stamp[n] \in Nat /\ stamp[m] \in Nat /\ Priority[n] \in Int
    BY Sizes DEF IInv, TypeOK, OInv, Ranked
  <1>1. PICK k \in 0..Batch : \E s \in [1..k -> Due] : Selects(s, Due) /\ batch' = s
    BY DEF Fetch
  <1>2. PICK s \in [1..k -> Due] : Selects(s, Due) /\ batch' = s
    BY <1>1
  <1>3. k \in Nat
    BY Sizes, SMT
  <1>4. DOMAIN s = 1..k /\ Len(s) = k
    BY <1>3, SMT
  <1>5. SUFFICES ASSUME ~Ahead(n)' PROVE \E j \in 1..k : j < i /\ s[j] = n
    BY <1>2, <1>4
  <1>6. ~Ahead(n)
    <2>1. [Next]_vars
      BY DEF Next, Worker
    <2> QED BY <1>5, <1>0, <2>1, AheadStays
  <1>7. n \in Due
    <2>1. batch = <<>>
      BY DEF IInv, HeadSent, Fetch, Busy
    <2>2. ~InBatch(n)
      BY <2>1, EmptySeq, SMT DEF InBatch
    <2>3. ~(sends[n] > 0) /\ rows[n] # "delivering"
      BY <1>6, <2>2 DEF Ahead
    <2>4. sends[n] \in Nat /\ attempts[n] \in Nat /\ Tries[n] \in Nat \ {0}
          /\ rows[n] \in NoRow \cup Settled \cup {"pending", "delivering"}
      BY <1>0, TriesPositive DEF IInv, TypeOK
    <2>5. RowHonest(n)
      BY <1>0 DEF IInv, RowsHonest
    <2>6. rows[n] = "pending" /\ attempts[n] = 0
      BY <1>0, <2>3, <2>4, <2>5 DEF RowHonest, Settled
    <2> QED BY <1>0, <2>6 DEF Due, OInv, FreshIsDue
  <1>8. ~Before(m, n)
    BY <1>0, SMT DEF Before
  <1>9. i \in DOMAIN s /\ s[i] = m
    BY <1>2, <1>4
  <1>10. PICK j \in 1..k : s[j] = n
    <2>1. n \in {s[x] : x \in DOMAIN s}
      BY <1>2, <1>7, <1>8, <1>9 DEF Selects
    <2> QED BY <1>4, <2>1
  <1>11. ~(i < j) /\ i # j
    <2>1. ~(i < j)
      BY <1>2, <1>4, <1>8, <1>9, <1>10 DEF Selects
    <2>2. m # n
      BY <1>0, SMT
    <2> QED BY <1>9, <1>10, <2>1, <2>2
  <1>12. j < i
    BY <1>3, <1>4, <1>9, <1>11, SMT
  <1> QED BY <1>10, <1>12

(* Every step keeps the turns.                                             *)
LEMMA TurnStep ==
    ASSUME IInv, OInv, [Next]_vars
    PROVE  AllInTurn'
  <1> USE DEF vars, rowVars, producerVars, workerVars, channelVars, faultVars
  <1> SUFFICES ASSUME NEW m \in Msg, NEW n \in earlier'[m], Priority[n] = Priority[m]
               PROVE  InTurn(m, n)'
    BY DEF AllInTurn
  <1>0. /\ earlier \in [Msg -> SUBSET Msg] /\ batch \in Seq(Msg)
        /\ rows \in [Msg -> NoRow \cup Settled \cup {"pending", "delivering"}]
        /\ sends \in [Msg -> Nat]
    BY DEF IInv, TypeOK
  <1>1. CASE Stamp(m)
    <2>1. rows[m] = "new" /\ sends' = sends /\ batch' = batch
      BY <1>1 DEF Stamp
    <2>2. sends[m] = 0
      BY <2>1 DEF IInv, RowsHonest, RowHonest, NoRow
    <2>3. \A i \in 1..Len(batch) : batch[i] # m
      BY <2>1 DEF IInv, BatchClaimed
    <2> QED BY <2>1, <2>2, <2>3 DEF InTurn
  <1>2. CASE ~Stamp(m)
    <2>1. n \in earlier[m] /\ n \in Msg
      <3>1. CASE \E k \in Msg : Stamp(k)
        BY <1>0, <1>2, <3>1 DEF Stamp
      <3>2. CASE ~\E k \in Msg : Stamp(k)
        BY <1>0, <3>2, StampsStay
      <3> QED BY <3>1, <3>2
    <2>2. InTurn(m, n)
      BY <2>1 DEF OInv, AllInTurn
    <2>3. Ahead(n) => Ahead(n)'
      BY <2>1, AheadStays
    <2>4. CASE sends' = sends /\ batch' \in {<<>>, batch}
      BY <2>2, <2>3, <2>4, EmptySeq DEF InTurn
    <2>5. CASE Fetch
      <3>1. sends' = sends
        BY <2>5 DEF Fetch
      <3>2. \A i \in 1..Len(batch') : batch'[i] = m =>
                Ahead(n)' \/ \E j \in 1..Len(batch') : j < i /\ batch'[j] = n
        BY <2>1, <2>5, FetchInTurn
      <3> QED BY <2>2, <2>3, <3>1, <3>2 DEF InTurn
    <2>6. CASE Send
      <3>1. Head(batch) = batch[1] /\ 1 \in 1..Len(batch) /\ Len(batch) \in Nat
        BY <1>0, <2>6, BatchFacts, BusyHasBatch, SMT DEF Send, Busy
      <3>2. batch' = batch /\ (m # batch[1] => sends'[m] = sends[m])
        BY <1>0, <2>6, <3>1 DEF Send
      <3>3. m = batch[1] => Ahead(n)
        BY <2>2, <3>1, SMT DEF InTurn
      <3> QED BY <2>2, <2>3, <3>2, <3>3 DEF InTurn
    <2>7. CASE MarkDelivered \/ MarkFailed
      <3>1. batch # <<>> /\ pc \in Busy \ {"send"}
        BY <2>7, BusyHasBatch DEF MarkDelivered, MarkFailed, Busy
      <3>2. sends' = sends /\ batch' = Tail(batch)
        BY <2>7 DEF MarkDelivered, MarkFailed, NextRow
      <3>3. /\ Len(batch) \in Nat \ {0} /\ Len(batch') = Len(batch) - 1
            /\ batch[1] \in Msg
            /\ \A j \in 1..Len(batch') : batch'[j] = batch[j + 1]
        BY <1>0, <3>1, <3>2, BatchFacts
      <3>4. batch[1] = n => Ahead(n)
        <4>1. sends[batch[1]] = attempts[batch[1]] + 1
          BY <3>1 DEF IInv, HeadSent
        <4>2. attempts[batch[1]] \in Nat
          BY <3>3 DEF IInv, TypeOK
        <4> QED BY <4>1, <4>2, SMT DEF Ahead
      <3>5. ASSUME NEW i \in 1..Len(batch'), batch'[i] = m
            PROVE  Ahead(n)' \/ \E j \in 1..Len(batch') : j < i /\ batch'[j] = n
        <4>1. i + 1 \in 1..Len(batch) /\ batch[i + 1] = m /\ i \in Nat
          BY <3>3, <3>5, SMT
        <4>2. CASE Ahead(n)
          BY <2>3, <4>2
        <4>3. CASE ~Ahead(n)
          <5>1. PICK j \in 1..Len(batch) : j < i + 1 /\ batch[j] = n
            BY <2>2, <4>1, <4>3 DEF InTurn
          <5>2. j # 1
            BY <3>4, <4>3, <5>1
          <5>3. j - 1 \in 1..Len(batch') /\ j - 1 < i /\ (j - 1) + 1 = j
            BY <3>3, <4>1, <5>1, <5>2, SMT
          <5>4. batch'[j - 1] = n
            BY <3>3, <5>1, <5>3
          <5> QED BY <5>3, <5>4
        <4> QED BY <4>2, <4>3
      <3> QED BY <2>2, <2>3, <3>2, <3>5 DEF InTurn
    <2>8. CASE ~(Fetch \/ Send \/ MarkDelivered \/ MarkFailed)
      <3>1. sends' = sends /\ batch' \in {<<>>, batch}
        BY <2>8 DEF Next, Worker, Producer, Start, Stop, Exit, Stamp, Insert,
             InsertRaises, Loop, FetchRaises, MarkDeliveredRaises, MarkFailedRaises, Tick
      <3> QED BY <2>4, <3>1
    <2> QED BY <2>5, <2>6, <2>7, <2>8
  <1> QED BY <1>1, <1>2

(* Of two messages of one priority, the one that was there first is tried  *)
(* first, for any batch size, priorities, producers, crashes and errors.   *)
THEOREM Ordering == Spec => []FirstTriesInOrder
  <1>1. Init => OInv
    <2> SUFFICES ASSUME Init PROVE OInv
      OBVIOUS
    <2>1. Ranked
      <3>1. Stamped = {}
        BY DEF Init, Stamped
      <3> QED BY <3>1, FS_EmptySet, SMT DEF Init, Ranked
    <2>2. FreshIsDue /\ AllInTurn
      BY DEF Init, FreshIsDue, AllInTurn
    <2> QED BY <2>1, <2>2 DEF OInv
  <1>2. IInv /\ OInv /\ [Next]_vars => OInv'
    BY RankStep, FreshStep, TurnStep DEF OInv
  <1>3. IInv /\ OInv => FirstTriesInOrder
    BY DEF OInv, AllInTurn, InTurn, Ahead, FirstTriesInOrder
  <1> QED BY <1>1, <1>2, <1>3, Invariance, PTL DEF Spec

-----------------------------------------------------------------------------
(* The refinement: the step of one message, seen from outside.             *)
LEMMA PhaseMoves ==
    ASSUME NEW h \in Msg, NEW from, NEW to, Phase(h) = from, Phase(h)' = to,
           \A m \in Msg : m # h => Phase(m)' = Phase(m)
    PROVE  Promise!Move(h, from, to)
  <1>1. [m \in Msg |-> Phase(m)]' = [m \in Msg |-> Phase(m)'] 
    OBVIOUS
  <1> QED BY <1>1 DEF Promise!Move

(* A row whose columns stay keeps its phase.                               *)
LEMMA PhaseStays ==
    ASSUME NEW m \in Msg, rows'[m] = rows[m], sends'[m] = sends[m],
           attempts'[m] = attempts[m]
    PROVE  Phase(m)' = Phase(m)
  BY DEF Phase

(* The phase that the columns of a row tell.                               *)
LEMMA PhaseOf ==
    ASSUME NEW m \in Msg
    PROVE  /\ rows[m] \in NoRow => Phase(m) = "unknown"
           /\ rows[m] = "pending" => Phase(m) = "queued"
           /\ rows[m] = "delivering" /\ sends[m] = attempts[m] => Phase(m) = "claimed"
           /\ rows[m] = "delivering" /\ sends[m] # attempts[m] => Phase(m) = "sent"
           /\ rows[m] = "delivered" => Phase(m) = "delivered"
           /\ rows[m] = "dlq" => Phase(m) = "dead"
  BY DEF Phase, NoRow

(* The outbox implements the delivery service: every step of the worker,   *)
(* the producers and the process is a step of Delivery or none.            *)
THEOREM Implementation == Spec => Refines
  <1> USE DEF rowVars, producerVars, workerVars, channelVars, faultVars
  <1>1. Init => Promise!Init
    BY PhaseOf DEF Init, Promise!Init, NoRow
  <1>2. ASSUME IInv, IInv', [Next]_vars
        PROVE  [Promise!Next]_(Promise!vars)
    <2>0. rows \in [Msg -> NoRow \cup Settled \cup {"pending", "delivering"}]
          /\ sends \in [Msg -> Nat] /\ attempts \in [Msg -> Nat] /\ accepted \in [Msg -> Nat]
      BY <1>2 DEF IInv, TypeOK
    <2> DEFINE Stays == /\ \A m \in Msg : Phase(m)' = Phase(m)
                        /\ UNCHANGED <<sends, accepted>>
    <2>1. ASSUME Stays PROVE UNCHANGED Promise!vars
      BY <2>1 DEF Promise!vars
    <2>2. CASE UNCHANGED <<rows, attempts, sends, accepted>>
      BY <2>2, <2>1, PhaseStays
    <2>3. CASE \/ Start \/ Stop \/ Tick \/ Loop \/ FetchRaises
               \/ MarkDeliveredRaises \/ MarkFailedRaises \/ UNCHANGED vars
      BY <2>2, <2>3 DEF Start, Stop, Tick, Loop, FetchRaises, MarkDeliveredRaises,
         MarkFailedRaises, vars
    <2>4. CASE Exit
      <3>1. UNCHANGED <<attempts, sends, accepted>>
        BY <2>4 DEF Exit
      <3>2. ASSUME NEW m \in Msg PROVE Phase(m)' = Phase(m)
        <4>1. rows'[m] = rows[m] \/ (rows[m] \in NoRow /\ rows'[m] \in NoRow)
          BY <2>4 DEF Exit, NoRow
        <4> QED BY <4>1, <3>1, PhaseStays DEF Phase, NoRow
      <3> QED BY <3>1, <3>2, <2>1
    <2>5. ASSUME NEW n \in Msg, Producer(n) PROVE [Promise!Next]_(Promise!vars)
      <3>1. UNCHANGED <<attempts, sends, accepted>>
        BY <2>5 DEF Producer, Stamp, Insert, InsertRaises
      <3>2. ASSUME NEW m \in Msg, m # n PROVE Phase(m)' = Phase(m)
        <4>1. rows'[m] = rows[m]
          BY <2>5, <3>2, <2>0 DEF Producer, Stamp, Insert, InsertRaises
        <4> QED BY <4>1, <3>1, PhaseStays
      <3>3. Phase(n) = "unknown"
        BY <2>5, PhaseOf DEF Producer, Stamp, Insert, InsertRaises, NoRow
      <3>4. CASE Stamp(n) \/ InsertRaises(n)
        <4>1. Phase(n)' = "unknown"
          BY <2>0, <3>4 DEF Stamp, InsertRaises, NoRow, Phase
        <4> QED BY <4>1, <3>1, <3>2, <3>3, <2>1
      <3>5. CASE Insert(n)
        <4>1. Phase(n)' = "queued"
          BY <2>0, <3>5 DEF Insert, NoRow, Phase
        <4>2. Promise!Move(n, "unknown", "queued")
          BY <4>1, <3>2, <3>3, PhaseMoves
        <4> QED BY <4>2, <3>1 DEF Promise!Next, Promise!Enqueue
      <3> QED BY <2>5, <3>4, <3>5 DEF Producer
    <2>6. CASE Fetch
      <3>1. PICK k \in 0..Batch : \E s \in [1..k -> Due] :
                rows' = [n \in Msg |->
                    IF \E i \in 1..k : s[i] = n THEN "delivering" ELSE rows[n]]
        BY <2>6 DEF Fetch
      <3>2. PICK s \in [1..k -> Due] :
                rows' = [n \in Msg |->
                    IF \E i \in 1..k : s[i] = n THEN "delivering" ELSE rows[n]]
        BY <3>1
      <3> DEFINE M == {n \in Msg : \E i \in 1..k : s[i] = n}
      <3>3. UNCHANGED <<attempts, sends, accepted>>
        BY <2>6 DEF Fetch
      <3>4. ASSUME NEW m \in M PROVE Phase(m) = "queued" /\ Phase(m)' = "claimed"
        <4>1. m \in Msg /\ rows[m] = "pending" /\ rows'[m] = "delivering"
          BY <3>2 DEF Due
        <4>2. sends[m] = attempts[m]
          BY <4>1, <1>2 DEF IInv, RowsHonest, RowHonest
        <4> QED BY <4>1, <4>2, <3>3 DEF Phase, NoRow
      <3>5. ASSUME NEW m \in Msg \ M PROVE Phase(m)' = Phase(m)
        <4>1. rows'[m] = rows[m]
          BY <3>2
        <4> QED BY <4>1, <3>3, PhaseStays
      <3>6. M \in SUBSET Msg
        OBVIOUS
      <3> HIDE DEF M
      <3>7. Promise!Claim(M)
        BY <3>3, <3>4, <3>5, <3>6 DEF Promise!Claim
      <3> QED BY <3>6, <3>7 DEF Promise!Next
    <2>7. CASE Send \/ MarkDelivered \/ MarkFailed
      <3>1. batch # <<>>
        BY <1>2, <2>7, BusyHasBatch DEF Send, MarkDelivered, MarkFailed, Busy
      <3>0. PICK h \in Msg : h = Head(batch)
        BY <1>2, <3>1, FirstIsClaimed
      <3>2. h = Head(batch) /\ h = batch[1] /\ rows[h] = "delivering"
            /\ 1 \in 1..Len(batch)
        BY <1>2, <3>0, <3>1, FirstIsClaimed
      <3>3. ASSUME NEW m \in Msg, m # h PROVE Phase(m)' = Phase(m)
        <4>1. rows'[m] = rows[m] /\ sends'[m] = sends[m] /\ attempts'[m] = attempts[m]
          BY <2>0, <2>7, <3>2, <3>3 DEF Send, MarkDelivered, MarkFailed
        <4> QED BY <4>1, PhaseStays
      <3>4. CASE Send
        <4>1. sends[h] = attempts[h]
          BY <1>2, <3>2, <3>4 DEF IInv, BatchClaimed, Send
        <4>2. sends' = [sends EXCEPT ![h] = @ + 1] /\ UNCHANGED <<rows, attempts>>
          BY <3>2, <3>4 DEF Send
        <4>3. sends'[h] = attempts[h] + 1 /\ sends'[h] # attempts[h]
          BY <2>0, <3>2, <4>1, <4>2, SMT
        <4>4. Phase(h) = "claimed" /\ Phase(h)' = "sent"
          BY <3>2, <4>1, <4>2, <4>3 DEF Phase, NoRow
        <4>5. Promise!Move(h, "claimed", "sent")
          BY <3>2, <3>3, <4>4, PhaseMoves
        <4>6. accepted' = [accepted EXCEPT ![h] = @ + 1] \/ UNCHANGED accepted
          BY <3>2, <3>4 DEF Send
        <4> QED BY <3>2, <4>2, <4>5, <4>6 DEF Promise!Next, Promise!Transmit
      <3>5. CASE MarkDelivered
        <4>1. sends[h] = attempts[h] + 1 /\ accepted[h] > 0
          BY <1>2, <3>2, <3>5 DEF IInv, HeadSent, Busy, MarkDelivered
        <4>2. sends[h] # attempts[h]
          BY <2>0, <3>2, <4>1, SMT
        <4>3. rows'[h] = "delivered" /\ UNCHANGED <<sends, accepted>>
          BY <2>0, <3>2, <3>5 DEF MarkDelivered
        <4>4. Phase(h) = "sent" /\ Phase(h)' = "delivered"
          BY <3>2, <4>2, <4>3 DEF Phase, NoRow
        <4>5. Promise!Move(h, "sent", "delivered")
          BY <3>2, <3>3, <4>4, PhaseMoves
        <4> QED BY <3>2, <4>1, <4>3, <4>5 DEF Promise!Next, Promise!Deliver
      <3>6. CASE MarkFailed
        <4>1. sends[h] = attempts[h] + 1
          BY <1>2, <3>2, <3>6 DEF IInv, HeadSent, Busy, MarkFailed
        <4>2. sends[h] # attempts[h] /\ sends[h] \in Nat
          BY <2>0, <3>2, <4>1, SMT
        <4>3. UNCHANGED <<sends, accepted>> /\ rows'[h] \in {"dlq", "pending"}
              /\ attempts'[h] = sends[h]
          BY <2>0, <3>2, <3>6, <4>1 DEF MarkFailed
        <4>4. Phase(h) = "sent"
          BY <3>2, <4>2 DEF Phase, NoRow
        <4>5. RowHonest(h)'
          BY <1>2, <3>2 DEF IInv, RowsHonest
        <4>6. CASE rows'[h] = "dlq"
          <5>1. Phase(h)' = "dead"
            BY <4>6 DEF Phase, NoRow
          <5>2. Promise!Move(h, "sent", "dead")
            BY <3>2, <3>3, <4>4, <5>1, PhaseMoves
          <5>3. sends[h] >= Tries[h]
            BY <3>2, <4>2, <4>3, <4>5, <4>6, TriesPositive, SMT DEF RowHonest
          <5> QED BY <3>2, <4>3, <5>2, <5>3 DEF Promise!Next, Promise!GiveUp
        <4>7. CASE rows'[h] = "pending"
          <5>1. Phase(h)' = "queued"
            BY <4>7 DEF Phase, NoRow
          <5>2. Promise!Move(h, "sent", "queued")
            BY <3>2, <3>3, <4>4, <5>1, PhaseMoves
          <5>3. sends[h] < Tries[h]
            BY <3>2, <4>2, <4>3, <4>5, <4>7, TriesPositive, SMT DEF RowHonest
          <5> QED BY <3>2, <4>3, <5>2, <5>3 DEF Promise!Next, Promise!Retry
        <4> QED BY <4>3, <4>6, <4>7
      <3> QED BY <2>7, <3>4, <3>5, <3>6
    <2> QED BY <1>2, <2>3, <2>4, <2>5, <2>6, <2>7 DEF Next, Worker
  <1> QED BY <1>1, <1>2, Invariance, PTL DEF Spec, Refines, Promise!Spec

=============================================================================
