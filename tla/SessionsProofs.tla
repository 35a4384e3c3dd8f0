--------------------------- MODULE SessionsProofs ---------------------------
(***************************************************************************)
(* Theorems about Sessions, for any set of requests, jobs and casts: what  *)
(* opening and closing leave in the table of sessions, what becomes of the *)
(* execution locks, and what a shutdown leaves behind.                     *)
(***************************************************************************)
EXTENDS Sessions, SequenceTheorems, FiniteSetTheorems, TLAPS

(* Places of a thread that works on a record.                              *)
HasRec == {"activate", "reboot", "found", "warm", "enter", "check", "queue",
           "begin", "work"}

Records == 1..Len(recs)

(* A thread has the record it works on, and a record its row.              *)
Known ==
    /\ \A r \in Records : recs[r].sid \in 1..Len(row)
    /\ \A t \in Thread : pc[t] \in HasRec => rec[t] \in Records

(* The active sessions are different ones; one of which no execution and   *)
(* no close failed is reusable, and there is only one of those.            *)
Table ==
    /\ \A i, j \in 1..Len(active) :
          recs[active[i]].sid = recs[active[j]].sid => i = j
    /\ \A i, j \in 1..Len(active) :
          active[i] \notin failed /\ active[j] \notin failed => i = j
    /\ \A i \in 1..Len(active) :
          recs[active[i]].status = "completed" => active[i] \in failed
    /\ \A r \in Records : recs[r].status = "error" => r \in failed

(* A lock that is held is held by an execution, or of a session closed, or *)
(* of one whose execution raised out of its try.                           *)
Locks ==
    \A s \in held \ raised :
        \/ \E t \in Thread : pc[t] \in {"begin", "work"} /\ recs[rec[t]].sid = s
        \/ \E r \in Records : recs[r].sid = s /\ ~recs[r].inst

IInv == TypeOK /\ Known /\ Table /\ Locks

(* Who is closing a session has one to close.                              *)
Closing ==
    \A t \in Thread : pc[t] \in {"ask", "release", "drop"} => todo[t] # <<>>

-----------------------------------------------------------------------------
(* A status that is set, by a write that may raise, changes nothing else.  *)
Sets(r, st) == SetStatus(r, st) \/ SetStatusRaises(r, st)

LEMMA SetStatusFacts ==
    ASSUME NEW r \in Records, NEW st \in Statuses,
           recs \in Seq(Record), row \in Seq(Statuses),
           recs[r].sid \in 1..Len(row), Sets(r, st)
    PROVE  /\ recs' \in Seq(Record) /\ Len(recs') = Len(recs)
           /\ row' \in Seq(Statuses) /\ Len(row') = Len(row)
           /\ \A q \in Records :
                /\ recs'[q].sid = recs[q].sid /\ recs'[q].inst = recs[q].inst
                /\ recs'[q].status = IF q = r THEN st ELSE recs[q].status
  <1>1. recs[r] \in Record
    BY ElementOfSeq DEF Records
  <1>2. DEFINE e == [recs[r] EXCEPT !.status = st]
  <1>3. e \in Record
    BY <1>1 DEF Record
  <1>4. recs' = [recs EXCEPT ![r] = e]
    BY DEF Sets, SetStatus, SetStatusRaises
  <1>5. /\ recs' \in Seq(Record) /\ Len(recs') = Len(recs)
        /\ \A q \in Records : recs'[q] = IF q = r THEN e ELSE recs[q]
    BY <1>3, <1>4, ExceptSeq DEF Records
  <1>6. row' \in Seq(Statuses) /\ Len(row') = Len(row)
    BY ExceptSeq DEF Sets, SetStatus, SetStatusRaises, Sid
  <1>7. e.sid = recs[r].sid /\ e.inst = recs[r].inst /\ e.status = st
    BY <1>1 DEF Record
  <1> QED
    BY <1>5, <1>6, <1>7

(* A session that is activated has a new record, in the place of the old   *)
(* one or at the end.                                                      *)
LEMMA ActivateFacts ==
    ASSUME NEW t \in Thread, NEW s \in Nat \ {0},
           recs \in Seq(Record), active \in Seq(Records), Activate(t, s)
    PROVE  /\ recs' \in Seq(Record) /\ Len(recs') = Len(recs) + 1
           /\ \A q \in Records : recs'[q] = recs[q]
           /\ recs'[Len(recs) + 1] = [sid |-> s, status |-> "idle", inst |-> TRUE]
           /\ rec' = [rec EXCEPT ![t] = Len(recs) + 1]
           /\ active' \in Seq(1..Len(recs'))
           /\ \A i \in 1..Len(active') :
                \/ active'[i] = Len(recs) + 1
                   /\ (i \in 1..Len(active) => recs[active[i]].sid = s)
                \/ i \in 1..Len(active) /\ active'[i] = active[i]
                   /\ recs[active[i]].sid # s
           /\ \A i, j \in 1..Len(active') :
                active'[i] = Len(recs) + 1 /\ active'[j] = Len(recs) + 1
                /\ (\A k, l \in 1..Len(active) :
                        recs[active[k]].sid = recs[active[l]].sid => k = l)
                => i = j
  <1> DEFINE new == Len(recs) + 1
             e == [sid |-> s, status |-> "idle", inst |-> TRUE]
  <1>1. e \in Record
    BY DEF Record, Statuses
  <1>2. recs' = Append(recs, e) /\ rec' = [rec EXCEPT ![t] = new]
    BY DEF Activate
  <1>3. Len(recs) \in Nat
    BY LenProperties
  <1>4. /\ recs' \in Seq(Record) /\ Len(recs') = Len(recs) + 1
        /\ \A q \in Records : recs'[q] = recs[q]
        /\ recs'[new] = e
    BY <1>1, <1>2, <1>3, AppendProperties DEF Records
  <1>5. /\ Len(active) \in Nat /\ DOMAIN active = 1..Len(active)
        /\ \A i \in 1..Len(active) : active[i] \in Records
    BY LenProperties, ElementOfSeq
  <1>6. active \in Seq(1..Len(recs')) /\ new \in 1..Len(recs')
    BY <1>3, <1>4, SeqMonotonic DEF Records
  <1>7. CASE s \in ActiveSids
    <2> DEFINE a == [i \in 1..Len(active) |->
                        IF recs[active[i]].sid = s THEN new ELSE active[i]]
    <2>1. active' = a
      BY <1>5, <1>7 DEF Activate, Sid
    <2>2. a \in Seq(1..Len(recs')) /\ Len(a) = Len(active)
      <3>1. \A i \in 1..Len(active) : a[i] \in 1..Len(recs')
        BY <1>3, <1>4, <1>5, <1>6 DEF Records
      <3>2. a \in [1..Len(active) -> 1..Len(recs')]
        BY <3>1
      <3> QED BY <3>2, <1>5, SeqDef, LenProperties, SMT
    <2>3. \A i \in 1..Len(active) : active[i] # new
      BY <1>3, <1>5 DEF Records
    <2>4. \A i \in 1..Len(active) :
             \/ a[i] = new /\ recs[active[i]].sid = s
             \/ a[i] = active[i] /\ recs[active[i]].sid # s
      OBVIOUS
    <2>5. \A i \in 1..Len(active) : a[i] = new => recs[active[i]].sid = s
      BY <2>3
    <2> HIDE DEF a
    <2>6. \A i \in 1..Len(active') :
            \/ active'[i] = new
               /\ (i \in 1..Len(active) => recs[active[i]].sid = s)
            \/ i \in 1..Len(active) /\ active'[i] = active[i]
               /\ recs[active[i]].sid # s
      BY <2>1, <2>2, <2>4
    <2>7. \A i, j \in 1..Len(active') :
            active'[i] = new /\ active'[j] = new
            /\ (\A k, l \in 1..Len(active) :
                    recs[active[k]].sid = recs[active[l]].sid => k = l)
            => i = j
      <3>1. Len(active') = Len(active)
        BY <2>1, <2>2
      <3>2. SUFFICES ASSUME NEW i \in 1..Len(active), NEW j \in 1..Len(active),
                            a[i] = new, a[j] = new,
                            \A k, l \in 1..Len(active) :
                                recs[active[k]].sid = recs[active[l]].sid => k = l
                     PROVE  i = j
        BY <2>1, <3>1
      <3>3. recs[active[i]].sid = s /\ recs[active[j]].sid = s
        BY <2>5, <3>2
      <3> QED BY <3>2, <3>3
    <2> QED BY <1>2, <1>4, <2>1, <2>2, <2>6, <2>7
  <1>8. CASE s \notin ActiveSids
    <2>1. active' = Append(active, new)
      BY <1>8 DEF Activate
    <2>2. /\ active' \in Seq(1..Len(recs')) /\ Len(active') = Len(active) + 1
          /\ \A i \in 1..Len(active) : active'[i] = active[i]
          /\ active'[Len(active) + 1] = new
      BY <2>1, <1>6, AppendProperties
    <2>3. ASSUME NEW i \in 1..Len(active)
          PROVE  recs[active[i]].sid # s /\ active[i] # new
      <3>1. active[i] \in ToSet(active)
        BY <1>5 DEF ToSet
      <3>2. recs[active[i]].sid \in ActiveSids
        BY <3>1 DEF ActiveSids, Sid
      <3> QED BY <3>2, <1>3, <1>5, <1>8 DEF Records
    <2>5. \A i \in 1..Len(active') :
            \/ active'[i] = new
               /\ (i \in 1..Len(active) => recs[active[i]].sid = s)
            \/ i \in 1..Len(active) /\ active'[i] = active[i]
               /\ recs[active[i]].sid # s
      BY <1>5, <2>2, <2>3
    <2>6. \A i, j \in 1..Len(active') :
            active'[i] = new /\ active'[j] = new => i = j
      <3>1. \A i \in 1..Len(active') : i \in 1..Len(active) \/ i = Len(active) + 1
        BY <1>5, <2>2
      <3>2. \A i \in 1..Len(active') : active'[i] = new => i = Len(active) + 1
        BY <3>1, <2>2, <2>3
      <3> QED BY <3>2
    <2> QED BY <1>2, <1>4, <2>2, <2>5, <2>6
  <1> QED BY <1>7, <1>8

(* A sequence has no element at place 0 to lose.                           *)
LEMMA RemoveAtNone ==
    ASSUME NEW S, NEW q \in Seq(S)
    PROVE  RemoveAt(q, 0) \in Seq(S)
  <1>1. Len(q) \in Nat /\ \A j \in 1..Len(q) : q[j] \in S
    BY LenProperties, ElementOfSeq
  <1>2. SubSeq(q, 1, 0 - 1) \in Seq(S)
    BY <1>1, SubSeqProperties
  <1>3. SubSeq(q, 0 + 1, Len(q)) \in Seq(S)
    BY <1>1, SubSeqProperties
  <1> DEFINE a == SubSeq(q, 1, 0 - 1)
             b == SubSeq(q, 0 + 1, Len(q))
  <1>4. RemoveAt(q, 0) = a \o b
    BY DEF RemoveAt
  <1>5. a \in Seq(S) /\ b \in Seq(S)
    BY <1>2, <1>3
  <1> HIDE DEF a, b
  <1> QED BY <1>4, <1>5, ConcatProperties

(* A sequence without its i-th element.                                    *)
LEMMA RemoveAtFacts ==
    ASSUME NEW S, NEW q \in Seq(S), NEW i \in 1..Len(q)
    PROVE  /\ RemoveAt(q, i) \in Seq(S)
           /\ Len(RemoveAt(q, i)) = Len(q) - 1
           /\ \A j \in 1..(Len(q) - 1) :
                RemoveAt(q, i)[j] = IF j < i THEN q[j] ELSE q[j + 1]
  <1>1. Len(q) \in Nat /\ \A j \in 1..Len(q) : q[j] \in S
    BY LenProperties, ElementOfSeq
  <1> DEFINE a == SubSeq(q, 1, i - 1)
             b == SubSeq(q, i + 1, Len(q))
  <1>2. /\ a \in Seq(S) /\ Len(a) = i - 1
        /\ \A j \in 1..(i - 1) : a[j] = q[j]
    BY <1>1, SubSeqProperties
  <1>3. /\ b \in Seq(S) /\ Len(b) = Len(q) - i
        /\ \A j \in 1..(Len(q) - i) : b[j] = q[i + j]
    BY <1>1, SubSeqProperties
  <1>4. RemoveAt(q, i) = a \o b
    BY DEF RemoveAt
  <1> HIDE DEF a, b
  <1>5. /\ a \o b \in Seq(S) /\ Len(a \o b) = Len(a) + Len(b)
        /\ \A j \in 1..(Len(a) + Len(b)) :
              (a \o b)[j] = IF j <= Len(a) THEN a[j] ELSE b[j - Len(a)]
    BY <1>2, <1>3, ConcatProperties
  <1>6. ASSUME NEW j \in 1..(Len(q) - 1)
        PROVE  (a \o b)[j] = IF j < i THEN q[j] ELSE q[j + 1]
    <2>1. CASE j < i
      BY <2>1, <1>1, <1>2, <1>3, <1>5
    <2>2. CASE ~(j < i)
      <3>1. j - (i - 1) \in 1..(Len(q) - i) /\ i + (j - (i - 1)) = j + 1
        BY <2>2, <1>1
      <3>2. (a \o b)[j] = b[j - (i - 1)]
        BY <2>2, <1>1, <1>2, <1>3, <1>5
      <3>3. b[j - (i - 1)] = q[i + (j - (i - 1))]
        BY <3>1, <1>3
      <3>4. q[i + (j - (i - 1))] = q[j + 1]
        BY <3>1
      <3> QED BY <2>2, <3>2, <3>3, <3>4
    <2> QED BY <2>1, <2>2
  <1>7. Len(a \o b) = Len(q) - 1
    BY <1>1, <1>2, <1>3, <1>5
  <1> QED BY <1>4, <1>5, <1>6, <1>7

(* What an action does to the table: nothing, or it keeps every record of  *)
(* before but for the status, and lets no runtime come back.               *)
Grows ==
    /\ recs' \in Seq(Record) /\ Len(recs) <= Len(recs')
    /\ row' \in Seq(Statuses) /\ Len(row) <= Len(row')
    /\ \A r \in Records :
          /\ recs'[r].sid = recs[r].sid
          /\ recs'[r].inst => recs[r].inst
    /\ \A r \in 1..Len(recs') : recs'[r].sid \in 1..Len(row')

(* The status of a record is set.                                          *)
LEMMA SetStatusGrows ==
    ASSUME IInv, NEW r \in Records, NEW st \in Statuses, Sets(r, st)
    PROVE  Grows /\ Len(recs') = Len(recs) /\ Len(row') = Len(row)
  <1>1. Len(recs) \in Nat /\ Len(row) \in Nat
    BY LenProperties DEF IInv, TypeOK
  <1>2. recs[r].sid \in 1..Len(row)
    BY DEF IInv, Known
  <1>3. recs \in Seq(Record) /\ row \in Seq(Statuses)
    BY DEF IInv, TypeOK
  <1>4. /\ recs' \in Seq(Record) /\ Len(recs') = Len(recs)
        /\ row' \in Seq(Statuses) /\ Len(row') = Len(row)
        /\ \A q \in Records :
              recs'[q].sid = recs[q].sid /\ recs'[q].inst = recs[q].inst
    BY <1>2, <1>3, SetStatusFacts
  <1> QED
    BY <1>1, <1>4 DEF IInv, Known, Grows, Records

(* A session is opened, in a row that there was or in a new one.           *)
LEMMA OpenGrows ==
    ASSUME IInv, NEW t \in Thread, Open(t)
    PROVE  Grows /\ Len(recs') = Len(recs) + 1
           /\ \E s \in Nat \ {0} : Activate(t, s)
  <1>1. Len(recs) \in Nat /\ Len(row) \in Nat /\ DOMAIN row = 1..Len(row)
    BY LenProperties DEF IInv, TypeOK
  <1>2. PICK s \in Nat \ {0} :
            /\ Activate(t, s)
            /\ row' \in Seq(Statuses) /\ Len(row) <= Len(row')
            /\ s \in 1..Len(row')
    <2>1. CASE \E s \in DOMAIN row : Activate(t, s) /\ row' = row
      BY <2>1, <1>1 DEF IInv, TypeOK
    <2>2. CASE Activate(t, Len(row) + 1) /\ row' = Append(row, "idle")
      <3>1. row' \in Seq(Statuses) /\ Len(row') = Len(row) + 1
        BY <2>2, AppendProperties DEF IInv, TypeOK, Statuses
      <3> QED BY <2>2, <3>1, <1>1
    <2> QED BY <2>1, <2>2 DEF Open
  <1>3. recs \in Seq(Record) /\ active \in Seq(Records)
    BY DEF IInv, TypeOK, Records
  <1>4. /\ recs' \in Seq(Record) /\ Len(recs') = Len(recs) + 1
        /\ \A q \in Records : recs'[q] = recs[q]
        /\ recs'[Len(recs) + 1] = [sid |-> s, status |-> "idle", inst |-> TRUE]
    BY <1>2, <1>3, ActivateFacts
  <1>5. ASSUME NEW r \in Records
        PROVE  recs[r].sid \in 1..Len(row) /\ recs'[r] = recs[r]
    BY <1>4 DEF IInv, Known
  <1>6. Len(row') \in Nat
    BY <1>2, LenProperties
  <1>7. ASSUME NEW r \in 1..Len(recs') PROVE recs'[r].sid \in 1..Len(row')
    <2>1. CASE r \in Records
      BY <2>1, <1>1, <1>2, <1>5, <1>6
    <2>2. CASE r = Len(recs) + 1
      BY <2>2, <1>2, <1>4
    <2> QED BY <2>1, <2>2, <1>1, <1>4 DEF Records
  <1>8. Grows
    BY <1>1, <1>2, <1>4, <1>5, <1>7 DEF Grows
  <1> QED BY <1>2, <1>4, <1>8

(* A session is closed: its record is completed, without a runtime, and no *)
(* longer active.                                                          *)
LEMMA DropGrows ==
    ASSUME IInv, NEW t \in Thread, Drop(t)
    PROVE  /\ Grows /\ Len(recs') = Len(recs) /\ Len(row') = Len(row)
           /\ \E i \in 1..Len(active) :
                /\ active' = RemoveAt(active, i)
                /\ \A q \in Records : q # active[i] => recs'[q] = recs[q]
                /\ recs'[active[i]].status = "completed"
                /\ recs[active[i]].sid = recs[Head(todo[t])].sid
  <1>1. /\ recs \in Seq(Record) /\ row \in Seq(Statuses)
        /\ Len(recs) \in Nat /\ Len(row) \in Nat
        /\ active \in Seq(Records) /\ DOMAIN active = 1..Len(active)
    BY LenProperties DEF IInv, TypeOK, Records
  <1>2. PICK i \in 1..Len(active) :
            /\ recs' = [recs EXCEPT ![active[i]].inst = FALSE,
                                   ![active[i]].status = "completed"]
            /\ row' = [row EXCEPT ![recs[active[i]].sid] = "completed"]
            /\ active' = RemoveAt(active, i)
            /\ recs[active[i]].sid = recs[Head(todo[t])].sid
    BY <1>1 DEF Drop, Sid
  <1> DEFINE r == active[i]
             e == [recs[r] EXCEPT !.inst = FALSE, !.status = "completed"]
  <1>3. r \in Records /\ recs[r] \in Record
    BY <1>1, ElementOfSeq DEF Records
  <1>4. e \in Record /\ e.sid = recs[r].sid /\ ~e.inst /\ e.status = "completed"
    BY <1>3 DEF Record, Statuses
  <1>5. recs' = [recs EXCEPT ![r] = e]
    BY <1>1, <1>2, <1>3 DEF Records
  <1>6. recs[r].sid \in 1..Len(row)
    BY <1>3 DEF IInv, Known
  <1>7. row' \in Seq(Statuses) /\ Len(row') = Len(row)
    BY <1>1, <1>2, <1>6, ExceptSeq DEF Statuses
  <1> HIDE DEF e
  <1>8. /\ recs' \in Seq(Record) /\ Len(recs') = Len(recs)
        /\ \A q \in Records : recs'[q] = IF q = r THEN e ELSE recs[q]
    BY <1>1, <1>3, <1>4, <1>5, ExceptSeq DEF Records
  <1>9. \A q \in Records :
          /\ recs'[q].sid = recs[q].sid /\ recs[q].sid \in 1..Len(row)
          /\ recs'[q].inst => recs[q].inst
    BY <1>3, <1>4, <1>8 DEF IInv, Known
  <1>10. Grows
    <2>1. 1..Len(recs') = Records /\ 1..Len(row') = 1..Len(row)
      BY <1>7, <1>8 DEF Records
    <2>2. Len(recs) <= Len(recs') /\ Len(row) <= Len(row')
      BY <1>1, <1>7, <1>8
    <2> QED BY <1>7, <1>8, <1>9, <2>1, <2>2 DEF Grows
  <1> QED
    BY <1>2, <1>3, <1>4, <1>7, <1>8, <1>10

(* The actions that leave the table of sessions alone, but for Queue.      *)
Quiet(t) ==
    \/ Arrive(t) \/ Exit(t) \/ Reuse(t) \/ WarmNew(t)
    \/ WarmReads(t) \/ WarmKeeps(t) \/ Enter(t) \/ Leave(t)
    \/ Check(t) \/ List(t) \/ Look(t) \/ Test(t) \/ Close(t) \/ Ask(t)
    \/ Release(t) \/ Bootstrap(t) \/ Booted(t)

(* They do leave it alone, and the locks and the history of failures too.  *)
LEMMA QuietFrame ==
    ASSUME NEW t \in Thread, Quiet(t) \/ Shutdown
    PROVE  UNCHANGED <<recs, row, active, held, busy, raised, faults, failed>>
  <1> USE DEF dbVars, execVars
  <1>1. CASE Shutdown
    BY <1>1 DEF Shutdown, CloseAll, StartDraining, WaitActive, StopDrains,
                StopClears, Snapshot
  <1>2. CASE Quiet(t)
    <2>1. CASE \/ Arrive(t) \/ Exit(t) \/ Reuse(t) \/ WarmNew(t) \/ WarmReads(t)
               \/ WarmKeeps(t) \/ Enter(t) \/ Leave(t)
      BY <2>1 DEF Arrive, Exit, Reuse, WarmNew, WarmReads, WarmKeeps, Enter, Leave
    <2>2. CASE \/ Check(t) \/ List(t) \/ Look(t) \/ Test(t) \/ Close(t) \/ Ask(t)
               \/ Release(t) \/ Bootstrap(t) \/ Booted(t)
      BY <2>2 DEF Check, List, Look, Test, Close, Ask, Release, Bootstrap, Booted
    <2> QED BY <1>2, <2>1, <2>2 DEF Quiet
  <1> QED BY <1>1, <1>2

(* They keep the types, and a thread that goes on to work on a record has  *)
(* one.                                                                    *)
LEMMA QuietStep ==
    ASSUME IInv, NEW t \in Thread, Quiet(t)
    PROVE  TypeOK' /\ Known'
  <1>1. UNCHANGED <<recs, row, active, held, busy, raised, faults, failed>>
    BY QuietFrame
  <1>2. /\ TypeOK /\ Known /\ Len(recs) \in Nat
        /\ DOMAIN active = 1..Len(active)
        /\ \A i \in 1..Len(active) : active[i] \in Records
        /\ DOMAIN recs = Records
    BY LenProperties, ElementOfSeq DEF IInv, TypeOK, Records
  <1>3. None \notin Thread /\ Stop \in Thread
    BY Parts DEF Thread
  <1> USE <1>1, <1>2, <1>3
      DEF TypeOK, Known, Records, HasRec, Places, Goto, guardVars, execVars,
          daemonVars, ownVars
  <1>4. CASE Arrive(t)
    <2>1. TypeOK'
      <3>1. pc' \in [Thread -> Places]
        BY <1>4 DEF Arrive
      <3>2. rec' \in [Thread -> Nat] /\ todo' \in [Thread -> Seq(1..Len(recs))]
        BY <1>4 DEF Arrive
      <3>3. reqs' \in Nat /\ inflight' \in Nat
        BY <1>4 DEF Arrive
      <3> QED BY <1>4, <3>1, <3>2, <3>3 DEF Arrive
    <2>2. Known'
      BY <1>4 DEF Arrive
    <2> QED BY <2>1, <2>2
  <1>5. CASE Exit(t)
    <2>1. pc' \in [Thread -> Places]
      BY <1>5 DEF Exit
    <2>2. reqs' \in Nat
      BY <1>5 DEF Exit
    <2>3. TypeOK'
      BY <1>5, <2>1, <2>2 DEF Exit
    <2>4. Known'
      BY <1>5 DEF Exit
    <2> QED BY <2>3, <2>4
  <1>6. CASE Reuse(t)
    <2>1. TypeOK'
      <3>1. pc' \in [Thread -> Places]
        BY <1>6 DEF Reuse, AfterFind
      <3>2. rec' \in [Thread -> Nat] /\ todo' \in [Thread -> Seq(1..Len(recs))]
        BY <1>6 DEF Reuse, AfterFind
      <3>3. reqs' \in Nat /\ inflight' \in Nat
        BY <1>6 DEF Reuse, AfterFind
      <3> QED BY <1>6, <3>1, <3>2, <3>3 DEF Reuse
    <2>2. Known'
      BY <1>6 DEF Reuse, AfterFind
    <2> QED BY <2>1, <2>2
  <1>7. CASE WarmNew(t)
    <2>1. pc' \in [Thread -> Places]
      BY <1>7 DEF WarmNew, AfterFind
    <2>2. live' \in 0..Len(recs)
      BY <1>7 DEF WarmNew
    <2>3. TypeOK'
      BY <1>7, <2>1, <2>2 DEF WarmNew
    <2>4. Known'
      BY <1>7 DEF WarmNew, AfterFind
    <2> QED BY <2>3, <2>4
  <1>8. CASE WarmReads(t)
    <2>1. pc' \in [Thread -> Places]
      BY <1>8 DEF WarmReads, AfterWarm
    <2>2. rec' = rec
      BY <1>8 DEF WarmReads
    <2>3. TypeOK'
      BY <1>8, <2>1, <2>2 DEF WarmReads
    <2>4. Known'
      BY <1>8 DEF WarmReads, AfterWarm
    <2> QED BY <2>3, <2>4
  <1>9. CASE WarmKeeps(t)
    <2>1. TypeOK'
      <3>1. pc' \in [Thread -> Places]
        BY <1>9 DEF WarmKeeps, AfterWarm
      <3>2. live' \in 0..Len(recs)
        BY <1>9 DEF WarmKeeps
      <3> QED BY <1>9, <3>1, <3>2 DEF WarmKeeps
    <2>2. Known'
      BY <1>9 DEF WarmKeeps, AfterWarm
    <2> QED BY <2>1, <2>2
  <1>10. CASE Enter(t)
    <2>1. TypeOK'
      <3>1. pc' \in [Thread -> Places]
        BY <1>10 DEF Enter
      <3>2. rec' \in [Thread -> Nat] /\ todo' \in [Thread -> Seq(1..Len(recs))]
        BY <1>10 DEF Enter
      <3>3. reqs' \in Nat /\ inflight' \in Nat
        BY <1>10 DEF Enter
      <3> QED BY <1>10, <3>1, <3>2, <3>3 DEF Enter
    <2>2. /\ rec' = rec
          /\ \E p \in Places : /\ pc' = [pc EXCEPT ![t] = p]
                               /\ p \in HasRec => pc[t] = "enter"
      <3>1. CASE t \in Job
        BY <1>10, <3>1 DEF Enter
      <3>2. CASE t \notin Job
        BY <1>10, <3>2 DEF Enter
      <3> QED BY <3>1, <3>2
    <2>3. Known'
      BY <2>2
    <2> QED BY <2>1, <2>3
  <1>11. CASE Leave(t)
    <2>1. TypeOK'
      <3>1. pc' \in [Thread -> Places]
        BY <1>11 DEF Leave
      <3>2. inflight' \in Nat
        BY <1>11 DEF Leave
      <3> QED BY <1>11, <3>1, <3>2 DEF Leave
    <2>2. Known'
      BY <1>11 DEF Leave
    <2> QED BY <2>1, <2>2
  <1>12. CASE Check(t)
    <2>1. pc' \in [Thread -> Places]
      BY <1>12 DEF Check
    <2>2. rec' = rec
      BY <1>12 DEF Check
    <2>3. TypeOK'
      BY <1>12, <2>1, <2>2 DEF Check
    <2>4. Known'
      BY <1>12 DEF Check
    <2> QED BY <2>3, <2>4
  <1>13. CASE List(t)
    <2>1. pc' \in [Thread -> Places]
      BY <1>13 DEF List
    <2>2. rec' \in [Thread -> Nat] /\ todo' \in [Thread -> Seq(1..Len(recs))]
      BY <1>13 DEF List
    <2>3. TypeOK'
      BY <1>13, <2>1, <2>2 DEF List
    <2>4. Known'
      BY <1>13 DEF List
    <2> QED BY <2>3, <2>4
  <1>14. CASE Look(t)
    <2>1. todo[t] \in Seq(1..Len(recs)) /\ Len(todo[t]) \in Nat
      BY LenProperties
    <2>2. todo' \in [Thread -> Seq(1..Len(recs))]
      <3>1. CASE todo' = todo
        BY <3>1
      <3>2. CASE todo' = [todo EXCEPT ![t] = RemoveAt(@, rec[t])]
                 /\ ~(rec[t] > Len(todo[t]))
        <4>1. CASE rec[t] = 0
          <5>1. RemoveAt(todo[t], 0) \in Seq(1..Len(recs))
            BY <2>1, RemoveAtNone
          <5> QED BY <3>2, <4>1, <5>1
        <4>2. CASE rec[t] # 0
          <5>1. rec[t] \in 1..Len(todo[t])
            BY <2>1, <3>2, <4>2
          <5>2. RemoveAt(todo[t], rec[t]) \in Seq(1..Len(recs))
            BY <2>1, <5>1, RemoveAtFacts
          <5> QED BY <3>2, <5>2
        <4> QED BY <4>1, <4>2
      <3> QED BY <1>14, <3>1, <3>2 DEF Look
    <2>3. rec' \in [Thread -> Nat]
      <3>1. rec \in [Thread -> Nat]
        OBVIOUS
      <3>2. rec' = rec \/ rec' = [rec EXCEPT ![t] = rec[t] + 1]
        BY <1>14 DEF Look
      <3> HIDE DEF TypeOK
      <3>3. CASE rec' = rec
        BY <3>1, <3>3
      <3>4. CASE rec' = [rec EXCEPT ![t] = rec[t] + 1]
        BY <3>1, <3>4
      <3> QED BY <3>2, <3>3, <3>4
    <2>4. \A u \in Thread : pc'[u] \in HasRec => pc[u] \in HasRec /\ rec'[u] = rec[u]
      BY <1>14 DEF Look
    <2> QED BY <1>14, <2>2, <2>3, <2>4 DEF Look
  <1>15. CASE Test(t)
    <2>1. PICK r \in Records :
            IF Sid(r) \in busy THEN Goto(t, "exit") /\ todo' = todo
            ELSE Goto(t, "closed") /\ todo' = [todo EXCEPT ![t] = <<r>>]
      BY <1>15 DEF Test
    <2>2. <<r>> \in Seq(1..Len(recs))
      BY <2>1
    <2>3. \E p \in Places \ HasRec : pc' = [pc EXCEPT ![t] = p]
      BY <2>1
    <2>4. todo' \in [Thread -> Seq(1..Len(recs))]
      BY <2>1, <2>2
    <2>5. /\ rec' = rec
          /\ UNCHANGED <<mlock, live, running, draining, inflight, stopping, drain,
                         reqs, keep, boot, hurried>>
      BY <1>15 DEF Test
    <2>6. pc' \in [Thread -> Places]
      BY <2>3
    <2>7. \A u \in Thread : pc'[u] \in HasRec => pc[u] \in HasRec
      BY <2>3
    <2>8. TypeOK'
      BY <2>4, <2>5, <2>6
    <2>9. Known'
      BY <2>5, <2>7
    <2> QED BY <2>8, <2>9
  <1>16. CASE Close(t)
    <2>1. todo[t] # <<>> => Tail(todo[t]) \in Seq(1..Len(recs))
      BY HeadTailProperties
    <2>2. AfterCloses(t) \in Places \ HasRec
      BY DEF AfterCloses
    <2>3. rec' = rec /\ (pc' = pc \/ \E p \in Places \ HasRec : Goto(t, p))
      BY <1>16, <2>2 DEF Close
    <2>4. TypeOK'
      <3>1. pc' \in [Thread -> Places]
        BY <2>3
      <3>2. todo' \in [Thread -> Seq(1..Len(recs))]
        BY <1>16, <2>1 DEF Close
      <3>3. mlock' \in Thread \cup {None}
        BY <1>16 DEF Close
      <3> QED BY <1>16, <3>1, <3>2, <3>3 DEF Close
    <2>5. Known'
      BY <2>3
    <2> QED BY <2>4, <2>5
  <1>17. CASE Ask(t)
    <2>1. pc' \in [Thread -> Places]
      BY <1>17 DEF Ask
    <2>2. keep' \in [Thread -> BOOLEAN]
      BY <1>17 DEF Ask, Preserved
    <2>3. TypeOK'
      BY <1>17, <2>1, <2>2 DEF Ask
    <2>4. Known'
      BY <1>17 DEF Ask
    <2> QED BY <2>3, <2>4
  <1>18. CASE Release(t)
    <2>1. pc' \in [Thread -> Places]
      BY <1>18 DEF Release
    <2>2. live' \in 0..Len(recs)
      BY <1>18 DEF Release
    <2>3. TypeOK'
      BY <1>18, <2>1, <2>2 DEF Release
    <2>4. Known'
      BY <1>18 DEF Release
    <2> QED BY <2>3, <2>4
  <1>19. CASE Bootstrap(t)
    <2>1. pc' \in [Thread -> Places]
      <3>1. Goto(t, "find") \/ Goto(t, "closed")
        BY <1>19 DEF Bootstrap
      <3> QED BY <3>1
    <2>2. boot' \in [Thread -> BOOLEAN]
      <3>1. boot' = boot \/ boot' = [boot EXCEPT ![t] = TRUE]
        BY <1>19 DEF Bootstrap
      <3> QED BY <3>1
    <2>3. TypeOK'
      BY <1>19, <2>1, <2>2 DEF Bootstrap
    <2>4. Known'
      BY <1>19 DEF Bootstrap
    <2> QED BY <2>3, <2>4
  <1>20. CASE Booted(t)
    <2>1. pc' \in [Thread -> Places]
      BY <1>20 DEF Booted
    <2>2. rec' = rec
      BY <1>20 DEF Booted
    <2>3. TypeOK'
      BY <1>20, <2>1, <2>2 DEF Booted
    <2>4. Known'
      BY <1>20 DEF Booted
    <2> QED BY <2>3, <2>4
  <1> QED
    BY <1>4, <1>5, <1>6, <1>7, <1>8, <1>9, <1>10, <1>11, <1>12, <1>13, <1>14,
       <1>15, <1>16, <1>17, <1>18, <1>19, <1>20 DEF Quiet

(* The shutdown keeps them too: it works on no record.                     *)
LEMMA ShutdownStep ==
    ASSUME IInv, Shutdown
    PROVE  TypeOK' /\ Known'
  <1>1. Stop \in Thread /\ None \notin Thread
    BY Parts DEF Thread
  <1>2. UNCHANGED <<recs, row, active, held, busy, raised, faults, failed>>
    BY <1>1, QuietFrame
  <1>3. TypeOK /\ Known /\ Len(recs) \in Nat
    BY LenProperties DEF IInv, TypeOK
  <1>4. /\ rec' = rec
        /\ \E p \in Places \ HasRec : pc' = [pc EXCEPT ![Stop] = p]
    <2> USE DEF ownVars, Goto, Places, HasRec
    <2>1. CASE CloseAll \/ StartDraining \/ WaitActive
      BY <2>1 DEF CloseAll, StartDraining, WaitActive
    <2>2. CASE StopDrains \/ StopClears \/ Snapshot
      BY <2>2 DEF StopDrains, StopClears, Snapshot
    <2> QED BY <2>1, <2>2 DEF Shutdown
  <1>5. Known'
    BY <1>1, <1>2, <1>3, <1>4 DEF TypeOK, Known, Records
  <1>6. TypeOK'
    <2>1. pc' \in [Thread -> Places]
      BY <1>1, <1>3, <1>4 DEF TypeOK
    <2> USE <1>1, <1>2, <1>3, <2>1
        DEF TypeOK, Records, guardVars, execVars, daemonVars, ownVars
    <2>2. CASE CloseAll
      BY <2>2 DEF CloseAll
    <2>3. CASE StartDraining
      BY <2>3 DEF StartDraining
    <2>4. CASE WaitActive
      BY <2>4 DEF WaitActive
    <2>5. CASE StopDrains
      BY <2>5 DEF StopDrains
    <2>6. CASE StopClears
      <3>1. hurried' \in BOOLEAN
        BY <2>6 DEF StopClears
      <3>2. live' \in 0..Len(recs') /\ inflight' \in Nat
        BY <2>6 DEF StopClears
      <3>3. {running', draining', stopping', drain'} \subseteq BOOLEAN
        BY <2>6 DEF StopClears
      <3> QED BY <2>6, <3>1, <3>2, <3>3 DEF StopClears
    <2>7. CASE Snapshot
      BY <2>7 DEF Snapshot
    <2> QED BY <2>2, <2>3, <2>4, <2>5, <2>6, <2>7 DEF Shutdown
  <1> QED BY <1>5, <1>6

(* What nobody but Open, Begin, Finish, Drop and Queue touches stays true. *)
LEMMA QuietKeeps ==
    ASSUME IInv, NEW t \in Thread, Quiet(t) \/ Shutdown
    PROVE  Table' /\ Locks'
  <1>1. UNCHANGED <<recs, row, active, held, busy, raised, faults, failed>>
    BY QuietFrame
  <1>2. Table'
    BY <1>1 DEF IInv, Table, Records
  <1>3. ASSUME NEW u \in Thread, pc[u] \in {"begin", "work"}
        PROVE  pc'[u] = pc[u] /\ rec'[u] = rec[u]
    <2>0. pc \in [Thread -> Places] /\ rec \in [Thread -> Nat]
      BY DEF IInv, TypeOK
    <2>1. Stop \in Thread /\ pc \in [Thread -> Places]
      BY <2>0, Parts DEF Thread
    <2> USE <1>3, <2>0, <2>1 DEF ownVars, Goto
    <2>2. CASE Shutdown
      BY <2>2 DEF Shutdown, CloseAll, StartDraining, WaitActive, StopDrains,
                  StopClears, Snapshot
    <2>3. CASE \/ Arrive(t) \/ Exit(t) \/ Reuse(t) \/ WarmNew(t) \/ WarmReads(t)
               \/ WarmKeeps(t) \/ Enter(t) \/ Leave(t)
      BY <2>3 DEF Arrive, Exit, Reuse, WarmNew, WarmReads, WarmKeeps, Enter, Leave
    <2>4. CASE \/ Check(t) \/ List(t) \/ Look(t) \/ Test(t) \/ Close(t) \/ Ask(t)
               \/ Release(t) \/ Bootstrap(t) \/ Booted(t)
      BY <2>4 DEF Check, List, Look, Test, Close, Ask, Release, Bootstrap, Booted
    <2> QED BY <2>2, <2>3, <2>4 DEF Quiet
  <1>4. Locks'
    BY <1>1, <1>3 DEF IInv, Locks, Records
  <1> QED BY <1>2, <1>4

(* What an action on the table leaves alone.                               *)
Apart(t) ==
    /\ UNCHANGED <<live, inflight, running, draining, stopping, drain, reqs,
                   hurried, keep, boot>>
    /\ \E p \in Places : pc' = [pc EXCEPT ![t] = p]

(* It keeps the types of the rest, whose bounds have only grown.           *)
LEMMA ApartKeeps ==
    ASSUME IInv, NEW t \in Thread, Apart(t), Grows,
           mlock' \in Thread \cup {None},
           active' \in Seq(1..Len(recs')),
           held' \subseteq 1..Len(row'), busy' \subseteq 1..Len(row'),
           failed' \subseteq 1..Len(recs'),
           raised' \subseteq 1..Len(row'), faults' \in 0..MaxFaults,
           rec' \in [Thread -> Nat],
           \/ todo' = todo \/ todo' = [todo EXCEPT ![t] = <<>>]
           \/ todo' = [todo EXCEPT ![t] = Tail(@)] /\ todo[t] # <<>>,
           \A u \in Thread : pc'[u] \in HasRec => rec'[u] \in 1..Len(recs')
    PROVE  TypeOK' /\ Known'
  <1>1. TypeOK /\ Len(recs) \in Nat
    BY LenProperties DEF IInv, TypeOK
  <1>2. Len(recs') \in Nat /\ Records \subseteq 1..Len(recs')
    BY <1>1, LenProperties DEF Grows, Records
  <1>3. todo' \in [Thread -> Seq(1..Len(recs'))]
    <2>1. todo \in [Thread -> Seq(Records)]
      BY <1>1 DEF TypeOK, Records
    <2>2. todo[t] # <<>> => Tail(todo[t]) \in Seq(Records)
      BY <2>1, HeadTailProperties
    <2>3. todo' \in [Thread -> Seq(Records)]
      <3>1. <<>> \in Seq(Records)
        OBVIOUS
      <3> QED BY <2>1, <2>2, <3>1
    <2>4. ASSUME NEW u \in Thread PROVE todo'[u] \in Seq(1..Len(recs'))
      <3>1. todo'[u] \in Seq(Records)
        BY <2>3
      <3> QED BY <3>1, <1>2, SeqMonotonic
    <2> QED BY <2>3, <2>4
  <1>4. pc' \in [Thread -> Places]
    BY <1>1 DEF Apart, TypeOK
  <1>5. live' \in 0..Len(recs')
    BY <1>1, <1>2 DEF Apart, TypeOK, Grows
  <1>6. TypeOK'
    BY <1>1, <1>3, <1>4, <1>5 DEF Apart, Grows, TypeOK
  <1>7. Known'
    BY DEF Grows, Known, Records
  <1> QED BY <1>6, <1>7

(* Opening a session: all that were active have failed or are closed.      *)
LEMMA OpenStep ==
    ASSUME IInv, NEW t \in Thread, Open(t)
    PROVE  IInv'
  <1>1. Grows /\ Len(recs') = Len(recs) + 1
    BY OpenGrows
  <1>2. PICK s \in Nat \ {0} : Activate(t, s)
    BY OpenGrows
  <1>3. TypeOK /\ Known /\ Table /\ Locks
    BY DEF IInv
  <1>4. /\ Len(recs) \in Nat /\ recs \in Seq(Record) /\ active \in Seq(Records)
        /\ Len(active) \in Nat /\ DOMAIN active = 1..Len(active)
        /\ \A i \in 1..Len(active) : active[i] \in Records
    BY <1>3, LenProperties, ElementOfSeq DEF TypeOK, Records
  <1> DEFINE new == Len(recs) + 1
  <1>5. /\ \A q \in Records : recs'[q] = recs[q]
        /\ recs'[new] = [sid |-> s, status |-> "idle", inst |-> TRUE]
        /\ rec' = [rec EXCEPT ![t] = new]
        /\ active' \in Seq(1..Len(recs'))
        /\ \A i \in 1..Len(active') :
             \/ active'[i] = new /\ (i \in 1..Len(active) => recs[active[i]].sid = s)
             \/ i \in 1..Len(active) /\ active'[i] = active[i]
                /\ recs[active[i]].sid # s
    BY <1>2, <1>4, ActivateFacts
  <1>6. \A i, j \in 1..Len(active') : active'[i] = new /\ active'[j] = new => i = j
    <2>1. \A k, l \in 1..Len(active) :
              recs[active[k]].sid = recs[active[l]].sid => k = l
      BY <1>3 DEF Table
    <2> QED BY <2>1, <1>2, <1>4, ActivateFacts
  <1>7. Len(active') \in Nat /\ failed' = failed /\ new \notin failed
    BY <1>3, <1>4, <1>5, LenProperties DEF Open, TypeOK
  <1>8. \A i \in 1..Len(active) : active[i] \in failed
    <2>1. ASSUME NEW i \in 1..Len(active), active[i] \notin failed PROVE FALSE
      <3>1. active[i] \in ToSet(active)
        BY <1>4 DEF ToSet
      <3>2. recs[active[i]].status \notin {"idle", "running"}
        BY <3>1 DEF Open, Reusable
      <3>3. recs[active[i]] \in Record
        BY <1>4, ElementOfSeq DEF Records
      <3>4. recs[active[i]].status \in {"error", "completed"}
        BY <3>2, <3>3 DEF Record, Statuses
      <3> QED BY <1>3, <1>4, <2>1, <3>4 DEF Table
    <2> QED BY <2>1
  <1>9. Table'
    <2> DEFINE New(i) == /\ active'[i] = new
                         /\ recs'[active'[i]].sid = s
                         /\ recs'[active'[i]].status = "idle"
               Old(i) == /\ i \in 1..Len(active) /\ active'[i] = active[i]
                         /\ recs'[active'[i]] = recs[active[i]]
                         /\ recs[active[i]].sid # s
    <2>0. ASSUME NEW i \in 1..Len(active') PROVE New(i) \/ Old(i)
      <3>1. CASE active'[i] = new
        BY <3>1, <1>5
      <3>2. CASE /\ i \in 1..Len(active) /\ active'[i] = active[i]
                 /\ recs[active[i]].sid # s
        <4>1. recs'[active[i]] = recs[active[i]]
          BY <3>2, <1>4, <1>5
        <4> QED BY <3>2, <4>1
      <3> QED BY <3>1, <3>2, <1>5
    <2> HIDE DEF Old
    <2>1. ASSUME NEW i \in 1..Len(active'), NEW j \in 1..Len(active'),
                 recs'[active'[i]].sid = recs'[active'[j]].sid
          PROVE  i = j
      <3>1. (New(i) /\ New(j)) \/ (Old(i) /\ Old(j))
        <4>1. (New(i) \/ Old(i)) /\ (New(j) \/ Old(j))
          BY <2>0
        <4>2. ~(New(i) /\ Old(j)) /\ ~(New(j) /\ Old(i))
          BY <2>1 DEF Old
        <4> HIDE DEF New
        <4> QED BY <4>1, <4>2
      <3>2. CASE New(i) /\ New(j)
        BY <3>2, <1>6
      <3>3. CASE Old(i) /\ Old(j)
        BY <3>3, <2>1, <1>3 DEF Old, Table
      <3> QED BY <3>1, <3>2, <3>3
    <2>2. ASSUME NEW i \in 1..Len(active'), NEW j \in 1..Len(active'),
                 active'[i] \notin failed, active'[j] \notin failed
          PROVE  i = j
      <3>1. active'[i] = new /\ active'[j] = new
        BY <2>2, <1>5, <1>8
      <3> QED BY <3>1, <1>6
    <2>3. ASSUME NEW i \in 1..Len(active'),
                 recs'[active'[i]].status = "completed"
          PROVE  active'[i] \in failed
      BY <2>0, <2>3, <1>8 DEF Old
    <2>4. ASSUME NEW r \in 1..Len(recs'), recs'[r].status = "error"
          PROVE  r \in failed
      <3>1. r \in Records \/ r = new
        BY <1>1, <1>4 DEF Records
      <3>2. r # new
        BY <2>4, <1>5
      <3> QED BY <2>4, <3>1, <3>2, <1>3, <1>5 DEF Table
    <2> QED BY <1>7, <2>1, <2>2, <2>3, <2>4 DEF Table, Records
  <1>10. pc[t] = "find" /\ pc' = [pc EXCEPT ![t] = "activate"]
    BY DEF Open, Goto
  <1>11. Locks'
    <2>1. held' = held /\ raised' = raised
      BY DEF Open, execVars
    <2>2. ASSUME NEW u \in Thread, pc[u] \in {"begin", "work"}
          PROVE  /\ pc'[u] = pc[u] /\ rec'[u] = rec[u]
                 /\ recs'[rec'[u]] = recs[rec[u]]
      <3>1. u # t /\ rec[u] \in Records
        BY <2>2, <1>3, <1>10 DEF Known, HasRec
      <3> QED BY <3>1, <1>3, <1>5, <1>10 DEF TypeOK
    <2>3. Records \subseteq 1..Len(recs')
      BY <1>1, <1>4 DEF Records
    <2>5. ASSUME NEW x \in held \ raised
          PROVE  \/ \E u \in Thread : /\ pc'[u] \in {"begin", "work"}
                                      /\ recs'[rec'[u]].sid = x
                 \/ \E r \in 1..Len(recs') : recs'[r].sid = x /\ ~recs'[r].inst
      <3>1. CASE \E u \in Thread :
                    pc[u] \in {"begin", "work"} /\ recs[rec[u]].sid = x
        BY <3>1, <2>2
      <3>2. CASE \E r \in Records : recs[r].sid = x /\ ~recs[r].inst
        BY <3>2, <2>3, <1>5
      <3> QED BY <3>1, <3>2, <1>3 DEF Locks
    <2> QED BY <2>1, <2>5 DEF Locks, Records
  <1>12. TypeOK' /\ Known'
    <2>1. Apart(t)
      BY <1>10 DEF Open, Apart, daemonVars, guardVars, Places
    <2>2. mlock' \in Thread \cup {None} /\ rec' \in [Thread -> Nat] /\ todo' = todo
      BY <1>3, <1>4, <1>5 DEF Open, TypeOK
    <2>3. /\ held' \subseteq 1..Len(row') /\ busy' \subseteq 1..Len(row')
          /\ failed' \subseteq 1..Len(recs')
          /\ raised' \subseteq 1..Len(row') /\ faults' \in 0..MaxFaults
      <3>1. 1..Len(row) \subseteq 1..Len(row') /\ 1..Len(recs) \subseteq 1..Len(recs')
        BY <1>1, <1>3, LenProperties DEF Grows, TypeOK
      <3> QED BY <3>1, <1>3, <1>7 DEF Open, execVars, TypeOK
    <2>4. ASSUME NEW u \in Thread, pc'[u] \in HasRec
          PROVE  rec'[u] \in 1..Len(recs')
      <3>1. CASE u = t
        BY <3>1, <1>1, <1>3, <1>4, <1>5 DEF TypeOK
      <3>2. CASE u # t
        <4>1. pc[u] \in HasRec /\ rec'[u] = rec[u]
          BY <2>4, <3>2, <1>3, <1>5, <1>10 DEF TypeOK
        <4>2. rec[u] \in Records
          BY <4>1, <1>3 DEF Known
        <4> QED BY <4>1, <4>2, <1>1, <1>4 DEF Records
      <3> QED BY <3>1, <3>2
    <2>5. active' \in Seq(1..Len(recs'))
      BY <1>5
    <2> QED BY <1>1, <2>1, <2>2, <2>3, <2>4, <2>5, ApartKeeps
  <1> QED BY <1>9, <1>11, <1>12 DEF IInv

(* A status that an execution sets keeps the table as it should be.        *)
LEMMA StatusTable ==
    ASSUME IInv, NEW r \in Records, NEW st \in {"idle", "running", "error"},
           Sets(r, st), active' = active,
           failed \subseteq failed', st = "error" => r \in failed'
    PROVE  Table'
  <1>1. recs \in Seq(Record) /\ row \in Seq(Statuses) /\ st \in Statuses
        /\ recs[r].sid \in 1..Len(row) /\ Table
    BY DEF IInv, TypeOK, Known, Statuses
  <1>2. /\ Len(recs') = Len(recs)
        /\ \A q \in Records :
              /\ recs'[q].sid = recs[q].sid
              /\ recs'[q].status = IF q = r THEN st ELSE recs[q].status
    BY <1>1, SetStatusFacts
  <1>3. \A i \in 1..Len(active) : active[i] \in Records
    BY ElementOfSeq DEF IInv, TypeOK, Records
  <1>4. \A i, j \in 1..Len(active) :
            recs'[active[i]].sid = recs'[active[j]].sid => i = j
    BY <1>1, <1>2, <1>3 DEF Table
  <1>5. \A i \in 1..Len(active) :
            recs'[active[i]].status = "completed" => active[i] \in failed'
    BY <1>1, <1>2, <1>3 DEF Table
  <1>6. \A q \in Records : recs'[q].status = "error" => q \in failed'
    BY <1>1, <1>2 DEF Table
  <1>7. \A i, j \in 1..Len(active) :
            active[i] \notin failed' /\ active[j] \notin failed' => i = j
    BY <1>1 DEF Table
  <1> QED BY <1>2, <1>4, <1>5, <1>6, <1>7 DEF Table, Records

(* An execution that goes on, and one that ends over a closed session,     *)
(* keep what is known of the locks; giving a lock back does as well.       *)
LEMMA LocksKept ==
    ASSUME IInv, NEW t \in Thread, Grows, rec' = rec,
           held' \subseteq held, raised \subseteq raised',
           NEW p, pc' = [pc EXCEPT ![t] = p],
           \/ pc[t] \notin {"begin", "work"}
           \/ p \in {"begin", "work"}
           \/ recs[rec[t]].sid \notin held' \ raised'
           \/ ~recs'[rec[t]].inst
    PROVE  Locks'
  <1>1. pc \in [Thread -> Places] /\ Locks /\ Known /\ Len(recs) \in Nat
        /\ Len(recs') \in Nat
    BY LenProperties DEF IInv, TypeOK, Grows
  <1>2. Records \subseteq 1..Len(recs')
    BY <1>1 DEF Grows, Records
  <1>3. ASSUME NEW x \in held' \ raised'
        PROVE  \/ \E u \in Thread : /\ pc'[u] \in {"begin", "work"}
                                    /\ recs'[rec[u]].sid = x
               \/ \E r \in 1..Len(recs') : recs'[r].sid = x /\ ~recs'[r].inst
    <2>1. CASE \E r \in Records : recs[r].sid = x /\ ~recs[r].inst
      BY <2>1, <1>2 DEF Grows
    <2>2. ASSUME NEW u \in Thread, pc[u] \in {"begin", "work"},
                 recs[rec[u]].sid = x
          PROVE  \/ \E v \in Thread : /\ pc'[v] \in {"begin", "work"}
                                      /\ recs'[rec[v]].sid = x
                 \/ \E r \in 1..Len(recs') : recs'[r].sid = x /\ ~recs'[r].inst
      <3>1. rec[u] \in Records /\ recs'[rec[u]].sid = x
        BY <2>2, <1>1, <1>2 DEF Known, HasRec, Grows
      <3>2. CASE pc'[u] \in {"begin", "work"}
        BY <3>1, <3>2
      <3>3. CASE pc'[u] \notin {"begin", "work"}
        <4>1. u = t /\ p \notin {"begin", "work"}
          BY <2>2, <3>3, <1>1, <1>2
        <4>2. ~recs'[rec[u]].inst
          BY <2>2, <4>1
        <4> QED BY <3>1, <4>2, <1>2
      <3> QED BY <3>2, <3>3
    <2> QED BY <2>1, <2>2, <1>1 DEF Locks
  <1> QED BY <1>3 DEF Locks, Records

(* Taking the lock of a session, or giving up.                             *)
LEMMA QueueStep ==
    ASSUME IInv, NEW t \in Thread, Queue(t)
    PROVE  IInv'
  <1>1. /\ UNCHANGED <<recs, row, active, busy, raised, faults, failed, rec>>
        /\ TypeOK /\ Known /\ Table /\ Locks
    BY DEF Queue, dbVars, ownVars, IInv
  <1>2. Grows
    BY <1>1 DEF Grows, TypeOK, Known, Records
  <1>3. /\ pc[t] = "queue" /\ rec[t] \in Records
        /\ recs[rec[t]].sid \in 1..Len(row)
    BY <1>1 DEF Queue, Known, HasRec
  <1>4. Table'
    BY <1>1 DEF Table, Records
  <1>5. PICK p \in {"begin", "leave"} :
            /\ pc' = [pc EXCEPT ![t] = p]
            /\ p = "begin" => held' = held \cup {recs[rec[t]].sid}
            /\ p = "leave" => held' = held
    BY DEF Queue, Goto, Sid
  <1>6. TypeOK' /\ Known'
    <2>1. Apart(t) /\ mlock' = mlock /\ todo' = todo
      BY <1>5 DEF Apart, Queue, Places, daemonVars, guardVars, ownVars
    <2>2. held' \subseteq 1..Len(row')
      BY <1>1, <1>3, <1>5 DEF TypeOK
    <2>3. \A u \in Thread : pc'[u] \in HasRec => rec'[u] \in 1..Len(recs')
      BY <1>1, <1>3, <1>5 DEF Known, Records, TypeOK, HasRec
    <2>4. /\ mlock' \in Thread \cup {None} /\ active' \in Seq(1..Len(recs'))
          /\ busy' \subseteq 1..Len(row') /\ failed' \subseteq 1..Len(recs')
          /\ rec' \in [Thread -> Nat]
          /\ raised' \subseteq 1..Len(row') /\ faults' \in 0..MaxFaults
      BY <1>1, <2>1 DEF TypeOK
    <2> QED BY <1>1, <1>2, <2>1, <2>2, <2>3, <2>4, ApartKeeps
  <1>7. Locks'
    <2>1. CASE p = "leave"
      BY <2>1, <1>1, <1>2, <1>3, <1>5, LocksKept
    <2>2. CASE p = "begin"
      <3>1. \A u \in Thread : pc[u] \in {"begin", "work"} => pc'[u] = pc[u]
        BY <1>1, <1>3, <1>5 DEF TypeOK
      <3>2. pc'[t] = "begin"
        BY <2>2, <1>1, <1>5 DEF TypeOK
      <3> QED BY <2>2, <3>1, <3>2, <1>1, <1>5 DEF Locks, Records
    <2> QED BY <2>1, <2>2
  <1> QED BY <1>4, <1>6, <1>7 DEF IInv

(* Beginning to execute, or failing to, over a session that was closed.    *)
LEMMA BeginStep ==
    ASSUME IInv, NEW t \in Thread, Begin(t)
    PROVE  IInv'
  <1>1. /\ UNCHANGED <<active, held, raised, faults, failed, rec>>
        /\ TypeOK /\ Known /\ Table
    BY DEF Begin, execVars, ownVars, IInv
  <1>2. /\ pc[t] = "begin" /\ rec[t] \in Records
        /\ recs[rec[t]].sid \in 1..Len(row)
        /\ busy' = busy \cup {recs[rec[t]].sid}
    BY <1>1 DEF Begin, Known, HasRec, Sid
  <1>3. PICK p \in {"work", "leave"} :
            /\ pc' = [pc EXCEPT ![t] = p]
            /\ p = "work" => SetStatus(rec[t], "running")
            /\ p = "leave" => recs' = recs /\ row' = row /\ ~recs[rec[t]].inst
    BY DEF Begin, Goto, Alive
  <1>4. /\ Grows /\ Len(recs') = Len(recs) /\ Len(row') = Len(row)
        /\ p = "leave" => ~recs'[rec[t]].inst
        /\ Table'
    <2>1. CASE p = "work"
      BY <2>1, <1>1, <1>2, <1>3, SetStatusGrows, StatusTable DEF Statuses, Sets
    <2>2. CASE p = "leave"
      <3>1. recs' = recs /\ row' = row /\ ~recs[rec[t]].inst
        BY <2>2, <1>3
      <3>2. Grows
        BY <3>1, <1>1 DEF Grows, TypeOK, Known, Records
      <3>3. Table'
        BY <3>1, <1>1 DEF Table, Records
      <3> QED BY <3>1, <3>2, <3>3
    <2> QED BY <2>1, <2>2
  <1>5. TypeOK' /\ Known'
    <2>1. Apart(t) /\ mlock' = mlock /\ todo' = todo
      BY <1>3 DEF Apart, Begin, Places, daemonVars, guardVars, ownVars
    <2>2. busy' \subseteq 1..Len(row')
      BY <1>1, <1>2, <1>4 DEF TypeOK
    <2>3. \A u \in Thread : pc'[u] \in HasRec => rec'[u] \in 1..Len(recs')
      BY <1>1, <1>2, <1>3, <1>4 DEF Known, Records, TypeOK, HasRec
    <2>4. /\ mlock' \in Thread \cup {None} /\ active' \in Seq(1..Len(recs'))
          /\ held' \subseteq 1..Len(row') /\ failed' \subseteq 1..Len(recs')
          /\ rec' \in [Thread -> Nat]
          /\ raised' \subseteq 1..Len(row') /\ faults' \in 0..MaxFaults
      BY <1>1, <1>4, <2>1 DEF TypeOK
    <2> QED BY <1>1, <1>4, <2>1, <2>2, <2>3, <2>4, ApartKeeps
  <1>6. Locks'
    BY <1>1, <1>2, <1>3, <1>4, LocksKept
  <1> QED BY <1>4, <1>5, <1>6 DEF IInv

(* The end of an execution, or the exception in its finally.               *)
LEMMA FinishStep ==
    ASSUME IInv, NEW t \in Thread, Finish(t)
    PROVE  IInv'
  <1>1. /\ UNCHANGED <<active, rec, raised, faults>>
        /\ pc' = [pc EXCEPT ![t] = "leave"]
        /\ TypeOK /\ Known /\ Table
    BY DEF Finish, ownVars, IInv, Goto
  <1>2. /\ pc[t] = "work" /\ rec[t] \in Records
        /\ recs[rec[t]].sid \in 1..Len(row)
    BY <1>1 DEF Finish, Known, HasRec
  <1>3. PICK st \in {"idle", "error"}, override \in BOOLEAN :
            IF override /\ ~Alive(rec[t])
            THEN UNCHANGED <<recs, row, held, busy, failed>>
            ELSE /\ SetStatus(rec[t], st)
                 /\ held' = held \ {Sid(rec[t])}
                 /\ busy' = busy \ {Sid(rec[t])}
                 /\ failed' = IF st = "error" THEN failed \cup {rec[t]} ELSE failed
    BY DEF Finish
  <1>4. /\ Grows /\ Len(recs') = Len(recs) /\ Len(row') = Len(row)
        /\ Table' /\ held' \subseteq held /\ busy' \subseteq busy
        /\ failed' \subseteq Records
        /\ \/ recs[rec[t]].sid \notin held'
           \/ ~recs'[rec[t]].inst
    <2>1. CASE override /\ ~Alive(rec[t])
      <3>1. UNCHANGED <<recs, row, held, busy, failed>> /\ ~recs[rec[t]].inst
        BY <2>1, <1>3 DEF Alive
      <3>2. Grows
        BY <3>1, <1>1 DEF Grows, TypeOK, Known, Records
      <3>3. Table'
        BY <3>1, <1>1 DEF Table, Records
      <3> QED BY <3>1, <3>2, <3>3, <1>1 DEF TypeOK, Records
    <2>2. CASE ~(override /\ ~Alive(rec[t]))
      <3>1. /\ SetStatus(rec[t], st)
            /\ held' = held \ {recs[rec[t]].sid}
            /\ busy' = busy \ {recs[rec[t]].sid}
            /\ failed' = IF st = "error" THEN failed \cup {rec[t]} ELSE failed
        BY <2>2, <1>3 DEF Sid
      <3>2. Grows /\ Len(recs') = Len(recs) /\ Len(row') = Len(row)
        BY <3>1, <1>2, SetStatusGrows DEF Statuses, Sets
      <3>3. Table'
        BY <3>1, <1>1, <1>2, StatusTable DEF Sets
      <3>4. failed' \subseteq Records
        BY <3>1, <1>1, <1>2 DEF TypeOK, Records
      <3> QED BY <3>1, <3>2, <3>3, <3>4
    <2> QED BY <2>1, <2>2
  <1>5. TypeOK' /\ Known'
    <2>1. Apart(t) /\ mlock' = mlock /\ todo' = todo
      BY <1>1 DEF Apart, Finish, Places, daemonVars, guardVars, ownVars
    <2>2. \A u \in Thread : pc'[u] \in HasRec => rec'[u] \in 1..Len(recs')
      BY <1>1, <1>4 DEF Known, Records, TypeOK, HasRec
    <2>3. /\ mlock' \in Thread \cup {None} /\ active' \in Seq(1..Len(recs'))
          /\ held' \subseteq 1..Len(row') /\ busy' \subseteq 1..Len(row')
          /\ failed' \subseteq 1..Len(recs') /\ rec' \in [Thread -> Nat]
          /\ raised' \subseteq 1..Len(row') /\ faults' \in 0..MaxFaults
      BY <1>1, <1>4, <2>1 DEF TypeOK, Records
    <2> QED BY <1>1, <1>4, <2>1, <2>2, <2>3, ApartKeeps
  <1>6. Locks'
    BY <1>1, <1>4, LocksKept
  <1> QED BY <1>4, <1>5, <1>6 DEF IInv

(* A session is closed.                                                    *)
LEMMA DropStep ==
    ASSUME IInv, NEW t \in Thread, Drop(t), todo[t] # <<>>
    PROVE  IInv'
  <1>1. /\ UNCHANGED <<held, busy, raised, faults, failed, rec>>
        /\ TypeOK /\ Known /\ Table /\ pc[t] = "drop"
    BY DEF Drop, execVars, IInv
  <1>2. Grows /\ Len(recs') = Len(recs) /\ Len(row') = Len(row)
    BY DropGrows
  <1>3. PICK i \in 1..Len(active) :
            /\ active' = RemoveAt(active, i)
            /\ \A q \in Records : q # active[i] => recs'[q] = recs[q]
            /\ recs'[active[i]].status = "completed"
    BY DropGrows
  <1>4. /\ active \in Seq(Records) /\ Len(active) \in Nat
        /\ \A j \in 1..Len(active) : active[j] \in Records
        /\ Len(recs) \in Nat
    BY <1>1, LenProperties, ElementOfSeq DEF TypeOK, Records
  <1>5. /\ active' \in Seq(Records) /\ Len(active') = Len(active) - 1
        /\ \A j \in 1..(Len(active) - 1) :
              active'[j] = IF j < i THEN active[j] ELSE active[j + 1]
    BY <1>3, <1>4, RemoveAtFacts
  <1> DEFINE old(j) == IF j < i THEN j ELSE j + 1
  <1>6. ASSUME NEW j \in 1..Len(active')
        PROVE  /\ old(j) \in 1..Len(active) /\ old(j) # i
               /\ active'[j] = active[old(j)]
               /\ recs'[active'[j]] = recs[active[old(j)]]
    <2>1. old(j) \in 1..Len(active) /\ old(j) # i /\ active'[j] = active[old(j)]
      BY <1>4, <1>5
    <2>2. active[old(j)] # active[i]
      BY <2>1, <1>1 DEF Table
    <2> QED BY <2>1, <2>2, <1>3, <1>4
  <1>7. ASSUME NEW j \in 1..Len(active'), NEW k \in 1..Len(active'),
               old(j) = old(k)
        PROVE  j = k
    BY <1>7, <1>4, <1>5
  <1> HIDE DEF old
  <1>8. Table'
    <2>1. ASSUME NEW j \in 1..Len(active'), NEW k \in 1..Len(active'),
                 recs'[active'[j]].sid = recs'[active'[k]].sid
          PROVE  j = k
      BY <2>1, <1>1, <1>6, <1>7 DEF Table
    <2>2. ASSUME NEW j \in 1..Len(active'), NEW k \in 1..Len(active'),
                 active'[j] \notin failed, active'[k] \notin failed
          PROVE  j = k
      BY <2>2, <1>1, <1>6, <1>7 DEF Table
    <2>3. ASSUME NEW j \in 1..Len(active'),
                 recs'[active'[j]].status = "completed"
          PROVE  active'[j] \in failed
      BY <2>3, <1>1, <1>6 DEF Table
    <2>4. ASSUME NEW r \in Records, recs'[r].status = "error"
          PROVE  r \in failed
      BY <2>4, <1>1, <1>3 DEF Table
    <2> QED BY <1>1, <1>2, <2>1, <2>2, <2>3, <2>4 DEF Table, Records
  <1>9. PICK p \in {"boot", "closed"} : pc' = [pc EXCEPT ![t] = p]
    BY DEF Drop, Goto
  <1>10. TypeOK' /\ Known'
    <2>1. /\ Apart(t) /\ mlock' = None
          /\ todo' = [todo EXCEPT ![t] = Tail(@)]
      BY <1>9 DEF Apart, Drop, Places, daemonVars, guardVars
    <2>2. \A u \in Thread : pc'[u] \in HasRec => rec'[u] \in 1..Len(recs')
      BY <1>1, <1>2, <1>9 DEF Known, Records, TypeOK, HasRec
    <2>3. /\ active' \in Seq(1..Len(recs'))
          /\ held' \subseteq 1..Len(row') /\ busy' \subseteq 1..Len(row')
          /\ failed' \subseteq 1..Len(recs') /\ rec' \in [Thread -> Nat]
          /\ raised' \subseteq 1..Len(row') /\ faults' \in 0..MaxFaults
      BY <1>1, <1>2, <1>5 DEF TypeOK, Records
    <2> QED BY <1>2, <2>1, <2>2, <2>3, ApartKeeps
  <1>11. Locks'
    BY <1>1, <1>2, <1>9, LocksKept
  <1> QED BY <1>8, <1>10, <1>11 DEF IInv

(* A fault is counted, and there is still a bound on them.                 *)
LEMMA FaultCounted ==
    ASSUME TypeOK, faults < MaxFaults, faults' = faults + 1
    PROVE  faults' \in 0..MaxFaults
  BY Bounded DEF TypeOK

(* What the two raises of an execution have in common: the status that it  *)
(* was to write is set, and the session is marked.                         *)
LEMMA RaiseStep ==
    ASSUME IInv, NEW t \in Thread, BeginRaises(t) \/ FinishRaises(t)
    PROVE  IInv'
  <1>1. /\ UNCHANGED <<active, held, rec>> /\ pc' = [pc EXCEPT ![t] = "leave"]
        /\ raised' = raised \cup {recs[rec[t]].sid}
        /\ TypeOK /\ Known /\ Table
        /\ pc[t] \in {"begin", "work"}
    BY DEF BeginRaises, FinishRaises, ownVars, IInv, Goto, Sid
  <1>2. rec[t] \in Records /\ recs[rec[t]].sid \in 1..Len(row)
    BY <1>1 DEF Known, HasRec
  <1>3. PICK st \in {"idle", "running", "error"} :
            /\ SetStatusRaises(rec[t], st)
            /\ failed' = IF st = "error" THEN failed \cup {rec[t]} ELSE failed
    <2>1. CASE BeginRaises(t)
      BY <2>1 DEF BeginRaises
    <2>2. CASE FinishRaises(t)
      BY <2>2 DEF FinishRaises
    <2> QED BY <2>1, <2>2
  <1>4. busy' \subseteq busy \cup {recs[rec[t]].sid}
    BY DEF BeginRaises, FinishRaises, Sid
  <1>5. Grows /\ Len(recs') = Len(recs) /\ Len(row') = Len(row) /\ Table'
    BY <1>1, <1>2, <1>3, SetStatusGrows, StatusTable DEF Statuses, Sets
  <1>6. faults' \in 0..MaxFaults
    BY <1>1, <1>3, FaultCounted DEF SetStatusRaises
  <1>7. TypeOK' /\ Known'
    <2>1. Apart(t) /\ mlock' = mlock /\ todo' = todo
      BY <1>1 DEF Apart, BeginRaises, FinishRaises, Places, daemonVars, guardVars,
                  ownVars
    <2>2. \A u \in Thread : pc'[u] \in HasRec => rec'[u] \in 1..Len(recs')
      BY <1>1, <1>5 DEF Known, Records, TypeOK, HasRec
    <2>3. failed' \subseteq 1..Len(recs') /\ busy' \subseteq 1..Len(row')
      BY <1>1, <1>2, <1>3, <1>4, <1>5 DEF TypeOK, Records
    <2>4. /\ mlock' \in Thread \cup {None} /\ active' \in Seq(1..Len(recs'))
          /\ held' \subseteq 1..Len(row') /\ rec' \in [Thread -> Nat]
          /\ raised' \subseteq 1..Len(row')
      BY <1>1, <1>2, <1>5, <2>1 DEF TypeOK
    <2> QED BY <1>5, <1>6, <2>1, <2>2, <2>3, <2>4, ApartKeeps
  <1>8. Locks'
    <2>1. raised \subseteq raised' /\ recs[rec[t]].sid \notin held' \ raised'
      BY <1>1
    <2> QED BY <1>1, <1>5, <2>1, LocksKept
  <1> QED BY <1>5, <1>7, <1>8 DEF IInv

(* A close that raises leaves every record and its place, and marks the    *)
(* one it was about.                                                       *)
LEMMA DropRaisesFacts ==
    ASSUME IInv, NEW t \in Thread, DropRaises(t)
    PROVE  /\ Grows /\ Len(recs') = Len(recs) /\ Len(row') = Len(row)
           /\ \E r \in Records :
                /\ failed' = failed \cup {r}
                /\ \A q \in Records :
                      /\ recs'[q].sid = recs[q].sid
                      /\ q # r => recs'[q] = recs[q]
                      /\ recs'[q].status \in {recs[q].status, "completed"}
  <1>1. /\ recs \in Seq(Record) /\ row \in Seq(Statuses)
        /\ Len(recs) \in Nat /\ Len(row) \in Nat
        /\ active \in Seq(Records) /\ DOMAIN active = 1..Len(active)
        /\ Known
    BY LenProperties DEF IInv, TypeOK, Records
  <1>2. PICK i \in 1..Len(active) :
            /\ \/ UNCHANGED <<recs, row>>
               \/ /\ recs' = [recs EXCEPT ![active[i]].inst = FALSE,
                                          ![active[i]].status = "completed"]
                  /\ row' \in {row, [row EXCEPT ![recs[active[i]].sid] = "completed"]}
            /\ failed' = failed \cup {active[i]}
    BY <1>1 DEF DropRaises, Sid
  <1> DEFINE r == active[i]
             e == [recs[r] EXCEPT !.inst = FALSE, !.status = "completed"]
  <1>3. r \in Records /\ recs[r] \in Record
    BY <1>1, ElementOfSeq DEF Records
  <1>4. CASE UNCHANGED <<recs, row>>
    <2>1. Grows
      BY <1>1, <1>4 DEF Grows, Known, Records
    <2> QED BY <1>2, <1>3, <1>4, <2>1
  <1>5. CASE /\ recs' = [recs EXCEPT ![r].inst = FALSE, ![r].status = "completed"]
             /\ row' \in {row, [row EXCEPT ![recs[r].sid] = "completed"]}
    <2>1. /\ e \in Record /\ e.sid = recs[r].sid /\ e.inst = FALSE
          /\ e.status = "completed"
      BY <1>3 DEF Record, Statuses
    <2>2. recs' = [recs EXCEPT ![r] = e]
      BY <1>1, <1>3, <1>5 DEF Record
    <2>3. row' \in Seq(Statuses) /\ Len(row') = Len(row)
      <3>1. "completed" \in Statuses
        BY DEF Statuses
      <3>2. recs[r].sid \in 1..Len(row)
        BY <1>1, <1>3 DEF Known
      <3> HIDE DEF r
      <3>3. CASE row' = row
        BY <1>1, <3>3
      <3>4. CASE row' = [row EXCEPT ![recs[r].sid] = "completed"]
        BY <1>1, <3>1, <3>2, <3>4, ExceptSeq
      <3> QED BY <1>5, <3>3, <3>4
    <2> HIDE DEF e, r
    <2>4. /\ recs' \in Seq(Record) /\ Len(recs') = Len(recs)
          /\ \A q \in Records : recs'[q] = IF q = r THEN e ELSE recs[q]
      BY <1>1, <1>3, <2>1, <2>2, ExceptSeq DEF Records
    <2>5. \A q \in Records :
            /\ recs'[q].sid = recs[q].sid /\ recs[q].sid \in 1..Len(row)
            /\ recs'[q].inst => recs[q].inst
            /\ recs'[q].status \in {recs[q].status, "completed"}
      BY <1>1, <2>1, <2>4 DEF Known
    <2>6. Grows
      <3>1. 1..Len(recs') = Records /\ 1..Len(row') = 1..Len(row)
        BY <2>3, <2>4 DEF Records
      <3>2. Len(recs) <= Len(recs') /\ Len(row) <= Len(row')
        BY <1>1, <2>3, <2>4
      <3> QED BY <2>3, <2>4, <2>5, <3>1, <3>2 DEF Grows
    <2>7. failed' = failed \cup {r}
      BY <1>2 DEF r
    <2> QED BY <1>3, <2>3, <2>4, <2>5, <2>6, <2>7
  <1> QED BY <1>2, <1>4, <1>5

(* It keeps the invariant: the session that stays is one that failed.      *)
LEMMA DropRaisesStep ==
    ASSUME IInv, NEW t \in Thread, DropRaises(t)
    PROVE  IInv'
  <1>1. /\ UNCHANGED <<active, held, busy, raised, rec>>
        /\ TypeOK /\ Known /\ Table /\ pc[t] = "drop"
    BY DEF DropRaises, IInv
  <1>2. Grows /\ Len(recs') = Len(recs) /\ Len(row') = Len(row)
    BY DropRaisesFacts
  <1>3. PICK r \in Records :
            /\ failed' = failed \cup {r}
            /\ \A q \in Records :
                  /\ recs'[q].sid = recs[q].sid
                  /\ q # r => recs'[q] = recs[q]
                  /\ recs'[q].status \in {recs[q].status, "completed"}
    BY DropRaisesFacts
  <1>4. \A i \in 1..Len(active) : active[i] \in Records
    BY <1>1, ElementOfSeq DEF TypeOK, Records
  <1>5. Table'
    <2>1. \A i, j \in 1..Len(active) :
              recs'[active[i]].sid = recs'[active[j]].sid => i = j
      BY <1>1, <1>3, <1>4 DEF Table
    <2>2. \A i \in 1..Len(active) :
              recs'[active[i]].status = "completed" => active[i] \in failed'
      BY <1>1, <1>3, <1>4 DEF Table
    <2>3. \A q \in Records : recs'[q].status = "error" => q \in failed'
      BY <1>1, <1>3 DEF Table
    <2>4. \A i, j \in 1..Len(active) :
              active[i] \notin failed' /\ active[j] \notin failed' => i = j
      BY <1>1, <1>3 DEF Table
    <2> QED BY <1>1, <1>2, <2>1, <2>2, <2>3, <2>4 DEF Table, Records
  <1>6. PICK p \in {"done", "exit", "leave"} : pc' = [pc EXCEPT ![t] = p]
    BY DEF DropRaises, AfterRaise, Goto
  <1>7. TypeOK' /\ Known'
    <2>1. Apart(t) /\ mlock' = None /\ todo' = [todo EXCEPT ![t] = <<>>]
      BY <1>6 DEF Apart, DropRaises, Places, daemonVars, guardVars
    <2>2. \A u \in Thread : pc'[u] \in HasRec => rec'[u] \in 1..Len(recs')
      BY <1>1, <1>2, <1>6 DEF Known, Records, TypeOK, HasRec
    <2>3. /\ active' \in Seq(1..Len(recs'))
          /\ held' \subseteq 1..Len(row') /\ busy' \subseteq 1..Len(row')
          /\ failed' \subseteq 1..Len(recs') /\ rec' \in [Thread -> Nat]
          /\ raised' \subseteq 1..Len(row')
      BY <1>1, <1>2, <1>3 DEF TypeOK, Records
    <2>4. faults' \in 0..MaxFaults
      BY <1>1, FaultCounted DEF DropRaises
    <2> QED BY <1>2, <2>1, <2>2, <2>3, <2>4, ApartKeeps
  <1>8. Locks'
    BY <1>1, <1>2, <1>6, LocksKept
  <1> QED BY <1>5, <1>7, <1>8 DEF IInv

(* Every step keeps it: only close_session itself goes there.              *)
LEMMA ClosingStep ==
    ASSUME TypeOK, Closing, [Next]_vars
    PROVE  Closing'
  <1>1. pc \in [Thread -> Places] /\ todo \in [Thread -> Seq(1..Len(recs))]
        /\ Stop \in Thread
    BY DEF TypeOK, Thread
  <1>2. CASE UNCHANGED vars
    BY <1>2 DEF vars, ownVars, Closing
  <1>3. CASE Shutdown
    <2> USE <1>1 DEF ownVars, Goto, Closing
    <2>1. CASE CloseAll
      BY <2>1 DEF CloseAll
    <2>2. CASE StartDraining \/ WaitActive
      BY <2>2 DEF StartDraining, WaitActive
    <2>3. CASE StopDrains \/ StopClears \/ Snapshot
      BY <2>3 DEF StopDrains, StopClears, Snapshot
    <2> QED BY <1>3, <2>1, <2>2, <2>3 DEF Shutdown
  <1>4. ASSUME NEW t \in Thread, Step(t)
        PROVE  Closing'
    <2> DEFINE Goes(p) == pc' = [pc EXCEPT ![t] = p]
               Away == {"ask", "release", "drop"}
    <2>1. ASSUME NEW p \in Places \ Away, Goes(p),
                 \A u \in Thread \ {t} : todo'[u] = todo[u]
          PROVE  Closing'
      BY <2>1, <1>1 DEF Closing
    <2> USE DEF ownVars, Goto, Places
    <2>2. CASE \/ Arrive(t) \/ Exit(t) \/ Reuse(t) \/ Open(t)
      <3>1. \E p \in Places \ Away : Goes(p)
        BY <2>2 DEF Arrive, Exit, Reuse, Open, AfterFind
      <3>2. todo' = todo
        BY <2>2 DEF Arrive, Exit, Reuse, Open, Activate
      <3> QED BY <3>1, <3>2, <2>1
    <2>3. CASE \/ WarmNew(t) \/ WarmReads(t) \/ WarmKeeps(t) \/ Enter(t)
               \/ Leave(t) \/ Check(t)
      <3>1. \E p \in Places \ Away : Goes(p)
        BY <2>3 DEF WarmNew, WarmReads, WarmKeeps, Enter, Leave, Check, AfterFind,
                    AfterWarm
      <3>2. todo' = todo
        BY <2>3 DEF WarmNew, WarmReads, WarmKeeps, Enter, Leave, Check
      <3> QED BY <3>1, <3>2, <2>1
    <2>4. CASE \/ Queue(t) \/ Begin(t) \/ BeginRaises(t) \/ Finish(t)
               \/ FinishRaises(t) \/ Bootstrap(t) \/ Booted(t)
      <3>1. \E p \in Places \ Away : Goes(p)
        BY <2>4 DEF Queue, Begin, BeginRaises, Finish, FinishRaises, Bootstrap,
                    Booted
      <3>2. todo' = todo
        BY <2>4 DEF Queue, Begin, BeginRaises, Finish, FinishRaises, Bootstrap,
                    Booted
      <3> QED BY <3>1, <3>2, <2>1
    <2>5. CASE List(t) \/ Test(t) \/ Drop(t) \/ DropRaises(t)
      <3>1. \E p \in Places \ Away : Goes(p)
        BY <2>5 DEF List, Test, Drop, DropRaises, AfterRaise
      <3>2. \A u \in Thread \ {t} : todo'[u] = todo[u]
        BY <2>5, <1>1 DEF List, Test, Drop, DropRaises
      <3> QED BY <3>1, <3>2, <2>1
    <2>6. CASE Look(t)
      BY <2>6, <1>1 DEF Look, Closing
    <2>7. CASE Close(t)
      <3>1. CASE todo[t] = <<>>
        BY <2>7, <3>1, <1>1 DEF Close, AfterCloses, Closing
      <3>2. CASE todo[t] # <<>>
        BY <2>7, <3>2, <1>1 DEF Close, Closing
      <3> QED BY <3>1, <3>2
    <2>8. CASE Ask(t) \/ Release(t)
      BY <2>8, <1>1 DEF Ask, Release, Closing
    <2> QED BY <1>4, <2>2, <2>3, <2>4, <2>5, <2>6, <2>7, <2>8 DEF Step
  <1> QED BY <1>2, <1>3, <1>4 DEF Next

(* The invariant holds at the start, after the bootstrap.                  *)
LEMMA InitInv == Init => IInv /\ Closing
  <1> SUFFICES ASSUME NEW cast \in Casts, Starts(cast)
               PROVE  IInv /\ Closing
    BY DEF Init
  <1> DEFINE e == [sid |-> 1, status |-> "idle", inst |-> TRUE]
  <1>1. /\ recs = <<e>> /\ e \in Record /\ row = <<"idle">> /\ active = <<1>>
    BY DEF Starts, Record, Statuses
  <1> HIDE DEF e
  <1>2. /\ recs \in Seq(Record) /\ Len(recs) = 1 /\ recs[1] = e
        /\ row \in Seq(Statuses) /\ Len(row) = 1
        /\ active \in Seq(1..Len(recs)) /\ Len(active) = 1 /\ active[1] = 1
    BY <1>1 DEF Statuses
  <1>3. /\ pc \in [Thread -> {"new", "done"}]
        /\ todo = [t \in Thread |-> <<>>]
        /\ rec = [t \in Thread |-> 0]
        /\ failed = {} /\ held = {} /\ busy = {} /\ raised = {} /\ faults = 0
    BY DEF Starts
  <1>a. /\ recs \in Seq(Record) /\ row \in Seq(Statuses)
        /\ active \in Seq(1..Len(recs))
    BY <1>2
  <1>b. /\ mlock \in Thread \cup {None} /\ live \in 0..Len(recs)
        /\ inflight \in Nat /\ reqs \in Nat
        /\ rec \in [Thread -> Nat]
    BY <1>1, <1>2, <1>3 DEF Starts
  <1>c. {running, draining, stopping, drain, hurried} \subseteq BOOLEAN
    BY DEF Starts
  <1>d. /\ held \subseteq 1..Len(row) /\ busy \subseteq 1..Len(row)
        /\ failed \subseteq 1..Len(recs)
        /\ raised \subseteq 1..Len(row) /\ faults \in 0..MaxFaults
    BY <1>3, Bounded
  <1>f. pc \in [Thread -> Places]
    BY <1>3 DEF Places
  <1>g. todo \in [Thread -> Seq(1..Len(recs))]
    <2>1. <<>> \in Seq(1..Len(recs))
      OBVIOUS
    <2> QED BY <1>3, <2>1
  <1>h. keep \in [Thread -> BOOLEAN] /\ boot \in [Thread -> BOOLEAN]
    BY DEF Starts
  <1>4. TypeOK
    BY <1>a, <1>b, <1>c, <1>d, <1>f, <1>g, <1>h DEF TypeOK
  <1>5. Known
    BY <1>2, <1>3 DEF Known, Records, HasRec, e
  <1>6. Table
    BY <1>2, <1>3 DEF Table, Records, e
  <1>7. Locks /\ Closing
    BY <1>3 DEF Locks, Closing
  <1> QED BY <1>4, <1>5, <1>6, <1>7 DEF IInv

(* Every step keeps the invariant.                                         *)
LEMMA StepInv == IInv /\ Closing /\ [Next]_vars => IInv'
  <1> SUFFICES ASSUME IInv, Closing, [Next]_vars
               PROVE  IInv'
    OBVIOUS
  <1>1. CASE UNCHANGED vars
    BY <1>1 DEF vars, dbVars, daemonVars, guardVars, execVars, ownVars, IInv, TypeOK,
                Known, Table, Locks, Records
  <1>2. CASE Shutdown
    <2>1. Stop \in Thread
      BY DEF Thread
    <2> QED BY <1>2, <2>1, ShutdownStep, QuietKeeps DEF IInv
  <1>3. ASSUME NEW t \in Thread, Step(t)
        PROVE  IInv'
    <2>1. CASE Quiet(t)
      BY <2>1, QuietStep, QuietKeeps DEF IInv
    <2>2. CASE Open(t)
      BY <2>2, OpenStep
    <2>3. CASE Queue(t)
      BY <2>3, QueueStep
    <2>4. CASE Begin(t)
      BY <2>4, BeginStep
    <2>5. CASE Finish(t)
      BY <2>5, FinishStep
    <2>6. CASE Drop(t)
      <3>1. todo[t] # <<>>
        BY <2>6 DEF Drop, Closing
      <3> QED BY <2>6, <3>1, DropStep
    <2>7. CASE BeginRaises(t) \/ FinishRaises(t)
      BY <2>7, RaiseStep
    <2>8. CASE DropRaises(t)
      BY <2>8, DropRaisesStep
    <2> QED BY <1>3, <2>1, <2>2, <2>3, <2>4, <2>5, <2>6, <2>7, <2>8
            DEF Step, Quiet
  <1> QED BY <1>1, <1>2, <1>3 DEF Next

(* The invariant holds in every reachable state.                           *)
THEOREM Invariance == Spec => [](IInv /\ Closing)
  <1>1. IInv /\ Closing /\ [Next]_vars => (IInv /\ Closing)'
    BY StepInv, ClosingStep DEF IInv
  <1> QED BY <1>1, InitInv, PTL DEF Spec

(* The types hold in every reachable state, for any cast.                  *)
THEOREM TypeCorrect == Spec => []TypeOK
  BY Invariance, PTL DEF IInv

(* However requests, sweeps, deletions and the shutdown interleave, there  *)
(* is never a second session to answer the user with.                      *)
THEOREM OneForTheUser == Spec => []OneSession
  <1>1. IInv => OneSession
    <2> SUFFICES ASSUME IInv PROVE OneSession
      OBVIOUS
    <2> DEFINE S == {r \in ToSet(active) : Reusable(r) /\ r \notin failed}
    <2>1. DOMAIN active = 1..Len(active)
      BY LenProperties DEF IInv, TypeOK
    <2>2. \A q, r \in S : q = r
      BY <2>1 DEF IInv, Table, ToSet
    <2>3. S = {} \/ \E r : S = {r}
      BY <2>2
    <2>4. Cardinality(S) \in {0, 1}
      BY <2>3, FS_EmptySet, FS_Singleton
    <2> QED BY <2>4 DEF OneSession
  <1> QED BY <1>1, Invariance, PTL

(* A lock is lost only of a session that was closed under its execution,   *)
(* or whose execution raised before its try or in its finally              *)
(* (supervisor.py:143-172 and 260-307).                                    *)
THEOREM LocksReturned == Spec => []LockLostHasCause
  <1>1. IInv => LockLostHasCause
    <2> SUFFICES ASSUME IInv PROVE LockLostHasCause
      OBVIOUS
    <2>1. DOMAIN recs = Records
      BY LenProperties DEF IInv, TypeOK, Records
    <2> QED BY <2>1 DEF IInv, Locks, LockLostHasCause, Executing, Sid, Of, Alive
  <1> QED BY <1>1, Invariance, PTL

-----------------------------------------------------------------------------
(* Where a thread of each kind may be: a close may lead back to opening a  *)
(* session, which is then no dispatch of its own (boot).                   *)
Executes == {"check", "queue", "begin", "work", "leave"}
Closes == {"closed", "ask", "release", "drop"}
Reopens == {"find", "activate", "reboot", "found", "warm"}

Station(t) ==
    /\ t \in Job => pc[t] \in {"new", "find", "activate", "done"} \cup Executes
    /\ t \in Prompt => pc[t] \in {"new", "find", "activate", "found", "warm",
                                  "enter", "exit", "done"} \cup Executes
    /\ t \in Sweep => pc[t] \in {"new", "enter", "list", "look", "boot", "leave",
                                 "exit", "done"} \cup Closes \cup Reopens
    /\ t \in Delete => pc[t] \in {"new", "test", "boot", "exit", "done"}
                                     \cup Closes \cup Reopens
    /\ t = Stop => pc[t] \in {"new", "done", "wait", "stop", "idle", "snapshot",
                              "closeall", "off"} \cup Closes
    /\ t \in Delete /\ pc[t] \in Reopens => boot[t]
    /\ t \in Sweep /\ pc[t] = "reboot" => boot[t]
    /\ boot[t] => t \in Sweep \cup Delete /\ pc[t] \in {"closed"} \cup Reopens

(* A thread is inside the server, and inside a dispatch of the daemon.     *)
Inside(t) == t \in Request /\ pc[t] \notin {"new", "done"}
Within(t) ==
    \/ t \in Job /\ pc[t] \notin {"new", "done"}
    \/ /\ t \in Prompt \cup Sweep
       /\ \/ pc[t] \in {"list", "look", "boot", "reboot"} \cup Executes \cup Closes
          \/ boot[t]

Here == {t \in Thread : Inside(t)}
Sent == {t \in Thread : Within(t)}

(* The guard and the daemon count them.                                    *)
Counted == reqs = Cardinality(Here) /\ inflight = Cardinality(Sent)

(* As far as the shutdown has come nothing is left, unless it was hurried: *)
(* no request, then no dispatch, then no session that is not to be closed. *)
Cleared == {"snapshot", "closeall", "off"} \cup Closes

Covered ==
    \A i \in 1..Len(active) : \E j \in 1..Len(todo[Stop]) :
        recs[active[i]].sid = recs[todo[Stop][j]].sid

Shutting ==
    /\ pc[Stop] \notin {"new", "done"} => drain
    /\ pc[Stop] \in {"stop", "idle"} \cup Cleared /\ ~hurried => Here = {}
    /\ pc[Stop] \in Cleared => ~running
    /\ ~keep[Stop]
    /\ pc[Stop] \in Cleared /\ ~hurried => Sent = {} /\ live = 0
    /\ pc[Stop] \in Closes /\ ~hurried => Covered
    /\ pc[Stop] = "off" /\ ~hurried => active = <<>>

(* How a step of a thread tells in what is counted.                        *)
Less(n) == IF n = 0 THEN 0 ELSE n - 1

Moves(t) ==
    /\ Station(t)'
    /\ \/ inflight' = inflight /\ (Within(t)' <=> Within(t))
       \/ inflight' = inflight + 1 /\ ~Within(t) /\ Within(t)' /\ running
       \/ inflight' = Less(inflight) /\ Within(t) /\ ~Within(t)'
    /\ \/ reqs' = reqs /\ (Inside(t)' <=> Inside(t))
       \/ reqs' = reqs + 1 /\ ~Inside(t) /\ Inside(t)' /\ ~drain
       \/ reqs' = Less(reqs) /\ Inside(t) /\ ~Inside(t)'

(* Threads are of one kind.                                                *)
LEMMA Kinds ==
    ASSUME NEW t \in Thread
    PROVE  /\ t \in Job => t \notin Request /\ t # Stop
           /\ t \in Prompt => t \notin Sweep \cup Delete /\ t # Stop
           /\ t \in Sweep => t \notin Delete /\ t # Stop
           /\ t \in Delete => t # Stop
           /\ t \in Request => t \in Prompt \cup Sweep \cup Delete /\ t # Stop
           /\ t \in Request \cup Job \/ t = Stop
  BY Parts DEF Thread, Request

(* A step moves one thread.                                                *)
LEMMA OneMoves ==
    ASSUME TypeOK, NEW t \in Thread, Step(t)
    PROVE  /\ \E p \in Places : Goto(t, p) \/ pc' = pc
           /\ boot' = boot \/ \E b \in BOOLEAN : boot' = [boot EXCEPT ![t] = b]
           /\ UNCHANGED <<running, draining, drain, hurried>>
  <1> USE DEF Goto, Places, ownVars, daemonVars, guardVars
  <1>1. CASE \/ Arrive(t) \/ Exit(t) \/ Reuse(t) \/ Open(t) \/ WarmNew(t)
             \/ WarmReads(t) \/ WarmKeeps(t) \/ Enter(t) \/ Leave(t)
    BY <1>1 DEF Arrive, Exit, Reuse, Open, WarmNew, WarmReads, WarmKeeps, Enter,
                Leave, AfterFind, AfterWarm
  <1>2. CASE \/ Check(t) \/ Queue(t) \/ Begin(t) \/ Finish(t) \/ List(t)
             \/ Test(t) \/ Ask(t) \/ Release(t) \/ Drop(t)
    BY <1>2 DEF Check, Queue, Begin, Finish, List, Test, Ask, Release, Drop
  <1>4. CASE BeginRaises(t) \/ FinishRaises(t) \/ DropRaises(t)
    BY <1>4 DEF BeginRaises, FinishRaises, DropRaises, AfterRaise
  <1>3. CASE Look(t) \/ Close(t) \/ Bootstrap(t) \/ Booted(t)
    <2>1. UNCHANGED <<running, draining, drain, hurried>>
      BY <1>3 DEF Look, Close, Bootstrap, Booted
    <2>2. boot' = boot \/ \E b \in BOOLEAN : boot' = [boot EXCEPT ![t] = b]
      BY <1>3 DEF Look, Close, Bootstrap, Booted
    <2>3. \E p \in Places : Goto(t, p) \/ pc' = pc
      BY <1>3 DEF Look, Close, Bootstrap, Booted, AfterCloses
    <2> QED BY <2>1, <2>2, <2>3
  <1> QED BY <1>1, <1>2, <1>3, <1>4 DEF Step

(* Every action keeps to the stations, and counts what it enters and       *)
(* leaves: reqs in Arrive and Exit, inflight in Enter and Leave.           *)
LEMMA MovesStep ==
    ASSUME TypeOK, NEW t \in Thread, Station(t), Step(t), ~keep[Stop]
    PROVE  Moves(t)
  <1>1. /\ pc \in [Thread -> Places] /\ boot \in [Thread -> BOOLEAN]
    BY DEF TypeOK
  <1>2. /\ t \in Job => t \notin Request /\ t # Stop
        /\ t \in Prompt => t \notin Sweep \cup Delete /\ t # Stop
        /\ t \in Sweep => t \notin Delete /\ t # Stop
        /\ t \in Delete => t # Stop
        /\ t \in Request => t \in Prompt \cup Sweep \cup Delete /\ t # Stop
        /\ t \in Prompt \cup Sweep \cup Delete => t \in Request
        /\ t \in Request \cup Job \/ t = Stop
    BY Kinds DEF Request
  <1> USE <1>1, <1>2
      DEF Moves, Station, Within, Inside, Executes, Closes, Reopens, Less,
          Goto, ownVars, daemonVars, guardVars
  <1>3. CASE Arrive(t)
    BY <1>3 DEF Arrive
  <1>4. CASE Exit(t)
    BY <1>4 DEF Exit
  <1>5. CASE Reuse(t)
    BY <1>5 DEF Reuse, AfterFind
  <1>6. CASE Open(t)
    BY <1>6 DEF Open, AfterFind
  <1>7. CASE WarmNew(t)
    BY <1>7 DEF WarmNew, AfterFind
  <1>8. CASE WarmReads(t)
    BY <1>8 DEF WarmReads, AfterWarm
  <1>9. CASE WarmKeeps(t)
    BY <1>9 DEF WarmKeeps, AfterWarm
  <1>10. CASE Enter(t)
    BY <1>10 DEF Enter
  <1>11. CASE Leave(t)
    BY <1>11 DEF Leave
  <1>12. CASE Check(t)
    BY <1>12 DEF Check
  <1>13. CASE Queue(t)
    BY <1>13 DEF Queue
  <1>14. CASE Begin(t)
    BY <1>14 DEF Begin
  <1>15. CASE Finish(t)
    BY <1>15 DEF Finish
  <1>16. CASE List(t)
    BY <1>16 DEF List
  <1>17. CASE Look(t)
    BY <1>17 DEF Look
  <1>18. CASE Test(t)
    BY <1>18 DEF Test
  <1>19. CASE Close(t)
    BY <1>19 DEF Close, AfterCloses
  <1>20. CASE Ask(t)
    BY <1>20 DEF Ask
  <1>21. CASE Release(t)
    BY <1>21 DEF Release
  <1>22. CASE Drop(t)
    <2>1. /\ pc[t] = "drop" /\ Goto(t, IF keep[t] THEN "boot" ELSE "closed")
          /\ boot' = boot /\ reqs' = reqs /\ inflight' = inflight
      BY <1>22 DEF Drop
    <2> QED BY <2>1
  <1>23. CASE Bootstrap(t)
    BY <1>23 DEF Bootstrap
  <1>24. CASE Booted(t)
    BY <1>24 DEF Booted
  <1>25. CASE BeginRaises(t) \/ FinishRaises(t)
    BY <1>25 DEF BeginRaises, FinishRaises
  <1>26. CASE DropRaises(t)
    <2>1. /\ pc[t] = "drop" /\ Goto(t, AfterRaise(t))
          /\ boot' = boot /\ reqs' = reqs /\ inflight' = inflight
      BY <1>26 DEF DropRaises
    <2> QED BY <2>1 DEF AfterRaise
  <1> QED
    BY <1>3, <1>4, <1>5, <1>6, <1>7, <1>8, <1>9, <1>10, <1>11, <1>12, <1>13,
       <1>14, <1>15, <1>16, <1>17, <1>18, <1>19, <1>20, <1>21, <1>22, <1>23, <1>24,
       <1>25, <1>26
    DEF Step

(* A set that changes in one element counts one more or less.              *)
LEMMA CountChange ==
    ASSUME NEW S, NEW T, NEW x, IsFiniteSet(S), S \ {x} = T \ {x}
    PROVE  /\ IsFiniteSet(T) /\ Cardinality(S) \in Nat
           /\ (x \in S <=> x \in T) => Cardinality(T) = Cardinality(S)
           /\ x \notin S /\ x \in T => Cardinality(T) = Cardinality(S) + 1
           /\ x \in S /\ x \notin T => Cardinality(T) = Less(Cardinality(S))
  <1>1. Cardinality(S) \in Nat
    BY FS_CardinalityType
  <1>2. CASE x \in S <=> x \in T
    <2>1. S = T
      BY <1>2
    <2> QED BY <1>1, <1>2, <2>1
  <1>3. CASE x \notin S /\ x \in T
    <2>1. T = S \cup {x}
      BY <1>3
    <2> QED BY <1>1, <1>3, <2>1, FS_AddElement
  <1>4. CASE x \in S /\ x \notin T
    <2>1. T = S \ {x}
      BY <1>4
    <2>2. IsFiniteSet(T) /\ Cardinality(T) = Cardinality(S) - 1
      BY <1>4, <2>1, FS_RemoveElement
    <2>3. Cardinality(S) # 0
      BY <1>4, FS_EmptySet
    <2> QED BY <1>1, <1>4, <2>2, <2>3 DEF Less
  <1> QED BY <1>2, <1>3, <1>4

(* The guard counts the requests and the daemon the dispatches.            *)
LEMMA CountedStep ==
    ASSUME TypeOK, NEW t \in Thread, Step(t), Moves(t), Counted
    PROVE  Counted'
  <1>1. /\ \A u \in Thread \ {t} : pc'[u] = pc[u] /\ boot'[u] = boot[u]
    <2>1. /\ \E p \in Places : Goto(t, p) \/ pc' = pc
          /\ boot' = boot \/ \E b \in BOOLEAN : boot' = [boot EXCEPT ![t] = b]
      BY OneMoves
    <2>2. pc \in [Thread -> Places] /\ boot \in [Thread -> BOOLEAN]
      BY DEF TypeOK
    <2> QED BY <2>1, <2>2 DEF Goto
  <1>2. IsFiniteSet(Here) /\ IsFiniteSet(Sent)
    BY Parts, FS_Subset DEF Here, Sent
  <1>3. Here \ {t} = Here' \ {t} /\ Sent \ {t} = Sent' \ {t}
    BY <1>1 DEF Here, Sent, Inside, Within
  <1>4. (t \in Here <=> Inside(t)) /\ (t \in Sent <=> Within(t))
    BY DEF Here, Sent
  <1>5. (t \in Here' <=> Inside(t)') /\ (t \in Sent' <=> Within(t)')
    BY DEF Here, Sent, Inside, Within
  <1>6. reqs' = Cardinality(Here')
    <2> DEFINE S == Here
               T == Here'
    <2>1. IsFiniteSet(S) /\ S \ {t} = T \ {t} /\ reqs = Cardinality(S)
      BY <1>2, <1>3 DEF Counted
    <2>2. \/ reqs' = reqs /\ (t \in T <=> t \in S)
          \/ reqs' = reqs + 1 /\ t \notin S /\ t \in T
          \/ reqs' = Less(reqs) /\ t \in S /\ t \notin T
      BY <1>4, <1>5 DEF Moves
    <2> HIDE DEF S, T
    <2>3. reqs' = Cardinality(T)
      BY <2>1, <2>2, CountChange
    <2> QED BY <2>3 DEF T
  <1>7. inflight' = Cardinality(Sent')
    <2> DEFINE S == Sent
               T == Sent'
    <2>1. IsFiniteSet(S) /\ S \ {t} = T \ {t} /\ inflight = Cardinality(S)
      BY <1>2, <1>3 DEF Counted
    <2>2. \/ inflight' = inflight /\ (t \in T <=> t \in S)
          \/ inflight' = inflight + 1 /\ t \notin S /\ t \in T
          \/ inflight' = Less(inflight) /\ t \in S /\ t \notin T
      BY <1>4, <1>5 DEF Moves
    <2> HIDE DEF S, T
    <2>3. inflight' = Cardinality(T)
      BY <2>1, <2>2, CountChange
    <2> QED BY <2>3 DEF T
  <1> QED BY <1>6, <1>7 DEF Counted

(* Nobody else's place is moved by a step.                                 *)
LEMMA OthersStay ==
    ASSUME TypeOK, NEW t \in Thread, Step(t), NEW u \in Thread \ {t}
    PROVE  /\ pc'[u] = pc[u] /\ boot'[u] = boot[u]
           /\ keep'[u] = keep[u] /\ todo'[u] = todo[u]
           /\ Inside(u)' <=> Inside(u)
           /\ Within(u)' <=> Within(u)
           /\ Station(u)' <=> Station(u)
  <1>1. pc'[u] = pc[u] /\ boot'[u] = boot[u]
    <2>1. /\ \E p \in Places : Goto(t, p) \/ pc' = pc
          /\ boot' = boot \/ \E b \in BOOLEAN : boot' = [boot EXCEPT ![t] = b]
      BY OneMoves
    <2>2. pc \in [Thread -> Places] /\ boot \in [Thread -> BOOLEAN]
      BY DEF TypeOK
    <2> QED BY <2>1, <2>2 DEF Goto
  <1>2. keep'[u] = keep[u]
    <2>1. keep \in [Thread -> BOOLEAN]
      BY DEF TypeOK
    <2>2. keep' = keep \/ \E b : keep' = [keep EXCEPT ![t] = b]
      <3> USE DEF ownVars
      <3>1. CASE \/ Arrive(t) \/ Exit(t) \/ Reuse(t) \/ Open(t) \/ WarmNew(t)
                 \/ WarmReads(t) \/ WarmKeeps(t) \/ Enter(t) \/ Leave(t)
        BY <3>1 DEF Arrive, Exit, Reuse, Open, WarmNew, WarmReads, WarmKeeps,
                    Enter, Leave
      <3>2. CASE \/ Check(t) \/ Queue(t) \/ Begin(t) \/ Finish(t) \/ List(t)
                 \/ Test(t) \/ Release(t) \/ Drop(t) \/ Look(t)
                 \/ Close(t) \/ Bootstrap(t) \/ Booted(t)
                 \/ BeginRaises(t) \/ FinishRaises(t) \/ DropRaises(t)
        BY <3>2 DEF Check, Queue, Begin, Finish, List, Test, Release, Drop, Look,
                    Close, Bootstrap, Booted, BeginRaises, FinishRaises,
                    DropRaises
      <3>3. CASE Ask(t)
        BY <3>3 DEF Ask
      <3> QED BY <3>1, <3>2, <3>3 DEF Step
    <2> QED BY <2>1, <2>2
  <1>3. todo'[u] = todo[u]
    <2>1. todo \in [Thread -> Seq(1..Len(recs))]
      BY DEF TypeOK
    <2>2. todo' = todo \/ \E q : todo' = [todo EXCEPT ![t] = q]
      <3> USE DEF ownVars
      <3>1. CASE \/ Arrive(t) \/ Exit(t) \/ Reuse(t) \/ Open(t) \/ WarmNew(t)
                 \/ WarmReads(t) \/ WarmKeeps(t) \/ Enter(t) \/ Leave(t)
        BY <3>1 DEF Arrive, Exit, Reuse, Open, WarmNew, WarmReads, WarmKeeps,
                    Enter, Leave
      <3>2. CASE \/ Check(t) \/ Queue(t) \/ Begin(t) \/ Finish(t) \/ Ask(t)
                 \/ Release(t) \/ Bootstrap(t) \/ Booted(t)
                 \/ BeginRaises(t) \/ FinishRaises(t)
        BY <3>2 DEF Check, Queue, Begin, Finish, Ask, Release, Bootstrap, Booted,
                    BeginRaises, FinishRaises
      <3>3. CASE List(t) \/ Look(t) \/ Test(t)
        BY <3>3 DEF List, Look, Test
      <3>4. CASE Close(t) \/ Drop(t) \/ DropRaises(t)
        BY <3>4 DEF Close, Drop, DropRaises
      <3> QED BY <3>1, <3>2, <3>3, <3>4 DEF Step
    <2> QED BY <2>1, <2>2
  <1> QED BY <1>1, <1>2, <1>3 DEF Inside, Within, Station

(* What a thread does beside the shutdown undoes nothing of it: with       *)
(* nobody inside only a new one can step, and it is refused.               *)
LEMMA OthersShut ==
    ASSUME TypeOK, Shutting, NEW t \in Thread \ {Stop}, Step(t), Moves(t)
    PROVE  Shutting'
  <1>0. Stop \in Thread
    BY DEF Thread
  <1>1. /\ pc'[Stop] = pc[Stop] /\ keep'[Stop] = keep[Stop]
        /\ todo'[Stop] = todo[Stop]
    BY <1>0, OthersStay
  <1>2. UNCHANGED <<running, drain, hurried>>
    BY OneMoves
  <1>3. ASSUME pc[Stop] \in {"stop", "idle"} \cup Cleared, ~hurried
        PROVE  Here' = {} /\ ~Inside(t)
    <2>1. Here = {} /\ drain
      BY <1>3 DEF Shutting, Cleared, Closes
    <2>2. ~Inside(t) /\ ~Inside(t)'
      BY <2>1 DEF Here, Moves
    <2>3. \A u \in Thread \ {t} : ~Inside(u)'
      BY <2>1, OthersStay DEF Here
    <2> QED BY <2>2, <2>3 DEF Here, Inside
  <1>4. ASSUME pc[Stop] \in Cleared, ~hurried
        PROVE  Sent' = {} /\ UNCHANGED <<live, active, recs>>
    <2>1. Sent = {} /\ ~running /\ ~Inside(t)
      BY <1>3, <1>4 DEF Shutting
    <2>2. ~Within(t) /\ ~Within(t)'
      BY <2>1 DEF Sent, Moves
    <2>3. \A u \in Thread \ {t} : ~Within(u)'
      BY <2>1, OthersStay DEF Sent
    <2>4. pc[t] \in {"new", "done"}
      BY <2>1, <2>2, Kinds DEF Inside, Within
    <2>5. Arrive(t) \/ Enter(t)
      BY <2>4 DEF Step, Exit, Reuse, Open, WarmNew, WarmReads, WarmKeeps, Leave,
                  Check, Queue, Begin, Finish, List, Look, Test, Close, Ask,
                  Release, Drop, Bootstrap, Booted, BeginRaises, FinishRaises,
                  DropRaises
    <2>6. UNCHANGED <<live, active, recs>>
      BY <2>5 DEF Arrive, Enter, dbVars, daemonVars
    <2> QED BY <2>2, <2>3, <2>6 DEF Sent, Within
  <1>5. pc[Stop] \in Closes \cup {"off"} => pc[Stop] \in Cleared
    BY DEF Cleared
  <1> QED BY <1>1, <1>2, <1>3, <1>4, <1>5 DEF Shutting, Covered

(* The sessions that the shutdown still has to close cover those that are  *)
(* active: one that it passes over is not, one that it closes is no more.  *)
LEMMA CoverStep ==
    ASSUME IInv, Closing, Covered, Close(Stop) \/ Drop(Stop), todo[Stop] # <<>>
    PROVE  Covered'
  <1>1. /\ Stop \in Thread /\ todo \in [Thread -> Seq(1..Len(recs))]
        /\ active \in Seq(1..Len(recs))
    BY DEF IInv, TypeOK, Thread
  <1> DEFINE q == todo[Stop]
             p == todo'[Stop]
  <1>2. /\ q \in Seq(1..Len(recs)) /\ Len(q) \in Nat \ {0}
        /\ Len(active) \in Nat /\ DOMAIN active = 1..Len(active)
        /\ \A i \in 1..Len(active) : active[i] \in Records
        /\ \A j \in 1..Len(q) : q[j] \in Records
    BY <1>1, EmptySeq, LenProperties, ElementOfSeq DEF Records
  <1>3. /\ Len(Tail(q)) = Len(q) - 1 /\ Head(q) = q[1]
        /\ \A j \in 1..(Len(q) - 1) : Tail(q)[j] = q[j + 1]
    BY <1>2, HeadTailProperties
  <1>4. CASE Close(Stop)
    <2>1. UNCHANGED <<recs, active>>
      BY <1>4 DEF Close, dbVars
    <2>2. CASE Sid(Head(q)) \in ActiveSids
      <3>1. p = q
        BY <1>4, <2>2 DEF Close
      <3> QED BY <2>1, <3>1 DEF Covered
    <2>3. CASE Sid(Head(q)) \notin ActiveSids
      <3>1. p = Tail(q)
        BY <1>1, <1>4, <2>3 DEF Close
      <3>2. \A i \in 1..Len(active) : recs[active[i]].sid # recs[q[1]].sid
        BY <1>2, <1>3, <2>3 DEF ActiveSids, Sid, ToSet
      <3>3. ASSUME NEW i \in 1..Len(active)
            PROVE  \E k \in 1..Len(p) : recs[active[i]].sid = recs[p[k]].sid
        <4>1. PICK j \in 1..Len(q) : recs[active[i]].sid = recs[q[j]].sid
          BY DEF Covered
        <4>2. j # 1
          BY <3>2, <4>1
        <4>3. j - 1 \in 1..(Len(q) - 1) /\ (j - 1) + 1 = j
          BY <1>2, <4>2
        <4>4. p[j - 1] = q[j]
          BY <1>3, <3>1, <4>3
        <4> QED BY <1>3, <3>1, <4>1, <4>3, <4>4
      <3> QED BY <2>1, <3>3 DEF Covered
    <2> QED BY <2>2, <2>3
  <1>5. CASE Drop(Stop)
    <2>1. PICK i \in 1..Len(active) :
              /\ active' = RemoveAt(active, i)
              /\ recs[active[i]].sid = recs[Head(q)].sid
      BY <1>1, <1>5, DropGrows
    <2>2. \A r \in Records : recs'[r].sid = recs[r].sid
      BY <1>1, <1>5, DropGrows DEF Grows
    <2>3. p = Tail(q)
      BY <1>1, <1>5 DEF Drop
    <2>4. /\ Len(active') = Len(active) - 1
          /\ \A k \in 1..(Len(active) - 1) :
                active'[k] = IF k < i THEN active[k] ELSE active[k + 1]
      BY <1>1, <2>1, RemoveAtFacts
    <2>5. ASSUME NEW k \in 1..Len(active')
          PROVE  \E l \in 1..Len(p) : recs'[active'[k]].sid = recs'[p[l]].sid
      <3>1. PICK m \in 1..Len(active) : m # i /\ active'[k] = active[m]
        <4>1. CASE k < i
          BY <1>2, <2>4, <4>1
        <4>2. CASE ~(k < i)
          BY <1>2, <2>4, <4>2
        <4> QED BY <4>1, <4>2
      <3>2. recs[active[m]].sid # recs[q[1]].sid
        BY <1>3, <2>1, <3>1 DEF IInv, Table
      <3>3. PICK j \in 1..Len(q) : recs[active[m]].sid = recs[q[j]].sid
        BY DEF Covered
      <3>4. j - 1 \in 1..(Len(q) - 1) /\ (j - 1) + 1 = j
        BY <1>2, <3>2, <3>3
      <3>5. p[j - 1] = q[j] /\ j - 1 \in 1..Len(p)
        BY <1>3, <2>3, <3>4
      <3>6. recs'[active'[k]].sid = recs'[q[j]].sid
        BY <1>2, <2>2, <3>1, <3>3
      <3> QED BY <3>5, <3>6
    <2> QED BY <2>5 DEF Covered
  <1> QED BY <1>4, <1>5

(* The shutdown closes what is left, and nothing is opened again for it.   *)
LEMMA StopShut ==
    ASSUME IInv, Closing, Shutting, Station(Stop), Step(Stop)
    PROVE  Shutting'
  <1>0. /\ Stop \in Thread /\ TypeOK /\ Stop \notin Request \cup Job
        /\ Stop \notin Delete
    BY Parts DEF Thread, Request, IInv
  <1>1. /\ \/ Close(Stop) \/ Ask(Stop) \/ Release(Stop) \/ Drop(Stop)
           \/ DropRaises(Stop)
        /\ pc[Stop] \in Closes
    <2>1. /\ pc[Stop] \in {"new", "done", "wait", "stop", "idle", "snapshot",
                           "closeall", "off"} \cup Closes
          /\ ~boot[Stop]
      BY <1>0 DEF Station, Request
    <2>2. ~Arrive(Stop) /\ ~Enter(Stop)
      BY <1>0, <2>1 DEF Arrive, Enter, Closes
    <2> QED
      BY <2>1, <2>2
      DEF Step, Exit, Reuse, Open, WarmNew, WarmReads, WarmKeeps, Leave, Check,
          Queue, Begin, Finish, List, Look, Test, Bootstrap, Booted, Close, Ask,
          Release, Drop, Closes, BeginRaises, FinishRaises, DropRaises
  <1>2. UNCHANGED <<running, drain, hurried>>
    BY <1>0, OneMoves
  <1>3. drain /\ ~running /\ ~keep[Stop]
    BY <1>1 DEF Shutting, Closes, Cleared
  <1>4. Here' = Here /\ Sent' = Sent
    <2>1. \A u \in Thread \ {Stop} : /\ Inside(u)' <=> Inside(u)
                                     /\ Within(u)' <=> Within(u)
      BY <1>0, OthersStay
    <2>2. ~Inside(Stop) /\ ~Inside(Stop)' /\ ~Within(Stop) /\ ~Within(Stop)'
      BY <1>0 DEF Inside, Within, Request
    <2> QED BY <2>1, <2>2 DEF Here, Sent, Inside, Within
  <1>5. pc[Stop] \in Cleared /\ (~hurried => Here = {} /\ Sent = {} /\ live = 0
                                             /\ Covered)
    BY <1>1 DEF Shutting, Cleared
  <1>6. pc'[Stop] \in Closes \cup {"off", "done"} /\ live' \in {live, 0}
        /\ ~keep'[Stop]
    <2> USE <1>0, <1>1, <1>3 DEF Goto, Closes, TypeOK
    <2>1. CASE Close(Stop)
      BY <2>1 DEF Close, AfterCloses, daemonVars
    <2>2. CASE Ask(Stop)
      BY <2>2 DEF Ask, Preserved, daemonVars
    <2>3. CASE Release(Stop)
      BY <2>3 DEF Release, ownVars
    <2>4. CASE Drop(Stop)
      <3>1. Goto(Stop, "closed") /\ live' = live /\ keep' = keep
        BY <2>4 DEF Drop, daemonVars
      <3> QED BY <3>1
    <2>5. CASE DropRaises(Stop)
      <3>1. Goto(Stop, "done") /\ live' = live /\ keep' = keep
        BY <2>5 DEF DropRaises, AfterRaise, daemonVars
      <3> QED BY <3>1
    <2> QED BY <2>1, <2>2, <2>3, <2>4, <2>5
  <1>a. ~DropRaises(Stop) \/ pc'[Stop] = "done"
    BY <1>0 DEF DropRaises, AfterRaise, Goto, TypeOK
  <1>7. ASSUME ~hurried, pc'[Stop] \in Closes
        PROVE  Covered'
    <2>1. CASE Close(Stop)
      <3>1. todo[Stop] # <<>>
        BY <1>0, <1>7, <2>1 DEF Close, AfterCloses, Goto, TypeOK, Closes
      <3> QED BY <1>5, <1>7, <2>1, <3>1, CoverStep
    <2>2. CASE Ask(Stop) \/ Release(Stop)
      <3>1. UNCHANGED <<recs, active, todo>>
        BY <2>2 DEF Ask, Release, dbVars, ownVars
      <3> QED BY <1>5, <1>7, <3>1 DEF Covered
    <2>3. CASE Drop(Stop)
      <3>1. todo[Stop] # <<>>
        BY <1>0, <2>3 DEF Drop, Closing
      <3> QED BY <1>5, <1>7, <2>3, <3>1, CoverStep
    <2> QED BY <1>1, <1>7, <1>a, <2>1, <2>2, <2>3 DEF Closes
  <1>8. ASSUME ~hurried, pc'[Stop] = "off"
        PROVE  active' = <<>>
    <2>1. Close(Stop) /\ todo[Stop] = <<>>
      <3>1. ~(Ask(Stop) \/ Release(Stop) \/ Drop(Stop))
        BY <1>0, <1>3, <1>8 DEF Ask, Release, Drop, Goto, TypeOK
      <3>2. todo[Stop] = <<>>
        BY <1>0, <1>1, <1>8, <1>a, <3>1 DEF Close, Goto, TypeOK
      <3> QED BY <1>1, <1>8, <1>a, <3>1, <3>2
    <2>2. active' = active /\ active \in Seq(1..Len(recs))
      BY <1>0, <2>1 DEF Close, dbVars, TypeOK
    <2>3. Len(active) \in Nat
      BY <2>2, LenProperties
    <2>4. ~(1 \in 1..Len(active))
      BY <1>5, <1>8, <2>1 DEF Covered
    <2>5. Len(active) = 0
      BY <2>3, <2>4
    <2> QED BY <2>2, <2>5, EmptySeq
  <1> QED
    BY <1>2, <1>3, <1>4, <1>5, <1>6, <1>7, <1>8
    DEF Shutting, Closes, Cleared

(* Each stage of the shutdown is reached with what it waited for gone,     *)
(* unless its wait ran out.                                                *)
LEMMA ShutdownShut ==
    ASSUME TypeOK, Counted, Shutting, \A t \in Thread : Station(t), Shutdown
    PROVE  /\ Shutting' /\ Counted'
           /\ \A t \in Thread : Station(t)'
  <1>1. /\ Stop \in Thread /\ Stop \notin Request \cup Job /\ Stop \notin Sweep
        /\ Stop \notin Prompt /\ Stop \notin Delete
        /\ pc \in [Thread -> Places] /\ hurried \in BOOLEAN
        /\ todo \in [Thread -> Seq(1..Len(recs))]
        /\ reqs \in Nat /\ inflight \in Nat
    BY Parts DEF Thread, Request, TypeOK
  <1>2. /\ UNCHANGED <<boot, keep, reqs, inflight>>
        /\ \E p \in {"wait", "stop", "idle", "snapshot", "closeall", "closed"} :
               Goto(Stop, p)
    <2> USE DEF ownVars, guardVars, daemonVars
    <2>1. CASE CloseAll \/ StartDraining \/ WaitActive
      BY <2>1 DEF CloseAll, StartDraining, WaitActive
    <2>2. CASE StopDrains \/ StopClears \/ Snapshot
      BY <2>2 DEF StopDrains, StopClears, Snapshot
    <2> QED BY <2>1, <2>2 DEF Shutdown
  <1>3. \A u \in Thread \ {Stop} : pc'[u] = pc[u]
    BY <1>1, <1>2 DEF Goto
  <1>4. \A t \in Thread : Station(t)'
    <2>1. \A t \in Thread \ {Stop} : Station(t)'
      BY <1>2, <1>3 DEF Station
    <2>2. Station(Stop)'
      <3>1. ~boot[Stop]
        BY <1>1 DEF Station
      <3>2. pc'[Stop] \in {"wait", "stop", "idle", "snapshot", "closeall",
                           "closed"}
        BY <1>1, <1>2 DEF Goto
      <3> QED BY <1>1, <1>2, <3>1, <3>2 DEF Station, Closes
    <2> QED BY <2>1, <2>2
  <1>5. Here' = Here /\ Sent' = Sent
    <2>1. \A u \in Thread : (Inside(u)' <=> Inside(u)) /\ (Within(u)' <=> Within(u))
      BY <1>1, <1>2, <1>3 DEF Inside, Within
    <2> QED BY <2>1 DEF Here, Sent, Inside, Within
  <1>6. Counted'
    BY <1>2, <1>5 DEF Counted
  <1>7. IsFiniteSet(Here) /\ IsFiniteSet(Sent)
    BY Parts, FS_Subset DEF Here, Sent
  <1>8. reqs = 0 => Here = {}
    BY <1>7, FS_EmptySet DEF Counted
  <1>9. inflight = 0 => Sent = {}
    BY <1>7, FS_EmptySet DEF Counted
  <1>10. Shutting'
    <2> USE <1>1 DEF Goto, Closes, Cleared
    <2>1. CASE CloseAll
      <3>1. /\ pc[Stop] = "closeall" /\ pc'[Stop] = "closed"
            /\ todo'[Stop] = active
            /\ UNCHANGED <<running, live, drain, hurried, recs, active>>
        BY <2>1 DEF CloseAll, dbVars, daemonVars, guardVars
      <3>2. Covered'
        BY <3>1 DEF Covered
      <3> QED BY <1>2, <1>5, <3>1, <3>2 DEF Shutting
    <2>2. CASE StartDraining
      <3>1. pc'[Stop] = "wait" /\ drain'
        BY <2>2 DEF StartDraining
      <3> QED BY <1>2, <3>1 DEF Shutting
    <2>3. CASE WaitActive
      <3>1. /\ pc[Stop] = "wait" /\ pc'[Stop] = "stop" /\ drain' = drain
            /\ hurried' = (hurried \/ reqs > 0)
        BY <2>3 DEF WaitActive, guardVars
      <3>2. ~hurried' => reqs = 0
        <4>1. ~hurried' => ~(reqs > 0)
          BY Zenon, <3>1
        <4> QED BY <4>1
      <3>3. ~hurried' => Here' = {}
        BY <1>5, <1>8, <3>2
      <3> QED BY <1>2, <3>1, <3>3 DEF Shutting
    <2>4. CASE StopDrains
      <3>1. /\ pc[Stop] = "stop" /\ pc'[Stop] = "idle"
            /\ UNCHANGED <<drain, hurried>>
        BY <2>4 DEF StopDrains, guardVars
      <3> QED BY <1>2, <1>5, <3>1 DEF Shutting
    <2>5. CASE StopClears
      <3>1. /\ pc[Stop] = "idle" /\ pc'[Stop] = "snapshot" /\ drain' = drain
            /\ hurried' = (hurried \/ inflight > 0)
            /\ live' = 0 /\ ~running'
        BY <2>5 DEF StopClears, guardVars
      <3>2. ~hurried' => ~hurried /\ inflight = 0
        <4>1. ~hurried' => ~hurried /\ ~(inflight > 0)
          BY Zenon, <3>1
        <4> QED BY <4>1
      <3>3. ~hurried' => Sent' = {}
        BY <1>5, <1>9, <3>2
      <3> QED BY <1>2, <1>5, <3>1, <3>2, <3>3 DEF Shutting
    <2>6. CASE Snapshot
      <3>1. /\ pc[Stop] = "snapshot" /\ pc'[Stop] = "closeall"
            /\ UNCHANGED <<running, live, drain, hurried>>
        BY <2>6 DEF Snapshot, guardVars
      <3> QED BY <1>2, <1>5, <3>1 DEF Shutting
    <2> QED BY <2>1, <2>2, <2>3, <2>4, <2>5, <2>6 DEF Shutdown
  <1> QED BY <1>4, <1>6, <1>10

(* A shutdown whose waits did not run out leaves nothing behind: no        *)
(* session, no runtime, no dispatch, and nobody comes in after it          *)
(* (the end of lifespan, DrainGuard.wait_active, RecursionDaemon.stop,     *)
(* SessionManager.close_all).                                              *)
THEOREM ShutsInPeace == Spec => []ShutInPeace
  <1> DEFINE Inv == Counted /\ Shutting /\ \A t \in Thread : Station(t)
  <1>1. Init => Inv
    <2> SUFFICES ASSUME NEW cast \in Casts, Starts(cast)
                 PROVE  Inv
      BY DEF Init
    <2>1. /\ \A t \in Thread : pc[t] \in {"new", "done"} /\ ~boot[t] /\ ~keep[t]
          /\ reqs = 0 /\ inflight = 0 /\ Stop \in Thread
      BY DEF Starts, Thread
    <2>2. \A t \in Thread : Station(t)
      BY <2>1 DEF Station, Reopens
    <2>3. Shutting
      BY <2>1 DEF Shutting, Cleared, Closes
    <2>4. Counted
      <3>1. Here = {} /\ Sent = {}
        BY <2>1 DEF Here, Sent, Inside, Within, Executes, Closes
      <3> QED BY <2>1, <3>1, FS_EmptySet DEF Counted
    <2> QED BY <2>2, <2>3, <2>4
  <1>2. IInv /\ Closing /\ Inv /\ [Next]_vars => Inv'
    <2> SUFFICES ASSUME IInv, Closing, Inv, [Next]_vars PROVE Inv'
      OBVIOUS
    <2>0. TypeOK /\ ~keep[Stop] /\ Stop \in Thread
      BY DEF IInv, Shutting, Thread
    <2>1. CASE UNCHANGED vars
      BY <2>1 DEF vars, dbVars, daemonVars, guardVars, ownVars, Counted, Here,
                  Sent, Inside, Within, Shutting, Covered, Station
    <2>2. CASE Shutdown
      BY <2>0, <2>2, ShutdownShut
    <2>3. ASSUME NEW t \in Thread, Step(t)
          PROVE  Inv'
      <3>1. Moves(t)
        BY <2>0, <2>3, MovesStep
      <3>2. Counted'
        BY <2>0, <2>3, <3>1, CountedStep
      <3>3. \A u \in Thread : Station(u)'
        BY <2>0, <2>3, <3>1, OthersStay DEF Moves
      <3>4. CASE t = Stop
        BY <2>0, <2>3, <3>2, <3>3, <3>4, StopShut
      <3>5. CASE t # Stop
        BY <2>0, <2>3, <3>1, <3>2, <3>3, <3>5, OthersShut
      <3> QED BY <3>4, <3>5
    <2> QED BY <2>1, <2>2, <2>3 DEF Next
  <1>3. Inv => ShutInPeace
    <2> SUFFICES ASSUME Inv, pc[Stop] = "off", ~hurried
                 PROVE  /\ active = <<>> /\ live = 0 /\ ~running /\ inflight = 0
                        /\ \A t \in Thread \ {Stop} : pc[t] \in {"new", "done"}
      BY DEF ShutInPeace
    <2>1. /\ Here = {} /\ Sent = {} /\ active = <<>> /\ live = 0 /\ ~running
      BY DEF Shutting, Cleared
    <2>2. inflight = 0
      BY <2>1, FS_EmptySet DEF Counted
    <2>3. ASSUME NEW t \in Thread \ {Stop}
          PROVE  pc[t] \in {"new", "done"}
      <3>1. ~Inside(t) /\ ~Within(t)
        BY <2>1 DEF Here, Sent
      <3> QED BY <3>1, Kinds DEF Inside, Within
    <2> QED BY <2>1, <2>2, <2>3
  <1> QED BY <1>1, <1>2, <1>3, Invariance, PTL DEF Spec
=============================================================================
