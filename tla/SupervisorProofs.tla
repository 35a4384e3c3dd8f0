-------------------------- MODULE SupervisorProofs --------------------------
(***************************************************************************)
(* What RLMSupervisor guarantees for any number of sessions and requests.  *)
(* The registries are written and popped by session id, without looking    *)
(* at whose entry is there; what makes that right is the execution lock,   *)
(* and the argument ties every entry to the position of the lock's holder. *)
(***************************************************************************)
EXTENDS Supervisor, TLAPS

\* The lock is held exactly by the request that is between acquire() and
\* release(), or that never got to release().
LockInv ==
    \A r \in Request : pc[r] \in Holding <=> holder[SessionOf[r]] = r

HolderInv ==
    \A s \in Session : holder[s] # None => SessionOf[holder[s]] = s

\* An entry of a registry was put there by a request that holds the lock and
\* has not cleaned up; a request before its clean-up still has its entries.
RegistryInv ==
    /\ \A s \in Session :
         /\ events[s] # None =>
              /\ events[s] = holder[s]
              /\ pc[events[s]] \in {"event", "source", "running", "finally",
                                    "stuck"}
         /\ sources[s] # None =>
              /\ sources[s] = holder[s]
              /\ pc[sources[s]] \in {"source", "running", "finally", "stuck"}
    /\ \A r \in Request :
         /\ pc[r] \in {"event", "source", "running", "finally"} =>
              events[SessionOf[r]] = r
         /\ pc[r] \in {"source", "running", "finally"} =>
              sources[SessionOf[r]] = r

\* The instance's event and token are those of the request it runs for.
HookInv ==
    \A r \in Request :
        /\ pc[r] \in {"source", "running"} => instEvent[SessionOf[r]] = r
        /\ pc[r] = "running" => instToken[SessionOf[r]] = r

\* Only the lock's holder may have changed the limit, and it has saved the
\* value to restore.
LimitInv ==
    /\ \A s \in Session :
         limit[s] # Default =>
            /\ limit[s] = holder[s]
            /\ pc[limit[s]] \in {"running", "finally", "stuck"}
            /\ limit[s] \in Override
    /\ \A r \in Request :
         pc[r] \in {"running", "finally"} => saved[r] = Default

\* A session that runs has a holder of its lock, which before it releases it
\* has said that the session does not run any more; until the session is
\* closed nobody else has a say in it.
StatusInv ==
    /\ \A s \in Session : status[s] = "running" => holder[s] # None
    /\ \A r \in Request :
         /\ pc[r] = "release" => status[SessionOf[r]] # "running"
         /\ pc[r] = "running" /\ closing[SessionOf[r]] # "closed" =>
              status[SessionOf[r]] = "running"

\* What the pool was asked before its shutdown is cancelled or waited for.
PoolInv ==
    /\ shut \in {"joining", "down"} => \A r \in Async : pc[r] # "queued"
    /\ shut = "down" => \A r \in Async : pc[r] \in {"idle", "done", "stuck"}

IInv == /\ TypeOK /\ LockInv /\ HolderInv /\ RegistryInv /\ HookInv /\ LimitInv
        /\ StatusInv /\ PoolInv

\* The initial states satisfy the invariant.
LEMMA InitIInv == Init => IInv
BY NoneIsNothing, SessionType
   DEF Init, IInv, TypeOK, LockInv, HolderInv, RegistryInv, HookInv, LimitInv,
       StatusInv, PoolInv, Holding, Statuses, Default

\* Every step preserves the types.
LEMMA TypeStep == TypeOK /\ [Next]_vars => TypeOK'
<1> SUFFICES ASSUME TypeOK, [Next]_vars PROVE TypeOK'
    BY DEF IInv
<1> USE RequestType, SessionType, NoneIsNothing
    DEF TypeOK, Holding, Statuses, Default,
        lockVars, abortVars, instVars, sessionVars, shutVars
<1>1. ASSUME NEW r \in Request, Submit(r) PROVE TypeOK'
    BY <1>1 DEF Submit, Goto
<1>2. ASSUME NEW r \in Request, Call(r) PROVE TypeOK'
    <2>1. CASE inst[SessionOf[r]] = "gone"
        BY <1>2, <2>1, SMTT(60) DEF Call
    <2>2. CASE ~(inst[SessionOf[r]] = "gone")
        BY <1>2, <2>2 DEF Call
    <2> QED
        BY <2>1, <2>2
<1>3. ASSUME NEW r \in Request, Acquire(r) PROVE TypeOK'
    BY <1>3 DEF Acquire, Goto
<1>4. ASSUME NEW r \in Request, QueueTimeout(r) PROVE TypeOK'
    BY <1>4 DEF QueueTimeout, Goto
<1>5. ASSUME NEW r \in Request, RegisterEvent(r) PROVE TypeOK'
    BY <1>5 DEF RegisterEvent, Goto
<1>6. ASSUME NEW r \in Request, RegisterSource(r) PROVE TypeOK'
    <2>1. CASE inst[SessionOf[r]] = "gone"
        BY <1>6, <2>1 DEF RegisterSource
    <2>2. CASE ~(inst[SessionOf[r]] = "gone")
        BY <1>6, <2>2, SMTT(60) DEF RegisterSource
    <2> QED
        BY <2>1, <2>2
<1>7. ASSUME NEW r \in Request, Start(r) PROVE TypeOK'
    BY <1>7 DEF Start, Goto
<1>8. ASSUME NEW r \in Request, StartRaises(r) PROVE TypeOK'
    <2>1. CASE inst[SessionOf[r]] = "gone"
        BY <1>8, <2>1 DEF StartRaises, Goto
    <2>2. CASE ~(inst[SessionOf[r]] = "gone")
        BY <1>8, <2>2 DEF StartRaises, Goto
    <2> QED
        BY <2>1, <2>2
<1>9. ASSUME NEW r \in Request, Returns(r) PROVE TypeOK'
    BY <1>9 DEF Returns, Goto
<1>10. ASSUME NEW r \in Request, Raises(r) PROVE TypeOK'
    BY <1>10 DEF Raises, Goto
<1>11. ASSUME NEW r \in Request, CleanUp(r) PROVE TypeOK'
    BY <1>11 DEF CleanUp, Goto
<1>12. ASSUME NEW r \in Request, Settle(r) PROVE TypeOK'
    BY <1>12 DEF Settle, StatusAfter, Goto
<1>13. ASSUME NEW r \in Request, Release(r) PROVE TypeOK'
    BY <1>13 DEF Release, Goto
<1>14. ASSUME NEW r \in Request, Expire(r) PROVE TypeOK'
    BY <1>14 DEF Expire
<1>15. ASSUME NEW r \in Request, OnTimeout(r) PROVE TypeOK'
    BY <1>15 DEF OnTimeout, Abort
<1>16. ASSUME NEW s \in Session, UserAbort(s) PROVE TypeOK'
    BY <1>16 DEF UserAbort, Abort
<1>17. ASSUME NEW s \in Session, ShutdownAborts(s) PROVE TypeOK'
    <2>1. CASE events[s] = None
        BY <1>17, <2>1 DEF ShutdownAborts, Abort
    <2>2. CASE ~(events[s] = None)
        BY <1>17, <2>2 DEF ShutdownAborts, Abort
    <2> QED
        BY <2>1, <2>2
<1>18. ASSUME ShutdownBegins PROVE TypeOK'
    BY <1>18 DEF ShutdownBegins
<1>19. ASSUME ShutdownPool PROVE TypeOK'
    BY <1>19 DEF ShutdownPool
<1>20. ASSUME ShutdownJoins PROVE TypeOK'
    BY <1>20 DEF ShutdownJoins
<1>21. ASSUME NEW s \in Session, Decide(s) PROVE TypeOK'
    BY <1>21 DEF Decide
<1>22. ASSUME NEW s \in Session, CloseReleases(s) PROVE TypeOK'
    BY <1>22 DEF CloseReleases
<1>23. ASSUME NEW s \in Session, CloseMarks(s) PROVE TypeOK'
    BY <1>23 DEF CloseMarks
<1>24. CASE UNCHANGED vars
    BY <1>24 DEF vars
<1> QED
    BY <1>1, <1>2, <1>3, <1>4, <1>5, <1>6, <1>7, <1>8, <1>9, <1>10, <1>11, <1>12,
       <1>13, <1>14, <1>15, <1>16, <1>17, <1>18, <1>19, <1>20, <1>21, <1>22, <1>23, <1>24
       DEF Next, Execution, Shutdown, DeleteDecides, PruneDecides, CloseAll

\* The lock follows the position of its holder.
LEMMA LockStep == IInv /\ [Next]_vars => LockInv'
<1> SUFFICES ASSUME TypeOK, LockInv, HolderInv, [Next]_vars PROVE LockInv'
    BY DEF IInv
<1> USE RequestType, SessionType, NoneIsNothing
    DEF TypeOK, LockInv, HolderInv, Holding, lockVars, abortVars, instVars, sessionVars, shutVars
<1>1. ASSUME NEW r \in Request, Submit(r) PROVE LockInv'
    BY <1>1 DEF Submit, Goto
<1>2. ASSUME NEW r \in Request, Call(r) PROVE LockInv'
    BY <1>2 DEF Call
<1>3. ASSUME NEW r \in Request, Acquire(r) PROVE LockInv'
    BY <1>3 DEF Acquire, Goto
<1>4. ASSUME NEW r \in Request, QueueTimeout(r) PROVE LockInv'
    BY <1>4 DEF QueueTimeout, Goto
<1>5. ASSUME NEW r \in Request, RegisterEvent(r) PROVE LockInv'
    BY <1>5 DEF RegisterEvent, Goto
<1>6. ASSUME NEW r \in Request, RegisterSource(r) PROVE LockInv'
    BY <1>6 DEF RegisterSource
<1>7. ASSUME NEW r \in Request, Start(r) PROVE LockInv'
    BY <1>7 DEF Start, Goto
<1>8. ASSUME NEW r \in Request, StartRaises(r) PROVE LockInv'
    BY <1>8 DEF StartRaises, Goto
<1>9. ASSUME NEW r \in Request, Returns(r) PROVE LockInv'
    BY <1>9 DEF Returns, Goto
<1>10. ASSUME NEW r \in Request, Raises(r) PROVE LockInv'
    BY <1>10 DEF Raises, Goto
<1>11. ASSUME NEW r \in Request, CleanUp(r) PROVE LockInv'
    BY <1>11 DEF CleanUp, Goto
<1>12. ASSUME NEW r \in Request, Settle(r) PROVE LockInv'
    BY <1>12 DEF Settle, StatusAfter, Goto
<1>13. ASSUME NEW r \in Request, Release(r) PROVE LockInv'
    BY <1>13 DEF Release, Goto
<1>14. ASSUME NEW r \in Request, Expire(r) PROVE LockInv'
    BY <1>14 DEF Expire
<1>15. ASSUME NEW r \in Request, OnTimeout(r) PROVE LockInv'
    BY <1>15 DEF OnTimeout, Abort
<1>16. ASSUME NEW s \in Session, UserAbort(s) PROVE LockInv'
    BY <1>16 DEF UserAbort, Abort
<1>17. ASSUME NEW s \in Session, ShutdownAborts(s) PROVE LockInv'
    BY <1>17 DEF ShutdownAborts, Abort
<1>18. ASSUME ShutdownBegins PROVE LockInv'
    BY <1>18 DEF ShutdownBegins
<1>19. ASSUME ShutdownPool PROVE LockInv'
    BY <1>19 DEF ShutdownPool
<1>20. ASSUME ShutdownJoins PROVE LockInv'
    BY <1>20 DEF ShutdownJoins
<1>21. ASSUME NEW s \in Session, Decide(s) PROVE LockInv'
    BY <1>21 DEF Decide
<1>22. ASSUME NEW s \in Session, CloseReleases(s) PROVE LockInv'
    BY <1>22 DEF CloseReleases
<1>23. ASSUME NEW s \in Session, CloseMarks(s) PROVE LockInv'
    BY <1>23 DEF CloseMarks
<1>24. CASE UNCHANGED vars
    BY <1>24 DEF vars
<1> QED
    BY <1>1, <1>2, <1>3, <1>4, <1>5, <1>6, <1>7, <1>8, <1>9, <1>10, <1>11, <1>12,
       <1>13, <1>14, <1>15, <1>16, <1>17, <1>18, <1>19, <1>20, <1>21, <1>22, <1>23, <1>24
       DEF Next, Execution, Shutdown, DeleteDecides, PruneDecides, CloseAll

\* The lock of a session is held by a request of that session.
LEMMA HolderStep == IInv /\ [Next]_vars => HolderInv'
<1> SUFFICES ASSUME TypeOK, HolderInv, [Next]_vars PROVE HolderInv'
    BY DEF IInv
<1> USE RequestType, SessionType, NoneIsNothing
    DEF TypeOK, HolderInv, Holding,
        lockVars, abortVars, instVars, sessionVars, shutVars
<1>1. ASSUME NEW r \in Request, Submit(r) PROVE HolderInv'
    BY <1>1 DEF Submit, Goto
<1>2. ASSUME NEW r \in Request, Call(r) PROVE HolderInv'
    BY <1>2 DEF Call
<1>3. ASSUME NEW r \in Request, Acquire(r) PROVE HolderInv'
    BY <1>3 DEF Acquire, Goto
<1>4. ASSUME NEW r \in Request, QueueTimeout(r) PROVE HolderInv'
    BY <1>4 DEF QueueTimeout, Goto
<1>5. ASSUME NEW r \in Request, RegisterEvent(r) PROVE HolderInv'
    BY <1>5 DEF RegisterEvent, Goto
<1>6. ASSUME NEW r \in Request, RegisterSource(r) PROVE HolderInv'
    BY <1>6 DEF RegisterSource
<1>7. ASSUME NEW r \in Request, Start(r) PROVE HolderInv'
    BY <1>7 DEF Start, Goto
<1>8. ASSUME NEW r \in Request, StartRaises(r) PROVE HolderInv'
    BY <1>8 DEF StartRaises, Goto
<1>9. ASSUME NEW r \in Request, Returns(r) PROVE HolderInv'
    BY <1>9 DEF Returns, Goto
<1>10. ASSUME NEW r \in Request, Raises(r) PROVE HolderInv'
    BY <1>10 DEF Raises, Goto
<1>11. ASSUME NEW r \in Request, CleanUp(r) PROVE HolderInv'
    BY <1>11 DEF CleanUp, Goto
<1>12. ASSUME NEW r \in Request, Settle(r) PROVE HolderInv'
    BY <1>12 DEF Settle, StatusAfter, Goto
<1>13. ASSUME NEW r \in Request, Release(r) PROVE HolderInv'
    BY <1>13 DEF Release, Goto
<1>14. ASSUME NEW r \in Request, Expire(r) PROVE HolderInv'
    BY <1>14 DEF Expire
<1>15. ASSUME NEW r \in Request, OnTimeout(r) PROVE HolderInv'
    BY <1>15 DEF OnTimeout, Abort
<1>16. ASSUME NEW s \in Session, UserAbort(s) PROVE HolderInv'
    BY <1>16 DEF UserAbort, Abort
<1>17. ASSUME NEW s \in Session, ShutdownAborts(s) PROVE HolderInv'
    BY <1>17 DEF ShutdownAborts, Abort
<1>18. ASSUME ShutdownBegins PROVE HolderInv'
    BY <1>18 DEF ShutdownBegins
<1>19. ASSUME ShutdownPool PROVE HolderInv'
    BY <1>19 DEF ShutdownPool
<1>20. ASSUME ShutdownJoins PROVE HolderInv'
    BY <1>20 DEF ShutdownJoins
<1>21. ASSUME NEW s \in Session, Decide(s) PROVE HolderInv'
    BY <1>21 DEF Decide
<1>22. ASSUME NEW s \in Session, CloseReleases(s) PROVE HolderInv'
    BY <1>22 DEF CloseReleases
<1>23. ASSUME NEW s \in Session, CloseMarks(s) PROVE HolderInv'
    BY <1>23 DEF CloseMarks
<1>24. CASE UNCHANGED vars
    BY <1>24 DEF vars
<1> QED
    BY <1>1, <1>2, <1>3, <1>4, <1>5, <1>6, <1>7, <1>8, <1>9, <1>10, <1>11, <1>12,
       <1>13, <1>14, <1>15, <1>16, <1>17, <1>18, <1>19, <1>20, <1>21, <1>22, <1>23, <1>24
       DEF Next, Execution, Shutdown, DeleteDecides, PruneDecides, CloseAll

\* The entries of the registries follow the lock.
LEMMA RegistryStep == IInv /\ [Next]_vars => RegistryInv'
<1> SUFFICES ASSUME TypeOK, LockInv, HolderInv, RegistryInv, [Next]_vars PROVE RegistryInv'
    BY DEF IInv
<1> USE RequestType, SessionType, NoneIsNothing
    DEF TypeOK, LockInv, HolderInv, RegistryInv, Holding,
        lockVars, abortVars, instVars, sessionVars, shutVars
<1>1. ASSUME NEW r \in Request, Submit(r) PROVE RegistryInv'
    BY <1>1 DEF Submit, Goto
<1>2. ASSUME NEW r \in Request, Call(r) PROVE RegistryInv'
    BY <1>2 DEF Call
<1>3. ASSUME NEW r \in Request, Acquire(r) PROVE RegistryInv'
    BY <1>3 DEF Acquire, Goto
<1>4. ASSUME NEW r \in Request, QueueTimeout(r) PROVE RegistryInv'
    BY <1>4 DEF QueueTimeout, Goto
<1>5. ASSUME NEW r \in Request, RegisterEvent(r) PROVE RegistryInv'
    BY <1>5 DEF RegisterEvent, Goto
<1>6. ASSUME NEW r \in Request, RegisterSource(r) PROVE RegistryInv'
    BY <1>6 DEF RegisterSource
<1>7. ASSUME NEW r \in Request, Start(r) PROVE RegistryInv'
    BY <1>7 DEF Start, Goto
<1>8. ASSUME NEW r \in Request, StartRaises(r) PROVE RegistryInv'
    BY <1>8 DEF StartRaises, Goto
<1>9. ASSUME NEW r \in Request, Returns(r) PROVE RegistryInv'
    BY <1>9 DEF Returns, Goto
<1>10. ASSUME NEW r \in Request, Raises(r) PROVE RegistryInv'
    BY <1>10 DEF Raises, Goto
<1>11. ASSUME NEW r \in Request, CleanUp(r) PROVE RegistryInv'
    BY <1>11 DEF CleanUp, Goto
<1>12. ASSUME NEW r \in Request, Settle(r) PROVE RegistryInv'
    BY <1>12 DEF Settle, StatusAfter, Goto
<1>13. ASSUME NEW r \in Request, Release(r) PROVE RegistryInv'
    BY <1>13 DEF Release, Goto
<1>14. ASSUME NEW r \in Request, Expire(r) PROVE RegistryInv'
    BY <1>14 DEF Expire
<1>15. ASSUME NEW r \in Request, OnTimeout(r) PROVE RegistryInv'
    BY <1>15 DEF OnTimeout, Abort
<1>16. ASSUME NEW s \in Session, UserAbort(s) PROVE RegistryInv'
    BY <1>16 DEF UserAbort, Abort
<1>17. ASSUME NEW s \in Session, ShutdownAborts(s) PROVE RegistryInv'
    BY <1>17 DEF ShutdownAborts, Abort
<1>18. ASSUME ShutdownBegins PROVE RegistryInv'
    BY <1>18 DEF ShutdownBegins
<1>19. ASSUME ShutdownPool PROVE RegistryInv'
    BY <1>19 DEF ShutdownPool
<1>20. ASSUME ShutdownJoins PROVE RegistryInv'
    BY <1>20 DEF ShutdownJoins
<1>21. ASSUME NEW s \in Session, Decide(s) PROVE RegistryInv'
    BY <1>21 DEF Decide
<1>22. ASSUME NEW s \in Session, CloseReleases(s) PROVE RegistryInv'
    BY <1>22 DEF CloseReleases
<1>23. ASSUME NEW s \in Session, CloseMarks(s) PROVE RegistryInv'
    BY <1>23 DEF CloseMarks
<1>24. CASE UNCHANGED vars
    BY <1>24 DEF vars
<1> QED
    BY <1>1, <1>2, <1>3, <1>4, <1>5, <1>6, <1>7, <1>8, <1>9, <1>10, <1>11, <1>12,
       <1>13, <1>14, <1>15, <1>16, <1>17, <1>18, <1>19, <1>20, <1>21, <1>22, <1>23, <1>24
       DEF Next, Execution, Shutdown, DeleteDecides, PruneDecides, CloseAll

\* So do the event and the token of the instance.
LEMMA HookStep == IInv /\ [Next]_vars => HookInv'
<1> SUFFICES ASSUME TypeOK, LockInv, HolderInv, HookInv, [Next]_vars PROVE HookInv'
    BY DEF IInv
<1> USE RequestType, SessionType, NoneIsNothing
    DEF TypeOK, LockInv, HolderInv, HookInv, Holding,
        lockVars, abortVars, instVars, sessionVars, shutVars
<1>1. ASSUME NEW r \in Request, Submit(r) PROVE HookInv'
    BY <1>1 DEF Submit, Goto
<1>2. ASSUME NEW r \in Request, Call(r) PROVE HookInv'
    BY <1>2 DEF Call
<1>3. ASSUME NEW r \in Request, Acquire(r) PROVE HookInv'
    BY <1>3 DEF Acquire, Goto
<1>4. ASSUME NEW r \in Request, QueueTimeout(r) PROVE HookInv'
    BY <1>4 DEF QueueTimeout, Goto
<1>5. ASSUME NEW r \in Request, RegisterEvent(r) PROVE HookInv'
    BY <1>5 DEF RegisterEvent, Goto
<1>6. ASSUME NEW r \in Request, RegisterSource(r) PROVE HookInv'
    BY <1>6 DEF RegisterSource
<1>7. ASSUME NEW r \in Request, Start(r) PROVE HookInv'
    BY <1>7 DEF Start, Goto
<1>8. ASSUME NEW r \in Request, StartRaises(r) PROVE HookInv'
    BY <1>8 DEF StartRaises, Goto
<1>9. ASSUME NEW r \in Request, Returns(r) PROVE HookInv'
    BY <1>9 DEF Returns, Goto
<1>10. ASSUME NEW r \in Request, Raises(r) PROVE HookInv'
    BY <1>10 DEF Raises, Goto
<1>11. ASSUME NEW r \in Request, CleanUp(r) PROVE HookInv'
    BY <1>11 DEF CleanUp, Goto
<1>12. ASSUME NEW r \in Request, Settle(r) PROVE HookInv'
    BY <1>12 DEF Settle, StatusAfter, Goto
<1>13. ASSUME NEW r \in Request, Release(r) PROVE HookInv'
    BY <1>13 DEF Release, Goto
<1>14. ASSUME NEW r \in Request, Expire(r) PROVE HookInv'
    BY <1>14 DEF Expire
<1>15. ASSUME NEW r \in Request, OnTimeout(r) PROVE HookInv'
    BY <1>15 DEF OnTimeout, Abort
<1>16. ASSUME NEW s \in Session, UserAbort(s) PROVE HookInv'
    BY <1>16 DEF UserAbort, Abort
<1>17. ASSUME NEW s \in Session, ShutdownAborts(s) PROVE HookInv'
    BY <1>17 DEF ShutdownAborts, Abort
<1>18. ASSUME ShutdownBegins PROVE HookInv'
    BY <1>18 DEF ShutdownBegins
<1>19. ASSUME ShutdownPool PROVE HookInv'
    BY <1>19 DEF ShutdownPool
<1>20. ASSUME ShutdownJoins PROVE HookInv'
    BY <1>20 DEF ShutdownJoins
<1>21. ASSUME NEW s \in Session, Decide(s) PROVE HookInv'
    BY <1>21 DEF Decide
<1>22. ASSUME NEW s \in Session, CloseReleases(s) PROVE HookInv'
    BY <1>22 DEF CloseReleases
<1>23. ASSUME NEW s \in Session, CloseMarks(s) PROVE HookInv'
    BY <1>23 DEF CloseMarks
<1>24. CASE UNCHANGED vars
    BY <1>24 DEF vars
<1> QED
    BY <1>1, <1>2, <1>3, <1>4, <1>5, <1>6, <1>7, <1>8, <1>9, <1>10, <1>11, <1>12,
       <1>13, <1>14, <1>15, <1>16, <1>17, <1>18, <1>19, <1>20, <1>21, <1>22, <1>23, <1>24
       DEF Next, Execution, Shutdown, DeleteDecides, PruneDecides, CloseAll

\* So does the iteration limit.
LEMMA LimitStep == IInv /\ [Next]_vars => LimitInv'
<1> SUFFICES ASSUME TypeOK, LockInv, HolderInv, LimitInv, [Next]_vars PROVE LimitInv'
    BY DEF IInv
<1> USE RequestType, SessionType, NoneIsNothing
    DEF TypeOK, LockInv, HolderInv, LimitInv, Holding, Default,
        lockVars, abortVars, instVars, sessionVars, shutVars
<1>1. ASSUME NEW r \in Request, Submit(r) PROVE LimitInv'
    BY <1>1 DEF Submit, Goto
<1>2. ASSUME NEW r \in Request, Call(r) PROVE LimitInv'
    BY <1>2 DEF Call
<1>3. ASSUME NEW r \in Request, Acquire(r) PROVE LimitInv'
    BY <1>3 DEF Acquire, Goto
<1>4. ASSUME NEW r \in Request, QueueTimeout(r) PROVE LimitInv'
    BY <1>4 DEF QueueTimeout, Goto
<1>5. ASSUME NEW r \in Request, RegisterEvent(r) PROVE LimitInv'
    BY <1>5 DEF RegisterEvent, Goto
<1>6. ASSUME NEW r \in Request, RegisterSource(r) PROVE LimitInv'
    BY <1>6 DEF RegisterSource
<1>7. ASSUME NEW r \in Request, Start(r) PROVE LimitInv'
    BY <1>7 DEF Start, Goto
<1>8. ASSUME NEW r \in Request, StartRaises(r) PROVE LimitInv'
    BY <1>8 DEF StartRaises, Goto
<1>9. ASSUME NEW r \in Request, Returns(r) PROVE LimitInv'
    BY <1>9 DEF Returns, Goto
<1>10. ASSUME NEW r \in Request, Raises(r) PROVE LimitInv'
    BY <1>10 DEF Raises, Goto
<1>11. ASSUME NEW r \in Request, CleanUp(r) PROVE LimitInv'
    BY <1>11 DEF CleanUp, Goto
<1>12. ASSUME NEW r \in Request, Settle(r) PROVE LimitInv'
    BY <1>12 DEF Settle, StatusAfter, Goto
<1>13. ASSUME NEW r \in Request, Release(r) PROVE LimitInv'
    BY <1>13 DEF Release, Goto
<1>14. ASSUME NEW r \in Request, Expire(r) PROVE LimitInv'
    BY <1>14 DEF Expire
<1>15. ASSUME NEW r \in Request, OnTimeout(r) PROVE LimitInv'
    BY <1>15 DEF OnTimeout, Abort
<1>16. ASSUME NEW s \in Session, UserAbort(s) PROVE LimitInv'
    BY <1>16 DEF UserAbort, Abort
<1>17. ASSUME NEW s \in Session, ShutdownAborts(s) PROVE LimitInv'
    BY <1>17 DEF ShutdownAborts, Abort
<1>18. ASSUME ShutdownBegins PROVE LimitInv'
    BY <1>18 DEF ShutdownBegins
<1>19. ASSUME ShutdownPool PROVE LimitInv'
    BY <1>19 DEF ShutdownPool
<1>20. ASSUME ShutdownJoins PROVE LimitInv'
    BY <1>20 DEF ShutdownJoins
<1>21. ASSUME NEW s \in Session, Decide(s) PROVE LimitInv'
    BY <1>21 DEF Decide
<1>22. ASSUME NEW s \in Session, CloseReleases(s) PROVE LimitInv'
    BY <1>22 DEF CloseReleases
<1>23. ASSUME NEW s \in Session, CloseMarks(s) PROVE LimitInv'
    BY <1>23 DEF CloseMarks
<1>24. CASE UNCHANGED vars
    BY <1>24 DEF vars
<1> QED
    BY <1>1, <1>2, <1>3, <1>4, <1>5, <1>6, <1>7, <1>8, <1>9, <1>10, <1>11, <1>12,
       <1>13, <1>14, <1>15, <1>16, <1>17, <1>18, <1>19, <1>20, <1>21, <1>22, <1>23, <1>24
       DEF Next, Execution, Shutdown, DeleteDecides, PruneDecides, CloseAll

\* And the status of the session.
LEMMA StatusStep == IInv /\ [Next]_vars => StatusInv'
<1> SUFFICES ASSUME TypeOK, LockInv, HolderInv, StatusInv, [Next]_vars PROVE StatusInv'
    BY DEF IInv
<1> USE RequestType, SessionType, NoneIsNothing
    DEF TypeOK, LockInv, HolderInv, StatusInv, Holding,
        lockVars, abortVars, instVars, sessionVars, shutVars
<1>1. ASSUME NEW r \in Request, Submit(r) PROVE StatusInv'
    BY <1>1 DEF Submit, Goto
<1>2. ASSUME NEW r \in Request, Call(r) PROVE StatusInv'
    BY <1>2 DEF Call
<1>3. ASSUME NEW r \in Request, Acquire(r) PROVE StatusInv'
    BY <1>3 DEF Acquire, Goto
<1>4. ASSUME NEW r \in Request, QueueTimeout(r) PROVE StatusInv'
    BY <1>4 DEF QueueTimeout, Goto
<1>5. ASSUME NEW r \in Request, RegisterEvent(r) PROVE StatusInv'
    BY <1>5 DEF RegisterEvent, Goto
<1>6. ASSUME NEW r \in Request, RegisterSource(r) PROVE StatusInv'
    BY <1>6 DEF RegisterSource
<1>7. ASSUME NEW r \in Request, Start(r) PROVE StatusInv'
    BY <1>7 DEF Start, Goto
<1>8. ASSUME NEW r \in Request, StartRaises(r) PROVE StatusInv'
    BY <1>8 DEF StartRaises, Goto
<1>9. ASSUME NEW r \in Request, Returns(r) PROVE StatusInv'
    BY <1>9 DEF Returns, Goto
<1>10. ASSUME NEW r \in Request, Raises(r) PROVE StatusInv'
    BY <1>10 DEF Raises, Goto
<1>11. ASSUME NEW r \in Request, CleanUp(r) PROVE StatusInv'
    BY <1>11 DEF CleanUp, Goto
<1>12. ASSUME NEW r \in Request, Settle(r) PROVE StatusInv'
    BY <1>12 DEF Settle, StatusAfter, Goto
<1>13. ASSUME NEW r \in Request, Release(r) PROVE StatusInv'
    BY <1>13 DEF Release, Goto
<1>14. ASSUME NEW r \in Request, Expire(r) PROVE StatusInv'
    BY <1>14 DEF Expire
<1>15. ASSUME NEW r \in Request, OnTimeout(r) PROVE StatusInv'
    BY <1>15 DEF OnTimeout, Abort
<1>16. ASSUME NEW s \in Session, UserAbort(s) PROVE StatusInv'
    BY <1>16 DEF UserAbort, Abort
<1>17. ASSUME NEW s \in Session, ShutdownAborts(s) PROVE StatusInv'
    BY <1>17 DEF ShutdownAborts, Abort
<1>18. ASSUME ShutdownBegins PROVE StatusInv'
    BY <1>18 DEF ShutdownBegins
<1>19. ASSUME ShutdownPool PROVE StatusInv'
    BY <1>19 DEF ShutdownPool
<1>20. ASSUME ShutdownJoins PROVE StatusInv'
    BY <1>20 DEF ShutdownJoins
<1>21. ASSUME NEW s \in Session, Decide(s) PROVE StatusInv'
    BY <1>21 DEF Decide
<1>22. ASSUME NEW s \in Session, CloseReleases(s) PROVE StatusInv'
    BY <1>22 DEF CloseReleases
<1>23. ASSUME NEW s \in Session, CloseMarks(s) PROVE StatusInv'
    BY <1>23 DEF CloseMarks
<1>24. CASE UNCHANGED vars
    BY <1>24 DEF vars
<1> QED
    BY <1>1, <1>2, <1>3, <1>4, <1>5, <1>6, <1>7, <1>8, <1>9, <1>10, <1>11, <1>12,
       <1>13, <1>14, <1>15, <1>16, <1>17, <1>18, <1>19, <1>20, <1>21, <1>22, <1>23, <1>24
       DEF Next, Execution, Shutdown, DeleteDecides, PruneDecides, CloseAll

\* Once the pool is shut down nothing enters it.
LEMMA PoolStep == IInv /\ [Next]_vars => PoolInv'
<1> SUFFICES ASSUME TypeOK, PoolInv, [Next]_vars PROVE PoolInv'
    BY DEF IInv
<1> USE RequestType, SessionType, NoneIsNothing
    DEF TypeOK, PoolInv, Holding,
        lockVars, abortVars, instVars, sessionVars, shutVars
<1>1. ASSUME NEW r \in Request, Submit(r) PROVE PoolInv'
    BY <1>1 DEF Submit, Goto
<1>2. ASSUME NEW r \in Request, Call(r) PROVE PoolInv'
    <2>1. \A q \in Request : q # r => pc'[q] = pc[q]
        BY <1>2 DEF Call
    <2>2. r \in Async => shut \in {"up", "aborting"}
        BY <1>2 DEF Call
    <2>3. pc'[r] # "queued"
        BY <1>2 DEF Call
    <2> QED
        BY <1>2, <2>1, <2>2, <2>3 DEF Call
<1>3. ASSUME NEW r \in Request, Acquire(r) PROVE PoolInv'
    BY <1>3 DEF Acquire, Goto
<1>4. ASSUME NEW r \in Request, QueueTimeout(r) PROVE PoolInv'
    BY <1>4 DEF QueueTimeout, Goto
<1>5. ASSUME NEW r \in Request, RegisterEvent(r) PROVE PoolInv'
    <2>1. pc' = [pc EXCEPT ![r] = "event"] /\ pc[r] = "acquired" /\ shut' = shut
        BY <1>5 DEF RegisterEvent, Goto
    <2> QED
        BY <2>1
<1>6. ASSUME NEW r \in Request, RegisterSource(r) PROVE PoolInv'
    <2>1. /\ pc[r] = "event" /\ shut' = shut
          /\ pc' = [pc EXCEPT ![r] = "stuck"] \/ pc' = [pc EXCEPT ![r] = "source"]
        BY <1>6 DEF RegisterSource
    <2> QED
        BY <2>1
<1>7. ASSUME NEW r \in Request, Start(r) PROVE PoolInv'
    BY <1>7 DEF Start, Goto
<1>8. ASSUME NEW r \in Request, StartRaises(r) PROVE PoolInv'
    BY <1>8 DEF StartRaises, Goto
<1>9. ASSUME NEW r \in Request, Returns(r) PROVE PoolInv'
    BY <1>9 DEF Returns, Goto
<1>10. ASSUME NEW r \in Request, Raises(r) PROVE PoolInv'
    BY <1>10 DEF Raises, Goto
<1>11. ASSUME NEW r \in Request, CleanUp(r) PROVE PoolInv'
    BY <1>11 DEF CleanUp, Goto
<1>12. ASSUME NEW r \in Request, Settle(r) PROVE PoolInv'
    BY <1>12 DEF Settle, StatusAfter, Goto
<1>13. ASSUME NEW r \in Request, Release(r) PROVE PoolInv'
    BY <1>13 DEF Release, Goto
<1>14. ASSUME NEW r \in Request, Expire(r) PROVE PoolInv'
    BY <1>14 DEF Expire
<1>15. ASSUME NEW r \in Request, OnTimeout(r) PROVE PoolInv'
    BY <1>15 DEF OnTimeout, Abort
<1>16. ASSUME NEW s \in Session, UserAbort(s) PROVE PoolInv'
    BY <1>16 DEF UserAbort, Abort
<1>17. ASSUME NEW s \in Session, ShutdownAborts(s) PROVE PoolInv'
    BY <1>17 DEF ShutdownAborts, Abort
<1>18. ASSUME ShutdownBegins PROVE PoolInv'
    BY <1>18 DEF ShutdownBegins
<1>19. ASSUME ShutdownPool PROVE PoolInv'
    BY <1>19 DEF ShutdownPool
<1>20. ASSUME ShutdownJoins PROVE PoolInv'
    BY <1>20 DEF ShutdownJoins, Working
<1>21. ASSUME NEW s \in Session, Decide(s) PROVE PoolInv'
    BY <1>21 DEF Decide
<1>22. ASSUME NEW s \in Session, CloseReleases(s) PROVE PoolInv'
    BY <1>22 DEF CloseReleases
<1>23. ASSUME NEW s \in Session, CloseMarks(s) PROVE PoolInv'
    BY <1>23 DEF CloseMarks
<1>24. CASE UNCHANGED vars
    BY <1>24 DEF vars
<1> QED
    BY <1>1, <1>2, <1>3, <1>4, <1>5, <1>6, <1>7, <1>8, <1>9, <1>10, <1>11, <1>12,
       <1>13, <1>14, <1>15, <1>16, <1>17, <1>18, <1>19, <1>20, <1>21, <1>22, <1>23, <1>24
       DEF Next, Execution, Shutdown, DeleteDecides, PruneDecides, CloseAll

\* The invariant is inductive.
LEMMA StepIInv == IInv /\ [Next]_vars => IInv'
BY TypeStep, LockStep, HolderStep, RegistryStep, HookStep, LimitStep, StatusStep, PoolStep
   DEF IInv

\* The invariant holds in every reachable state.
THEOREM Invariance == Spec => []IInv
BY InitIInv, StepIInv, PTL DEF Spec

\* The types of the variables hold in every reachable state.
THEOREM TypeCorrect == Spec => []TypeOK
BY Invariance, PTL DEF IInv

\* Executions of one session exclude each other.
THEOREM Exclusion == Spec => []OneExecution
<1>1. IInv => OneExecution
    BY DEF IInv, LockInv, OneExecution
<1> QED
    BY <1>1, Invariance, PTL

\* abort() finds the entries of the execution that runs, and an entry of the
\* registries belongs to the request that holds the lock.
THEOREM Ownership == Spec => []Registered
<1>1. IInv => AbortReaches
    BY DEF IInv, RegistryInv, AbortReaches
<1>2. IInv => RegistryOwned
    BY DEF IInv, RegistryInv, RegistryOwned
<1> QED
    BY <1>1, <1>2, Invariance, PTL DEF Registered

\* completion() runs with its own event and token.
THEOREM Hooks == Spec => []OwnHooks
<1>1. IInv => OwnHooks
    BY DEF IInv, HookInv, OwnHooks
<1> QED
    BY <1>1, Invariance, PTL

\* A free session has its own iteration limit.
THEOREM Limits == Spec => []LimitRestored
<1>1. IInv => LimitRestored
    BY DEF IInv, LimitInv, LimitRestored, Default
<1> QED
    BY <1>1, Invariance, PTL

\* No open session is said to run when no request has its lock, and one that
\* runs is said to: prune_idle_sessions() can rely on the status.
THEOREM Honesty == Spec => []StatusHonest
<1>1. IInv => StatusHonest
    BY DEF IInv, StatusInv, StatusHonest
<1> QED
    BY <1>1, Invariance, PTL

\* Nothing runs or waits in the pool once shutdown() has returned.
THEOREM Quietness == Spec => []PoolQuiet
<1>1. IInv => PoolQuiet
    BY DEF IInv, PoolInv, PoolQuiet
<1> QED
    BY <1>1, Invariance, PTL

-----------------------------------------------------------------------------
(* The turnstile                                                           *)

\* What each place of execute() is to the caller.
LEMMA ModeOf ==
    /\ Mode("idle") = "outside" /\ Mode("queued") = "outside"
    /\ Mode("locking") = "waiting" /\ Mode("done") = "done"
    /\ Mode("stuck") = "lost"
    /\ \A p \in Holding \ {"stuck"} : Mode(p) = "inside"
    /\ \A p \in Holding : Mode(p) \in Promise!Within
BY DEF Mode, Holding, Promise!Within

\* Only who holds the lock is in the way.
LEMMA WithinHolds ==
    ASSUME NEW p \in {"idle", "queued", "locking", "done"} \cup Holding,
           Mode(p) \in Promise!Within
    PROVE  p \in Holding
BY DEF Mode, Holding, Promise!Within

\* A step that moves one request, and stops nobody, moves it in the turnstile.
LEMMA OneMoves ==
    ASSUME TypeOK, NEW r \in Request, NEW p,
           pc' = [pc EXCEPT ![r] = p], UNCHANGED <<aborted, tokens>>
    PROVE  /\ Mode(pc[r]) # Mode(p) =>
                Promise!Move(r, Mode(pc[r]), Mode(p))
           /\ Mode(pc[r]) = Mode(p) => UNCHANGED Promise!vars
<1> DEFINE old == [q \in Request |-> Mode(pc[q])]
           new == [q \in Request |-> Mode(pc'[q])]
<1>1. new = [old EXCEPT ![r] = Mode(p)]
    <2>1. \A q \in Request : pc'[q] = IF q = r THEN p ELSE pc[q]
        BY DEF TypeOK
    <2>2. \A q \in Request : Mode(pc'[q]) = IF q = r THEN Mode(p) ELSE Mode(pc[q])
        BY <2>1
    <2>3. [old EXCEPT ![r] = Mode(p)]
            = [q \in Request |-> IF q = r THEN Mode(p) ELSE Mode(pc[q])]
        OBVIOUS
    <2> QED
        BY <2>2, <2>3
<1>2. Mode(pc[r]) = Mode(p) => new = old
    BY <1>1
<1> QED
    BY <1>1, <1>2 DEF Promise!Move, Promise!vars

\* The session of a request is barred exactly when its lock is taken.
LEMMA BarredByHolder ==
    ASSUME IInv, NEW r \in Request
    PROVE  Promise!Barred(r) <=> holder[SessionOf[r]] # None
<1> USE SessionType, NoneIsNothing
<1> DEFINE s == SessionOf[r]
<1>1. ASSUME holder[s] # None PROVE Promise!Barred(r)
    <2>1. holder[s] \in Request /\ SessionOf[holder[s]] = s
        BY <1>1 DEF IInv, TypeOK, HolderInv
    <2>2. pc[holder[s]] \in Holding
        BY <2>1 DEF IInv, LockInv
    <2> QED
        BY <2>1, <2>2, ModeOf DEF Promise!Barred
<1>2. ASSUME Promise!Barred(r) PROVE holder[s] # None
    <2>1. PICK q \in Request :
            SessionOf[q] = s /\ Mode(pc[q]) \in Promise!Within
        BY <1>2 DEF Promise!Barred
    <2>2. pc[q] \in Holding
        BY <2>1, WithinHolds DEF IInv, TypeOK
    <2> QED
        BY <2>1, <2>2 DEF IInv, LockInv
<1> QED
    BY <1>1, <1>2

\* abort() stops the one that the session's two entries name, if any: the
\* holder of the lock.
LEMMA AbortStops ==
    ASSUME IInv, NEW s \in Session, NEW why, NEW who,
           Abort(s, why, who), UNCHANGED pc
    PROVE  [Promise!Next]_(Promise!vars)
<1> USE SessionType, NoneIsNothing
<1> DEFINE h == holder[s]
           stop == aborted \cup tokens
<1>1. CASE events[s] = None /\ sources[s] = None
    <2>1. UNCHANGED <<aborted, tokens>>
        BY <1>1 DEF Abort
    <2> QED
        BY <2>1 DEF Promise!vars
<1>2. CASE events[s] # None \/ sources[s] # None
    <2>1. /\ events[s] # None => events[s] = h
          /\ sources[s] # None => sources[s] = h
          /\ h \in Request
        BY <1>2 DEF IInv, TypeOK, RegistryInv
    <2>2. pc[h] \in Holding
        BY <1>2, <2>1 DEF IInv, RegistryInv, Holding
    <2>3. aborted' \cup tokens' = stop \cup {h}
        <3>1. aborted' = IF events[s] = None THEN aborted ELSE aborted \cup {h}
            BY <2>1 DEF Abort
        <3>2. tokens' = IF sources[s] = None THEN tokens ELSE tokens \cup {h}
            BY <2>1 DEF Abort
        <3> QED
            BY <1>2, <3>1, <3>2
    <2>4. Mode(pc[h]) \in Promise!Within
        BY <2>2, ModeOf
    <2>5. Promise!Stop(h)
        BY <2>1, <2>3, <2>4 DEF Promise!Stop
    <2> QED
        BY <2>1, <2>5 DEF Promise!Next
<1> QED
    BY <1>1, <1>2

\* Every step of the supervisor is a step of the turnstiles or none.
LEMMA TurnstileStep ==
    IInv /\ [Next]_vars => [Promise!Next]_(Promise!vars)
<1> SUFFICES ASSUME IInv, TypeOK, [Next]_vars
             PROVE  [Promise!Next]_(Promise!vars)
    BY DEF IInv
<1> USE DEF lockVars, abortVars, instVars, sessionVars, shutVars
<1>a. ASSUME NEW r \in Request, NEW p \in Holding \ {"stuck"},
             pc[r] \in Holding \ {"stuck"}, pc' = [pc EXCEPT ![r] = p],
             UNCHANGED <<aborted, tokens>>
      PROVE  [Promise!Next]_(Promise!vars)
    <2>1. Mode(pc[r]) = Mode(p)
        BY <1>a, ModeOf
    <2> QED
        BY <1>a, <2>1, OneMoves
<1>b. ASSUME NEW r \in Request, pc[r] \in Holding \ {"stuck"},
             pc' = [pc EXCEPT ![r] = "stuck"], UNCHANGED <<aborted, tokens>>
      PROVE  [Promise!Next]_(Promise!vars)
    <2>1. Mode(pc[r]) = "inside" /\ Mode("stuck") = "lost"
        BY <1>b, ModeOf
    <2>2. Promise!Lose(r)
        BY <1>b, <2>1, OneMoves DEF Promise!Lose
    <2> QED
        BY <2>2 DEF Promise!Next
<1>c. ASSUME UNCHANGED <<pc, aborted, tokens>>
      PROVE  [Promise!Next]_(Promise!vars)
    BY <1>c DEF Promise!vars
<1>d. ASSUME NEW R \in SUBSET Request, \A r \in R : Mode(pc[r]) = "outside",
             \A r \in Request :
                Mode(pc'[r]) = IF r \in R THEN "done" ELSE Mode(pc[r]),
             UNCHANGED <<aborted, tokens>>
      PROVE  [Promise!Next]_(Promise!vars)
    <2>1. Promise!TurnAway(R)
        BY <1>d DEF Promise!TurnAway
    <2> QED
        BY <2>1 DEF Promise!Next
<1>1. ASSUME NEW r \in Request, Submit(r) PROVE [Promise!Next]_(Promise!vars)
    <2>1. Mode(pc[r]) = Mode("queued")
        BY <1>1, ModeOf DEF Submit, Goto
    <2> QED
        BY <1>1, <2>1, OneMoves DEF Submit, Goto
<1>2. ASSUME NEW r \in Request, Call(r) PROVE [Promise!Next]_(Promise!vars)
    <2>1. Mode(pc[r]) = "outside"
        BY <1>2, ModeOf DEF Call
    <2>2. CASE inst[SessionOf[r]] = "gone"
        <3>1. \A q \in Request : pc'[q] = IF q \in {r} THEN "done" ELSE pc[q]
            BY <1>2, <2>2 DEF Call, TypeOK
        <3>2. \A q \in Request :
                 Mode(pc'[q]) = IF q \in {r} THEN "done" ELSE Mode(pc[q])
            BY <3>1, ModeOf
        <3>3. {r} \in SUBSET Request /\ \A q \in {r} : Mode(pc[q]) = "outside"
            BY <2>1
        <3> QED
            BY <1>2, <1>d, <3>2, <3>3 DEF Call
    <2>3. CASE inst[SessionOf[r]] # "gone"
        <3>1. pc' = [pc EXCEPT ![r] = "locking"] /\ UNCHANGED <<aborted, tokens>>
            BY <1>2, <2>3 DEF Call
        <3>2. Promise!Wait(r)
            BY <2>1, <3>1, ModeOf, OneMoves DEF Promise!Wait
        <3> QED
            BY <3>2 DEF Promise!Next
    <2> QED
        BY <2>2, <2>3
<1>3. ASSUME NEW r \in Request, Acquire(r) PROVE [Promise!Next]_(Promise!vars)
    <2>1. /\ Mode(pc[r]) = "waiting" /\ Mode("acquired") = "inside"
          /\ pc' = [pc EXCEPT ![r] = "acquired"]
          /\ UNCHANGED <<aborted, tokens>>
        BY <1>3, ModeOf DEF Acquire, Goto, Holding
    <2>2. ~Promise!Barred(r)
        BY <1>3, BarredByHolder DEF Acquire
    <2>3. Promise!Enter(r)
        BY <2>1, <2>2, OneMoves DEF Promise!Enter
    <2> QED
        BY <2>3 DEF Promise!Next
<1>4. ASSUME NEW r \in Request, QueueTimeout(r)
      PROVE [Promise!Next]_(Promise!vars)
    <2>1. /\ Mode(pc[r]) = "waiting" /\ Mode("done") = "done"
          /\ pc' = [pc EXCEPT ![r] = "done"]
          /\ UNCHANGED <<aborted, tokens>>
        BY <1>4, ModeOf DEF QueueTimeout, Goto
    <2>2. Promise!Barred(r)
        BY <1>4, BarredByHolder DEF QueueTimeout
    <2>3. Promise!GiveUp(r)
        BY <2>1, <2>2, OneMoves DEF Promise!GiveUp
    <2> QED
        BY <2>3 DEF Promise!Next
<1>5. ASSUME NEW r \in Request, RegisterEvent(r)
      PROVE [Promise!Next]_(Promise!vars)
    BY <1>5, <1>a DEF RegisterEvent, Goto, Holding
<1>6. ASSUME NEW r \in Request, RegisterSource(r)
      PROVE [Promise!Next]_(Promise!vars)
    <2>1. /\ pc[r] \in Holding \ {"stuck"}
          /\ \/ pc' = [pc EXCEPT ![r] = "source"]
             \/ pc' = [pc EXCEPT ![r] = "stuck"]
          /\ UNCHANGED <<aborted, tokens>>
        BY <1>6 DEF RegisterSource, Holding
    <2> QED
        BY <2>1, <1>a, <1>b DEF Holding
<1>7. ASSUME NEW r \in Request, Start(r) PROVE [Promise!Next]_(Promise!vars)
    BY <1>7, <1>a DEF Start, Goto, Holding
<1>8. ASSUME NEW r \in Request, StartRaises(r)
      PROVE [Promise!Next]_(Promise!vars)
    BY <1>8, <1>b DEF StartRaises, Goto, Holding
<1>9. ASSUME NEW r \in Request, Returns(r) PROVE [Promise!Next]_(Promise!vars)
    BY <1>9, <1>a DEF Returns, Goto, Holding
<1>10. ASSUME NEW r \in Request, Raises(r) PROVE [Promise!Next]_(Promise!vars)
    BY <1>10, <1>a DEF Raises, Goto, Holding
<1>11. ASSUME NEW r \in Request, CleanUp(r) PROVE [Promise!Next]_(Promise!vars)
    <2>1. /\ pc[r] \in Holding \ {"stuck"}
          /\ \/ pc' = [pc EXCEPT ![r] = "popped"]
             \/ pc' = [pc EXCEPT ![r] = "stuck"]
          /\ UNCHANGED <<aborted, tokens>>
        BY <1>11 DEF CleanUp, Goto, Holding
    <2> QED
        BY <2>1, <1>a, <1>b DEF Holding
<1>12. ASSUME NEW r \in Request, Settle(r) PROVE [Promise!Next]_(Promise!vars)
    <2>1. /\ pc[r] \in Holding \ {"stuck"}
          /\ \/ pc' = [pc EXCEPT ![r] = "release"]
             \/ pc' = [pc EXCEPT ![r] = "stuck"]
          /\ UNCHANGED <<aborted, tokens>>
        BY <1>12 DEF Settle, Goto, Holding
    <2> QED
        BY <2>1, <1>a, <1>b DEF Holding
<1>13. ASSUME NEW r \in Request, Release(r) PROVE [Promise!Next]_(Promise!vars)
    <2>1. /\ Mode(pc[r]) = "inside" /\ Mode("done") = "done"
          /\ pc' = [pc EXCEPT ![r] = "done"]
          /\ UNCHANGED <<aborted, tokens>>
        BY <1>13, ModeOf DEF Release, Goto, Holding
    <2>2. Promise!Leave(r)
        BY <2>1, OneMoves DEF Promise!Leave
    <2> QED
        BY <2>2 DEF Promise!Next
<1>14. ASSUME NEW r \in Request, Expire(r) PROVE [Promise!Next]_(Promise!vars)
    BY <1>14, <1>c DEF Expire
<1>15. ASSUME NEW r \in Request, OnTimeout(r)
       PROVE [Promise!Next]_(Promise!vars)
    BY <1>15, AbortStops, SessionType DEF OnTimeout
<1>16. ASSUME NEW s \in Session, UserAbort(s)
       PROVE [Promise!Next]_(Promise!vars)
    BY <1>16, AbortStops DEF UserAbort
<1>17. ASSUME NEW s \in Session, ShutdownAborts(s)
       PROVE [Promise!Next]_(Promise!vars)
    BY <1>17, AbortStops DEF ShutdownAborts
<1>18. ASSUME ShutdownPool PROVE [Promise!Next]_(Promise!vars)
    <2> DEFINE R == {r \in Request : pc[r] = "queued"}
    <2>1. /\ R \in SUBSET Request
          /\ \A r \in R : Mode(pc[r]) = "outside"
        BY ModeOf
    <2>2. \A r \in Request : pc'[r] = IF r \in R THEN "done" ELSE pc[r]
        BY <1>18 DEF ShutdownPool
    <2>3. \A r \in Request :
             Mode(pc'[r]) = IF r \in R THEN "done" ELSE Mode(pc[r])
        BY <2>2, ModeOf
    <2>4. UNCHANGED <<aborted, tokens>>
        BY <1>18 DEF ShutdownPool
    <2> HIDE DEF R
    <2> QED
        BY <1>d, <2>1, <2>3, <2>4
<1>19. CASE \/ ShutdownBegins \/ ShutdownJoins \/ UNCHANGED vars
            \/ \E s \in Session :
                  \/ DeleteDecides(s) \/ PruneDecides(s) \/ CloseAll(s)
                  \/ CloseReleases(s) \/ CloseMarks(s)
    BY <1>19, <1>c
       DEF ShutdownBegins, ShutdownJoins, DeleteDecides, PruneDecides,
           CloseAll, Decide, CloseReleases, CloseMarks, vars
<1> QED
    BY <1>1, <1>2, <1>3, <1>4, <1>5, <1>6, <1>7, <1>8, <1>9, <1>10, <1>11,
       <1>12, <1>13, <1>14, <1>15, <1>16, <1>17, <1>18, <1>19
       DEF Next, Execution, Shutdown

\* The supervisor implements a turnstile per session, for any number of
\* sessions and requests: one execution at a time, who gives up has somebody
\* before him, and a stop reaches only who is inside.
THEOREM Implementation == Spec => AsTurnstile
<1>1. Init => Promise!Init
    BY ModeOf DEF Init, Promise!Init
<1> QED
    BY <1>1, TurnstileStep, Invariance, PTL DEF Spec, AsTurnstile, Promise!Spec
=============================================================================
