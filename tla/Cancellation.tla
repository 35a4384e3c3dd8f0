---------------------------- MODULE Cancellation ----------------------------
(***************************************************************************)
(* Cancellation tokens: rlm/core/lifecycle/cancellation.py.                *)
(*                                                                         *)
(* A CancellationTokenSource owns one token, so a source stands for both.  *)
(* A source made with a parent registers, on the parent's token, a         *)
(* listener that calls its own cancel(); the other listeners are plain     *)
(* callbacks.  Threads call cancel(), on_cancelled() and the dispose() of  *)
(* registrations and of sources, in any order.                             *)
(*                                                                         *)
(* What is atomic here is what the code does under a token's lock.         *)
(* _fire() takes the listeners under the lock and calls them after         *)
(* releasing it, one at a time, each call of a child's cancel() nested in  *)
(* the parent's loop.  on_cancelled() on a cancelled token calls the       *)
(* callback while it still holds the lock.                                 *)
(***************************************************************************)
EXTENDS Naturals

CONSTANTS
    Thread,     \* the threads that call into the tokens
    Source,     \* the CancellationTokenSource objects
    Callback,   \* the plain callbacks, one per on_cancelled() call
    ParentOf,   \* the parent given to the constructor of each source
    TokenOf,    \* the source on whose token each callback is registered
    None        \* what TokenTree assumes of these constants holds here

VARIABLES
    made,        \* the sources that have been constructed
    cancelled,   \* the tokens whose _cancelled flag is set
    disposed,    \* the sources whose _disposed flag is set
    unlinking,   \* disposed sources whose parent listener is not removed yet
    listeners,   \* _listeners of each token
    todo,        \* what a token's _fire() has taken and not called yet
    firing,      \* the thread inside a token's _fire() loop
    entering,    \* the source whose cancel() found it not disposed, per thread
    inline,      \* the callback run by on_cancelled() itself, per thread
    registered,  \* the callbacks given to on_cancelled()
    removed,     \* the callbacks whose registration has been disposed
    asked,       \* history: the sources whose cancel() was called from outside
    calls        \* history: how often each callback was called

vars == <<made, cancelled, disposed, unlinking, listeners, todo, firing,
          entering, inline, registered, removed, asked, calls>>

Listener == Source \cup Callback

TypeOK ==
    /\ made \subseteq Source
    /\ cancelled \subseteq made
    /\ disposed \subseteq made
    /\ unlinking \subseteq disposed
    /\ listeners \in [Source -> SUBSET (made \cup registered)]
    /\ todo \in [Source -> SUBSET (made \cup registered)]
    /\ firing \in [Source -> Thread \cup {None}]
    /\ entering \in [Thread -> made \cup {None}]
    /\ inline \in [Thread -> registered \cup {None}]
    /\ registered \subseteq Callback
    /\ removed \subseteq registered
    /\ asked \subseteq made
    /\ calls \in [Callback -> Nat]

Init ==
    /\ made = {}
    /\ cancelled = {}
    /\ disposed = {}
    /\ unlinking = {}
    /\ listeners = [s \in Source |-> {}]
    /\ todo = [s \in Source |-> {}]
    /\ firing = [s \in Source |-> None]
    /\ entering = [t \in Thread |-> None]
    /\ inline = [t \in Thread |-> None]
    /\ registered = {}
    /\ removed = {}
    /\ asked = {}
    /\ calls = [c \in Callback |-> 0]

-----------------------------------------------------------------------------
\* The token's lock is held across a step only by on_cancelled()'s own call.
LockFree(s) == \A t \in Thread, c \in Callback : inline[t] = c => TokenOf[c] # s

\* A thread that is in none of the calls below.
Idle(t) ==
    /\ entering[t] = None
    /\ inline[t] = None
    /\ \A s \in Source : firing[s] # t

\* s is the innermost _fire() loop of thread t.
Innermost(t, s) ==
    /\ firing[s] = t
    /\ entering[t] = None
    /\ \A k \in Source : firing[k] = t => ParentOf[k] # s

\* As Make below, with the parent's flag tested outside the parent's lock: the
\* listener is added to a token that may have fired already.
Make_TestedEarly(s) ==
    LET p == ParentOf[s] IN
    /\ s \notin made
    /\ p \in made \cup {None}
    /\ made' = made \cup {s}
    /\ listeners' = IF p = None THEN listeners
                    ELSE [listeners EXCEPT ![p] = @ \cup {s}]
    /\ UNCHANGED <<cancelled, disposed, unlinking, todo, firing, entering,
                   inline, registered, removed, asked, calls>>

\* CancellationTokenSource.__init__.  A cancelled parent runs the new
\* source's cancel() at once; the new token has no listener yet.
Make(s) ==
    LET p == ParentOf[s] IN
    /\ s \notin made
    /\ p \in made \cup {None}
    /\ LockFree(p)
    /\ made' = made \cup {s}
    /\ IF p \in cancelled
         THEN cancelled' = cancelled \cup {s} /\ UNCHANGED listeners
         ELSE /\ UNCHANGED cancelled
              /\ listeners' = IF p = None THEN listeners
                              ELSE [listeners EXCEPT ![p] = @ \cup {s}]
    /\ UNCHANGED <<disposed, unlinking, todo, firing, entering, inline,
                   registered, removed, asked, calls>>

\* CancellationTokenSource.cancel(), up to its test of _disposed.
Cancel(t, s) ==
    /\ s \in made \ disposed
    /\ Idle(t)
    /\ entering' = [entering EXCEPT ![t] = s]
    /\ asked' = asked \cup {s}
    /\ UNCHANGED <<made, cancelled, disposed, unlinking, listeners, todo,
                   firing, inline, registered, removed, calls>>

\* CancellationToken._fire(), the part under the lock.
Fire(t) ==
    LET s == entering[t] IN
    /\ s # None
    /\ LockFree(s)
    /\ entering' = [entering EXCEPT ![t] = None]
    /\ IF s \in cancelled
         THEN UNCHANGED <<cancelled, firing, todo, listeners>>
         ELSE /\ cancelled' = cancelled \cup {s}
              /\ firing' = [firing EXCEPT ![s] = t]
              /\ todo' = [todo EXCEPT ![s] = listeners[s]]
              /\ listeners' = [listeners EXCEPT ![s] = {}]
    /\ UNCHANGED <<made, disposed, unlinking, inline, registered, removed,
                   asked, calls>>

\* One turn of _fire()'s loop, outside the lock: a callback is called, or the
\* cancel() of a child source, which does nothing when the child is disposed.
CallNext(t, s, l) ==
    /\ Innermost(t, s)
    /\ l \in todo[s]
    /\ todo' = [todo EXCEPT ![s] = @ \ {l}]
    /\ IF l \in Callback
         THEN /\ calls' = [calls EXCEPT ![l] = @ + 1]
              /\ UNCHANGED entering
         ELSE /\ entering' = IF l \in disposed THEN entering
                             ELSE [entering EXCEPT ![t] = l]
              /\ UNCHANGED calls
    /\ UNCHANGED <<made, cancelled, disposed, unlinking, listeners, firing,
                   inline, registered, removed, asked>>

\* As FireReturns below, when an exception of a listener ends the loop.
FireReturns_OnError(t, s) ==
    /\ Innermost(t, s)
    /\ firing' = [firing EXCEPT ![s] = None]
    /\ todo' = [todo EXCEPT ![s] = {}]
    /\ UNCHANGED <<made, cancelled, disposed, unlinking, listeners,
                   entering, inline, registered, removed, asked, calls>>

\* The loop ends and _fire() returns.
FireReturns(t, s) ==
    /\ Innermost(t, s)
    /\ todo[s] = {}
    /\ firing' = [firing EXCEPT ![s] = None]
    /\ UNCHANGED <<made, cancelled, disposed, unlinking, listeners, todo,
                   entering, inline, registered, removed, asked, calls>>

\* As OnCancelled below, with the flag tested before the lock is taken.
OnCancelled_TestedEarly(t, c) ==
    /\ TokenOf[c] \in made
    /\ c \notin registered
    /\ Idle(t)
    /\ LockFree(TokenOf[c])
    /\ registered' = registered \cup {c}
    /\ listeners' = [listeners EXCEPT ![TokenOf[c]] = @ \cup {c}]
    /\ UNCHANGED <<made, cancelled, disposed, unlinking, todo, firing,
                   entering, inline, removed, asked, calls>>

\* CancellationToken.on_cancelled().  On a cancelled token the callback runs
\* in the calling thread, inside the with block: the lock stays held.
OnCancelled(t, c) ==
    LET s == TokenOf[c] IN
    /\ s \in made
    /\ c \notin registered
    /\ Idle(t)
    /\ LockFree(s)
    /\ registered' = registered \cup {c}
    /\ IF s \in cancelled
         THEN /\ inline' = [inline EXCEPT ![t] = c]
              /\ calls' = [calls EXCEPT ![c] = @ + 1]
              /\ UNCHANGED listeners
         ELSE /\ listeners' = [listeners EXCEPT ![s] = @ \cup {c}]
              /\ UNCHANGED <<inline, calls>>
    /\ UNCHANGED <<made, cancelled, disposed, unlinking, todo, firing,
                   entering, removed, asked>>

\* The callback returns and on_cancelled() releases the lock.
InlineReturns(t) ==
    /\ inline[t] # None
    /\ inline' = [inline EXCEPT ![t] = None]
    /\ UNCHANGED <<made, cancelled, disposed, unlinking, listeners, todo,
                   firing, entering, registered, removed, asked, calls>>

\* dispose() of what on_cancelled() returned: _remove().  The caller has the
\* disposable only once on_cancelled() has returned.
Remove(c) ==
    /\ c \in registered \ removed
    /\ LockFree(TokenOf[c])
    /\ removed' = removed \cup {c}
    /\ listeners' = [listeners EXCEPT ![TokenOf[c]] = @ \ {c}]
    /\ UNCHANGED <<made, cancelled, disposed, unlinking, todo, firing,
                   entering, inline, registered, asked, calls>>

\* CancellationTokenSource.dispose(): the flag first,
Dispose(s) ==
    /\ s \in made \ disposed
    /\ disposed' = disposed \cup {s}
    /\ unlinking' = IF ParentOf[s] = None THEN unlinking ELSE unlinking \cup {s}
    /\ UNCHANGED <<made, cancelled, listeners, todo, firing, entering, inline,
                   registered, removed, asked, calls>>

\* then the listener on the parent, under the parent's lock.
Unlink(s) ==
    /\ s \in unlinking
    /\ LockFree(ParentOf[s])
    /\ unlinking' = unlinking \ {s}
    /\ listeners' = [listeners EXCEPT ![ParentOf[s]] = @ \ {s}]
    /\ UNCHANGED <<made, cancelled, disposed, todo, firing, entering, inline,
                   registered, removed, asked, calls>>

-----------------------------------------------------------------------------
\* The steps a thread takes by itself once it is inside a call.
Progress(t) ==
    \/ Fire(t)
    \/ \E s \in Source : FireReturns(t, s)
    \/ \E s \in Source, l \in Listener : CallNext(t, s, l)
    \/ InlineReturns(t)

Next ==
    \/ \E s \in Source : Make(s) \/ Dispose(s) \/ Unlink(s)
    \/ \E c \in Callback : Remove(c)
    \/ \E t \in Thread :
         \/ \E s \in Source : Cancel(t, s)
         \/ \E c \in Callback : OnCancelled(t, c)
         \/ Progress(t)

Spec == Init /\ [][Next]_vars

\* A thread inside a call goes on; nobody has to call anything.
FairSpec == Spec /\ \A t \in Thread : WF_vars(Progress(t))

-----------------------------------------------------------------------------
(* Properties                                                              *)

\* A callback is called at most once, whichever of on_cancelled() and any
\* number of concurrent cancel() calls comes first.
CalledAtMostOnce == \A c \in Callback : calls[c] <= 1

\* No cancellation is missed: a callback that is still registered on a
\* cancelled token has been called, or is next in the loop of that _fire().
NoLostCallback ==
    \A c \in registered \ removed :
        TokenOf[c] \in cancelled =>
            \/ calls[c] = 1
            \/ firing[TokenOf[c]] # None /\ c \in todo[TokenOf[c]]

\* Cancelling the parent cancels all the children: once the parent's _fire()
\* has returned, every child that is not disposed is cancelled, however its
\* construction and other cancellations interleaved with the loop.
CancelReachesChildren ==
    \A s \in made \ disposed :
        (ParentOf[s] \in cancelled /\ firing[ParentOf[s]] = None)
            => s \in cancelled

\* Cancellation flows down only: a token is cancelled because its own source
\* was asked to, or because its parent's token is cancelled.
CancelHasCause == \A s \in cancelled : s \in asked \/ ParentOf[s] \in cancelled
=============================================================================
