----------------------------- MODULE TokenTree -----------------------------
(***************************************************************************)
(* A tree of cancellation tokens, as the program builds one: who is whose  *)
(* parent, and which callback is registered on which token, is fixed by    *)
(* the call sites.  This module gives Cancellation its constants, and      *)
(* assumes of them what the types of the constructors' arguments say.  The *)
(* names are those under which other primitives can be used beside it.     *)
(***************************************************************************)
CONSTANTS
    Thread,     \* the threads that call into the tokens
    Source,     \* the CancellationTokenSource objects
    Callback,   \* the plain callbacks, one per on_cancelled() call
    ParentOf,   \* the parent given to the constructor of each source
    TokenOf,    \* the source on whose token each callback is registered
    Nothing     \* Cancellation's None

ASSUME ParentType == ParentOf \in [Source -> Source \cup {Nothing}]
ASSUME TokenType == TokenOf \in [Callback -> Source]
ASSUME NothingApart == Nothing \notin Source \cup Callback \cup Thread
ASSUME ListenersDiffer == Source \cap Callback = {}

VARIABLES made, cancelled, disposed, unlinking, listeners, todo, firing,
          entering, inline, registered, removed, asked, calls

Tokens == INSTANCE Cancellation WITH None <- Nothing

TokenSpec == Tokens!Spec
FairTokenSpec == Tokens!FairSpec

-----------------------------------------------------------------------------
(* Properties                                                              *)

\* A callback is called once when its token is cancelled: not twice, and not
\* never, whichever of on_cancelled() and any number of concurrent cancel()
\* calls comes first.
CalledOnce == Tokens!CalledAtMostOnce /\ Tokens!NoLostCallback

\* Cancellation reaches all of the tree below a source, however constructions
\* and cancellations interleave with the loop of _fire(), and nothing else: a
\* cancelled token's own source or a token above it was asked to cancel.
CancelFlows == Tokens!CancelReachesChildren /\ Tokens!CancelHasCause

\* A cancelled parent sooner or later cancels or loses every child: the loop
\* of its _fire() comes to each child's cancel().
CancelPropagates ==
    \A s \in Source :
        (s \in made /\ ParentOf[s] \in cancelled)
            ~> (s \in cancelled \/ s \in disposed)
=============================================================================
