-------------------------- MODULE MCCancellation --------------------------
(* Three generations of sources, as a session, a sub-agent and its own     *)
(* sub-agent; the inner token has a callback beside its linked child.      *)
EXTENDS TokenTree, TLC

CONSTANTS t1, t2, root, child, grandchild, c1

MCThread == {t1, t2}
MCSource == {root, child, grandchild}
MCCallback == {c1}
MCParentOf == (root :> Nothing) @@ (child :> root) @@ (grandchild :> child)
MCTokenOf == c1 :> child
=============================================================================
