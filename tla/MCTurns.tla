------------------------------- MODULE MCTurns -------------------------------
(* Two requests, one or both of them for the fast model.                  *)
EXTENDS Turns

CONSTANTS f, g

Two == {f, g}
MCClasses == {{f}, {f, g}}
=============================================================================
