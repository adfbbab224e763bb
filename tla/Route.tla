------------------------------- MODULE Route -------------------------------
(***************************************************************************)
(* The part of the browser tab a behaviour is about.  App.tsx renders one  *)
(* page for the path and a page unmounts with its state, so the parts of   *)
(* the pages are explored one at a time: route names the part in play and  *)
(* the variables of a part that is not mounted are Closed.                 *)
(***************************************************************************)
CONSTANT Closed  \* the value of the variables of a part that is not mounted

VARIABLE route   \* the part in play

On(part) == route = part
=============================================================================
