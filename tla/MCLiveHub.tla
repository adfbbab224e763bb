----------------------------- MODULE MCLiveHub ------------------------------
(* Small instances of LiveHub: normal ticks, a silence of three intervals   *)
(* and a clock that goes back.                                              *)
EXTENDS LiveHub

MCSteps == {1, 3, -1}
=============================================================================
