---------------------------- MODULE MCAlgSwitch ----------------------------
(* An instance of AlgSwitch for TLC: a day of five minutes, one for each   *)
(* section, night first and last.                                          *)
EXTENDS AlgSwitch, TLC
MCtimep == (0 :> 1) @@ (1 :> 2) @@ (2 :> 3) @@ (3 :> 4)
=============================================================================
