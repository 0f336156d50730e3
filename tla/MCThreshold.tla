---------------------------- MODULE MCThreshold ----------------------------
(***************************************************************************)
(* Threshold for TLC: the thermal starts with two of 50, 70 and 90 as its  *)
(* thresholds; -ht and -hct take 40, 60, 80 or 100, which lie below,       *)
(* between and above them, or 120, which argparse refuses, so every check  *)
(* of do_threshold can pass or fail against every ordering of old and new  *)
(* values.                                                                 *)
(***************************************************************************)
EXTENDS Threshold

MCArgVals == {40, 60, 80, 100, 120}
MCInitTemps == {50, 70, 90}
=============================================================================
