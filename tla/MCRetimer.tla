----------------------------- MODULE MCRetimer -----------------------------
(***************************************************************************)
(* Retimer for TLC: the three modes do_sfp() and device_install() use, and *)
(* two calls, so that a call starts from a chip a failed call left behind. *)
(***************************************************************************)
EXTENDS Retimer

MCModes == {<<CPU, S_10G>>, <<FRONT, S_10G>>, <<FRONT, S_25G>>}
=============================================================================
