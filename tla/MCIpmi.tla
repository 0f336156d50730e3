------------------------------ MODULE MCIpmi ------------------------------
(***************************************************************************)
(* Ipmi for TLC with the code's own numbers: 5 rounds of 60 s, inner loops *)
(* of 5 tries 3 s apart.  The hardware may come up before any round, in    *)
(* the middle of either inner loop, or never.                              *)
(***************************************************************************)
EXTENDS Ipmi

MCTimeCap == ATTEMPTS * RoundInterval + RoundInterval
=============================================================================
