------------------------------- MODULE MCSfp -------------------------------
(***************************************************************************)
(* Sfp for TLC: the last OSFP cage (32) and the first SFP28 cage (33), and *)
(* modules of each form factor the driver tells apart plus one it does not *)
(* know.                                                                   *)
(***************************************************************************)
EXTENDS Sfp

MCPorts == {32, 33}

\* An OSFP cage takes OSFP modules (0x19), an SFP28 cage SFP28 modules
\* (0x03), and either may hold a module whose identifier the driver does not
\* know (0x7f).  QSFP-DD modules take the OSFP paths; a QSFP28 module in a
\* QSFP-DD cage takes the FPGA-pin paths an unknown module takes.
MCCageIds == [p \in MCPorts |-> IF p <= 32 THEN {25, 127} ELSE {3, 127}]
=============================================================================
