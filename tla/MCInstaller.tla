---------------------------- MODULE MCInstaller ----------------------------
EXTENDS Installer

\* The modules of kos that the properties tell apart: the two drivers
\* install's devices need, and two accton modules in between.
MCKos == <<"optoe", "at24", "accton_as9817_32_fpga", "accton_as9817_32_mux">>

\* The last OSFP cage and the first SFP28 cage.
MCOptoePorts == {32, 33}
=============================================================================
