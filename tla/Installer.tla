----------------------------- MODULE Installer -----------------------------
(***************************************************************************)
(* The install and clean commands of accton_as9817_32o_util.py: kernel     *)
(* modules loaded and unloaded, i2c devices created and deleted through    *)
(* sysfs new_device/delete_device, the FPGA pins of the OSFP cages, the    *)
(* two helper files and the sonic-platform wheel.                          *)
(*                                                                         *)
(* Every shell command is a step that may fail.  Where the code tests      *)
(* FORCE after a failure, FORCE = 0 returns and FORCE = 1 goes on; main()  *)
(* sets FORCE = 1 whatever -f says.  Runs follow one another (the service  *)
(* at boot, an operator by hand); a run may also be killed between two     *)
(* steps.  Kernel modules, devices and files outlive the process.          *)
(***************************************************************************)
EXTENDS Naturals, Sequences, SequencesExt

CONSTANTS
    Kos,            \* the modules of kos, in load order
    OptoePorts,     \* the front ports (1..34) whose optoe devices are modelled
    Mux0070,        \* the mux driver puts a client at address 0x70
    MaxRuns,        \* bound on the number of runs
    NoValue

ASSUME /\ Kos \in Seq(STRING) /\ "accton_as9817_32_mux" \in ToSet(Kos)
       /\ OptoePorts \subseteq 1..34 /\ Mux0070 \in BOOLEAN /\ MaxRuns \in Nat

\* main(): FORCE = 1 if args.force else 0 is commented out.
FORCE == 1

\* sfp_map and osfp_end of the utility: port i + 1 sits on bus sfp_map[i],
\* and ports past osfp_end + 1 take optoe2 rather than optoe3.
\* Mutation: the port index used as the bus number.
SfpMapOffByOne(port) == port
SfpMap(port) == port + 1
osfp_end == 31
OptoeKind(port) == IF port - 1 > osfp_end THEN "optoe2" ELSE "optoe3"
OsfpPorts == {p \in OptoePorts : p - 1 <= osfp_end}

\* Sfp._port_to_i2c_mapping and Sfp's own test for the SFP28 cages.
SfpI2cBus(port) == port + 1
SfpIsSfp28Cage(port) == port > 32

OptoeSeq == SetToSortSeq(OptoePorts, <)
OptoeKinds == {"optoe2", "optoe3"}
Buses == {SfpMap(p) : p \in OptoePorts}

MuxDevice == "mux"          \* as9817_32_mux 0x78 on i2c-0, the one mknod entry
Eeprom56 == "eeprom56"      \* 24c02 0x56 on i2c-36, a bus of the mux
Devices == {MuxDevice, Eeprom56}

\* The entries of kos that driver_check()'s *accton* glob matches.
AcctonKos == ToSet(Kos) \cap
    {"accton_as9817_32_fpga", "accton_as9817_32_fan", "accton_as9817_32_psu",
     "accton_as9817_32_thermal", "accton_as9817_32_sys", "accton_as9817_32_leds",
     "accton_as9817_32_mux"}
MuxDriver == "accton_as9817_32_mux"
FpgaDriver == "accton_as9817_32_fpga"
Modules == ToSet(Kos) \cup {"ice", "ipmi"}

VARIABLES
    loaded,     \* kernel modules loaded (kos, ice, ipmi)
    devices,    \* the mux and 0x56 EEPROM i2c devices instantiated
    optoe,      \* optoe devices instantiated, as <<bus, driver name>>
    released,   \* OSFP ports whose reset and low-power pins install wrote 0
    files,      \* /tmp/device_threshold.json and its .lock exist
    pkg,        \* the sonic-platform wheel is installed
    chip56,     \* the board carries the 0x56 EEPROM (i2cget answers)
    cmd,        \* "install", "clean" or "none": the run in progress
    pc,         \* the step the run is at
    i,          \* loop index of that step
    target,     \* device_uninstall()'s variable target
    runs,       \* runs started
    env_fail,   \* history: a step of this run failed that could have succeeded
                \* (a step the code dooms itself, as a delete of a device
                \* that is gone, does not count)
    deleted,    \* history: devices this run deleted
    redelete,   \* history: a run issued delete_device for a device it had deleted
    fresh,      \* history: the run started from a system install had not touched
                \* (install) or had set up completely (clean)
    last_run    \* history: the last run that ended: [cmd, clean, fresh]

vars == <<loaded, devices, optoe, released, files, pkg, chip56, cmd, pc, i,
          target, runs, env_fail, deleted, redelete, fresh, last_run>>

\* driver_check(): ls /sys/module/*accton* lists something.
DriverCheck == AcctonKos \cap loaded # {}

\* The mux device bound to its driver: the buses i2c-2 .. i2c-36 exist.
MuxUp == MuxDevice \in devices /\ MuxDriver \in loaded

\* device_exist(): ls of *0070 and of i2c-2 both succeed.
DeviceExist == MuxUp /\ Mux0070

\* /sys/bus/i2c/devices/36-0056/eeprom exists: the device bound to at24.
EepromFile == Eeprom56 \in devices /\ "at24" \in loaded

sys == <<loaded, devices, optoe, released, files, pkg>>
hist == <<deleted, redelete, fresh>>

\* Everything install sets up, with the device each port's Sfp object reads:
\* an optoe device on the bus of _port_to_i2c_mapping, optoe2 for the SFP28
\* cages and optoe3 for the OSFP cages.
Complete ==
    /\ ToSet(Kos) \subseteq loaded
    /\ MuxDevice \in devices /\ (chip56 => Eeprom56 \in devices)
    /\ \A p \in OptoePorts :
          <<SfpI2cBus(p), IF SfpIsSfp28Cage(p) THEN "optoe2" ELSE "optoe3">> \in optoe
    /\ OsfpPorts \subseteq released
    /\ files /\ pkg

\* Nothing install sets up is left (the ice and ipmi modules excepted).
Removed ==
    /\ ToSet(Kos) \cap loaded = {}
    /\ devices = {} /\ optoe = {}
    /\ ~files /\ ~pkg

Goto(p, k) == pc' = p /\ i' = k

\* A step of the run in progress.
StepTo(p, k) == Goto(p, k) /\ UNCHANGED <<runs, chip56>>

\* The top-level function returns, or the process dies; clean tells
\* whether no step of the run failed that could have succeeded.
EndRun(clean) ==
    /\ cmd' = "none" /\ StepTo("idle", 1)
    /\ last_run' = [cmd |-> cmd, clean |-> clean, fresh |-> fresh]

\* possible: the command could have succeeded in this state.
\* A step whose status the code tests against FORCE: a failure returns
\* from every caller when FORCE = 0, and goes on to the next step when it
\* is 1.
Tested(ok, possible, p, k) ==
    /\ env_fail' = (env_fail \/ (possible /\ ~ok))
    /\ IF ~ok /\ FORCE = 0
       THEN EndRun(FALSE)
       ELSE StepTo(p, k) /\ UNCHANGED <<cmd, last_run>>

\* A step whose status the code ignores.
Ignored(envfail, p, k) ==
    /\ env_fail' = (env_fail \/ envfail)
    /\ StepTo(p, k)
    /\ UNCHANGED <<cmd, last_run>>

\* Removing the mux device, or unbinding its driver, takes its buses away
\* and with them every client on them.
WithoutMuxBuses(devs) == devs \ {Eeprom56}

(***************************************************************************)
(* install                                                                 *)
(***************************************************************************)

\* do_install(): driver_install() unless an accton module is loaded.
DriverCheckStep ==
    /\ cmd = "install" /\ pc = "drv_check"
    /\ StepTo(IF DriverCheck THEN "dev_check" ELSE "ice", 1)
    /\ UNCHANGED <<sys, cmd, last_run, env_fail, target, hist>>

\* driver_install(): modprobe ice.
LoadIce ==
    /\ cmd = "install" /\ pc = "ice"
    /\ \E ok \in BOOLEAN :
          /\ loaded' = IF ok THEN loaded \cup {"ice"} ELSE loaded
          /\ Tested(ok, TRUE, "ipmi", 1)
    /\ UNCHANGED <<devices, optoe, released, files, pkg, target, hist>>

\* driver_install(): init_ipmi(), as IpmiInit abstracts it (Ipmi refines
\* it): 0 with the ipmi modules loaded, or 1 with them unloaded (the last
\* round's device stage failed) or loaded (its oem stage failed).
InitIpmi ==
    /\ cmd = "install" /\ pc = "ipmi"
    /\ \E ok \in BOOLEAN :
          /\ loaded' \in IF ok THEN {loaded \cup {"ipmi"}}
                          ELSE {loaded \ {"ipmi"}, loaded \cup {"ipmi"}}
          /\ Tested(ok, TRUE, "kos", 1)
    /\ UNCHANGED <<devices, optoe, released, files, pkg, target, hist>>

\* driver_install(): depmod -ae (its status is overwritten), then modprobe
\* of kos[i], in order.
LoadKo ==
    /\ cmd = "install" /\ pc = "kos"
    /\ \E ok \in BOOLEAN :
          /\ loaded' = IF ok THEN loaded \cup {Kos[i]} ELSE loaded
          /\ IF i < Len(Kos) THEN Tested(ok, TRUE, "kos", i + 1)
             ELSE Tested(ok, TRUE, "dev_check", 1)
    /\ UNCHANGED <<devices, optoe, released, files, pkg, target, hist>>

\* do_install(): device_install() unless device_exist().
DeviceCheckStep ==
    /\ cmd = "install" /\ pc = "dev_check"
    /\ StepTo(IF DeviceExist THEN "tail" ELSE "mknod", 1)
    /\ UNCHANGED <<sys, cmd, last_run, env_fail, target, hist>>

\* device_install(): new_device of the mux on i2c-0; the kernel refuses an
\* address already in use.
Mknod ==
    /\ cmd = "install" /\ pc = "mknod"
    /\ \E ok \in IF MuxDevice \in devices THEN {FALSE} ELSE BOOLEAN :
          /\ devices' = IF ok THEN devices \cup {MuxDevice} ELSE devices
          /\ Tested(ok, MuxDevice \notin devices, "eeprom", 1)
    /\ UNCHANGED <<loaded, optoe, released, files, pkg, target, hist>>

\* eeprom_check(): i2cget of 0x56 on bus 36 answers when the board has the
\* chip and the mux has created bus 36.
EepromCheck == chip56 /\ MuxUp

\* device_install(): if i2cget reads 0x56 on bus 36, new_device of a 24c02
\* there (status ignored), and delete_device again when no eeprom file
\* appeared.
EepromInstall ==
    /\ cmd = "install" /\ pc = "eeprom"
    /\ LET check == EepromCheck IN
       \E created \in IF check /\ Eeprom56 \notin devices THEN BOOLEAN ELSE {FALSE} :
          LET present == Eeprom56 \in devices \/ created
              file == present /\ "at24" \in loaded
          IN /\ devices' = IF ~check THEN devices
                           ELSE IF file THEN devices \cup {Eeprom56}
                           ELSE devices \ {Eeprom56}
             /\ Ignored(check /\ Eeprom56 \notin devices /\ ~created, "optoe", 1)
    /\ UNCHANGED <<loaded, optoe, released, files, pkg, target, hist>>

\* device_install(): new_device of optoe3 (OSFP) or optoe2 (SFP28) at 0x50
\* on the port's bus; the bus exists only while the mux is bound.
OptoeInstall ==
    /\ cmd = "install" /\ pc = "optoe"
    /\ LET port == OptoeSeq[i]
           bus == SfpMap(port)
           free == MuxUp /\ \A d \in optoe : d[1] # bus
       IN \E ok \in IF free THEN BOOLEAN ELSE {FALSE} :
          /\ optoe' = IF ok THEN optoe \cup {<<bus, OptoeKind(port)>>} ELSE optoe
          /\ IF i < Len(OptoeSeq) THEN Tested(ok, free, "optoe", i + 1)
             ELSE Tested(ok, free, "pins", 1)
    /\ UNCHANGED <<loaded, devices, released, files, pkg, target, hist>>

\* Mutation: the pin loops run over every port of sfp_map.
ReleasePinsAllPorts ==
    /\ cmd = "install" /\ pc = "pins"
    /\ LET writable == IF FpgaDriver \in loaded THEN OptoePorts ELSE {} IN
       \E done \in SUBSET writable :
          /\ released' = released \cup done
          /\ Ignored(done # writable, "mkfile", 1)
    /\ UNCHANGED <<loaded, devices, optoe, files, pkg, target, hist>>

\* device_install(): 0 to module_reset_ and module_lp_mode_ of every OSFP
\* port (failures printed only), then config_sfp(FRONT, S_25G), whose
\* result is dropped (module Retimer).
ReleasePins ==
    /\ cmd = "install" /\ pc = "pins"
    /\ LET writable == IF FpgaDriver \in loaded THEN OsfpPorts ELSE {} IN
       \E done \in SUBSET writable :
          /\ released' = released \cup done
          /\ Ignored(done # writable, "mkfile", 1)
    /\ UNCHANGED <<loaded, devices, optoe, files, pkg, target, hist>>

\* device_install(): create and chmod the two files.  When open() fails,
\* the os.chmod() in the except clause raises in turn on the missing
\* file, and the uncaught exception ends the process.
MkFile ==
    /\ cmd = "install" /\ pc = "mkfile"
    /\ \/ /\ files' = TRUE
          /\ Ignored(FALSE, "tail", 1)
       \/ /\ env_fail' = TRUE /\ EndRun(FALSE)
          /\ UNCHANGED <<files>>
    /\ UNCHANGED <<loaded, devices, optoe, released, pkg, target, hist>>

\* do_sonic_platform_install(): nothing to do when pip3 show finds the
\* wheel; otherwise pip3 install may succeed or fail (or find no file).
PipInstallOutcomes == IF pkg THEN {TRUE} ELSE BOOLEAN

\* do_install(): loc LED and fan pwm writes (no state here), then
\* do_sonic_platform_install(), pip3 install unless pip3 show finds it;
\* do_install() returns.
InstallTail ==
    /\ cmd = "install" /\ pc = "tail"
    /\ \E ok \in PipInstallOutcomes :
          /\ pkg' = ok
          /\ env_fail' = (env_fail \/ ~ok)
          /\ EndRun(~env_fail')
    /\ UNCHANGED <<loaded, devices, optoe, released, files, target, hist>>

(***************************************************************************)
(* clean                                                                   *)
(***************************************************************************)

\* do_uninstall(): device_uninstall() only if device_exist().
CleanDeviceCheck ==
    /\ cmd = "clean" /\ pc = "c_dev_check"
    /\ StepTo(IF DeviceExist THEN "optoe_del" ELSE "c_drv_check", 1)
    /\ UNCHANGED <<sys, cmd, last_run, env_fail, target, hist>>

\* device_uninstall(): target is the port bus's delete_device, and 0x50
\* is deleted there.
OptoeDelete ==
    /\ cmd = "clean" /\ pc = "optoe_del"
    /\ LET bus == SfpMap(OptoeSeq[i])
           exists == \E d \in optoe : d[1] = bus
       IN \E ok \in IF exists THEN BOOLEAN ELSE {FALSE} :
          /\ optoe' = IF ok THEN {d \in optoe : d[1] # bus} ELSE optoe
          /\ target' = "optoe"
          /\ IF i < Len(OptoeSeq) THEN Tested(ok, exists, "optoe_del", i + 1)
             ELSE Tested(ok, exists, "mknod_del", 1)
    /\ UNCHANGED <<loaded, devices, released, files, pkg, hist>>

\* delete_device of one of the mux or the 0x56 EEPROM; deleting the mux
\* deletes the clients of its buses with them.
DeleteDevice(t, ok) ==
    /\ devices' = IF ~ok THEN devices
                  ELSE IF t = MuxDevice THEN WithoutMuxBuses(devices \ {MuxDevice})
                  ELSE devices \ {t}
    /\ optoe' = IF ok /\ t = MuxDevice THEN {} ELSE optoe
    /\ deleted' = IF ok THEN deleted \cup {t} ELSE deleted
    /\ redelete' = (redelete \/ t \in deleted)
    /\ target' = t

\* device_uninstall(): target is mknod[-1], the mux, and it is deleted.
MknodDelete ==
    /\ cmd = "clean" /\ pc = "mknod_del"
    /\ \E ok \in IF MuxDevice \in devices THEN BOOLEAN ELSE {FALSE} :
          /\ DeleteDevice(MuxDevice, ok)
          /\ Tested(ok, MuxDevice \in devices, "eeprom_del", 1)
    /\ UNCHANGED <<loaded, released, files, pkg, fresh>>

\* device_uninstall(): target becomes the 0x56 EEPROM only if its eeprom
\* file exists; whatever target then holds is deleted.
EepromDelete ==
    /\ cmd = "clean" /\ pc = "eeprom_del"
    /\ LET t == IF EepromFile THEN Eeprom56 ELSE target IN
       \E ok \in IF t \in devices THEN BOOLEAN ELSE {FALSE} :
          /\ DeleteDevice(t, ok)
          /\ Tested(ok, t \in devices, "rm_files", 1)
    /\ UNCHANGED <<loaded, released, files, pkg, fresh>>

\* device_uninstall(): rm -f of the two files.
RmFiles ==
    /\ cmd = "clean" /\ pc = "rm_files"
    /\ files' = FALSE
    /\ Ignored(FALSE, "c_drv_check", 1)
    /\ UNCHANGED <<loaded, devices, optoe, released, pkg, target, hist>>

\* do_uninstall(): driver_uninstall() only if an accton module is loaded.
CleanDriverCheck ==
    /\ cmd = "clean" /\ pc = "c_drv_check"
    /\ StepTo(IF DriverCheck THEN "ko_del" ELSE "pip_clean", 1)
    /\ UNCHANGED <<sys, cmd, last_run, env_fail, target, hist>>

\* Mutation: the loop stops one module short, leaving kos[0] loaded.
UnloadKoSkipFirst ==
    /\ cmd = "clean" /\ pc = "ko_del"
    /\ LET k == Kos[Len(Kos) - i + 1] IN
       \E ok \in IF k \in loaded THEN BOOLEAN ELSE {FALSE} :
          /\ loaded' = IF ok THEN loaded \ {k} ELSE loaded
          /\ devices' = IF ok /\ k = MuxDriver THEN WithoutMuxBuses(devices) ELSE devices
          /\ optoe' = IF ok /\ k = MuxDriver THEN {} ELSE optoe
          /\ IF i < Len(Kos) - 1 THEN Tested(ok, k \in loaded, "ko_del", i + 1)
             ELSE Tested(ok, k \in loaded, "pip_clean", 1)
    /\ UNCHANGED <<released, files, pkg, target, hist>>

\* driver_uninstall(): modprobe -rq of kos[-(i+1)], last loaded first;
\* -q silences, but does not excuse, a module that is not loaded.
\* Unloading the mux driver takes its buses and their clients away.
UnloadKo ==
    /\ cmd = "clean" /\ pc = "ko_del"
    /\ LET k == Kos[Len(Kos) - i + 1] IN
       \E ok \in IF k \in loaded THEN BOOLEAN ELSE {FALSE} :
          /\ loaded' = IF ok THEN loaded \ {k} ELSE loaded
          /\ devices' = IF ok /\ k = MuxDriver THEN WithoutMuxBuses(devices) ELSE devices
          /\ optoe' = IF ok /\ k = MuxDriver THEN {} ELSE optoe
          /\ IF i < Len(Kos) THEN Tested(ok, k \in loaded, "ko_del", i + 1)
             ELSE Tested(ok, k \in loaded, "pip_clean", 1)
    /\ UNCHANGED <<released, files, pkg, target, hist>>

\* do_sonic_platform_clean(): pip3 uninstall when pip3 show finds the
\* wheel; do_uninstall() returns.
PipClean ==
    /\ cmd = "clean" /\ pc = "pip_clean"
    /\ \E ok \in IF pkg THEN BOOLEAN ELSE {TRUE} :
          /\ pkg' = (pkg /\ ~ok)
          /\ env_fail' = (env_fail \/ ~ok)
          /\ EndRun(~env_fail')
    /\ UNCHANGED <<loaded, devices, optoe, released, files, target, hist>>

(***************************************************************************)
(* Runs                                                                    *)
(***************************************************************************)

\* main(): a run of install or clean; -f changes nothing (FORCE == 1).
StartRun(c) ==
    /\ cmd = "none" /\ runs < MaxRuns
    /\ cmd' = c /\ runs' = runs + 1
    /\ Goto(IF c = "install" THEN "drv_check" ELSE "c_dev_check", 1)
    /\ env_fail' = FALSE /\ deleted' = {} /\ target' = NoValue
    /\ fresh' = IF c = "install" THEN Removed ELSE Complete
    /\ UNCHANGED <<sys, chip56, redelete, last_run>>

\* The process is killed between two steps.
Kill ==
    /\ cmd # "none"
    /\ env_fail' = TRUE /\ EndRun(FALSE)
    /\ UNCHANGED <<sys, target, hist>>

Init ==
    /\ loaded = {} /\ devices = {} /\ optoe = {} /\ released = {}
    /\ files = FALSE /\ pkg = FALSE /\ chip56 \in BOOLEAN
    /\ cmd = "none" /\ pc = "idle" /\ i = 1
    /\ target = NoValue /\ runs = 0
    /\ env_fail = FALSE
    /\ deleted = {} /\ redelete = FALSE /\ fresh = FALSE
    /\ last_run = [cmd |-> "none", clean |-> FALSE, fresh |-> FALSE]

Next ==
    \/ \E c \in {"install", "clean"} : StartRun(c)
    \/ Kill
    \/ DriverCheckStep \/ LoadIce \/ InitIpmi \/ LoadKo \/ DeviceCheckStep
    \/ Mknod \/ EepromInstall \/ OptoeInstall \/ ReleasePins \/ MkFile
    \/ InstallTail
    \/ CleanDeviceCheck \/ OptoeDelete \/ MknodDelete \/ EepromDelete
    \/ RmFiles \/ CleanDriverCheck \/ UnloadKo \/ PipClean

Spec == Init /\ [][Next]_vars

(***************************************************************************)
(* Properties                                                              *)
(***************************************************************************)

TypeOK ==
    /\ loaded \subseteq Modules /\ devices \subseteq Devices
    /\ optoe \subseteq Buses \X OptoeKinds /\ released \subseteq OsfpPorts
    /\ cmd \in {"none", "install", "clean"}
    /\ target \in {NoValue, "optoe"} \cup Devices
    /\ runs \in 0..MaxRuns /\ deleted \subseteq Devices

\* install, run on a system it had not touched, and with every step
\* succeeding, leaves every module loaded, the mux and EEPROM devices, the
\* OSFP pins released, the files and the wheel, and for each port the
\* optoe device of the kind on the bus Sfp reads the port's EEPROM from.
FreshInstallComplete ==
    (cmd = "none" /\ last_run.cmd = "install" /\ last_run.clean /\ last_run.fresh)
        => Complete

\* clean, run on a completely installed system with every step succeeding,
\* leaves no module of kos, no device, no file and no wheel behind.
CleanRemovesAll ==
    (cmd = "none" /\ last_run.cmd = "clean" /\ last_run.clean /\ last_run.fresh)
        => Removed

\* An install in which every step succeeded leaves the system completely
\* installed, whatever earlier runs left behind.
InstallIsComplete ==
    (cmd = "none" /\ last_run.cmd = "install" /\ last_run.clean) => Complete

\* device_uninstall() deletes each device at most once per run.
NoDoubleDelete == ~redelete

=============================================================================
