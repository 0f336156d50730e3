------------------------------- MODULE Ipmi -------------------------------
(***************************************************************************)
(* init_ipmi() of accton_as9817_32o_util.py: up to ATTEMPTS rounds, one  *)
(* every `interval' (60 s), each running init_ipmi_dev_intf() (load the    *)
(* four ipmi modules until /dev/ipmi0 appears, unloading them between      *)
(* tries) and then init_ipmi_oem_cmd() (`ipmitool raw 0x34 0x95' until it  *)
(* succeeds).  Both inner loops try ATTEMPTS times, INTERVAL (3 s) apart.  *)
(*                                                                         *)
(* The hardware is the environment: `kcs' is the BMC's system interface    *)
(* that ipmi_si probes when it is loaded, `bmc' the BMC answering the OEM  *)
(* command.  Both come up once, at any time, or never.  Time is the sum    *)
(* of the sleeps; the commands themselves are taken to be instantaneous.   *)
(***************************************************************************)
EXTENDS Integers, FiniteSetsExt

CONSTANTS
    ATTEMPTS,       \* ATTEMPTS = 5 (util line 155), also init_ipmi's attempts
    INTERVAL,       \* INTERVAL = 3 (util line 156)
    RoundInterval,  \* init_ipmi's interval = 60
    TimeCap,        \* saturation of the sleep counters, above any real total
    Running

VARIABLES
    pc,             \* "outer", "dev", "oem" or "done"
    attempts,       \* init_ipmi's attempts
    dev_attempts,   \* init_ipmi_dev_intf's attempts
    oem_attempts,   \* init_ipmi_oem_cmd's attempts
    elapsed_dev,    \* second value init_ipmi_dev_intf returned
    dev,            \* the ipmi modules are loaded and /dev/ipmi0 exists
    kcs, bmc,       \* environment: the interface probes, the BMC answers
    status,         \* Running, or init_ipmi's return value
    round_sleep,    \* seconds slept in the current round
    slept,          \* seconds slept since init_ipmi was called
    last_round,     \* seconds the last failed round slept (history)
    ready_at_round  \* kcs /\ bmc held when the current round began (history)

vars == <<pc, attempts, dev_attempts, oem_attempts, elapsed_dev, dev, kcs,
          bmc, status, round_sleep, slept, last_round, ready_at_round>>

\* time.sleep(s), on both counters, saturating at TimeCap.
Sleep(s) ==
    /\ round_sleep' = Min({round_sleep + s, TimeCap})
    /\ slept' = Min({slept + s, TimeCap})

\* `while attempts:` of init_ipmi, and a mutant running one round more.
MoreRoundsOffByOne(a) == a >= 0
MoreRounds(a) == a /= 0

\* After the modprobes of a try: an ipmi device exists if one was already
\* there or ipmi_si found the interface.  The mutant looks before loading.
DevCheckBeforeLoad(d, k) == d
DevLoad(d, k) == d \/ k

\* The sleep after a failed oem stage, and a mutant forgetting elapsed_dev.
OemRoundSleepNoDev(edev, eoem) == Max({0, RoundInterval - eoem})
OemRoundSleep(edev, eoem) == Max({0, RoundInterval - edev - eoem})

DevRoundSleep(edev) == Max({0, RoundInterval - edev})

Init ==
    /\ pc = "outer"
    /\ attempts = ATTEMPTS
    /\ dev_attempts = ATTEMPTS /\ oem_attempts = ATTEMPTS
    /\ elapsed_dev = 0
    /\ dev = FALSE
    /\ kcs \in BOOLEAN /\ bmc \in BOOLEAN
    /\ status = Running
    /\ round_sleep = 0 /\ slept = 0
    /\ last_round = Running
    /\ ready_at_round = FALSE

\* init_ipmi: a new round, `attempts -= 1', then init_ipmi_dev_intf().
Round ==
    /\ pc = "outer" /\ MoreRounds(attempts)
    /\ attempts' = attempts - 1
    /\ dev_attempts' = ATTEMPTS
    /\ round_sleep' = 0
    /\ ready_at_round' = (kcs /\ bmc)
    /\ pc' = "dev"
    /\ UNCHANGED <<oem_attempts, elapsed_dev, dev, kcs, bmc, status, slept,
                   last_round>>

\* init_ipmi: every round failed, return 1.
GiveUp ==
    /\ pc = "outer" /\ ~MoreRounds(attempts)
    /\ status' = 1 /\ pc' = "done"
    /\ UNCHANGED <<attempts, dev_attempts, oem_attempts, elapsed_dev, dev, kcs,
                   bmc, round_sleep, slept, last_round, ready_at_round>>

\* init_ipmi_dev_intf: modprobe the four modules; the device exists, so
\* return (0, (ATTEMPTS - attempts) * interval) and go on to the oem stage.
DevFound ==
    /\ pc = "dev" /\ dev_attempts /= 0
    /\ DevLoad(dev, kcs)
    /\ dev' = TRUE
    /\ elapsed_dev' = (ATTEMPTS - dev_attempts) * INTERVAL
    /\ oem_attempts' = ATTEMPTS
    /\ pc' = "oem"
    /\ UNCHANGED <<attempts, dev_attempts, kcs, bmc, status, round_sleep,
                   slept, last_round, ready_at_round>>

\* init_ipmi_dev_intf: no device after the modprobes, so `modprobe -rq'
\* them in reverse, `attempts -= 1' and sleep INTERVAL.
DevMissing ==
    /\ pc = "dev" /\ dev_attempts /= 0
    /\ ~DevLoad(dev, kcs)
    /\ dev' = FALSE
    /\ dev_attempts' = dev_attempts - 1
    /\ Sleep(INTERVAL)
    /\ UNCHANGED <<pc, attempts, oem_attempts, elapsed_dev, kcs, bmc, status,
                   last_round, ready_at_round>>

\* init_ipmi_dev_intf returns (1, ATTEMPTS * interval); init_ipmi sleeps
\* max(0, interval - elapsed_dev) and continues with the next round.
DevGiveUp ==
    /\ pc = "dev" /\ dev_attempts = 0
    /\ elapsed_dev' = ATTEMPTS * INTERVAL
    /\ Sleep(DevRoundSleep(ATTEMPTS * INTERVAL))
    /\ last_round' = round_sleep'
    /\ pc' = "outer"
    /\ UNCHANGED <<attempts, dev_attempts, oem_attempts, dev, kcs, bmc, status,
                   ready_at_round>>

\* init_ipmi_oem_cmd: ipmitool succeeds, so it returns status 0 and
\* init_ipmi returns 0.
OemOk ==
    /\ pc = "oem" /\ oem_attempts /= 0
    /\ dev /\ bmc
    /\ status' = 0 /\ pc' = "done"
    /\ UNCHANGED <<attempts, dev_attempts, oem_attempts, elapsed_dev, dev, kcs,
                   bmc, round_sleep, slept, last_round, ready_at_round>>

\* init_ipmi_oem_cmd: ipmitool fails, `attempts -= 1', sleep INTERVAL.
OemFail ==
    /\ pc = "oem" /\ oem_attempts /= 0
    /\ ~(dev /\ bmc)
    /\ oem_attempts' = oem_attempts - 1
    /\ Sleep(INTERVAL)
    /\ UNCHANGED <<pc, attempts, dev_attempts, elapsed_dev, dev, kcs, bmc,
                   status, last_round, ready_at_round>>

\* init_ipmi_oem_cmd returns (1, ATTEMPTS * interval); init_ipmi sleeps
\* max(0, interval - elapsed_dev - elapsed_oem) and continues.
OemGiveUp ==
    /\ pc = "oem" /\ oem_attempts = 0
    /\ Sleep(OemRoundSleep(elapsed_dev, ATTEMPTS * INTERVAL))
    /\ last_round' = round_sleep'
    /\ pc' = "outer"
    /\ UNCHANGED <<attempts, dev_attempts, oem_attempts, elapsed_dev, dev, kcs,
                   bmc, status, ready_at_round>>

\* The BMC's system interface comes up (BMC boot finishing).
KcsUp ==
    /\ ~kcs /\ kcs' = TRUE
    /\ UNCHANGED <<pc, attempts, dev_attempts, oem_attempts, elapsed_dev, dev,
                   bmc, status, round_sleep, slept, last_round, ready_at_round>>

\* The BMC starts answering the OEM command.
BmcUp ==
    /\ ~bmc /\ bmc' = TRUE
    /\ UNCHANGED <<pc, attempts, dev_attempts, oem_attempts, elapsed_dev, dev,
                   kcs, status, round_sleep, slept, last_round, ready_at_round>>

Proc == Round \/ GiveUp \/ DevFound \/ DevMissing \/ DevGiveUp \/ OemOk
        \/ OemFail \/ OemGiveUp

Next == Proc \/ KcsUp \/ BmcUp

\* The script is one process that keeps running: each sleep ends and each
\* command returns.  The hardware gets no fairness: it may never come up.
Spec == Init /\ [][Next]_vars /\ WF_vars(Proc)

-----------------------------------------------------------------------------

TypeOK ==
    /\ pc \in {"outer", "dev", "oem", "done"}
    /\ attempts \in 0..ATTEMPTS
    /\ dev_attempts \in 0..ATTEMPTS /\ oem_attempts \in 0..ATTEMPTS
    /\ elapsed_dev \in 0..(ATTEMPTS * INTERVAL)
    /\ {dev, kcs, bmc, ready_at_round} \subseteq BOOLEAN
    /\ status \in {Running, 0, 1}
    /\ round_sleep \in 0..TimeCap /\ slept \in 0..TimeCap
    /\ last_round \in {Running} \cup 0..TimeCap

\* init_ipmi spaces its rounds by `interval': whichever inner loop gave up,
\* and after however many failed tries of init_ipmi_dev_intf, the sleeps of
\* a failed round add up to exactly 60 s, so the ATTEMPTS rounds cover
\* ATTEMPTS * 60 s of BMC boot time.
RoundSpacing ==
    /\ last_round \in {Running, RoundInterval}
    /\ slept <= ATTEMPTS * RoundInterval

\* A ready BMC is not missed: if the interface probes and the BMC answers
\* when a round begins, that round returns 0 (modules loaded before the
\* device is looked for, not unloaded once it is there).
ReadyNotMissed ==
    (pc = "done" /\ status = 1) => ~ready_at_round

\* Rounds that failed: those begun, less the one under way or that returned 0.
FailedRounds ==
    ATTEMPTS - attempts - (IF pc = "outer" \/ status = 1 THEN 0 ELSE 1)

\* init_ipmi implements the bounded retry of IpmiInit: a round ends in
\* success only while the device exists and the BMC answers, and 1 is
\* returned only after ATTEMPTS failed rounds.
Abstract == INSTANCE IpmiInit WITH
    round  <- FailedRounds,
    usable <- dev /\ bmc

IpmiInitRefined == Abstract!Spec

=============================================================================
