------------------------------ MODULE Threshold ------------------------------
(***************************************************************************)
(* The `threshold' command of accton_as9817_32o_util.py: do_threshold(),   *)
(* restricted_float(), get_high_threshold() and get_high_crit_threshold(). *)
(* Each invocation reads the thermal's current thresholds through one      *)
(* `docker exec pmon python3 -c' per read, checks the new values against   *)
(* them and then applies them with a last `docker exec' that calls         *)
(* set_high_threshold and then set_high_critical_threshold.  Each docker   *)
(* exec is a step of its own: other invocations, run from other shells,    *)
(* may interleave between them.                                            *)
(*                                                                         *)
(* The thermal (sonic_platform, not in this repository) is the             *)
(* environment: it keeps `high' and `crit', and either implements both     *)
(* the getters and the setters or raises NotImplementedError from both.    *)
(* A read may also fail with an exception (exit 1, read as None) when      *)
(* FaultyReads, or print something float() cannot parse when               *)
(* NonNumericReads.  A threshold is printed into the snippet with          *)
(* str(float) and read back by Python, which gives back the same float,    *)
(* so the value that reaches the setter is the argument itself.            *)
(***************************************************************************)
EXTENDS Integers

CONSTANTS
    Procs,            \* concurrent invocations of the command
    ArgVals,          \* values given to -ht and -hct
    InitTemps,        \* thresholds the thermal may start with
    MaxCalls,         \* invocations per process
    FaultyReads,      \* a getter may raise (exit status 1)
    NonNumericReads,  \* a getter may print a non-number (float() raises)
    NoValue           \* an option not given, or a read that gave None

VARIABLES
    pc,       \* pc[p]: "idle", "read_crit", "read_high", "apply",
              \*        "set_high" or "set_crit"
    ht,       \* ht[p]: args.high_threshold
    hct,      \* hct[p]: args.high_crit_threshold
    known,    \* known[p]: args.thermal names a thermal of the chassis
    calls,    \* calls[p]: invocations started by p
    high,     \* the thermal's high threshold
    crit,     \* the thermal's high critical threshold
    impl      \* the thermal implements the threshold getters and setters

vars == <<pc, ht, hct, known, calls, high, crit, impl>>

THRESHOLD_RANGE_LOW == 30
THRESHOLD_RANGE_HIGH == 110

\* A mutant checking only the lower end of the range.
RestrictedFloatNoUpper(x) == THRESHOLD_RANGE_LOW <= x

\* restricted_float: argparse accepts the value only within the range.
restricted_float(x) == THRESHOLD_RANGE_LOW <= x /\ x <= THRESHOLD_RANGE_HIGH

Given(x) == x /= NoValue

\* The python snippet run in pmon: looking_for_thermal_code exits 1 when the
\* name matches no thermal, the getter's NotImplementedError exits 1, and
\* so does any other exception; each of these reads as None.
ThermalRead(v, p) ==
    (IF known[p] /\ impl THEN {v} ELSE {NoValue})
    \cup (IF FaultyReads THEN {NoValue} ELSE {})

get_high_threshold(p) == ThermalRead(high, p)

get_high_crit_threshold(p) == ThermalRead(crit, p)

\* A mutant taking -ht < -hct as enough and checking -ht against the
\* current critical threshold only when -hct is not given.
RejectHighAlone(p, hc) == ~Given(hct[p]) /\ Given(hc) /\ ht[p] >= hc

\* `high_crit is not None and args.high_threshold >= high_crit': exit(1).
RejectHigh(p, hc) == Given(hc) /\ ht[p] >= hc

\* `high is not None and args.high_crit_threshold <= high': exit(1).
RejectCrit(p, h) == Given(h) /\ hct[p] <= h

\* Where do_threshold goes once the -ht part is checked.
AfterHighCheck(p) == IF Given(hct[p]) THEN "read_high" ELSE "apply"

\* Where the snippet goes once set_high_threshold returned or raised
\* NotImplementedError.
AfterSetHigh(p) == IF Given(hct[p]) THEN "set_crit" ELSE "idle"

Init ==
    /\ pc = [p \in Procs |-> "idle"]
    /\ ht = [p \in Procs |-> NoValue]
    /\ hct = [p \in Procs |-> NoValue]
    /\ known = [p \in Procs |-> TRUE]
    /\ calls = [p \in Procs |-> 0]
    /\ high \in InitTemps /\ crit \in InitTemps /\ high < crit
    /\ impl \in BOOLEAN

\* A new invocation of the command by p.
Invoke(p) ==
    /\ pc[p] = "idle" /\ calls[p] < MaxCalls
    /\ calls' = [calls EXCEPT ![p] = @ + 1]

ThermalUnchanged == UNCHANGED <<high, crit, impl>>

\* main: argparse rejects a -ht or -hct value restricted_float refuses and
\* exits 2 before do_threshold runs.
BadArgument(p) ==
    /\ Invoke(p)
    /\ \E x \in ArgVals : ~restricted_float(x)
    /\ UNCHANGED <<pc, ht, hct, known>> /\ ThermalUnchanged

\* do_threshold: `-l' prints the thermal names and returns; without `-t'
\* it prints that -t is required and returns.
ListOrNoThermal(p) ==
    /\ Invoke(p)
    /\ UNCHANGED <<pc, ht, hct, known>> /\ ThermalUnchanged

\* do_threshold with -t NAME: both values given with -ht >= -hct exit(1);
\* otherwise the -ht check reads the critical threshold, the -hct check
\* reads the high one, and with neither value there is no code to run.
Start(p) ==
    /\ Invoke(p)
    /\ \E h, c \in {NoValue} \cup {x \in ArgVals : restricted_float(x)},
          k \in BOOLEAN :
         /\ ht' = [ht EXCEPT ![p] = h]
         /\ hct' = [hct EXCEPT ![p] = c]
         /\ known' = [known EXCEPT ![p] = k]
         /\ pc' = [pc EXCEPT ![p] =
                     CASE Given(h) /\ Given(c) /\ h >= c -> "idle"
                       [] Given(h) -> "read_crit"
                       [] Given(c) -> "read_high"
                       [] OTHER -> "idle"]
    /\ ThermalUnchanged

\* do_threshold: high_crit = get_high_crit_threshold(args.thermal), then
\* exit(1) if -ht is not below it.
ReadCrit(p) ==
    /\ pc[p] = "read_crit"
    /\ \E hc \in get_high_crit_threshold(p) :
         pc' = [pc EXCEPT ![p] = IF RejectHigh(p, hc) THEN "idle"
                                 ELSE AfterHighCheck(p)]
    /\ UNCHANGED <<ht, hct, known, calls>> /\ ThermalUnchanged

\* do_threshold: high = get_high_threshold(args.thermal), then exit(1) if
\* -hct is not above it.
ReadHigh(p) ==
    /\ pc[p] = "read_high"
    /\ \E h \in get_high_threshold(p) :
         pc' = [pc EXCEPT ![p] = IF RejectCrit(p, h) THEN "idle" ELSE "apply"]
    /\ UNCHANGED <<ht, hct, known, calls>> /\ ThermalUnchanged

\* get_high_threshold / get_high_crit_threshold: status 0 with an output
\* float() cannot parse; the ValueError ends the command.
ReadCrash(p) ==
    /\ NonNumericReads /\ known[p] /\ impl
    /\ pc[p] \in {"read_crit", "read_high"}
    /\ pc' = [pc EXCEPT ![p] = "idle"]
    /\ UNCHANGED <<ht, hct, known, calls>> /\ ThermalUnchanged

\* do_threshold: the last docker exec; looking_for_thermal_code exits 1
\* when the name matches no thermal.
Apply(p) ==
    /\ pc[p] = "apply"
    /\ pc' = [pc EXCEPT ![p] = IF ~known[p] THEN "idle"
                               ELSE IF Given(ht[p]) THEN "set_high"
                               ELSE "set_crit"]
    /\ UNCHANGED <<ht, hct, known, calls>> /\ ThermalUnchanged

\* The snippet's set_high_threshold: it takes the value, or returns False
\* and the snippet exits 1, or raises NotImplementedError and the snippet
\* goes on.
SetHigh(p) ==
    /\ pc[p] = "set_high"
    /\ \/ impl /\ high' = ht[p] /\ pc' = [pc EXCEPT ![p] = AfterSetHigh(p)]
       \/ impl /\ pc' = [pc EXCEPT ![p] = "idle"] /\ UNCHANGED high
       \/ ~impl /\ pc' = [pc EXCEPT ![p] = AfterSetHigh(p)] /\ UNCHANGED high
    /\ UNCHANGED <<ht, hct, known, calls, crit, impl>>

\* The snippet's set_high_critical_threshold, the same three ways; the
\* snippet, and the command, end after it.
SetCrit(p) ==
    /\ pc[p] = "set_crit"
    /\ pc' = [pc EXCEPT ![p] = "idle"]
    /\ \/ impl /\ crit' = hct[p]
       \/ UNCHANGED crit
    /\ UNCHANGED <<ht, hct, known, calls, high, impl>>

Next == \E p \in Procs :
    \/ BadArgument(p) \/ ListOrNoThermal(p) \/ Start(p)
    \/ ReadCrit(p) \/ ReadHigh(p) \/ ReadCrash(p)
    \/ Apply(p) \/ SetHigh(p) \/ SetCrit(p)

Spec == Init /\ [][Next]_vars

-----------------------------------------------------------------------------

TypeOK ==
    /\ pc \in [Procs -> {"idle", "read_crit", "read_high", "apply",
                         "set_high", "set_crit"}]
    /\ ht \in [Procs -> {NoValue} \cup ArgVals]
    /\ hct \in [Procs -> {NoValue} \cup ArgVals]
    /\ known \in [Procs -> BOOLEAN]
    /\ calls \in [Procs -> 0..MaxCalls]
    /\ high \in InitTemps \cup (THRESHOLD_RANGE_LOW..THRESHOLD_RANGE_HIGH)
    /\ crit \in InitTemps \cup (THRESHOLD_RANGE_LOW..THRESHOLD_RANGE_HIGH)
    /\ impl \in BOOLEAN

\* The checks of do_threshold keep the thermal's high threshold below its
\* critical one in every state: after set_high_threshold with set_high_
\* critical_threshold still to come or failing, and after either setter is
\* not implemented, over any sequence of invocations.
ThresholdsOrdered == high < crit

=============================================================================
