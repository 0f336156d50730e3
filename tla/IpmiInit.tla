----------------------------- MODULE IpmiInit -----------------------------
(***************************************************************************)
(* What init_ipmi() promises driver_install(), as one step per round: at   *)
(* most ATTEMPTS rounds, each of which fails or succeeds; 0 is returned    *)
(* only while the ipmi device exists and the BMC answers, 1 only after     *)
(* every round failed, and a result is always returned.                    *)
(***************************************************************************)
EXTENDS Naturals

CONSTANTS ATTEMPTS, Running

VARIABLES
    round,      \* rounds that failed so far
    status,     \* Running, or what init_ipmi returned
    usable      \* the ipmi device exists and the BMC answers

vars == <<round, status, usable>>

Init == round = 0 /\ status = Running /\ usable \in BOOLEAN

RoundFails ==
    /\ status = Running /\ round < ATTEMPTS
    /\ round' = round + 1
    /\ UNCHANGED <<status, usable>>

Succeed ==
    /\ status = Running /\ round < ATTEMPTS /\ usable
    /\ status' = 0
    /\ UNCHANGED <<round, usable>>

GiveUp ==
    /\ status = Running /\ round = ATTEMPTS
    /\ status' = 1
    /\ UNCHANGED <<round, usable>>

\* The BMC and the ipmi modules change on their own, or by other steps.
Change ==
    /\ usable' \in BOOLEAN
    /\ UNCHANGED <<round, status>>

Next == RoundFails \/ Succeed \/ GiveUp \/ Change

\* Whatever the hardware does, a round ends and the call returns.
Spec == Init /\ [][Next]_vars /\ WF_vars(RoundFails \/ Succeed \/ GiveUp)

=============================================================================
