----------------------------- MODULE BrakeTiming -----------------------------
(***************************************************************************)
(* What a drive with a brake promises the mechanics, cycle by cycle:       *)
(*   - the brake is released only when the amplifier has held the load for *)
(*     longer than the open delay,                                         *)
(*   - power is taken from a load the amplifier still holds only when the  *)
(*     brake has been applied for longer than the close-ahead time,        *)
(*   - a released brake always comes with commanded power.                 *)
(* The state is what the drive last wrote to, and read from, the hardware. *)
(* An error of the drive cuts the power at once and excuses from the last  *)
(* two; but then the brake falls in the very cycle that loses the power,   *)
(* unless the enable command had been withdrawn behind the brake's back or *)
(* the error was reset before the drive had acted on it.                   *)
(***************************************************************************)
EXTENDS Naturals

CONSTANTS
    OpenDelay, CloseAhead,
    Lag   \* cycles from the amplifier command to the control word

VARIABLES
    torque,      \* the amplifier reported torque
    powered,     \* the control word commands power
    released,    \* the brake output
    failure,     \* what cut the power: nothing, an error, or its reset
    withdrawn,   \* the enable command went behind the brake's back
    torqueFor,   \* cycles in a row with torque, up to OpenDelay + 2
    appliedFor   \* cycles in a row with the brake applied, up to CloseAhead + 2

vars == <<torque, powered, released, failure, withdrawn, torqueFor, appliedFor>>

\* Count a cycle in which the condition held, up to a bound; start again if not.
Count(n, holds, bound) ==
    IF ~holds THEN 0 ELSE IF n < bound THEN n + 1 ELSE n

Failures == {"none", "error", "reset"}

TypeOK ==
    /\ torque \in BOOLEAN
    /\ powered \in BOOLEAN
    /\ released \in BOOLEAN
    /\ failure \in Failures
    /\ withdrawn \in BOOLEAN
    /\ torqueFor \in 0 .. OpenDelay + 2
    /\ appliedFor \in 0 .. CloseAhead + 2

Init ==
    /\ torque = FALSE
    /\ powered = FALSE
    /\ released = FALSE
    /\ failure \in Failures
    /\ withdrawn = FALSE
    /\ torqueFor = 0
    /\ appliedFor = 0

Cycle ==
    /\ torque' \in BOOLEAN
    /\ powered' \in BOOLEAN
    /\ released' \in BOOLEAN
    /\ failure' \in Failures
    /\ withdrawn' \in BOOLEAN
    /\ torqueFor' = Count(torqueFor, torque', OpenDelay + 2)
    /\ appliedFor' = Count(appliedFor, ~released', CloseAhead + 2)
    /\ released' => powered' \/ failure' # "none"
    /\ released' /\ ~released => torqueFor' > OpenDelay + 1
    /\ powered /\ ~powered' /\ torqueFor' > Lag => appliedFor' > CloseAhead + 1 \/ failure' # "none"
    /\ powered /\ ~powered' => ~released' \/ withdrawn' \/ failure' = "reset"

Spec == Init /\ [][Cycle]_vars
=============================================================================
