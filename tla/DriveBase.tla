------------------------------ MODULE DriveBase ------------------------------
(***************************************************************************)
(* The drive base class (motion/ecmcDriveBase.cpp): what one call of       *)
(* writeEntries() does with the enable command, the amplifier command and  *)
(* the mechanical brake, as functions on the drive's state.                *)
(*                                                                         *)
(* The concrete drives, DriveStepper and DriveDS402, hold the state in a   *)
(* variable and call these functions from their own readEntries() and      *)
(* writeEntries(), as the C++ classes call the base class.  Times are      *)
(* numbers of realtime cycles.                                             *)
(***************************************************************************)
EXTENDS Naturals

CONSTANTS
    HasBrake,    \* enableBrake_: a brake output is configured
    OpenDelay,   \* brakeOpenDelayTime_: enabled this long before the brake opens
    CloseAhead,  \* brakeCloseAheadTime_: braked this long before power goes
    Timeout      \* stateMachineTimeoutCycles_: enable without enabled this long

ASSUME DriveAssumption ==
    /\ HasBrake \in BOOLEAN
    /\ OpenDelay \in Nat
    /\ CloseAhead \in Nat
    /\ Timeout \in Nat

BrakeStates == {"closed", "opening", "open", "closing"}

\* No brake state counts further than this.
BrakeCounters == 0 .. OpenDelay + CloseAhead + 2

TimeoutCounters == 0 .. Timeout

DriveState ==
    [ enable           : BOOLEAN,   \* data_->command_.enable, shared with the axis
      enabled          : BOOLEAN,   \* data_->status_.enabled, what the axis is told
      enableCmdOld     : BOOLEAN,   \* the enable command at the last write
      enableAmpCmd     : BOOLEAN,   \* the amplifier is asked for torque
      enableAmpCmdOld  : BOOLEAN,   \* ... at the last write
      localEnabled     : BOOLEAN,   \* the amplifier reports torque
      localEnabledOld  : BOOLEAN,   \* ... at the last write
      brakeState       : BrakeStates,
      brakeCounter     : BrakeCounters,
      brakeOutputCmd   : BOOLEAN,   \* TRUE: the brake is released
      cycleCounterBase : TimeoutCounters,  \* cycles with enable and without enabled
      error            : BOOLEAN ]  \* error_ of the drive object

InitDrive ==
    [ enable |-> FALSE, enabled |-> FALSE, enableCmdOld |-> FALSE,
      enableAmpCmd |-> FALSE, enableAmpCmdOld |-> FALSE,
      localEnabled |-> FALSE, localEnabledOld |-> FALSE,
      brakeState |-> "closed", brakeCounter |-> 0, brakeOutputCmd |-> FALSE,
      cycleCounterBase |-> 0, error |-> FALSE ]

-----------------------------------------------------------------------------
(* updateBrakeState(): first the edges of the enable command, then one     *)
(* step of the state they lead to.                                         *)

\* A variant: the falling edge is not seen.
BrakeEdgeRising(d) ==
    IF d.enable /\ ~d.enableCmdOld
    THEN [d EXCEPT !.brakeState = "opening", !.brakeCounter = 0]
    ELSE d

BrakeEdge(d) ==
    IF d.enable = d.enableCmdOld THEN d
    ELSE [d EXCEPT !.brakeState = IF d.enable THEN "opening" ELSE "closing",
                   !.brakeCounter = 0]

\* Brake applied and amplifier off, at once.
Engage(d) ==
    [d EXCEPT !.brakeState = "closed", !.brakeOutputCmd = FALSE,
              !.enableAmpCmd = FALSE]

BrakeClosed(d) ==
    [Engage(d) EXCEPT !.brakeCounter = 0]

OpenDelayOver(d)  == d.brakeCounter > OpenDelay
CloseAheadOver(d) == d.brakeCounter > CloseAhead

\* Only cycles with torque count towards the open delay.
CountIf(d, counts) == IF counts THEN [d EXCEPT !.brakeCounter = @ + 1] ELSE d

\* Torque missing when the delay is over: give up.
GiveUp(d) ==
    [Engage(d) EXCEPT !.enable = FALSE, !.enableCmdOld = FALSE, !.brakeCounter = 0]

Release(d) ==
    [d EXCEPT !.enableAmpCmd = TRUE, !.brakeState = "open", !.brakeOutputCmd = TRUE]

\* A variant the properties must refute: one cycle too eager.
BrakeOpeningEager(d) ==
    IF d.brakeCounter >= OpenDelay /\ d.localEnabled THEN Release(d)
    ELSE IF d.localEnabledOld /\ ~d.localEnabled THEN Engage(d)
    ELSE [d EXCEPT !.enableAmpCmd = TRUE,
                   !.brakeCounter = IF d.localEnabled THEN @ + 1 ELSE @]

BrakeOpening(d) ==
    LET lost == d.localEnabledOld /\ ~d.localEnabled
        step == IF ~OpenDelayOver(d) THEN [d EXCEPT !.enableAmpCmd = TRUE]
                ELSE IF d.localEnabled THEN Release(d) ELSE GiveUp(d)
    IN  CountIf(IF lost THEN Engage(step) ELSE step, d.localEnabled)

BrakeOpen(d) ==
    IF ~d.localEnabled /\ d.enable
    THEN [Engage(d) EXCEPT !.enableCmdOld = FALSE, !.brakeCounter = 0]
    ELSE [d EXCEPT !.brakeOutputCmd = TRUE, !.enableAmpCmd = TRUE,
                   !.brakeCounter = 0]

BrakeClosing(d) ==
    CountIf(IF CloseAheadOver(d) \/ ~d.localEnabled
            THEN Engage(d)
            ELSE [d EXCEPT !.brakeOutputCmd = FALSE, !.enableAmpCmd = TRUE], TRUE)

UpdateBrakeState(d) ==
    LET e == BrakeEdge(d)
    IN  CASE e.brakeState = "closed"  -> BrakeClosed(e)
          [] e.brakeState = "opening" -> BrakeOpening(e)
          [] e.brakeState = "open"    -> BrakeOpen(e)
          [] e.brakeState = "closing" -> BrakeClosing(e)

-----------------------------------------------------------------------------
(* The rest of writeEntries(), in the order of the code.                   *)

\* A variant: without a brake the amplifier command is only ever set.
UpdateEnableCommandSticky(d) ==
    [d EXCEPT !.enabled = d.localEnabled,
              !.enableAmpCmd = d.enable \/ d.enableAmpCmd]

\* A variant: the axis is told "enabled" before the brake is released.
UpdateEnableCommandUnbraked(d) ==
    IF HasBrake THEN UpdateBrakeState([d EXCEPT !.enabled = d.localEnabled])
    ELSE [d EXCEPT !.enabled = d.localEnabled, !.enableAmpCmd = d.enable]

\* enabled is judged with the brake output of the cycle before.
UpdateEnableCommand(d) ==
    IF HasBrake
    THEN UpdateBrakeState(
             [d EXCEPT !.enabled = d.localEnabled /\ d.brakeOutputCmd])
    ELSE [d EXCEPT !.enabled = d.localEnabled, !.enableAmpCmd = d.enable]

CheckInterlocks(d, interlocksOK) ==
    IF ~interlocksOK /\ d.enable
    THEN [d EXCEPT !.enable = FALSE, !.error = TRUE]
    ELSE d

\* A variant: the time out is tested before the cycle is counted.
TimesOutLate(d) == d.cycleCounterBase > Timeout

TimesOut(d) == d.cycleCounterBase + 1 > Timeout

\* A variant: the time out only sets the error.
CheckTimeoutErrorOnly(d) ==
    IF d.localEnabled \/ ~d.enable THEN [d EXCEPT !.cycleCounterBase = 0]
    ELSE IF TimesOut(d) THEN [d EXCEPT !.cycleCounterBase = 0, !.error = TRUE]
    ELSE [d EXCEPT !.cycleCounterBase = @ + 1]

CheckTimeout(d) ==
    IF d.localEnabled \/ ~d.enable THEN [d EXCEPT !.cycleCounterBase = 0]
    ELSE IF TimesOut(d)
    THEN [d EXCEPT !.cycleCounterBase = 0, !.enable = FALSE, !.error = TRUE]
    ELSE [d EXCEPT !.cycleCounterBase = @ + 1]

CheckEnabledLost(d) ==
    IF ~d.localEnabled /\ d.localEnabledOld /\ d.enable
    THEN [d EXCEPT !.enable = FALSE]
    ELSE d

RememberCommands(d) ==
    [d EXCEPT !.localEnabledOld = d.localEnabled,
              !.enableAmpCmdOld = d.enableAmpCmd,
              !.enableCmdOld = d.enable]

BaseWriteEntries(d, interlocksOK) ==
    RememberCommands(CheckEnabledLost(CheckTimeout(
        CheckInterlocks(UpdateEnableCommand(d), interlocksOK))))

\* A hardware alarm read from the drive takes the enable command away.
BaseReadEntries(d, alarm) ==
    IF alarm THEN [d EXCEPT !.enable = FALSE, !.error = TRUE] ELSE d

BaseErrorReset(d) == [d EXCEPT !.error = FALSE]

-----------------------------------------------------------------------------
(* History of what the mechanics saw, for the properties (no code): how    *)
(* many cycles in a row the amplifier has held the load and the brake has  *)
(* been applied; whether the enable command was taken away inside          *)
(* writeEntries() after updateBrakeState() had looked at it; whether an    *)
(* error of the drive or its reset holds the power back, or has done so    *)
(* and it has not been commanded again since; and whether the last cycle   *)
(* was interlocked.                                                        *)

TorqueBound == OpenDelay + 2
BrakeBound  == CloseAhead + 2

Failures == {"none", "error", "reset"}

Histories == [ torqueFor : 0 .. TorqueBound, appliedFor : 0 .. BrakeBound,
               withdrawn : BOOLEAN, failure : Failures, interlocked : BOOLEAN ]

InitHist == [ torqueFor |-> 0, appliedFor |-> 0, withdrawn |-> FALSE,
              failure |-> "none", interlocked |-> FALSE ]

\* Count a cycle in which the condition held, up to a bound; start again if not.
Count(n, holds, bound) ==
    IF ~holds THEN 0 ELSE IF n < bound THEN n + 1 ELSE n

\* What one writeEntries(), from d to e, adds to the history; "failing" says
\* what holds the power back in this cycle, "on" that power is commanded.  A
\* command taken away because torque was lost does not count as withdrawn.
Withdraws(d, e) ==
    d.enable /\ ~e.enable /\ (e.localEnabled \/ ~d.localEnabledOld)

Observe(h, d, e, interlocksOK, failing, on) ==
    [ torqueFor   |-> Count(h.torqueFor, e.localEnabled, TorqueBound),
      appliedFor  |-> Count(h.appliedFor, ~e.brakeOutputCmd, BrakeBound),
      withdrawn   |-> /\ e.brakeState \in {"opening", "open"}
                      /\ h.withdrawn \/ Withdraws(d, e),
      failure     |-> IF failing # "none" THEN failing
                      ELSE IF on THEN "none" ELSE h.failure,
      interlocked |-> ~interlocksOK ]
=============================================================================
