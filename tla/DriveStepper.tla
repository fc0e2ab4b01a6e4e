---------------------------- MODULE DriveStepper -----------------------------
(***************************************************************************)
(* A drive with one enable bit (motion/ecmcDriveStepper.cpp) and its       *)
(* amplifier.  The realtime thread reads the drive, runs the rest of the   *)
(* axis and writes the drive in every cycle; commands of the operator and  *)
(* of the PLCs come between two cycles, and the amplifier answers between  *)
(* two cycles.                                                             *)
(***************************************************************************)
EXTENDS DriveBase

VARIABLES
    drv,          \* the drive object's state, see DriveBase
    controlWord,  \* the enable bit last written to the amplifier
    power,        \* the amplifier's status word is nonzero
    phase,        \* "idle" between cycles, "read" after readEntries
    hist          \* history, see Observe

vars == <<drv, controlWord, power, phase, hist>>

-----------------------------------------------------------------------------
(* The brake as the mechanics see it.                                     *)

BT == INSTANCE BrakeTiming
        WITH torque <- drv.localEnabledOld, powered <- controlWord,
             released <- drv.brakeOutputCmd,
             failure <- hist.failure, withdrawn <- hist.withdrawn, Lag <- 1,
             torqueFor <- hist.torqueFor, appliedFor <- hist.appliedFor

-----------------------------------------------------------------------------
TypeOK ==
    /\ drv \in DriveState
    /\ controlWord \in BOOLEAN
    /\ power \in BOOLEAN
    /\ phase \in {"idle", "read"}
    /\ hist \in Histories

Init ==
    /\ drv = InitDrive
    /\ controlWord = FALSE
    /\ power = FALSE
    /\ phase = "idle"
    /\ hist = InitHist

\* The axis' setEnable(), for the operator or a PLC.
SetEnable(on) ==
    /\ phase = "idle"
    /\ drv.enable # on
    /\ drv' = [drv EXCEPT !.enable = on]
    /\ UNCHANGED <<controlWord, power, phase, hist>>

ErrorReset ==
    /\ phase = "idle"
    /\ drv.error
    /\ drv' = BaseErrorReset(drv)
    /\ UNCHANGED <<controlWord, power, phase, hist>>

ReadEntries(alarm) ==
    /\ phase = "idle"
    /\ phase' = "read"
    /\ drv' = [BaseReadEntries(drv, alarm) EXCEPT !.localEnabled = power]
    /\ UNCHANGED <<controlWord, power, hist>>

\* The axis takes enable away inside the cycle when the master is not ok.
MasterNotOK ==
    /\ phase = "read"
    /\ drv.enable
    /\ drv' = [drv EXCEPT !.enable = FALSE]
    /\ UNCHANGED <<controlWord, power, phase, hist>>

\* An error of the drive switches the amplifier off before the base class
\* gets to work.
StepperOutput(d) == IF d.error THEN [d EXCEPT !.enableAmpCmd = FALSE] ELSE d

WriteEntries(interlocksOK) ==
    /\ phase = "read"
    /\ phase' = "idle"
    /\ controlWord' = (~drv.error /\ drv.enableAmpCmd)
    /\ drv' = BaseWriteEntries(StepperOutput(drv), interlocksOK)
    /\ hist' = Observe(hist, drv, drv', interlocksOK,
                       IF drv.error THEN "error" ELSE "none", controlWord')
    /\ UNCHANGED power

\* The amplifier does what its enable bit says, some time later ...
AmplifierFollows ==
    /\ phase = "idle"
    /\ power # controlWord
    /\ power' = controlWord
    /\ UNCHANGED <<drv, controlWord, phase, hist>>

\* ... and may lose power on its own.
AmplifierDrops ==
    /\ phase = "idle"
    /\ power
    /\ power' = FALSE
    /\ UNCHANGED <<drv, controlWord, phase, hist>>

Cycle ==
    \/ \E alarm \in BOOLEAN : ReadEntries(alarm)
    \/ \E ok \in BOOLEAN : WriteEntries(ok)

Next ==
    \/ Cycle
    \/ \E on \in BOOLEAN : SetEnable(on)
    \/ ErrorReset
    \/ MasterNotOK
    \/ AmplifierFollows
    \/ AmplifierDrops

\* The realtime thread runs its cycles for ever.
Spec == Init /\ [][Next]_vars /\ WF_vars(Cycle)

-----------------------------------------------------------------------------
(* Properties of a drive with a brake (HasBrake).                          *)

\* Every cycle keeps the brake's promise to the mechanics, with the control word
\* it writes: release only after the open delay with torque, no power-down of a
\* held load before the brake has been applied for the close-ahead time
\* (updateBrakeState).  An error cuts the control word at once (writeEntries), but
\* the brake then falls in the same cycle, unless the command was withdrawn
\* behind it.
BrakeTimingKept == BT!Spec

\* The axis is told "enabled" only when the amplifier has held the load
\* for the whole open delay, also after a short loss of power (status.enabled
\* is computed from the brake output of the cycle before).
EnabledAfterOpenDelay ==
    [][ ~drv.enabled /\ drv'.enabled =>
            hist'.torqueFor > OpenDelay + 1 \/ hist.withdrawn ]_vars

\* "Engage brake if not enabled" (RELEASE.md) and "the brake output will
\* follow the amplifier enable state" (ecmcMotion.h): what the documents say.
BrakeAppliedWhenNotEnabled ==
    phase = "idle" /\ drv.brakeOutputCmd => drv.localEnabled

(* Properties of every drive.                                              *)

\* An enable command is answered by torque or taken back: the amplifier that
\* never answers ends in the time out of writeEntries().
EnableResolves == drv.enable ~> (drv.localEnabled \/ ~drv.enable)

\* A disabled axis gets an amplifier without power, or is enabled again; the
\* command that writeEntries() took away under an open brake is excepted.
PowerRemoved ==
    ~drv.enable ~> (~controlWord \/ drv.enable \/ hist.withdrawn)
=============================================================================
