----------------------------- MODULE DriveDS402 ------------------------------
(***************************************************************************)
(* A drive with the CiA 402 state machine (motion/ecmcDriveDS402.cpp) and  *)
(* the device behind it.  readEntries() follows the device's status word   *)
(* through a state machine of its own and chooses the control word that    *)
(* the base class writes at the end of the cycle.                          *)
(***************************************************************************)
EXTENDS DriveBase

VARIABLES
    drv,          \* the drive object's state of the base class, see DriveBase
    esm,          \* [state, counter, ampOld, controlWord]: the DS402 part
    output,       \* the control word last written to the device
    device,       \* the device's own CiA 402 state
    phase,        \* "idle" between cycles, "read" after readEntries
    hist          \* history, see Observe

vars == <<drv, esm, output, device, phase, hist>>

EnableStates == { "idle", "startup reset", "switch on disabled",
                  "ready to switch on", "switched on", "operation enabled",
                  "fault", "reset" }

ControlWords == {0, 6, 7, 15, 128}

DeviceStates == { "switch on disabled", "ready to switch on", "switched on",
                  "operation enabled", "fault reaction", "fault" }

\* The status word bits the drive looks at; the fault reaction of a powered
\* device still shows it as enabled.
ReadyBit(s)   == s \in DeviceStates \ {"switch on disabled", "fault"}
SwitchedBit(s) == s \in {"switched on", "operation enabled", "fault reaction"}
EnabledBit(s) == s \in {"operation enabled", "fault reaction"}
FaultBit(s)   == s \in {"fault reaction", "fault"}

\* The counter stops one cycle after the time out.
EsmCounters == 0 .. Timeout + 1

EsmRecords == [ state : EnableStates, counter : EsmCounters,
                ampOld : BOOLEAN, controlWord : ControlWords ]

-----------------------------------------------------------------------------
(* The brake as the mechanics see it.                                     *)

BT == INSTANCE BrakeTiming
        WITH torque <- drv.localEnabledOld, powered <- (output = 15),
             released <- drv.brakeOutputCmd,
             failure <- hist.failure, withdrawn <- hist.withdrawn, Lag <- 2,
             torqueFor <- hist.torqueFor, appliedFor <- hist.appliedFor

-----------------------------------------------------------------------------
TypeOK ==
    /\ drv \in DriveState
    /\ esm \in EsmRecords
    /\ output \in ControlWords
    /\ device \in DeviceStates
    /\ phase \in {"idle", "read"}
    /\ hist \in Histories

Init ==
    /\ drv = InitDrive
    /\ esm = [state |-> "reset", counter |-> 0, ampOld |-> FALSE, controlWord |-> 0]
    /\ output = 0
    /\ device \in {"switch on disabled", "fault"}
    /\ phase = "idle"
    /\ hist = [InitHist EXCEPT !.failure = "reset"]

\* The axis' setEnable(), for the operator or a PLC.
SetEnable(on) ==
    /\ phase = "idle"
    /\ drv.enable # on
    /\ drv' = [drv EXCEPT !.enable = on]
    /\ UNCHANGED <<esm, output, device, phase, hist>>

ErrorReset ==
    /\ phase = "idle"
    /\ drv' = BaseErrorReset(drv)
    /\ esm' = IF esm.state = "fault"
              THEN [esm EXCEPT !.state = "reset", !.counter = 0]
              ELSE esm
    /\ UNCHANGED <<output, device, phase, hist>>

-----------------------------------------------------------------------------
(* One step of the state machine: the control word and the counter the     *)
(* state asks for, and the state that follows.  Of several conditions that *)
(* hold the code's last one wins.                                          *)

Goto(e, state) == [e EXCEPT !.state = state, !.counter = 0]

\* A variant: the state machine does not look at the amplifier command.
StayOn(e, amp) == e

IdleUnlessAmp(e, amp) == IF amp THEN e ELSE [e EXCEPT !.state = "idle"]

FaultOr(e, s) == IF FaultBit(s) THEN Goto(e, "fault") ELSE e

Put(e, word) == [e EXCEPT !.controlWord = word]

IdleState(e, amp) ==
    Put(Goto(e, IF amp /\ ~e.ampOld THEN "startup reset" ELSE "idle"), 0)

SwitchOnDisabledState(e, amp, s) ==
    IdleUnlessAmp(IF ReadyBit(s) THEN Goto(Put(e, 6), "ready to switch on")
                                 ELSE Put(e, 6), amp)

ReadyToSwitchOnState(e, amp, s) ==
    IdleUnlessAmp(IF SwitchedBit(s) THEN Goto(Put(e, 7), "switched on")
                                    ELSE FaultOr(Put(e, 7), s), amp)

SwitchedOnState(e, amp, s) ==
    IdleUnlessAmp(IF EnabledBit(s) THEN Goto(Put(e, 15), "operation enabled")
                                   ELSE FaultOr(Put(e, 15), s), amp)

\* A variant: the counter runs on while the device is enabled.
OperationEnabledStateCounting(e, amp, s) ==
    IdleUnlessAmp(FaultOr(e, s), amp)

OperationEnabledState(e, amp, s) ==
    IdleUnlessAmp(FaultOr([e EXCEPT !.counter = 0], s), amp)

FaultState(e) == Put(Goto(e, "fault"), 0)

ResetState(e, s) == Put(Goto(e, IF FaultBit(s) THEN "reset" ELSE "idle"), 128)

EsmStep(e, amp, s) ==
    CASE e.state = "idle"               -> IdleState(e, amp)
      [] e.state = "startup reset"      -> Put(Goto(e, "switch on disabled"), 128)
      [] e.state = "switch on disabled" -> SwitchOnDisabledState(e, amp, s)
      [] e.state = "ready to switch on" -> ReadyToSwitchOnState(e, amp, s)
      [] e.state = "switched on"        -> SwitchedOnState(e, amp, s)
      [] e.state = "operation enabled"  -> OperationEnabledState(e, amp, s)
      [] e.state = "fault"              -> FaultState(e)
      [] e.state = "reset"              -> ResetState(e, s)

\* What the states "fault" and "reset" do to the commands of the base class.
CommandsAfter(d, e, s) ==
    [d EXCEPT !.enable = /\ d.enable
                         /\ e.state # "fault"
                         /\ e.state = "reset" => FaultBit(s),
              !.enableAmpCmd = d.enableAmpCmd /\ e.state # "fault",
              !.error = d.error \/ e.state = "fault"]

\* The state machine has waited too long for the device: nothing but the
\* error is set, now and in every cycle until the error is reset.
StateMachineTimedOut(base) ==
    /\ esm' = [esm EXCEPT !.state = "fault"]
    /\ drv' = [base EXCEPT !.error = TRUE]

FollowDevice(base) ==
    LET next == CommandsAfter(base, esm, device)
        step == EsmStep([esm EXCEPT !.counter = @ + 1], base.enableAmpCmd, device)
    IN  /\ drv' = [next EXCEPT !.localEnabled = EnabledBit(device)]
        /\ esm' = [step EXCEPT !.ampOld = next.enableAmpCmd]

ReadEntries(alarm) ==
    LET base == BaseReadEntries(drv, alarm) IN
    /\ phase = "idle"
    /\ phase' = "read"
    /\ IF esm.counter > Timeout THEN StateMachineTimedOut(base)
                                ELSE FollowDevice(base)
    /\ UNCHANGED <<output, device, hist>>

\* The axis takes enable away inside the cycle when the master is not ok.
MasterNotOK ==
    /\ phase = "read"
    /\ drv.enable
    /\ drv' = [drv EXCEPT !.enable = FALSE]
    /\ UNCHANGED <<esm, output, device, phase, hist>>

\* What holds the power back while the state machine is in state s.
Failing(s) ==
    CASE s = "fault" -> "error"
      [] s = "reset" -> "reset"
      [] OTHER       -> "none"

WriteEntries(interlocksOK) ==
    /\ phase = "read"
    /\ phase' = "idle"
    /\ output' = esm.controlWord
    /\ drv' = BaseWriteEntries(drv, interlocksOK)
    /\ hist' = Observe(hist, drv, drv', interlocksOK,
                       Failing(esm.state), output' = 15)
    /\ UNCHANGED <<esm, device>>

-----------------------------------------------------------------------------
(* The device answers between two cycles, as CiA 402 tells it to.          *)

Commanded(s, word) ==
    CASE s = "fault reaction" -> s
      [] s = "fault" -> IF word = 128 THEN "switch on disabled" ELSE s
      [] ~FaultBit(s) ->
           CASE word \in {0, 128} -> "switch on disabled"
             [] word = 6  -> "ready to switch on"
             [] word = 7  -> IF ReadyBit(s) THEN "switched on" ELSE s
             [] word = 15 -> IF SwitchedBit(s) THEN "operation enabled"
                             ELSE IF ReadyBit(s) THEN "switched on" ELSE s

DeviceFollows ==
    /\ phase = "idle"
    /\ Commanded(device, output) # device
    /\ device' = Commanded(device, output)
    /\ UNCHANGED <<drv, esm, output, phase, hist>>

FaultReactionEnds ==
    /\ phase = "idle"
    /\ device = "fault reaction"
    /\ device' = "fault"
    /\ UNCHANGED <<drv, esm, output, phase, hist>>

DeviceFails ==
    /\ phase = "idle"
    /\ ~FaultBit(device)
    /\ device' = "fault reaction"
    /\ UNCHANGED <<drv, esm, output, phase, hist>>

\* Power is taken away without a fault (safe torque off).
DeviceDrops ==
    /\ phase = "idle"
    /\ SwitchedBit(device) /\ ~FaultBit(device)
    /\ device' = "switch on disabled"
    /\ UNCHANGED <<drv, esm, output, phase, hist>>

Cycle ==
    \/ \E alarm \in BOOLEAN : ReadEntries(alarm)
    \/ \E ok \in BOOLEAN : WriteEntries(ok)

Next ==
    \/ Cycle
    \/ \E on \in BOOLEAN : SetEnable(on)
    \/ ErrorReset
    \/ MasterNotOK
    \/ DeviceFollows
    \/ FaultReactionEnds
    \/ DeviceFails
    \/ DeviceDrops

\* The realtime thread runs its cycles for ever; that the device ever follows
\* its commands is not assumed.
Spec == Init /\ [][Next]_vars /\ WF_vars(Cycle)

-----------------------------------------------------------------------------
(* Properties of a drive with a brake (HasBrake), as for the stepper.      *)

\* Every cycle keeps the brake's promise to the mechanics, with the control word
\* it writes: release only after the open delay with torque and never while the
\* state machine is still starting up, no power-down of a held load before the
\* brake has been applied for the close-ahead time (updateBrakeState).  The states
\* "fault" and "reset" cut the power at once, but in the fault the brake falls in
\* the same cycle, unless the command was withdrawn behind it.  A start-up takes
\* four cycles, so this asks for an open delay of at least four: a shorter one is
\* over before the word 15 is written when the device still says "enabled".
BrakeTimingKept == BT!Spec

(* Properties of every drive.                                              *)

\* Once the state machine has timed out the status word is not read any more;
\* the enabled bit that stays behind is then never a stale TRUE (the early
\* return of readEntries).
StaleStatusIsDisabled == esm.counter > Timeout => ~drv.localEnabled

\* An enable command is answered by the device or taken back.
EnableResolves == drv.enable ~> (drv.localEnabled \/ ~drv.enable)

\* A disabled axis ends with a control word that powers nothing, or is enabled
\* again; excepted are the command that writeEntries() took away under an open
\* brake and the control word that stands still after a time out.
PowerRemoved ==
    ~drv.enable ~> \/ output \in {0, 128} \/ drv.enable
                   \/ hist.withdrawn \/ esm.counter > Timeout

\* "The drive will be interlocked and the amplifier will be turned off"
\* (ecmcMotion.h, for the overspeed interlock): a drive interlock that stays
\* ends with a control word that powers nothing.
InterlockTurnsAmplifierOff ==
    hist.interlocked ~> output \in {0, 128} \/ ~hist.interlocked
=============================================================================
