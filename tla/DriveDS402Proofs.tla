--------------------------- MODULE DriveDS402Proofs --------------------------
(***************************************************************************)
(* Theorems about DriveDS402: the types, that a status word which is not   *)
(* read any more never says "enabled", and that the drive implements the   *)
(* brake's timing with the control word it writes, for every behaviour of  *)
(* the device.  The last rests on three inductive invariants: the          *)
(* BrakeInvariant and Held of DriveBaseProofs, as for the stepper, and     *)
(* Powers, which follows the control word through the state machine: what  *)
(* a start-up has counted of the open delay, and how long the brake has    *)
(* been applied when the word 15 goes.                                     *)
(***************************************************************************)
EXTENDS DriveDS402, DriveBaseProofs

\* The inductive invariant: the types, the brake's counter against the history,
\* and the counter of the state machine against the status word.
IInv ==
    /\ BrakeInvariant(drv, hist)
    /\ esm \in EsmRecords
    /\ output \in ControlWords
    /\ device \in DeviceStates
    /\ phase \in {"idle", "read"}
    /\ StaleStatusIsDisabled

-----------------------------------------------------------------------------
\* Commands and readEntries() leave the base class's memory alone, whatever
\* the state machine makes of enable, amplifier command, error and torque.
LEMMA CommandsKeepMemory ==
    ASSUME NEW d \in DriveState, NEW on \in BOOLEAN, NEW alarm \in BOOLEAN
    PROVE  /\ SameMemory(d, [d EXCEPT !.enable = on])
           /\ SameMemory(d, BaseErrorReset(d))
           /\ SameMemory(d, BaseReadEntries(d, alarm))
           /\ SameMemory(d, [BaseReadEntries(d, alarm) EXCEPT !.error = TRUE])
<1>1. /\ SameMemory(d, [d EXCEPT !.enable = on])
      /\ SameMemory(d, BaseErrorReset(d))
  BY DEF SameMemory, DriveState, BaseErrorReset
<1>2. SameMemory(d, BaseReadEntries(d, alarm))
  BY DEF SameMemory, DriveState, BaseReadEntries
<1>3. SameMemory(d, [BaseReadEntries(d, alarm) EXCEPT !.error = TRUE])
  <2> DEFINE base == BaseReadEntries(d, alarm)
  <2> HIDE DEF base
  <2>1. base \in DriveState /\ SameMemory(d, base)
    BY <1>2 DEF base, SameMemory
  <2>2. SameMemory(d, [base EXCEPT !.error = TRUE])
    BY <2>1 DEF SameMemory, DriveState
  <2> QED BY <2>2 DEF base
<1> QED BY <1>1, <1>2, <1>3

\* Neither sets the torque that was read.
LEMMA CommandsKeepTorque ==
    ASSUME NEW d \in DriveState, NEW on \in BOOLEAN, NEW alarm \in BOOLEAN
    PROVE  /\ [d EXCEPT !.enable = on].localEnabled = d.localEnabled
           /\ BaseErrorReset(d).localEnabled = d.localEnabled
           /\ [BaseReadEntries(d, alarm) EXCEPT !.error = TRUE].localEnabled
                = d.localEnabled
BY DEF DriveState, BaseErrorReset, BaseReadEntries

\* The states "fault" and "reset" change commands and error only.
LEMMA StateCommandsKeepMemory ==
    ASSUME NEW d \in DriveState, NEW e, NEW s, NEW torque \in BOOLEAN
    PROVE  /\ SameMemory(d, [CommandsAfter(d, e, s) EXCEPT !.localEnabled = torque])
           /\ [CommandsAfter(d, e, s) EXCEPT !.localEnabled = torque].localEnabled = torque
           /\ CommandsAfter(d, e, s).enableAmpCmd \in BOOLEAN
<1> DEFINE on == d.enable /\ e.state # "fault" /\ (e.state = "reset" => FaultBit(s))
           amp == d.enableAmpCmd /\ e.state # "fault"
           err == d.error \/ e.state = "fault"
<1>1. on \in BOOLEAN /\ amp \in BOOLEAN /\ err \in BOOLEAN
  OBVIOUS
<1>2. CommandsAfter(d, e, s) =
        [d EXCEPT !.enable = on, !.enableAmpCmd = amp, !.error = err]
  BY Zenon DEF CommandsAfter
<1> HIDE DEF on, amp, err
<1> QED BY <1>1, <1>2 DEF SameMemory, DriveState

\* Keeping the memory twice keeps it.
LEMMA MemoryTwice ==
    ASSUME NEW d, NEW e, NEW f, SameMemory(d, e), SameMemory(e, f)
    PROVE  SameMemory(d, f)
BY DEF SameMemory

-----------------------------------------------------------------------------
\* One step of the state machine restarts the counter, or keeps counting and
\* the device does not report "enabled".
LEMMA EsmStepCounts ==
    ASSUME NEW e \in EsmRecords, NEW amp \in BOOLEAN, NEW s \in DeviceStates
    PROVE  LET f == EsmStep(e, amp, s) IN
           /\ f \in EsmRecords
           /\ f.counter = 0 \/ (f.counter = e.counter /\ ~EnabledBit(s))
<1> DEFINE f == EsmStep(e, amp, s)
           Good(g) == /\ g \in EsmRecords
                      /\ g.counter = 0 \/ (g.counter = e.counter /\ ~EnabledBit(s))
<1>0. 0 \in EsmCounters
  BY DriveAssumption DEF DriveAssumption, EsmCounters
<1>1. CASE e.state = "idle"
  <2>1. f = IdleState(e, amp)
    BY <1>1 DEF EsmStep
  <2> HIDE DEF f
  <2>2. f \in EsmRecords /\ f.counter = 0
    BY <1>0, <2>1 DEF IdleState, Goto, Put, EsmRecords, EnableStates, ControlWords
  <2> QED BY <2>2 DEF f
<1>2. CASE e.state = "startup reset"
  <2>1. f = Put(Goto(e, "switch on disabled"), 128)
    BY <1>2 DEF EsmStep
  <2> HIDE DEF f
  <2>2. f \in EsmRecords /\ f.counter = 0
    BY <1>0, <2>1 DEF Goto, Put, EsmRecords, EnableStates, ControlWords
  <2> QED BY <2>2 DEF f
<1>3. CASE e.state = "switch on disabled"
  <2>1. f = SwitchOnDisabledState(e, amp, s)
    BY <1>3 DEF EsmStep
  <2>2. ReadyBit(s) \/ ~EnabledBit(s)
    BY DEF ReadyBit, EnabledBit
  <2> HIDE DEF f
  <2>3. Good(f)
    BY <1>0, <2>1, <2>2
    DEF SwitchOnDisabledState, IdleUnlessAmp, Goto, Put, EsmRecords, EnableStates, ControlWords
  <2> QED BY <2>3 DEF f
<1>4. CASE e.state = "ready to switch on"
  <2>1. f = ReadyToSwitchOnState(e, amp, s)
    BY <1>4 DEF EsmStep
  <2>2. SwitchedBit(s) \/ ~EnabledBit(s)
    BY DEF SwitchedBit, EnabledBit
  <2> HIDE DEF f
  <2>3. Good(f)
    BY <1>0, <2>1, <2>2
    DEF ReadyToSwitchOnState, IdleUnlessAmp, FaultOr, Goto, Put, EsmRecords, EnableStates, ControlWords
  <2> QED BY <2>3 DEF f
<1>5. CASE e.state = "switched on"
  <2>1. f = SwitchedOnState(e, amp, s)
    BY <1>5 DEF EsmStep
  <2> HIDE DEF f
  <2>2. Good(f)
    BY <1>0, <2>1
    DEF SwitchedOnState, IdleUnlessAmp, FaultOr, Goto, Put, EsmRecords, EnableStates, ControlWords
  <2> QED BY <2>2 DEF f
<1>6. CASE e.state = "operation enabled"
  <2>1. f = OperationEnabledState(e, amp, s)
    BY <1>6 DEF EsmStep
  <2> HIDE DEF f
  <2>2. f \in EsmRecords /\ f.counter = 0
    BY <1>0, <2>1
    DEF OperationEnabledState, IdleUnlessAmp, FaultOr, Goto, Put, EsmRecords, EnableStates, ControlWords
  <2> QED BY <2>2 DEF f
<1>7. CASE e.state = "fault"
  <2>1. f = FaultState(e)
    BY <1>7 DEF EsmStep
  <2> HIDE DEF f
  <2>2. f \in EsmRecords /\ f.counter = 0
    BY <1>0, <2>1 DEF FaultState, Goto, Put, EsmRecords, EnableStates, ControlWords
  <2> QED BY <2>2 DEF f
<1>8. CASE e.state = "reset"
  <2>1. f = ResetState(e, s)
    BY <1>8 DEF EsmStep
  <2> HIDE DEF f
  <2>2. f \in EsmRecords /\ f.counter = 0
    BY <1>0, <2>1 DEF ResetState, Goto, Put, EsmRecords, EnableStates, ControlWords
  <2> QED BY <2>2 DEF f
<1> QED BY <1>1, <1>2, <1>3, <1>4, <1>5, <1>6, <1>7, <1>8 DEF EsmRecords, EnableStates

-----------------------------------------------------------------------------
\* The invariant holds initially: the counter starts at zero.
LEMMA InitIInv == Init => IInv
<1> SUFFICES ASSUME Init PROVE IInv
  OBVIOUS
<1>0. 0 \in EsmCounters
  BY DriveAssumption DEF DriveAssumption, EsmCounters
<1>1. esm \in EsmRecords
  BY <1>0 DEF Init, EsmRecords, EnableStates, ControlWords
<1>2. StaleStatusIsDisabled
  BY DriveAssumption DEF DriveAssumption, Init, InitDrive, StaleStatusIsDisabled
<1>3. BrakeInvariant(drv, hist)
  <2>1. /\ hist \in Histories
        /\ hist.torqueFor = InitHist.torqueFor /\ hist.appliedFor = InitHist.appliedFor
    BY InitKeepsBrake DEF Init, BrakeInvariant, Histories, Failures
  <2> QED BY <2>1, InitKeepsBrake DEF Init, BrakeInvariant, BrakeHistory
<1> QED BY <1>1, <1>2, <1>3 DEF Init, IInv, ControlWords, DeviceStates

\* readEntries(), with and without the early return of a state machine that has
\* timed out.
LEMMA ReadKeepsIInv ==
    ASSUME IInv, NEW alarm \in BOOLEAN, ReadEntries(alarm)
    PROVE  IInv' /\ SameMemory(drv, drv') /\ hist' = hist
<1> DEFINE base == BaseReadEntries(drv, alarm)
<1>0. /\ drv \in DriveState /\ hist \in Histories /\ esm \in EsmRecords
      /\ BrakeInvariant(drv, hist) /\ device \in DeviceStates /\ output \in ControlWords
      /\ StaleStatusIsDisabled
  BY DEF IInv, BrakeInvariant
<1>1. base \in DriveState /\ SameMemory(drv, base)
  BY <1>0, CommandsKeepMemory DEF SameMemory
<1>2. SameMemory(drv, drv') /\ esm' \in EsmRecords /\ StaleStatusIsDisabled'
  <2>1. CASE esm.counter > Timeout
    <3>1. esm' = [esm EXCEPT !.state = "fault"] /\ drv' = [base EXCEPT !.error = TRUE]
      BY <2>1 DEF ReadEntries, StateMachineTimedOut
    <3>2. esm' \in EsmRecords /\ esm'.counter = esm.counter
      BY <1>0, <3>1 DEF EsmRecords, EnableStates
    <3>3. SameMemory(drv, drv') /\ drv'.localEnabled = drv.localEnabled
      BY <1>0, <3>1, CommandsKeepMemory, CommandsKeepTorque
    <3> QED BY <1>0, <3>2, <3>3 DEF StaleStatusIsDisabled
  <2>2. CASE ~(esm.counter > Timeout)
    <3> DEFINE counted == [esm EXCEPT !.counter = esm.counter + 1]
               next == CommandsAfter(base, esm, device)
               step == EsmStep(counted, base.enableAmpCmd, device)
    <3>1. esm' = [step EXCEPT !.ampOld = next.enableAmpCmd]
          /\ drv' = [next EXCEPT !.localEnabled = EnabledBit(device)]
      BY <2>2 DEF ReadEntries, FollowDevice
    <3>2. esm.counter + 1 \in EsmCounters
      BY <1>0, <2>2, DriveAssumption DEF DriveAssumption, EsmRecords, EsmCounters
    <3>3. counted \in EsmRecords
      BY <1>0, <3>2 DEF EsmRecords
    <3>4. base.enableAmpCmd \in BOOLEAN
      BY <1>1 DEF DriveState
    <3> HIDE DEF counted
    <3>5. step \in EsmRecords /\ (step.counter = 0 \/ ~EnabledBit(device))
      BY <1>0, <3>3, <3>4, EsmStepCounts
    <3>6. EnabledBit(device) \in BOOLEAN
      BY DEF EnabledBit
    <3> HIDE DEF base
    <3>7. /\ SameMemory(base, drv') /\ drv'.localEnabled = EnabledBit(device)
          /\ next.enableAmpCmd \in BOOLEAN
      BY <1>1, <3>1, <3>6, StateCommandsKeepMemory
    <3> HIDE DEF next, step
    <3>8. esm' \in EsmRecords /\ esm'.counter = step.counter
      BY <3>1, <3>5, <3>7 DEF EsmRecords
    <3>9. ~(0 > Timeout)
      BY DriveAssumption DEF DriveAssumption
    <3>10. StaleStatusIsDisabled'
      BY <3>5, <3>7, <3>8, <3>9 DEF StaleStatusIsDisabled
    <3> QED BY <1>1, <3>7, <3>8, <3>10, MemoryTwice
  <2> QED BY <2>1, <2>2
<1>3. UNCHANGED <<output, device, hist>> /\ phase' = "read"
  BY DEF ReadEntries
<1>4. BrakeInvariant(drv', hist)
  BY <1>0, <1>2, MemoryKeepsBrake
<1> QED BY <1>0, <1>2, <1>3, <1>4 DEF IInv

\* What holds the power back is one of the three.
LEMMA FailingType == \A s : Failing(s) \in Failures
BY DEF Failing, Failures

\* writeEntries() writes the control word and does the work of the base class.
LEMMA WriteKeepsIInv ==
    ASSUME IInv, NEW ok \in BOOLEAN, WriteEntries(ok)
    PROVE  IInv' /\ (HasBrake => CycleKept(drv, drv', hist, hist'))
<1> DEFINE failing == Failing(esm.state)
           on == output' = 15
           e == BaseWriteEntries(drv, ok)
           k == Observe(hist, drv, e, ok, failing, on)
<1>0. drv \in DriveState /\ hist \in Histories /\ BrakeInvariant(drv, hist)
  BY DEF IInv, BrakeInvariant
<1>1. drv' = e /\ hist' = k
  BY DEF WriteEntries
<1>9. failing \in Failures /\ on \in BOOLEAN
  BY FailingType
<1> HIDE DEF failing, on
<1>2. /\ BrakeInvariant(e, k) /\ e.localEnabled = drv.localEnabled
      /\ HasBrake => KeepsPromise(drv, e, k)
  BY <1>0, <1>9, WriteKeepsBrake
<1>3. k.torqueFor = TorqueAfter(hist, e) /\ k.appliedFor = AppliedAfter(hist, e)
  BY ObserveCounts
<1> HIDE DEF e, k
<1>4. HasBrake => CycleKept(drv, drv', hist, hist')
  BY <1>1, <1>2, <1>3 DEF CycleKept
<1>5. /\ output' = esm.controlWord /\ UNCHANGED <<esm, device>> /\ phase' = "idle"
      /\ esm \in EsmRecords /\ device \in DeviceStates
  BY DEF WriteEntries, IInv
<1>6. esm.controlWord \in ControlWords
  BY <1>5 DEF EsmRecords
<1>7. StaleStatusIsDisabled'
  BY <1>1, <1>2, <1>5 DEF IInv, StaleStatusIsDisabled
<1> QED BY <1>1, <1>2, <1>4, <1>5, <1>6, <1>7 DEF IInv

\* Every step keeps the invariant, and keeps the mechanics' promise when there
\* is a brake.
LEMMA NextIInv ==
    IInv /\ [Next]_vars => IInv' /\ (HasBrake => MechanicsKept(drv, drv', hist, hist'))
<1> SUFFICES ASSUME IInv, [Next]_vars
             PROVE  IInv' /\ (HasBrake => MechanicsKept(drv, drv', hist, hist'))
  OBVIOUS
<1>0. drv \in DriveState /\ hist \in Histories /\ BrakeInvariant(drv, hist)
  BY DEF IInv, BrakeInvariant
<1>1. ASSUME SameMemory(drv, drv'), hist' = hist
      PROVE  BrakeInvariant(drv, hist)' /\ MechanicsKept(drv, drv', hist, hist')
  BY <1>0, <1>1, MemoryKeepsBrake DEF MechanicsKept
<1>2. ASSUME NEW on \in BOOLEAN, SetEnable(on)
      PROVE  IInv' /\ (HasBrake => MechanicsKept(drv, drv', hist, hist'))
  <2>1. SameMemory(drv, drv') /\ drv'.localEnabled = drv.localEnabled /\ hist' = hist
    BY <1>0, <1>2, CommandsKeepMemory, CommandsKeepTorque DEF SetEnable
  <2> QED BY <1>1, <1>2, <2>1 DEF SetEnable, IInv, StaleStatusIsDisabled
<1>3. CASE ErrorReset
  <2>1. SameMemory(drv, drv') /\ drv'.localEnabled = drv.localEnabled /\ hist' = hist
    BY <1>0, <1>3, CommandsKeepMemory, CommandsKeepTorque DEF ErrorReset
  <2>2. ~(0 > Timeout) /\ 0 \in EsmCounters
    BY DriveAssumption DEF DriveAssumption, EsmCounters
  <2>3. esm' \in EsmRecords /\ (esm'.counter = esm.counter \/ esm'.counter = 0)
    BY <1>3, <2>2 DEF ErrorReset, IInv, EsmRecords, EnableStates
  <2>4. StaleStatusIsDisabled'
    BY <2>1, <2>2, <2>3 DEF IInv, StaleStatusIsDisabled
  <2> QED BY <1>1, <1>3, <2>1, <2>3, <2>4 DEF ErrorReset, IInv
<1>4. ASSUME NEW alarm \in BOOLEAN, ReadEntries(alarm)
      PROVE  IInv' /\ (HasBrake => MechanicsKept(drv, drv', hist, hist'))
  BY <1>4, ReadKeepsIInv DEF MechanicsKept
<1>5. CASE MasterNotOK
  <2>1. SameMemory(drv, drv') /\ drv'.localEnabled = drv.localEnabled /\ hist' = hist
    BY <1>0, <1>5, CommandsKeepMemory, CommandsKeepTorque DEF MasterNotOK
  <2> QED BY <1>1, <1>5, <2>1 DEF MasterNotOK, IInv, StaleStatusIsDisabled
<1>6. ASSUME NEW ok \in BOOLEAN, WriteEntries(ok)
      PROVE  IInv' /\ (HasBrake => MechanicsKept(drv, drv', hist, hist'))
  BY <1>6, WriteKeepsIInv DEF MechanicsKept
<1>7. ASSUME UNCHANGED <<drv, esm, output, phase, hist>>, device' \in DeviceStates
      PROVE  IInv' /\ (HasBrake => MechanicsKept(drv, drv', hist, hist'))
  <2>1. SameMemory(drv, drv') /\ hist' = hist
    BY <1>0, <1>7 DEF SameMemory
  <2> QED BY <1>1, <1>7, <2>1 DEF IInv, StaleStatusIsDisabled
<1>8. CASE DeviceFollows
  <2>1. Commanded(device, output) \in DeviceStates
    BY DEF Commanded, DeviceStates, ControlWords, IInv, FaultBit, ReadyBit, SwitchedBit
  <2> QED BY <1>7, <1>8, <2>1 DEF DeviceFollows
<1>9. CASE FaultReactionEnds \/ DeviceFails \/ DeviceDrops
  BY <1>7, <1>9 DEF FaultReactionEnds, DeviceFails, DeviceDrops, DeviceStates
<1>10. CASE UNCHANGED vars
  BY <1>7, <1>10 DEF vars, IInv
<1> QED BY <1>2, <1>3, <1>4, <1>5, <1>6, <1>8, <1>9, <1>10 DEF Next, Cycle

-----------------------------------------------------------------------------
\* The drive's and the state machine's state stays in its types: no counter
\* runs past its limit.
THEOREM TypeCorrect == Spec => []TypeOK
<1>1. IInv => TypeOK
  BY DEF IInv, TypeOK, BrakeInvariant
<1> QED BY <1>1, InitIInv, NextIInv, PTL DEF Spec

\* After a time out the early return of readEntries() leaves no "enabled"
\* behind, whatever the device did before.
THEOREM StaleStatusCorrect == Spec => []StaleStatusIsDisabled
<1>1. IInv => StaleStatusIsDisabled
  BY DEF IInv
<1> QED BY <1>1, InitIInv, NextIInv, PTL DEF Spec

-----------------------------------------------------------------------------
(* The control word and the brake.                                         *)

StartStates ==
    {"startup reset", "switch on disabled", "ready to switch on", "switched on"}

\* How many reads a start-up has behind it.
Rank(s) ==
    CASE s = "startup reset"      -> 1
      [] s = "switch on disabled" -> 2
      [] s = "ready to switch on" -> 3
      [] s = "switched on"        -> 4
      [] OTHER                    -> 0

\* The state machine is on its way to "operation enabled", or about to start.
StartingUp(x) == x.state \in StartStates \/ (x.state = "idle" /\ ~x.ampOld)

\* The control words of the states, and the amplifier command behind them.
Words(x) ==
    /\ x.state = "startup reset" => x.controlWord = 0
    /\ x.state = "switch on disabled" => x.controlWord \in {6, 128}
    /\ x.state = "ready to switch on" => x.controlWord \in {6, 7}
    /\ x.state = "switched on" => x.controlWord \in {7, 15}
    /\ x.state = "operation enabled" => x.controlWord = 15
    /\ x.state = "idle" /\ x.ampOld => x.controlWord \in {0, 128}
    /\ x.state \in {"ready to switch on", "switched on", "operation enabled"} => x.ampOld

Opening == drv.brakeState = "opening"

\* A load held for more than n cycles has seen the brake applied long enough.
AppliedSince(n) == hist.torqueFor > n => hist.appliedFor > CloseAhead + 1

\* Between two cycles: a brake that opens has not counted further than the state
\* machine has come, a released one has "operation enabled" behind it, and a command
\* word on its way out belongs to a brake applied long enough.
PowersIdle ==
    /\ drv.enableAmpCmd = drv.enableAmpCmdOld
    /\ StartingUp(esm) =>
         ~drv.brakeOutputCmd /\ (Opening => drv.brakeCounter <= Rank(esm.state) + 1)
    /\ output = esm.controlWord
    /\ esm.state \in {"fault", "reset"} => hist.failure # "none"
    /\ esm.state \notin {"fault", "reset"} /\ output = 15 => hist.failure = "none"
    /\ esm.state \in {"switched on", "operation enabled"} /\ ~drv.enableAmpCmdOld
         => AppliedSince(0)
    /\ esm.state = "idle" /\ esm.controlWord = 15 => AppliedSince(1)

\* Between reading and writing: the same, one read further.
PowersRead ==
    /\ esm.state # "fault" =>
         drv.enableAmpCmd = drv.enableAmpCmdOld /\ esm.ampOld = drv.enableAmpCmd
    /\ StartingUp(esm) =>
         /\ ~drv.brakeOutputCmd
         /\ Opening /\ drv.localEnabled => drv.brakeCounter <= Rank(esm.state)
    /\ esm.state = "idle" /\ esm.controlWord = 15 => AppliedSince(0)
    /\ output = 15 /\ esm.controlWord # 15 =>
         \/ esm.state = "reset"
         \/ ~drv.enable /\ (esm.state = "fault" \/ hist.failure # "none")
         \/ StartingUp(esm) /\ AppliedSince(1)

Powers ==
    /\ Words(esm)
    /\ Opening \/ drv.brakeOutputCmd => drv.enableAmpCmdOld
    /\ esm.state = "idle" /\ esm.ampOld => hist.failure # "none"
    /\ phase = "idle" => PowersIdle
    /\ phase = "read" => PowersRead

\* g is the record e one read later, with the amplifier command amp and a device in s:
\* a start-up moves on in every read that sees the device enabled, it starts with an
\* edge of the amplifier command only, and the word 15 goes by way of "idle", a fault or
\* a reset.
Moved(e, amp, s, g) ==
    /\ Words(g)
    /\ g.ampOld = (amp /\ e.state # "fault")
    /\ StartingUp(g) /\ amp => StartingUp(e)
    /\ StartingUp(g) /\ amp /\ EnabledBit(s) => Rank(g.state) = Rank(e.state) + 1
    /\ g.state = "idle" /\ g.ampOld => (e.state = "idle" /\ e.ampOld) \/ e.state = "reset"
    /\ g.state = "idle" /\ g.controlWord = 15 =>
         ~amp /\ e.state \in {"switched on", "operation enabled"}
    /\ e.controlWord = 15 /\ g.controlWord # 15 =>
         \/ e.state = "idle" /\ StartingUp(g)
         \/ e.state = "fault"
         \/ e.state = "reset" /\ (g.state = "reset" \/ ~FaultBit(s))
    /\ e.state = "fault" => g.state = "fault"

LEMMA EsmStepMoves ==
    ASSUME NEW e \in EsmRecords, NEW amp \in BOOLEAN, NEW s \in DeviceStates, Words(e),
           NEW g, g = [EsmStep(e, amp, s) EXCEPT !.ampOld = amp /\ e.state # "fault"]
    PROVE  Moved(e, amp, s, g)
<1> DEFINE f == EsmStep(e, amp, s)
           a == amp /\ e.state # "fault"
<1>1. f \in EsmRecords
  BY EsmStepCounts
<1>2. a \in BOOLEAN /\ e.ampOld \in BOOLEAN /\ a = (amp /\ e.state # "fault")
  BY DEF EsmRecords
<1> HIDE DEF f, a
<1>3. g.state = f.state /\ g.controlWord = f.controlWord /\ g.ampOld = a
  BY <1>1, <1>2 DEF EsmRecords, f, a
<1>12. /\ Rank("startup reset") = Rank("idle") + 1
       /\ Rank("switch on disabled") = Rank("startup reset") + 1
       /\ Rank("ready to switch on") = Rank("switch on disabled") + 1
       /\ Rank("switched on") = Rank("ready to switch on") + 1
  <2>1. /\ Rank("idle") = 0 /\ Rank("startup reset") = 1 /\ Rank("switch on disabled") = 2
        /\ Rank("ready to switch on") = 3 /\ Rank("switched on") = 4
    BY Zenon DEF Rank
  <2>2. 1 = 0 + 1 /\ 2 = 1 + 1 /\ 3 = 2 + 1 /\ 4 = 3 + 1
    OBVIOUS
  <2> QED BY <2>1, <2>2, Zenon
<1>15. 0 # 15 /\ 6 # 15 /\ 7 # 15 /\ 128 # 15
  OBVIOUS
<1>13. g.ampOld = (amp /\ e.state # "fault")
  BY <1>2, <1>3
<1>14. g.ampOld <=> (amp /\ e.state # "fault")
  BY <1>13
<1> DEFINE Rest ==
      /\ Words(g)
      /\ StartingUp(g) /\ amp => StartingUp(e)
      /\ StartingUp(g) /\ amp /\ EnabledBit(s) => Rank(g.state) = Rank(e.state) + 1
      /\ g.state = "idle" /\ g.ampOld => (e.state = "idle" /\ e.ampOld) \/ e.state = "reset"
      /\ g.state = "idle" /\ g.controlWord = 15 =>
           ~amp /\ e.state \in {"switched on", "operation enabled"}
      /\ e.controlWord = 15 /\ g.controlWord # 15 =>
           \/ e.state = "idle" /\ StartingUp(g)
           \/ e.state = "fault"
           \/ e.state = "reset" /\ (g.state = "reset" \/ ~FaultBit(s))
      /\ e.state = "fault" => g.state = "fault"
<1> SUFFICES Rest
  BY <1>13 DEF Moved
<1> USE DEF Words, StartingUp, StartStates
<1>4. CASE e.state = "idle"
  <2>1. f.controlWord = 0 /\ f.state = IF amp /\ ~e.ampOld THEN "startup reset" ELSE "idle"
    BY <1>4 DEF f, EsmStep, IdleState, Goto, Put, EsmRecords
  <2> QED BY ZenonT(60), <1>14, <1>15, <1>3, <1>12, <1>4, <2>1
<1>5. CASE e.state = "startup reset"
  <2>1. f.controlWord = 128 /\ f.state = "switch on disabled"
    BY <1>5 DEF f, EsmStep, Goto, Put, EsmRecords
  <2>3. g.state = "switch on disabled" /\ g.controlWord \in {6, 128}
    BY Zenon, <1>3, <1>14, <1>5, <2>1
  <2>4. Words(g)
    BY Zenon, <2>3
  <2>5. e.controlWord # 15
    BY Zenon, <1>15, <1>5
  <2> HIDE DEF Words
  <2> QED BY ZenonT(60), <1>14, <1>15, <1>3, <1>12, <1>5, <2>1, <2>4, <2>5
<1>6. CASE e.state = "switch on disabled"
  <2>1. /\ f.controlWord = 6
        /\ f.state = IF ~amp THEN "idle" ELSE IF ReadyBit(s) THEN "ready to switch on"
                     ELSE "switch on disabled"
    <3>1. f = SwitchOnDisabledState(e, amp, s)
      BY <1>6 DEF f, EsmStep
    <3> QED BY <1>6, <3>1 DEF SwitchOnDisabledState, IdleUnlessAmp, Goto, Put, EsmRecords
  <2>2. EnabledBit(s) => ReadyBit(s)
    BY DEF EnabledBit, ReadyBit
  <2>3. /\ \/ g.state = "idle" /\ ~g.ampOld
           \/ g.state \in {"ready to switch on", "switch on disabled"} /\ g.ampOld
        /\ g.controlWord \in {6, 128} /\ g.controlWord \in {6, 7}
    BY Zenon, <1>3, <1>14, <1>6, <2>1
  <2>4. Words(g)
    BY Zenon, <2>3
  <2>5. e.controlWord # 15
    BY Zenon, <1>15, <1>6
  <2> HIDE DEF Words
  <2> QED BY ZenonT(60), <1>14, <1>15, <1>3, <1>12, <1>6, <2>1, <2>2, <2>4, <2>5
<1>7. CASE e.state = "ready to switch on"
  <2>1. /\ f.controlWord = 7
        /\ f.state = IF ~amp THEN "idle" ELSE IF SwitchedBit(s) THEN "switched on"
                     ELSE IF FaultBit(s) THEN "fault" ELSE "ready to switch on"
    <3>1. f = ReadyToSwitchOnState(e, amp, s)
      BY <1>7 DEF f, EsmStep
    <3> QED BY <1>7, <3>1
            DEF ReadyToSwitchOnState, IdleUnlessAmp, FaultOr, Goto, Put, EsmRecords
  <2>2. EnabledBit(s) => SwitchedBit(s)
    BY DEF EnabledBit, SwitchedBit
  <2>3. /\ \/ g.state = "idle" /\ ~g.ampOld
           \/ g.state \in {"switched on", "ready to switch on"} /\ g.ampOld
           \/ g.state = "fault"
        /\ g.controlWord \in {6, 7} /\ g.controlWord \in {7, 15}
    BY Zenon, <1>3, <1>14, <1>7, <2>1
  <2>4. Words(g)
    BY Zenon, <2>3
  <2>5. e.controlWord # 15
    BY Zenon, <1>15, <1>7
  <2> HIDE DEF Words
  <2> QED BY ZenonT(60), <1>14, <1>15, <1>3, <1>12, <1>7, <2>1, <2>2, <2>4, <2>5
<1>8. CASE e.state = "switched on"
  <2>1. /\ f.controlWord = 15
        /\ f.state = IF ~amp THEN "idle" ELSE IF EnabledBit(s) THEN "operation enabled"
                     ELSE IF FaultBit(s) THEN "fault" ELSE "switched on"
    <3>1. f = SwitchedOnState(e, amp, s)
      BY <1>8 DEF f, EsmStep
    <3> QED BY <1>8, <3>1
            DEF SwitchedOnState, IdleUnlessAmp, FaultOr, Goto, Put, EsmRecords
  <2> QED BY ZenonT(60), <1>14, <1>15, <1>3, <1>8, <2>1
<1>9. CASE e.state = "operation enabled"
  <2>1. /\ f.controlWord = e.controlWord
        /\ f.state = IF ~amp THEN "idle" ELSE IF FaultBit(s) THEN "fault"
                     ELSE "operation enabled"
    <3>1. f = OperationEnabledState(e, amp, s)
      BY <1>9 DEF f, EsmStep
    <3> QED BY <1>9, <3>1
            DEF OperationEnabledState, IdleUnlessAmp, FaultOr, Goto, Put, EsmRecords
  <2> QED BY ZenonT(60), <1>14, <1>15, <1>3, <1>9, <2>1
<1>10. CASE e.state = "fault"
  <2>1. f.controlWord = 0 /\ f.state = "fault"
    BY <1>10 DEF f, EsmStep, FaultState, Goto, Put, EsmRecords
  <2> QED BY ZenonT(60), <1>14, <1>15, <1>3, <1>10, <2>1
<1>11. CASE e.state = "reset"
  <2>1. f.controlWord = 128 /\ f.state = IF FaultBit(s) THEN "reset" ELSE "idle"
    BY <1>11 DEF f, EsmStep, ResetState, Goto, Put, EsmRecords
  <2>3. g.state \in {"idle", "reset"} /\ g.controlWord \in {0, 128}
    BY Zenon, <1>3, <1>14, <1>11, <2>1
  <2>4. Words(g)
    BY Zenon, <2>3
  <2> HIDE DEF Words
  <2> QED BY ZenonT(60), <1>14, <1>15, <1>3, <1>11, <2>1, <2>4
<1> QED BY <1>4, <1>5, <1>6, <1>7, <1>8, <1>9, <1>10, <1>11 DEF EsmRecords, EnableStates

\* readEntries() moves the state machine, and leaves the brake and the history alone.
LEMMA ReadPowers ==
    ASSUME IInv, IInv', Powers, NEW alarm \in BOOLEAN, ReadEntries(alarm),
           SameMemory(drv, drv')
    PROVE  Powers'
<1> DEFINE base == BaseReadEntries(drv, alarm)
<1>1. /\ drv \in DriveState /\ hist \in Histories /\ esm \in EsmRecords
      /\ BrakeInvariant(drv, hist) /\ device \in DeviceStates
  BY DEF IInv, BrakeInvariant
<1>2. phase = "idle" /\ phase' = "read" /\ UNCHANGED <<output, device, hist>>
  BY DEF ReadEntries
<1>3. base.enableAmpCmd = drv.enableAmpCmd /\ base.enableAmpCmd \in BOOLEAN /\ base \in DriveState
  BY <1>1 DEF BaseReadEntries, DriveState
<1>4. CASE esm.counter > Timeout
  <2>1. /\ esm'.state = "fault" /\ esm'.controlWord = esm.controlWord
    BY <1>1, <1>4 DEF ReadEntries, StateMachineTimedOut, EsmRecords
  <2>2. Words(esm') /\ ~StartingUp(esm')
    BY <2>1 DEF Words, StartingUp, StartStates
  <2> QED BY <1>2, <2>1, <2>2
          DEF Powers, PowersIdle, PowersRead, Opening, AppliedSince, SameMemory
<1>5. CASE ~(esm.counter > Timeout)
  <2> DEFINE e == [esm EXCEPT !.counter = esm.counter + 1]
             amp == drv.enableAmpCmd
             step == EsmStep(e, amp, device)
             a == amp /\ e.state # "fault"
  <2>1. /\ e \in EsmRecords
        /\ e.state = esm.state /\ e.ampOld = esm.ampOld /\ e.controlWord = esm.controlWord
    <3>1. esm.counter + 1 \in EsmCounters
      BY <1>1, <1>5, DriveAssumption DEF DriveAssumption, EsmRecords, EsmCounters
    <3> QED BY <1>1, <3>1 DEF EsmRecords
  <2>2. drv' = [CommandsAfter(base, esm, device) EXCEPT !.localEnabled = EnabledBit(device)]
        /\ esm' = [step EXCEPT !.ampOld = CommandsAfter(base, esm, device).enableAmpCmd]
    BY <1>3, <1>5 DEF ReadEntries, FollowDevice
  <2>3. /\ CommandsAfter(base, esm, device).enableAmpCmd = a
        /\ drv'.enableAmpCmd = a
        /\ drv'.enable => /\ esm.state # "fault"
                          /\ esm.state = "reset" => FaultBit(device)
        /\ drv'.localEnabled = EnabledBit(device)
    <3> DEFINE on == base.enable /\ esm.state # "fault" /\ (esm.state = "reset" => FaultBit(device))
               err == base.error \/ esm.state = "fault"
               cut == base.enableAmpCmd /\ esm.state # "fault"
    <3>1. on \in BOOLEAN /\ err \in BOOLEAN /\ cut \in BOOLEAN /\ EnabledBit(device) \in BOOLEAN
      BY DEF EnabledBit
    <3>2. CommandsAfter(base, esm, device) =
            [base EXCEPT !.enable = on, !.enableAmpCmd = cut, !.error = err]
      BY Zenon DEF CommandsAfter
    <3>3. a = cut
      BY <1>3, <2>1
    <3> HIDE DEF on, err, cut, base, a
    <3>4. /\ CommandsAfter(base, esm, device).enableAmpCmd = cut
          /\ drv'.enableAmpCmd = cut /\ drv'.enable = on
          /\ drv'.localEnabled = EnabledBit(device)
      BY <1>3, <2>2, <3>1, <3>2 DEF DriveState
    <3> QED BY <3>3, <3>4 DEF on
  <2> HIDE DEF e, base
  <2>4. esm' = [step EXCEPT !.ampOld = a] /\ amp \in BOOLEAN
    BY <1>3, <2>2, <2>3
  <2>5. Words(e)
    BY <2>1 DEF Words, Powers
  <2>6. Moved(e, amp, device, esm')
    <3>1. e \in EsmRecords /\ amp \in BOOLEAN /\ device \in DeviceStates /\ Words(e)
      BY <1>1, <2>1, <2>4, <2>5
    <3>2. esm' = [EsmStep(e, amp, device) EXCEPT !.ampOld = amp /\ e.state # "fault"]
      BY <2>4
    <3> HIDE DEF amp
    <3> QED BY <3>1, <3>2, EsmStepMoves
  <2> HIDE DEF step, a
  <2> USE DEF Moved
  <2>7. StartingUp(e) = StartingUp(esm)
    BY <2>1 DEF StartingUp
  <2>8. PowersIdle
    BY <1>2 DEF Powers
  <2>9. ~amp => ~Opening /\ ~drv.brakeOutputCmd
    BY <2>8 DEF Powers, PowersIdle
  <2>10. /\ drv'.brakeOutputCmd = drv.brakeOutputCmd /\ Opening' = Opening
         /\ drv'.brakeCounter = drv.brakeCounter
         /\ drv'.enableAmpCmdOld = drv.enableAmpCmdOld
    BY DEF SameMemory, Opening
  <2>11. ASSUME esm'.state # "fault"
         PROVE  drv'.enableAmpCmd = drv'.enableAmpCmdOld /\ esm'.ampOld = drv'.enableAmpCmd
    <3>1. a = amp /\ esm'.ampOld = a
      BY <2>1, <2>4, <2>6, <2>11 DEF a
    <3>2. amp = drv.enableAmpCmdOld
      BY Zenon, <2>8 DEF PowersIdle
    <3> QED BY Zenon, <2>3, <2>10, <3>1, <3>2
  <2>12. ASSUME StartingUp(esm')
         PROVE  /\ ~drv'.brakeOutputCmd
                /\ Opening' /\ drv'.localEnabled => drv'.brakeCounter <= Rank(esm'.state)
    BY <2>1, <2>3, <2>6, <2>7, <2>8, <2>9, <2>10, <2>12 DEF PowersIdle
  <2>13. esm'.state = "idle" /\ esm'.controlWord = 15 => AppliedSince(0)'
    BY <1>2, <2>1, <2>6, <2>8 DEF PowersIdle, AppliedSince
  <2>14. ASSUME output = 15, esm'.controlWord # 15
         PROVE  \/ esm'.state = "reset"
                \/ ~drv'.enable /\ (esm'.state = "fault" \/ hist.failure # "none")
                \/ StartingUp(esm') /\ AppliedSince(1)'
    <3>1. esm.controlWord = 15
      BY <2>8, <2>14 DEF PowersIdle
    <3>2. CASE esm.state = "idle"
      BY <1>2, <2>1, <2>6, <2>8, <2>14, <3>1, <3>2 DEF PowersIdle, AppliedSince
    <3>3. CASE esm.state = "fault"
      BY <2>1, <2>3, <2>6, <3>3
    <3>4. CASE esm.state = "reset" /\ (esm'.state = "reset" \/ ~FaultBit(device))
      BY <2>3, <2>8, <3>4 DEF PowersIdle
    <3> QED BY <2>1, <2>6, <2>14, <3>1, <3>2, <3>3, <3>4
  <2>15. PowersRead'
    BY <1>2, <2>11, <2>12, <2>13, <2>14 DEF PowersRead
  <2>16. esm'.state = "idle" /\ esm'.ampOld => hist'.failure # "none"
    BY <1>2, <2>1, <2>6, <2>8 DEF Powers, PowersIdle
  <2> QED BY <1>2, <2>6, <2>10, <2>15, <2>16 DEF Powers
<1> QED BY <1>4, <1>5

\* writeEntries() keeps the invariant and is a cycle of BrakeTiming, when the open delay
\* is no shorter than the start-up of the state machine.
LEMMA WritePowers ==
    ASSUME HasBrake, OpenDelay >= 4, IInv, IInv', Held(drv, hist), Held(drv, hist)', Powers,
           NEW ok \in BOOLEAN, WriteEntries(ok), CycleKept(drv, drv', hist, hist')
    PROVE  Powers' /\ BT!Cycle
<1> DEFINE e == BaseWriteEntries(drv, ok)
<1>1. /\ drv \in DriveState /\ hist \in Histories /\ BrakeInvariant(drv, hist)
      /\ drv' \in DriveState /\ hist' \in Histories /\ BrakeInvariant(drv', hist')
      /\ esm \in EsmRecords
  BY DEF IInv, BrakeInvariant
<1>2. /\ drv' = e /\ phase = "read" /\ phase' = "idle" /\ esm' = esm
      /\ output' = esm.controlWord
      /\ hist'.failure = IF esm.state = "fault" THEN "error"
                         ELSE IF esm.state = "reset" THEN "reset"
                         ELSE IF output' = 15 THEN "none" ELSE hist.failure
      /\ hist'.withdrawn = (/\ drv'.brakeState \in {"opening", "open"}
                            /\ hist.withdrawn \/ Withdraws(drv, drv'))
  BY DEF WriteEntries, Observe, Failing
<1>3. /\ Opens(drv, e)
      /\ e.enableAmpCmd = e.enableAmpCmdOld
      /\ e.brakeOutputCmd => e.enableAmpCmdOld
  BY <1>1, WriteOpens
<1>4. e.enableCmdOld = e.enable
  BY DEF BaseWriteEntries, RememberCommands
<1> HIDE DEF e
<1>5. PowersRead /\ Words(esm)
  BY <1>2 DEF Powers
<1>6. /\ hist'.torqueFor = Count(hist.torqueFor, drv'.localEnabled, OpenDelay + 2)
      /\ hist'.appliedFor = Count(hist.appliedFor, ~drv'.brakeOutputCmd, CloseAhead + 2)
      /\ drv'.localEnabledOld = drv'.localEnabled
  BY DEF CycleKept, KeepsPromise, TorqueAfter, AppliedAfter, TorqueBound, BrakeBound
<1>7. /\ hist.torqueFor \in Nat /\ hist.appliedFor \in Nat /\ CloseAhead \in Nat
      /\ OpenDelay \in Nat /\ drv.brakeCounter \in Nat /\ drv'.brakeCounter \in Nat
  BY <1>1, HistoryTypes, CounterTypes, DriveAssumption DEF DriveAssumption
<1>8. Rank(esm.state) \in 0 .. 4
  BY DEF Rank
\* A start-up releases nothing, and its brake counts no further than it has come.
<1>9. ASSUME StartingUp(esm)
      PROVE  /\ ~drv'.brakeOutputCmd
             /\ drv'.brakeState = "opening" => drv'.brakeCounter <= Rank(esm.state) + 1
  BY <1>2, <1>3, <1>5, <1>7, <1>8, <1>9 DEF Opens, PowersRead, Opening
\* What was true of the brake one cycle ago is still true while it stays applied.
<1>10. ASSUME NEW n \in Nat, n < 2, AppliedSince(n), hist'.torqueFor > n + 1, ~drv'.brakeOutputCmd
       PROVE  hist'.appliedFor > CloseAhead + 1
  BY <1>6, <1>7, <1>10 DEF AppliedSince, Count
<1>11. /\ esm.state \in {"fault", "reset"} => hist'.failure # "none"
       /\ esm.state = "idle" /\ esm.ampOld => hist'.failure # "none"
       /\ esm.state \notin {"fault", "reset"} /\ output' = 15 => hist'.failure = "none"
  <2>1. esm.state \in {"fault", "reset"} => hist'.failure # "none"
    BY <1>2
  <2>2. ASSUME esm.state = "idle", esm.ampOld
        PROVE  hist'.failure # "none"
    <3>1. output' # 15
      BY <1>2, <1>5, <2>2 DEF Words
    <3>2. hist.failure # "none"
      BY <2>2 DEF Powers
    <3>3. hist'.failure = hist.failure
      BY <1>2, <2>2, <3>1
    <3> QED BY <3>2, <3>3
  <2>3. esm.state \notin {"fault", "reset"} /\ output' = 15 => hist'.failure = "none"
    BY <1>2
  <2> QED BY <2>1, <2>2, <2>3
<1>12. Powers'
  <2>1. ASSUME esm.state \in {"switched on", "operation enabled"}, ~drv'.enableAmpCmdOld,
               hist'.torqueFor > 0
        PROVE  hist'.appliedFor > CloseAhead + 1
    <3>1. drv.enableAmpCmdOld
      BY <1>5, <2>1 DEF PowersRead, Words
    <3>2. drv'.localEnabledOld
      BY <1>1, <2>1 DEF BrakeInvariant, BrakeHistory
    <3> QED BY <2>1, <3>1, <3>2 DEF CycleKept, KeepsPromise
  <2>2. ASSUME esm.state = "idle", esm.controlWord = 15, hist'.torqueFor > 1
        PROVE  hist'.appliedFor > CloseAhead + 1
    <3>1. StartingUp(esm) /\ AppliedSince(0)
      BY <1>5, <2>2 DEF PowersRead, Words, StartingUp
    <3>2. 0 \in Nat /\ 0 < 2 /\ hist'.torqueFor > 0 + 1
      BY <2>2
    <3> QED BY <1>9, <1>10, <3>1, <3>2
  <2>3. PowersIdle'
    BY <1>2, <1>3, <1>9, <1>11, <2>1, <2>2 DEF PowersIdle, Opening, AppliedSince
  <2> QED BY <1>2, <1>3, <1>5, <1>11, <2>3 DEF Powers, Opening, Opens
<1>13. ASSUME drv'.brakeOutputCmd
       PROVE  output' = 15 \/ hist'.failure # "none"
  BY <1>1, <1>2, <1>5, <1>9, <1>11, <1>13
     DEF Words, StartingUp, StartStates, EsmRecords, EnableStates
<1>14. ASSUME output = 15, output' # 15, hist'.torqueFor > 2, hist'.failure = "none"
       PROVE  hist'.appliedFor > CloseAhead + 1
  <2>1. StartingUp(esm) /\ AppliedSince(1)
    BY <1>2, <1>5, <1>11, <1>14 DEF PowersRead
  <2>2. 1 \in Nat /\ 1 < 2 /\ hist'.torqueFor > 1 + 1
    BY <1>14
  <2> QED BY <1>9, <1>10, <2>1, <2>2
<1>15. ASSUME output = 15, output' # 15, drv'.brakeOutputCmd
       PROVE  hist'.withdrawn \/ hist'.failure = "reset"
  <2>1. drv'.brakeState \in {"open", "opening"}
    BY <1>15 DEF Held, ReleasedOpen
  <2>2. CASE esm.state = "reset"
    BY <1>2, <2>2
  <2>3. CASE ~drv.enable
    <3>1. ~drv'.enableCmdOld
      BY <1>2, <1>3, <1>4, <2>3 DEF Opens
    <3> QED BY <2>1, <3>1 DEF Held
  <2> QED BY <1>2, <1>5, <1>9, <1>15, <2>2, <2>3 DEF PowersRead
<1>16. BT!Cycle
  <2>1. /\ drv'.localEnabledOld \in BOOLEAN /\ (output = 15)' \in BOOLEAN
        /\ drv'.brakeOutputCmd \in BOOLEAN
    BY <1>1 DEF DriveState
  <2>2. hist'.failure \in BT!Failures /\ hist'.withdrawn \in BOOLEAN
    BY <1>1 DEF Histories, Failures, BT!Failures
  <2>3. /\ hist'.torqueFor = BT!Count(hist.torqueFor, drv'.localEnabledOld, OpenDelay + 2)
        /\ hist'.appliedFor = BT!Count(hist.appliedFor, ~drv'.brakeOutputCmd, CloseAhead + 2)
    BY <1>6 DEF Count, BT!Count
  <2>4. drv'.brakeOutputCmd /\ ~drv.brakeOutputCmd => hist'.torqueFor > OpenDelay + 1
    BY DEF CycleKept, KeepsPromise
  <2> QED BY <1>13, <1>14, <1>15, <2>1, <2>2, <2>3, <2>4 DEF BT!Cycle
<1> QED BY <1>12, <1>16

\* Commands, and the device, between two cycles.
LEMMA BetweenPowers ==
    ASSUME Powers, SameMemory(drv, drv'), drv'.enableAmpCmd = drv.enableAmpCmd,
           drv'.localEnabled = drv.localEnabled, hist' = hist, output' = output,
           phase' = phase,
           \/ esm' = esm
           \/ /\ esm.state = "fault" /\ esm'.state = "reset" /\ phase = "idle"
              /\ esm'.controlWord = esm.controlWord,
           drv'.enable => drv.enable \/ phase = "idle"
    PROVE  Powers'
<1> USE DEF Powers, PowersIdle, PowersRead, SameMemory, Opening, AppliedSince
<1>1. CASE esm' = esm
  BY <1>1
<1>2. CASE /\ esm.state = "fault" /\ esm'.state = "reset" /\ phase = "idle"
           /\ esm'.controlWord = esm.controlWord
  BY <1>2 DEF Words, StartingUp, StartStates
<1> QED BY <1>1, <1>2

\* Every step keeps Powers and Held, and is a cycle of BrakeTiming or none at all.
LEMMA NextPowers ==
    ASSUME HasBrake, OpenDelay >= 4, IInv, IInv', Held(drv, hist), Powers, [Next]_vars
    PROVE  Held(drv, hist)' /\ Powers' /\ [BT!Cycle]_(BT!vars)
<1>0. drv \in DriveState /\ hist \in Histories /\ BrakeInvariant(drv, hist) /\ esm \in EsmRecords
      /\ phase \in {"idle", "read"}
  BY DEF IInv, BrakeInvariant
<1>1. ASSUME SameMemory(drv, drv'), hist' = hist, output' = output
      PROVE  Held(drv, hist)' /\ [BT!Cycle]_(BT!vars)
  <2>1. Held(drv, hist)'
    BY <1>1, MemoryHolds
  <2>2. UNCHANGED BT!vars
    BY <1>1 DEF SameMemory, BT!vars
  <2> QED BY <2>1, <2>2
<1>2. ASSUME NEW on \in BOOLEAN, SetEnable(on)
      PROVE  Held(drv, hist)' /\ Powers' /\ [BT!Cycle]_(BT!vars)
  <2>1. SameMemory(drv, drv') /\ drv'.localEnabled = drv.localEnabled /\ hist' = hist
    BY <1>0, <1>2, CommandsKeepMemory, CommandsKeepTorque DEF SetEnable
  <2>2. drv'.enableAmpCmd = drv.enableAmpCmd
    BY <1>0, <1>2 DEF SetEnable, DriveState
  <2>3. UNCHANGED <<esm, output, phase>> /\ phase = "idle"
    BY <1>2 DEF SetEnable
  <2> QED BY <1>1, <2>1, <2>2, <2>3, BetweenPowers
<1>3. CASE ErrorReset
  <2>1. SameMemory(drv, drv') /\ drv'.localEnabled = drv.localEnabled /\ hist' = hist
    BY <1>0, <1>3, CommandsKeepMemory, CommandsKeepTorque DEF ErrorReset
  <2>2. drv'.enableAmpCmd = drv.enableAmpCmd /\ drv'.enable = drv.enable
    BY <1>0, <1>3 DEF ErrorReset, BaseErrorReset, DriveState
  <2>3. UNCHANGED <<output, phase>> /\ phase = "idle"
    BY <1>3 DEF ErrorReset
  <2>4. \/ esm' = esm
        \/ /\ esm.state = "fault" /\ esm'.state = "reset"
           /\ esm'.controlWord = esm.controlWord
    BY <1>0, <1>3 DEF ErrorReset, EsmRecords
  <2> QED BY <1>1, <2>1, <2>2, <2>3, <2>4, BetweenPowers
<1>4. ASSUME NEW alarm \in BOOLEAN, ReadEntries(alarm)
      PROVE  Held(drv, hist)' /\ Powers' /\ [BT!Cycle]_(BT!vars)
  <2>1. SameMemory(drv, drv') /\ hist' = hist /\ output' = output
    BY <1>4, ReadKeepsIInv DEF ReadEntries
  <2> QED BY <1>1, <1>4, <2>1, ReadPowers
<1>5. CASE MasterNotOK
  <2>1. SameMemory(drv, drv') /\ drv'.localEnabled = drv.localEnabled /\ hist' = hist
    BY <1>0, <1>5, CommandsKeepMemory, CommandsKeepTorque DEF MasterNotOK
  <2>2. drv'.enableAmpCmd = drv.enableAmpCmd /\ ~drv'.enable
    BY <1>0, <1>5 DEF MasterNotOK, DriveState
  <2>3. UNCHANGED <<esm, output, phase>>
    BY <1>5 DEF MasterNotOK
  <2> QED BY <1>1, <2>1, <2>2, <2>3, BetweenPowers
<1>6. ASSUME NEW ok \in BOOLEAN, WriteEntries(ok)
      PROVE  Held(drv, hist)' /\ Powers' /\ [BT!Cycle]_(BT!vars)
  <2> DEFINE failing == Failing(esm.state)
             on == output' = 15
  <2>1. drv' = BaseWriteEntries(drv, ok) /\ hist' = Observe(hist, drv, drv', ok, failing, on)
    BY <1>6 DEF WriteEntries
  <2>2. failing \in Failures /\ on \in BOOLEAN
    BY FailingType
  <2> HIDE DEF failing, on
  <2>3. Held(drv, hist)'
    BY <1>0, <2>1, <2>2, WriteHolds
  <2> QED BY <1>6, <2>3, WriteKeepsIInv, WritePowers
<1>7. CASE \/ DeviceFollows \/ FaultReactionEnds \/ DeviceFails \/ DeviceDrops
           \/ UNCHANGED vars
  <2>1. UNCHANGED <<drv, esm, output, phase, hist>>
    BY <1>7 DEF DeviceFollows, FaultReactionEnds, DeviceFails, DeviceDrops, vars
  <2>2. SameMemory(drv, drv')
    BY <1>0, <2>1 DEF SameMemory
  <2> QED BY <1>1, <2>1, <2>2, BetweenPowers
<1> QED BY <1>2, <1>3, <1>4, <1>5, <1>6, <1>7 DEF Next, Cycle

\* The drive implements BrakeTiming with the control word the device is given, through
\* every fault, time out and lost command of the device, whatever the delays are, when
\* the open delay is at least the four cycles that a start-up of the state machine takes
\* with a device that still says it is enabled.
THEOREM BrakeTimingCorrect ==
    ASSUME HasBrake, OpenDelay >= 4
    PROVE  Spec => BrakeTimingKept
<1>1. Init => BT!Init /\ Held(drv, hist) /\ Powers
  <2> SUFFICES ASSUME Init PROVE BT!Init /\ Held(drv, hist) /\ Powers
    OBVIOUS
  <2>1. /\ InitDrive.localEnabledOld = FALSE /\ InitDrive.enableAmpCmdOld = FALSE
        /\ InitDrive.enableAmpCmd = FALSE
        /\ InitDrive.brakeOutputCmd = FALSE /\ InitDrive.brakeState = "closed"
    BY DEF InitDrive
  <2>2. /\ hist.torqueFor = 0 /\ hist.appliedFor = 0 /\ hist.failure = "reset"
        /\ hist.withdrawn = FALSE
    BY DEF Init, InitHist
  <2>6. (output = 15) = FALSE
    <3>1. output = 0
      BY DEF Init
    <3> QED BY <3>1
  <2>3. BT!Init
    BY <2>1, <2>2, <2>6 DEF Init, BT!Init, BT!Failures
  <2>4. Held(drv, hist)
    BY <2>1 DEF Init, Held, ReleasedOpen
  <2>5. Powers
    BY <2>1, <2>2
    DEF Init, Powers, PowersIdle, Words, StartingUp, StartStates, Opening, AppliedSince
  <2> QED BY <2>3, <2>4, <2>5
<1>2. IInv /\ IInv' /\ Held(drv, hist) /\ Powers /\ [Next]_vars
        => Held(drv, hist)' /\ Powers' /\ [BT!Cycle]_(BT!vars)
  BY NextPowers
<1> QED BY <1>1, <1>2, InitIInv, NextIInv, PTL DEF Spec, BrakeTimingKept, BT!Spec
=============================================================================
