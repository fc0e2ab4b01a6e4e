-------------------------- MODULE DriveStepperProofs -------------------------
(***************************************************************************)
(* Theorems about DriveStepper: the types, that the drive implements the   *)
(* brake's timing whatever its delays, its time out and its load do, and   *)
(* that it is enabled only after the open delay.  They rest on three       *)
(* inductive invariants for the drive's state and history: BrakeInvariant  *)
(* and Held of DriveBaseProofs, which say in every brake state how long it *)
(* has counted and how long the amplifier has held the load, and Powers,   *)
(* which relates the control word to the amplifier command it lags behind. *)
(***************************************************************************)
EXTENDS DriveStepper, DriveBaseProofs

\* The inductive invariant: the types, and what the counter of the brake state
\* says about the cycles that have passed.
IInv ==
    /\ BrakeInvariant(drv, hist)
    /\ controlWord \in BOOLEAN
    /\ power \in BOOLEAN
    /\ phase \in {"idle", "read"}

-----------------------------------------------------------------------------
\* Switching the amplifier off on an error (DriveStepper's writeEntries) leaves
\* the base class's memory alone.
LEMMA OutputKeepsMemory ==
    ASSUME NEW d \in DriveState
    PROVE  StepperOutput(d) \in DriveState /\ SameMemory(d, StepperOutput(d))
BY DEF StepperOutput, SameMemory, DriveState

\* Commands and readEntries() leave the base class's memory alone.
LEMMA CommandsKeepMemory ==
    ASSUME NEW d \in DriveState, NEW on \in BOOLEAN, NEW alarm \in BOOLEAN,
           NEW torque \in BOOLEAN
    PROVE  /\ SameMemory(d, [d EXCEPT !.enable = on])
           /\ SameMemory(d, BaseErrorReset(d))
           /\ SameMemory(d, [BaseReadEntries(d, alarm) EXCEPT !.localEnabled = torque])
BY DEF SameMemory, DriveState, BaseErrorReset, BaseReadEntries

-----------------------------------------------------------------------------
\* The invariant holds initially.
LEMMA InitIInv == Init => IInv
BY InitKeepsBrake DEF Init, IInv

\* writeEntries() keeps the invariant, and the promise for the amplifier command.
LEMMA WriteMechanics ==
    ASSUME IInv, NEW ok \in BOOLEAN, WriteEntries(ok)
    PROVE  IInv' /\ (HasBrake => CycleKept(drv, drv', hist, hist'))
<1> DEFINE s == StepperOutput(drv)
           failing == IF drv.error THEN "error" ELSE "none"
           on == controlWord'
           e == BaseWriteEntries(s, ok)
           k == Observe(hist, drv, e, ok, failing, on)
<1>0. drv \in DriveState /\ hist \in Histories /\ BrakeInvariant(drv, hist)
  BY DEF IInv, BrakeInvariant
<1>1. s \in DriveState /\ SameMemory(drv, s)
  BY <1>0, OutputKeepsMemory
<1>2. BrakeInvariant(s, hist)
  BY <1>0, <1>1, MemoryKeepsBrake
<1>3. drv' = e /\ hist' = k
  BY DEF WriteEntries
<1>4. failing \in Failures /\ on \in BOOLEAN
  BY DEF WriteEntries, Failures
<1> HIDE DEF s, failing, on
<1>5. BrakeInvariant(e, k) /\ (HasBrake => KeepsPromise(s, e, k))
  BY <1>0, <1>1, <1>2, <1>4, WriteKeepsBrake
<1>6. k.torqueFor = TorqueAfter(hist, e) /\ k.appliedFor = AppliedAfter(hist, e)
  BY ObserveCounts
<1> HIDE DEF e, k
<1>7. HasBrake => CycleKept(drv, drv', hist, hist')
  BY <1>1, <1>3, <1>5, <1>6, PromiseFromMemory DEF CycleKept
<1>8. controlWord' \in BOOLEAN /\ power' \in BOOLEAN /\ phase' \in {"idle", "read"}
  BY DEF WriteEntries, IInv
<1> QED BY <1>3, <1>5, <1>7, <1>8 DEF IInv

\* Every step keeps the invariant, and keeps the mechanics' promise when there
\* is a brake.
LEMMA NextIInv ==
    IInv /\ [Next]_vars => IInv' /\ (HasBrake => MechanicsKept(drv, drv', hist, hist'))
<1> SUFFICES ASSUME IInv, [Next]_vars
             PROVE  IInv' /\ (HasBrake => MechanicsKept(drv, drv', hist, hist'))
  OBVIOUS
<1> USE DEF IInv
<1>0. drv \in DriveState /\ hist \in Histories
  BY DEF BrakeInvariant
<1>1. ASSUME SameMemory(drv, drv'), hist' = hist
      PROVE  BrakeInvariant(drv, hist)' /\ MechanicsKept(drv, drv', hist, hist')
  BY <1>1, MemoryKeepsBrake DEF MechanicsKept
<1>2. ASSUME NEW on \in BOOLEAN, SetEnable(on)
      PROVE  IInv' /\ (HasBrake => MechanicsKept(drv, drv', hist, hist'))
  BY <1>0, <1>1, <1>2, CommandsKeepMemory DEF SetEnable
<1>3. CASE ErrorReset
  BY <1>0, <1>1, <1>3, CommandsKeepMemory DEF ErrorReset
<1>4. ASSUME NEW alarm \in BOOLEAN, ReadEntries(alarm)
      PROVE  IInv' /\ (HasBrake => MechanicsKept(drv, drv', hist, hist'))
  BY <1>0, <1>1, <1>4, CommandsKeepMemory DEF ReadEntries
<1>5. CASE MasterNotOK
  BY <1>0, <1>1, <1>5, CommandsKeepMemory DEF MasterNotOK
<1>6. ASSUME NEW ok \in BOOLEAN, WriteEntries(ok)
      PROVE  IInv' /\ (HasBrake => MechanicsKept(drv, drv', hist, hist'))
  BY <1>6, WriteMechanics DEF MechanicsKept
<1>7. CASE AmplifierFollows \/ AmplifierDrops
  <2>1. SameMemory(drv, drv') /\ hist' = hist
    BY <1>0, <1>7 DEF SameMemory, AmplifierFollows, AmplifierDrops
  <2> QED BY <1>1, <1>7, <2>1 DEF AmplifierFollows, AmplifierDrops
<1>8. CASE UNCHANGED vars
  <2>1. SameMemory(drv, drv') /\ hist' = hist
    BY <1>0, <1>8 DEF SameMemory, vars
  <2> QED BY <1>1, <1>8, <2>1 DEF vars
<1> QED BY <1>2, <1>3, <1>4, <1>5, <1>6, <1>7, <1>8 DEF Next, Cycle

-----------------------------------------------------------------------------
\* The drive's state stays in its types, the counter of the brake and of the
\* time out included: neither runs past its delay.
THEOREM TypeCorrect == Spec => []TypeOK
<1>1. IInv => TypeOK
  BY DEF IInv, TypeOK, BrakeInvariant
<1> QED BY <1>1, InitIInv, NextIInv, PTL DEF Spec

-----------------------------------------------------------------------------
(* The axis is told "enabled" after the open delay.                        *)

\* Between two writes the drive remembers, and tells the axis, the same.
LEMMA BetweenWrites ==
    ASSUME NEW d \in DriveState, NEW on \in BOOLEAN, NEW alarm \in BOOLEAN,
           NEW torque \in BOOLEAN,
           NEW e \in {[d EXCEPT !.enable = on], BaseErrorReset(d), StepperOutput(d), d,
                      [BaseReadEntries(d, alarm) EXCEPT !.localEnabled = torque]}
    PROVE  /\ SameMemory(d, e)
           /\ e.enabled = d.enabled
BY DEF SameMemory, DriveState, BaseErrorReset, BaseReadEntries, StepperOutput

EnabledIsHeld(d, e, h, k) == ~d.enabled /\ e.enabled => k.torqueFor > OpenDelay + 1 \/ h.withdrawn

LEMMA NextHolds ==
    ASSUME HasBrake, IInv, Held(drv, hist), [Next]_vars
    PROVE  Held(drv, hist)' /\ EnabledIsHeld(drv, drv', hist, hist')
<1>1. drv \in DriveState /\ hist \in Histories /\ BrakeInvariant(drv, hist)
      /\ power \in BOOLEAN
  BY DEF IInv, BrakeInvariant
<1>2. ASSUME SameMemory(drv, drv'), drv'.enabled = drv.enabled, hist' = hist
      PROVE  Held(drv, hist)' /\ EnabledIsHeld(drv, drv', hist, hist')
  BY <1>2, MemoryHolds DEF EnabledIsHeld
<1>3. ASSUME NEW on \in BOOLEAN, SetEnable(on)
      PROVE  Held(drv, hist)' /\ EnabledIsHeld(drv, drv', hist, hist')
  BY <1>1, <1>2, <1>3, BetweenWrites DEF SetEnable
<1>4. CASE ErrorReset
  BY <1>1, <1>2, <1>4, BetweenWrites DEF ErrorReset
<1>5. ASSUME NEW alarm \in BOOLEAN, ReadEntries(alarm)
      PROVE  Held(drv, hist)' /\ EnabledIsHeld(drv, drv', hist, hist')
  BY <1>1, <1>2, <1>5, BetweenWrites DEF ReadEntries
<1>6. CASE MasterNotOK
  BY <1>1, <1>2, <1>6, BetweenWrites DEF MasterNotOK
<1>7. CASE AmplifierFollows \/ AmplifierDrops \/ UNCHANGED vars
  BY <1>1, <1>2, <1>7, BetweenWrites DEF AmplifierFollows, AmplifierDrops, vars
<1>8. ASSUME NEW ok \in BOOLEAN, WriteEntries(ok)
      PROVE  Held(drv, hist)' /\ EnabledIsHeld(drv, drv', hist, hist')
  <2> DEFINE s == StepperOutput(drv)
             failing == IF drv.error THEN "error" ELSE "none"
             on == controlWord'
  <2>0. failing \in Failures /\ on \in BOOLEAN
    BY <1>8 DEF WriteEntries, Failures
  <2>1. s \in DriveState /\ SameMemory(drv, s)
    BY <1>1, BetweenWrites DEF SameMemory
  <2>2. s.enable = drv.enable /\ s.localEnabledOld = drv.localEnabledOld
    BY <1>1 DEF StepperOutput, DriveState
  <2>3. drv' = BaseWriteEntries(s, ok) /\ hist' = Observe(hist, drv, drv', ok, failing, on)
    BY <1>8 DEF WriteEntries
  <2> HIDE DEF s, failing, on
  <2>4. BrakeInvariant(s, hist) /\ Held(s, hist)
    BY <1>1, <2>1, MemoryKeepsBrake, MemoryHolds
  <2>5. /\ Held(drv', hist')
        /\ drv'.enabled /\ ~hist.withdrawn => hist'.torqueFor > OpenDelay + 1
    BY <1>1, <2>0, <2>1, <2>2, <2>3, <2>4, WriteHolds
  <2> QED BY <2>5 DEF EnabledIsHeld
<1> QED BY <1>3, <1>4, <1>5, <1>6, <1>7, <1>8 DEF Next, Cycle

\* With a brake the axis is told "enabled" only when the amplifier has held the load for
\* the whole open delay, for every delay and every order of events, unless an interlock
\* or the time out took the command away behind the brake's back.
THEOREM EnabledAfterOpenDelayCorrect ==
    ASSUME HasBrake
    PROVE  Spec => EnabledAfterOpenDelay
<1>1. Init => Held(drv, hist)
  BY DEF Init, InitDrive, InitHist, Held, ReleasedOpen
<1>2. IInv /\ Held(drv, hist) /\ [Next]_vars
        => Held(drv, hist)' /\ [~drv.enabled /\ drv'.enabled =>
              hist'.torqueFor > OpenDelay + 1 \/ hist.withdrawn]_vars
  BY NextHolds DEF EnabledIsHeld
<1> QED BY <1>1, <1>2, InitIInv, NextIInv, PTL DEF Spec, EnabledAfterOpenDelay

-----------------------------------------------------------------------------
(* The control word and the brake.                                         *)

\* The control word says what the amplifier command said one write earlier, unless an
\* error has cut it: a command that is gone has seen the brake applied long enough,
\* and an error that can still cut the power cannot meet a released brake unless the
\* enable command is gone.
Powers ==
    /\ drv.enableAmpCmd = drv.enableAmpCmdOld
    /\ drv.brakeState = "opening" \/ drv.brakeOutputCmd => drv.enableAmpCmdOld
    /\ controlWord /\ ~drv.enableAmpCmdOld /\ hist.torqueFor > 0
         => hist.appliedFor > CloseAhead + 1
    /\ drv.error /\ controlWord =>
         \/ hist.withdrawn
         \/ drv.brakeState \in {"closed", "closing"}
         \/ phase = "read" /\ ~drv.enable

\* Between two writes nothing sets the amplifier command, and an error comes from the
\* hardware, which takes the enable command away with it.
LEMMA BetweenPowers ==
    ASSUME IInv, Powers, SameMemory(drv, drv'), hist' = hist, controlWord' = controlWord,
           drv'.enableAmpCmd = drv.enableAmpCmd,
           \/ ~drv'.error
           \/ drv.error /\ phase = "idle" /\ phase' = "idle"
           \/ drv.error /\ phase' = "read" /\ (drv'.enable => drv.enable)
           \/ ~drv'.enable /\ phase' = "read"
    PROVE  Powers'
<1> USE DEF Powers, SameMemory
<1>1. drv'.enable \in BOOLEAN
  BY DEF DriveState
<1>2. CASE hist.withdrawn \/ drv.brakeState \in {"closed", "closing"}
  BY <1>2
<1>3. CASE ~(hist.withdrawn \/ drv.brakeState \in {"closed", "closing"})
  BY <1>1, <1>3
<1> QED BY <1>2, <1>3

LEMMA WritePowers ==
    ASSUME HasBrake, IInv, IInv', Held(drv, hist), Powers, NEW ok \in BOOLEAN, WriteEntries(ok),
           Held(drv, hist)', CycleKept(drv, drv', hist, hist')
    PROVE  Powers' /\ BT!Cycle
<1> DEFINE s == StepperOutput(drv)
           e == BaseWriteEntries(s, ok)
<1>1. /\ drv \in DriveState /\ hist \in Histories /\ BrakeInvariant(drv, hist)
      /\ drv' \in DriveState /\ hist' \in Histories /\ BrakeInvariant(drv', hist')
  BY DEF IInv, BrakeInvariant
<1>2. /\ s \in DriveState /\ SameMemory(drv, s)
      /\ s.enable = drv.enable /\ s.error = drv.error
  BY <1>1 DEF StepperOutput, SameMemory, DriveState
<1>3. /\ drv' = e /\ phase' = "idle"
      /\ controlWord' = (~drv.error /\ drv.enableAmpCmd)
      /\ hist'.failure = IF drv.error THEN "error"
                         ELSE IF controlWord' THEN "none" ELSE hist.failure
      /\ hist'.withdrawn = (/\ drv'.brakeState \in {"opening", "open"}
                            /\ hist.withdrawn \/ Withdraws(drv, drv'))
  BY DEF WriteEntries, Observe
<1> HIDE DEF s
<1>4. BrakeInvariant(s, hist)
  BY <1>1, <1>2, MemoryKeepsBrake
<1>5. /\ Opens(s, e)
      /\ e.error => s.error \/ ~e.enable
      /\ e.enableAmpCmd = e.enableAmpCmdOld
      /\ e.brakeOutputCmd => e.enableAmpCmdOld
  BY <1>1, <1>2, <1>4, WriteOpens
<1>6. e.enableCmdOld = e.enable
  BY DEF BaseWriteEntries, RememberCommands
<1> HIDE DEF e
<1>7. /\ drv'.brakeOutputCmd => drv.enableAmpCmdOld
      /\ drv'.brakeState = "opening" => drv'.enableAmpCmdOld
      /\ drv'.brakeOutputCmd => drv.brakeOutputCmd \/ drv.brakeState = "opening"
      /\ drv'.enable => drv.enable
  BY <1>2, <1>3, <1>5 DEF Opens, Powers, SameMemory
<1>8. /\ hist'.torqueFor = Count(hist.torqueFor, drv'.localEnabled, OpenDelay + 2)
      /\ hist'.appliedFor = Count(hist.appliedFor, ~drv'.brakeOutputCmd, CloseAhead + 2)
      /\ drv'.localEnabledOld = drv'.localEnabled
  BY DEF CycleKept, KeepsPromise, TorqueAfter, AppliedAfter, TorqueBound, BrakeBound
<1>9. /\ hist.torqueFor \in Nat /\ hist.appliedFor \in Nat /\ CloseAhead \in Nat
      /\ OpenDelay \in Nat
  BY <1>1, HistoryTypes, DriveAssumption DEF DriveAssumption
\* Power that goes without an error.
<1>10. ASSUME ~drv.error, controlWord, ~controlWord', hist'.torqueFor > 1
       PROVE  hist'.appliedFor > CloseAhead + 1
  <2>1. ~drv.enableAmpCmdOld
    BY <1>1, <1>3, <1>10 DEF Powers, DriveState
  <2>2. hist.torqueFor > 0
    BY <1>8, <1>9, <1>10 DEF Count
  <2>3. hist.appliedFor > CloseAhead + 1 /\ ~drv'.brakeOutputCmd
    BY <1>7, <1>10, <2>1, <2>2 DEF Powers
  <2> QED BY <1>8, <1>9, <2>3 DEF Count
\* Power that goes, with an error or without, and the brake.
<1>11. ASSUME controlWord, ~controlWord', drv'.brakeOutputCmd
       PROVE  hist'.withdrawn
  <2>1. drv'.brakeState \in {"open", "opening"}
    BY <1>11 DEF Held, ReleasedOpen
  <2>2. drv.error
    BY <1>1, <1>3, <1>7, <1>11 DEF Powers, DriveState
  <2>3. drv.brakeState \notin {"closed", "closing"}
    BY <1>7, <1>11 DEF Held, ReleasedOpen
  <2>4. CASE hist.withdrawn
    BY <1>3, <2>1, <2>4
  <2>5. CASE ~drv.enable
    <3>1. ~drv'.enableCmdOld
      BY <1>3, <1>6, <1>7, <2>5
    <3> QED BY <2>1, <3>1 DEF Held
  <2> QED BY <1>11, <2>2, <2>3, <2>4, <2>5 DEF Powers
<1>12. Powers'
  <2>1. ASSUME controlWord', ~drv'.enableAmpCmdOld, hist'.torqueFor > 0
        PROVE  hist'.appliedFor > CloseAhead + 1
    <3>1. drv.enableAmpCmdOld
      BY <1>3, <2>1 DEF Powers
    <3>2. drv'.localEnabledOld
      BY <1>1, <2>1 DEF BrakeInvariant, BrakeHistory
    <3> QED BY <2>1, <3>1, <3>2 DEF CycleKept, KeepsPromise
  <2>2. ASSUME drv'.error, controlWord'
        PROVE  hist'.withdrawn \/ drv'.brakeState \in {"closed", "closing"}
    <3>1. ~drv'.enableCmdOld
      BY <1>2, <1>3, <1>5, <1>6, <2>2
    <3> QED BY <1>1, <3>1 DEF Held, DriveState, BrakeStates
  <2> QED BY <1>3, <1>5, <1>7, <2>1, <2>2 DEF Powers
<1>13. BT!Cycle
  <2>1. /\ drv'.localEnabledOld \in BOOLEAN /\ controlWord' \in BOOLEAN
        /\ drv'.brakeOutputCmd \in BOOLEAN
    BY <1>1 DEF IInv, DriveState
  <2>2. hist'.failure \in BT!Failures /\ hist'.withdrawn \in BOOLEAN
    BY <1>1 DEF Histories, Failures, BT!Failures
  <2>3. /\ hist'.torqueFor = BT!Count(hist.torqueFor, drv'.localEnabledOld, OpenDelay + 2)
        /\ hist'.appliedFor = BT!Count(hist.appliedFor, ~drv'.brakeOutputCmd, CloseAhead + 2)
    BY <1>8 DEF Count, BT!Count
  <2>4. drv'.brakeOutputCmd => controlWord' \/ hist'.failure # "none"
    BY <1>1, <1>3, <1>7 DEF Powers, DriveState
  <2>5. drv'.brakeOutputCmd /\ ~drv.brakeOutputCmd => hist'.torqueFor > OpenDelay + 1
    BY DEF CycleKept, KeepsPromise
  <2>6. controlWord /\ ~controlWord' /\ hist'.torqueFor > 1
          => hist'.appliedFor > CloseAhead + 1 \/ hist'.failure # "none"
    BY <1>3, <1>10
  <2>7. controlWord /\ ~controlWord' => ~drv'.brakeOutputCmd \/ hist'.withdrawn
    BY <1>11
  <2> QED BY <2>1, <2>2, <2>3, <2>4, <2>5, <2>6, <2>7 DEF BT!Cycle
<1> QED BY <1>12, <1>13

\* Every step keeps Powers, and is a cycle of BrakeTiming or none at all.
LEMMA NextPowers ==
    ASSUME HasBrake, IInv, IInv', Held(drv, hist), Held(drv, hist)', Powers, [Next]_vars
    PROVE  Powers' /\ [BT!Cycle]_(BT!vars)
<1>0. drv \in DriveState /\ power \in BOOLEAN
  BY DEF IInv, BrakeInvariant
<1>1. ASSUME SameMemory(drv, drv'), hist' = hist, controlWord' = controlWord
      PROVE  [BT!Cycle]_(BT!vars)
  BY <1>1 DEF SameMemory, BT!vars
<1>2. ASSUME NEW on \in BOOLEAN, SetEnable(on)
      PROVE  Powers' /\ [BT!Cycle]_(BT!vars)
  <2>1. SameMemory(drv, drv') /\ hist' = hist /\ controlWord' = controlWord
    BY <1>0, <1>2, BetweenWrites DEF SetEnable
  <2>2. /\ drv'.error = drv.error /\ drv'.enableAmpCmd = drv.enableAmpCmd
        /\ phase = "idle" /\ phase' = "idle" /\ drv.error \in BOOLEAN
    BY <1>0, <1>2 DEF SetEnable, DriveState
  <2> QED BY <1>1, <2>1, <2>2, BetweenPowers
<1>3. CASE ErrorReset
  <2>1. SameMemory(drv, drv') /\ hist' = hist /\ controlWord' = controlWord
    BY <1>0, <1>3, BetweenWrites DEF ErrorReset
  <2>2. ~drv'.error /\ drv'.enableAmpCmd = drv.enableAmpCmd
    BY <1>0, <1>3 DEF ErrorReset, BaseErrorReset, DriveState
  <2> QED BY <1>1, <2>1, <2>2, BetweenPowers
<1>4. ASSUME NEW alarm \in BOOLEAN, ReadEntries(alarm)
      PROVE  Powers' /\ [BT!Cycle]_(BT!vars)
  <2>1. SameMemory(drv, drv') /\ hist' = hist /\ controlWord' = controlWord
    BY <1>0, <1>4, BetweenWrites DEF ReadEntries
  <2>2. /\ drv'.enableAmpCmd = drv.enableAmpCmd /\ phase' = "read"
        /\ \/ ~drv'.enable
           \/ drv'.error = drv.error /\ drv'.enable = drv.enable
        /\ drv.error \in BOOLEAN
    BY <1>0, <1>4 DEF ReadEntries, BaseReadEntries, DriveState
  <2> QED BY <1>1, <2>1, <2>2, BetweenPowers
<1>5. CASE MasterNotOK
  <2>1. SameMemory(drv, drv') /\ hist' = hist /\ controlWord' = controlWord
    BY <1>0, <1>5, BetweenWrites DEF MasterNotOK
  <2>2. drv'.enableAmpCmd = drv.enableAmpCmd /\ phase' = "read" /\ ~drv'.enable
    BY <1>0, <1>5 DEF MasterNotOK, DriveState
  <2> QED BY <1>1, <2>1, <2>2, BetweenPowers
<1>6. ASSUME NEW ok \in BOOLEAN, WriteEntries(ok)
      PROVE  Powers' /\ [BT!Cycle]_(BT!vars)
  BY <1>6, WriteMechanics, WritePowers
<1>7. CASE AmplifierFollows \/ AmplifierDrops \/ UNCHANGED vars
  <2>1. drv' = drv /\ hist' = hist /\ controlWord' = controlWord /\ phase' = phase
    BY <1>7 DEF AmplifierFollows, AmplifierDrops, vars
  <2> QED BY <2>1 DEF Powers, BT!vars
<1> QED BY <1>2, <1>3, <1>4, <1>5, <1>6, <1>7 DEF Next, Cycle

\* The drive implements BrakeTiming: no release before the open delay with torque, no
\* power taken from a held load before the brake has been applied for the close-ahead
\* time, no released brake without commanded power, for every delay and every order of
\* events; an error excuses from the last two, but not from applying the brake.
THEOREM BrakeTimingCorrect ==
    ASSUME HasBrake
    PROVE  Spec => BrakeTimingKept
<1>1. Init => BT!Init /\ Held(drv, hist) /\ Powers
  BY DEF Init, InitDrive, InitHist, BT!Init, BT!Failures, Held, ReleasedOpen, Powers
<1>2. IInv /\ IInv' /\ Held(drv, hist) /\ [Next]_vars => Held(drv, hist)'
  BY NextHolds
<1>3. IInv /\ IInv' /\ Held(drv, hist) /\ Held(drv, hist)' /\ Powers /\ [Next]_vars
        => Powers' /\ [BT!Cycle]_(BT!vars)
  BY NextPowers
<1> QED BY <1>1, <1>2, <1>3, InitIInv, NextIInv, PTL DEF Spec, BrakeTimingKept, BT!Spec
=============================================================================
