# A verification project for ecmc

ecmc is a motion control module for EPICS: a C++ library that runs the axes of
an EtherCAT bus in a realtime thread inside an IOC. This directory holds TLA+
modules that model its core logic, TLC configurations that check them on small
instances, and theorems proved with TLAPS. Every definition is translated from
the sources under `src/devEcmcSup`; `PROJECT.json` names the lines for each.

## The system

Three kinds of threads share the program's state:

- the **realtime thread** (`main/ecmcMainThread.cpp`, `cyclic_task`), once per
  cycle: EtherCAT receive, axis PLC and axis for every axis, events, recorders,
  storages, command lists, PLCs, plugins, EtherCAT send, asyn parameter update;
- the **shell** (`ecmcConfig`, `ecmcConfigOrDie`) and the **asyn clients**, which
  hold the lock of the asyn port while a command runs;
- the **motor record** driver, which holds `ecmcRTMutex` while it calls an axis.

The realtime thread holds both locks during a cycle and neither while it sleeps.
Everything inside a cycle is sequential: what is hard there is the order of the
calls, values that are one cycle old, and commands that come between two cycles
in any state of the machine. What is hard between the threads is the locking
around the start and the end of the realtime thread.

### Inventory

| Component | State | Operations | Talks to | What makes it correct |
|---|---|---|---|---|
| Main thread, application mode (`main/ecmcMainThread.cpp`) | `appModeCmd`, `appModeStat`, the locks, `allowRtThreadCom_` | `setAppModeRun`, `setAppModeCfg`, the loop of `cyclic_task`, start time outs | everything | one realtime thread; cycles protected by the locks; locks are handed back; a stop ends the loop |
| Drives (`motion/ecmcDriveBase`, `-Stepper`, `-DS402`) | enable and amplifier commands, brake state and counters, DS402 state machine | `readEntries`, `writeEntries`, `updateBrakeState`, `errorReset` | axis (shared command and status), drive terminal | the brake never lets go of a load without torque; enable is answered or taken back; a disabled drive loses its power |
| Monitor and interlocks (`motion/ecmcMonitor.cpp`, `ecmcAxisData.cpp`) | counters, at target, interlock flags and their summary, latches | the checks of `execute`, `errorReset`, `setPLCInterlock`, setters | trajectory, drive and axis read the summary | interlocks come in time, stay as long as their cause, are obeyed in the next cycle, and tell why |
| Trajectory (`motion/ecmcTrajectoryBase`, `-Trapetz`, `-S`) | set point, step of the last cycle, target, mode, busy, stop ramp | `getNextPosSet`, `setExecute`, `setTargetPos`, `initStopRamp` | axis, sequencer | stops are ramps; no jumps; the target is reached exactly |
| Axis (`motion/ecmcAxisBase`, `-Real`, `-Virt`) | enable, execute, source, first cycle, error | `execute` of a cycle; moves, stop, kill, enable, reset, source | all motion objects, PLC, asyn, motor record | what the drive is given never jumps; a switch bounds the overrun; accepted motions arrive |
| Sequencer (`motion/ecmcAxisSequencer.cpp`) | command, sequence state, latches, time out, borrowed encoder | `setExecute`, `execute`, the homing sequences, motion after homing | trajectory, encoders, monitor, drive | homing ends, references the right position or reports that it did not, gives the encoder back |
| Encoder (`motion/ecmcEncoder.cpp`) | raw register, turns, offset, latch, homed, filters | `readEntries`, `handleOverUnderFlow`, `setActPos`, `setOffset` | bus entries, axis | overflows are counted without loss; the position is continuous but for homing |
| PID controller (`motion/ecmcPIDController.cpp`) | terms of the sum | `control`, `reset` | axis | limits of the terms |
| Motion commands (`motion/ecmcMotion.cpp`) | the table of axes | checks and forwards | axis | refuses what the axis blocks |
| EtherCAT (`ethercat/ecmcEc`, `-Slave`, `-Entry`, ...) | domains, slave states, startup and failure counters | `receive`, `send`, `checkState`, `checkSlavesConfState`, `statusOK` | master library, axes, asyn | a bad bus is seen in time and by everybody; a good one is not refused |
| SDO access (`ethercat/ecmcEcAsyncSDO.cpp`, `ecmcEcSDO.cpp`) | read and write in progress, busy, error; values to write at startup | `asynWriteSDO`, `asynReadSDO`, `execute`, `add`, `write`, `read`, `verify` | master library, asyn clients, shell | a result belongs to its request; what is verified is in the slave |
| Storage, recorder, events, command lists (`misc/`) | buffer, index, count; sample counter, armed | `appendData`, `setData`, `setBufferSize`, `execute` | PLC, asyn | the statistics are those of the values that were appended; events fire as often as they should and arm their input again |
| PLC (`plc/`) | expressions, compiled, skip counter, variables | `compile`, `validate`, `execute`, interfaces `read`/`write` | axes, entries, storages | what is written back is what the expression changed |
| asyn port and data items (`com/ecmcAsynPortDriver.cpp`, `-DataItem.cpp`) | tables of available and used parameters | `drvUserCreate`, `refreshParam`, `writeGeneric` | all clients | the indices of the tables and of asyn agree |
| Command parser (`com/ecmcCmdParser.c`, `ecmcCom.cpp`, `ecmcOctetIF.c`) | none | a string to a call | all | the call the string names |
| Motor record driver (`motor/`) | copy of the axis status, command flags | `poll`, `move`, `home`, `stop`, `enableAmplifier` | axis under `ecmcRTMutex` | reports motion from command to standstill |
| Plugins (`plugin/`) | loaded library | `realtime`, mode callbacks | main thread | called in the right mode |
| Errors (`main/ecmcError.cpp`) | a code with a pointer to a shared one | set, get, reset | all | an error is seen until it is reset |

`PROJECT.json` says for each component whether it is modelled, and its
`hazards` list, line by line, what a test of this code would hardly reach.

## The modules

| Module | Models | Composes |
|---|---|---|
| `DriveBase` | `ecmcDriveBase`: what one `writeEntries` does, as functions on the drive's record | |
| `BrakeTiming` | the abstract promise of a drive with a brake | |
| `DriveStepper`, `DriveDS402` | the two drives, with amplifier and device as environment | `DriveBase`, implement `BrakeTiming` |
| `Interlocks` | flags, summary and stop mode (`ecmcAxisData.cpp`) | |
| `Monitor` | the monitor's cycle and the commands between cycles | `Interlocks` |
| `Trapetz` | the trajectory generator, as functions on its record | |
| `Motion` | how commands reach sequencer and trajectory, what execute and limit interlocks make of them | `Trapetz`, `Interlocks` |
| `Axis` | the cycle of `ecmcAxisReal` with a PLC as second source | `Motion` |
| `Homing` | the same cycle with the homing sequences, two encoders, home sensor, latch | `Motion` |
| `Encoder` | register, turns, laps, latch, losses of the bus, alarms, position setting of one encoder | |
| `AppMode` | modes, realtime thread, shell, motor record and their two locks | |
| `EcBus` | domain, slaves, master and startup, and what the axes are told of them | |
| `EcImage` | entries and memory maps, their place in the process image, the exchange in a cycle | |
| `EcAsyncSdo`, `EcSdo` | objects of the slaves: requests while the bus runs, and the commands of the configuration | |
| `MotionCommands` | every command of `ecmcMotion.cpp` with its guards, on what it looks at of an axis | |
| `CmdParser` | lines, commands, the formats in their order, the choice of the handler, ADS | |
| `Params` | the tables of the asyn port, linking of records, update rates | |
| `MotorRecord` | the driver's calls, its copy of the status and what the record is told | |
| `Plc`, `PlcData`, `PlcFunctions` | loading and running a program; one variable that is read and written back; the function libraries | |
| `DataStorage`, `Events` | the three buffers; an event with recorders and command lists | |
| `MCRealtime` | harness: monitor (three choices of inputs), bus or asynchronous request | extends `Monitor`, `EcBus`, `EcAsyncSdo` |
| `MCServices` | harness: one of the thirteen parts around the axis | `CmdParser`, `Encoder` and the modules from `EcSdo` on |
| `DriveBaseProofs`, `DriveStepperProofs`, `DriveDS402Proofs`, `AxisProofs`, `HomingProofs` | theorems | the module of their name |
| `RealtimeProofs` | theorems on the parts of the first harness, the harness and the application mode | `MCRealtime`, `AppMode` |
| `ServicesProofs`, `EpicsProofs` | theorems on the parts of the second harness and on the harness: `EpicsProofs` those that EPICS sees | `MCServices` |

A class that a cycle calls is a record and its methods are functions on it
(`DriveBase`, `Trapetz`, `Motion`); a module with variables has one action for
`execute()` of a whole cycle (`Cycle`) and one for each command that another
thread may give between two cycles. Only the drives split a cycle, into
`ReadEntries` and `WriteEntries`, because the axis may take the enable command
away in between; `MotorRecord` splits a poll, because a cycle may fall into its
copy, and `PlcData` a scan, because clients may. `AppMode` has one action per step
between two lock operations.

The two harnesses put modules that do not share state into one run: a behaviour
chooses one of them in its first state and keeps to it, so the states add up and
do not multiply. Their properties are conjunctions of those of the parts, named
there.

How state corresponds to the code:

- `DriveBase`: the record has the members of `ecmcDriveBase` by name; `enable`
  and `enabled` are the shared `data_->command_.enable` and
  `data_->status_.enabled`. `hist` is history for the properties.
- `BrakeTiming`: `powered` is the control word that has been written to the hardware
  (`controlWord` of the stepper, `output` of the DS402 drive is 15), never the amplifier
  command behind it, and `released` the brake output. The word follows the command by
  `Lag` cycles, one for the stepper and two for the DS402 drive, and an error of the
  drive cuts it at once, whatever the brake does. So the promise names what excuses from
  it: `failure` (an error has cut the power, or its reset came before the drive had acted
  on it) and `withdrawn` (the enable command was taken away behind the brake's back).
  With an error the brake still falls in the very cycle that loses the power, but for
  a command withdrawn, and but for a reset that comes between the fault of the device
  and the drive's reaction: then the DS402 drive writes 128 with the brake open.
- `DriveDS402`: `esm` holds `enableStateMachine_`, `cycleCounter_` and
  `controlWord_`; `device` is the CiA 402 state behind the status word.
- `Monitor`: `flags` is the set of interlocks that are TRUE in
  `ecmcAxisDataInterlocks`, `summary` the three summary flags with the stop mode,
  `seen` the summary that `preExecute` gives the trajectory. `since` and `held`
  are history: how long each condition has lasted, and which switch has been open.
- `Trapetz`: positions are integers and a cycle is the unit of time, so velocity
  and acceleration are steps and changes of a step. `prev` is `thisStepSize_`,
  `nom` the commanded step, `local` `localCurrentPosSet_`.
- `Axis`: `axis` joins `data_->command_`, `data_->status_`, the trajectory and the
  sequencer's members; `external` is the set point of the PLC; `order` is history,
  the target that has been accepted.
- `Homing`: as `Axis`; `enc` are the encoders by offset and homed bit, `at` where
  the mechanics are, `out` where the drive takes them in the next cycle, `offset`
  is `cspRawPosOffset_`. A sequence is a table, one row per state: the side on
  which no switch may open, what the state waits for, what it does then. The
  mirrored sequences of the code are one table with the direction as parameter;
  where the code's two copies differ (21 and 22) the tables do.
- `Encoder`: `enc` has the members; `turns` is `rawTurns_`, `offset` joins
  `rawPosOffset_` and `engOffset_`; the scale is 1. `shaft` is what the mechanics
  did, the reference of the properties: its true place, in which a turn has all of its
  counts, and beside it the wraps of the register; the properties subtract the second
  from the first, so that the count which the code loses in each wrap stands in them and
  not in the reference. A step between two readings is below the threshold that tells a
  wrap from a movement, or `far`.
- `AppMode`: `port` and `rtMutex` are the holders of the asyn lock and of
  `ecmcRTMutex`; `rt[t]` is where the t-th created thread is in `cyclic_task`.
- `EcBus`: `bus` has the members of `ecmcEc`; `state` and `slaveAlarm` those of each
  slave; a cycle gets the world (link, domain, reports of the slaves) as input.
- `EcImage`: `entry` are all entries by their number, `list` the order in which
  the slave has them, `inUse` those of the master, `image` who wrote each bit. Inputs
  of two to four bits are cut at the end of their byte, as `EC_READ_B2` to `EC_READ_B4`
  do; `Unreadable` names the entries that this concerns.
- `EcAsyncSdo`: `request` is the master's request object, `device` what the slave
  holds, `told` what was published.
- `MotionCommands`: `axis` is what the commands ask for; `through` names a command
  that acted although communication is blocked.
- `Params`: `avail` and `library` are `pEcmcParamAvailArray_` and asyn's own table,
  `port.inUse` `pEcmcParamInUseArray_`; ages and rates are counted in cycles. What a
  client writes is published at once or, behind a command that converts an integer, when
  the records are called next.
- `MotorRecord`: `status` is the copy of the axis, `record` what has been written
  to the motor record, `call` the call under way and where it is.
- `Plc`: `plc` has the members of `ecmcPLCTask`, `var` and `globals` the variables;
  a line of a program is the names it uses and whether it compiles. `program` is history
  of the commands, not of the members: the lines that were loaded and those appended
  since, whether a start has failed on them, and whether the code has dropped some.
- `PlcData`: `var` is an `ecmcPLCDataIF` with `dataRead_`; `datum` what it stands for;
  `scan` is history, what the expression was shown, whether it has assigned the variable
  and what. A read of an entry or of an element of a storage may fail, and the
  expression is then shown what it saw before.
- `PlcFunctions`: `flag` are the static arrays of the edges, `mcError` the static
  `mc_errorCode`; a caller is a PLC in its use of one motion function, so that two
  callers are two PLCs with the same function, two functions that share a flag, or two
  that do not. `asked` and `call` are history, what each caller has asked for and how it
  was answered; `axis.motion` is who started the motion. The bit functions work on words
  of `WordBits` bits with the shifts of an int of `IntBits`.
- `DataStorage`: `storage` has the members; values are numbered, so that the
  properties tell which are there. `Events`: `arm` is the arming sequence,
  `StartUpArm` what enabling an event starts and `ArmWrites` what a step of the
  sequence writes; arming an input that is not enabled sets the error.

External, modelled from how the code uses it: the amplifier and the CiA 402
device (they may follow, fail or drop out at any time), limit switches, sensor
and index latch along the way, the register of the encoder, the master library
and the slaves, exprtk and the PLC expression, the EPICS shell and records.

## The runs

| Run | What it shows |
|---|---|
| `stepper_brake` | The stepper implements `BrakeTiming` with the control word it writes; brake, enable and power stay consistent in every order of enable, disable, alarm, interlock, loss of power and reset |
| `ds402_brake` | The same for the DS402 drive through faults, resets and time outs of the device; a frozen status word never says enabled |
| `stepper_brake_doc` | *violation*: the brake is not applied after an interlock or a time out |
| `ds402_nobrake_interlock_doc` | *violation*: a drive that timed out keeps its control word under an interlock |
| `realtime` | An open switch blocks its direction and one cycle of it stops the motion; interlocks and at target come in time, are explained and obeyed; the bus is told to be in order when and only when it is; an asynchronous request comes to rest with its own answer |
| `axis` | Ramps, continuity, overrun and arrival under every order of commands |
| `axis_waiting_doc` | *violation*: the set point moves between enable and enabled |
| `homing` | Every homing sequence ends, homes right or reports, gives the encoder back, and the drive does not jump, but by the difference of the encoders when the one for homing is given back |
| `homing_switch_doc` | *violation*: the switch back between encoders is a jump |
| `services` | What is around the axis keeps its promises: see the table below |
| `appmode_all` | One thread, protected cycles, and every lock is handed on, through failed starts, stops and restarts |
| `appmode_stop_doc` | *violation*: after a stop nobody gets the asyn port any more |

The properties of `services`:

| Property | Part | What it says |
|---|---|---|
| `VerifiedIsStored` | `EcSdo` | a value that was verified is in the slave |
| `InputsSafe` | `EcImage` | outputs arrive in their own bits, inputs read theirs, maps stay inside, indices lead to names |
| | `Encoder` | position, latch and velocity are those of the shaft less one count for each wrap of the register, of a linear and of a modulo axis |
| `NoWordIsLost` | `CmdParser` | a command written as a format wants is taken by that format |
| `EpicsSafe` | `Params` | records of the parameters that `Promised` names are as fresh as they asked; indices of the tables agree |
| | `MotorRecord` | done is told when it is done, every error is told |
| `PlcSafe` | `Plc` | scans in time, one first scan, runs what was loaded, each line once, but after a failed start or lost lines |
| | `PlcFunctions` | an edge moves the axis, nothing else starts a motion, also when two callers share a flag; no other bit or cell is changed |
| `DataSafe` | `DataStorage`, `Events` | statistics of the data that is held; the input is armed again |
| `CommandsKeepRules` | `MotionCommands` | a blocked axis is changed by known exceptions only; no change of scale or encoder under way |
| `ChangesOnlyWhatItSet` | `PlcData` | a PLC changes a datum only to what its expression has assigned in this scan and only with permission, and does what was asked |

The type invariants of `Monitor`, the drives, `AppMode`, `Axis`, `Encoder`, `EcBus`
and `EcAsyncSdo` are proved as theorems of their own, that of `Homing` as a conjunct
of `HomingInOrder`.

### Bounds and why they are enough

- Drives: open delay 1 (stepper) or 4 (DS402), close-ahead 2 or 1, time out 4 or 8.
  Each counter passes its limit and the time out is longer than an enable takes,
  so both outcomes occur. The start-up of a DS402 drive takes four cycles in which the
  device may already report torque; with a shorter open delay the code releases the
  brake before it has written 15, so the promise, and its theorem, is for
  `OpenDelay >= 4`. The proofs hold for all other values.
- Monitor (in `realtime`): times of 0 to 2 cycles, the overspeed with different ones for
  trajectory and drive; `Horizon` bounds the history
  only. The three choices vary different inputs: lag, speed, settling and the
  interlocks of the PLC; both switches with velocity, latch and alarm; one switch
  with the soft limits. What a choice leaves constant does not share counters with
  what it varies. The proofs hold for all times and all inputs together.
- Bus and request (in `realtime`): two slaves with three reports each, one
  tolerated failure, a startup of more than one good cycle, slow checks in every
  second cycle; two values and three requests, so that a request can be refused,
  accepted before the one before was collected, and fail. The proofs hold for all
  slaves, limits, periods, data and requests.
- Axis: switches 3 positions apart, acceleration 1, deceleration 2 and stop 3, a
  velocity of 3 in both directions, one command between two cycles (`Gap`), a PLC that
  takes its set point from that of the axis to beyond the forward switch (`First` to
  `Last`) by up to five positions in a cycle (`PlcStep`); the theorems have it on both
  sides. So a stop of the axis is a ramp of several cycles (3, 1, 0), and so is the one
  that replaces the set point of the PLC (5, 3, 1). Velocities are positive: with a
  velocity of zero a stop never ends (see below). Motions start, turn, are changed and
  cut short at every phase of a ramp; one target lies within the switches, one beyond.
  The acceleration is at most the deceleration: above it the overrun is not bounded (see
  the hazards). The source goes back to internal only when the axis is disabled:
  otherwise the set point jumps (see the hazards).
- Homing: 12 positions between the switches with a sensor of 3 and two index
  marks, start in the middle and beyond either switch; two commands in a
  behaviour, in any state of a sequence, of one kind of homing; with and without
  a time out that strikes in the middle of a sequence. The raw registers of the two
  encoders differ by 12 (`Shift`), several times the step of the fastest motion, so that
  a jump by it cannot pass for a motion.
- Encoder: a register of four values with steps of one, which wraps twice on the way;
  `MaxTravel` bounds the distance. The modulo range of six is no multiple of the
  register, and the shaft of the modulo axis travels up to eight either way, so that it
  makes laps in both directions. After a reading that was lost the next one comes when
  the position has been set. The proofs hold for all sizes and ranges.
- AppMode: two realtime threads are enough for a second start, three for a
  second failed one; every failure of a start is an event that may happen.
- Process image: up to three entries of five kinds (names that come twice, two
  directions, one without bits, inputs that reach beyond their byte), one memory map, one
  entry after the configuration was applied; bytes of a few bits.
- Parser: every format of the code is in the table; a line has up to two
  commands, and a text is its name and the kinds of its words.
- Parameters: two names, two kinds of parameters, three links, one of them with a
  command that converts an integer; data that is updated in every
  cycle and in every second one (`Round`); ages to four cycles. The proof holds for all
  kinds, links, periods and rates.
- Motor record: absolute motions, one try of the enable loop and two commands of
  the record, with cycles and commands of the shell in any gap. The proof holds for
  any number of each.
- PLC: a good and a bad line, programs of up to two lines, skip cycles of 0 and 4;
  values in halves, so that a number between FALSE and TRUE occurs; words of three
  bits with an int of two, so that a shift beyond the int occurs. Two callers of motion
  functions in every pair of functions, with an `execute` of 0, of a half (every call is
  an edge) and of 1; maps and storages of one and three elements, with copies from each
  position and of each length.
- Storage: sizes 2 and 3, appends of one and two values and lines of up to three,
  six values: a ring wraps within an append, and data that is too long occurs.
  Events: two consumers, a sample time of two cycles.

### Fairness

- Drives: `WF(Cycle)`: the realtime thread runs for ever and each cycle ends.
  Nothing is assumed of the device: it may never answer.
- `Axis`, `Homing`: `[]<>(counter = 0) /\ []<>(counter = 1)`, cycles go on for
  ever, as a parity bit of a cycle counter tells; commands are not forced and
  cannot keep cycles away, because `Gap` and `Most` bound them.
- AppMode: weak fairness of each step of the realtime threads and the shell,
  strong fairness of taking a lock: a waiting thread gets a lock that is free
  again and again (priority inheritance mutexes, and the realtime thread sleeps
  without them in every cycle). New commands are not forced.
- `MCRealtime`: weak fairness of the bus cycle and of `execute()` of a request, the
  realtime thread goes on; and of the answer to a request, if only with the time
  out of the master. Neither the shell nor the clients need come.

## The theorems

All are proved for every value of the constants that the named assumptions admit;
where a theorem needs more of them than its module assumes, its statement says so.

- **Drives** (`DriveBaseProofs`, `DriveStepperProofs`, `DriveDS402Proofs`).
  `TypeCorrect`, `BrakeTimingCorrect` (both drives implement `BrakeTiming`),
  `StaleStatusCorrect` and `EnabledAfterOpenDelayCorrect`. The refinement does not
  follow from the types: that a brake is released only after `OpenDelay` with torque
  needs to know how the brake counter relates to the cycles with torque, and that
  power outlasts the close-ahead needs the same for the cycles with the brake
  applied. `BrakeInvariant` says this for each brake state, `UpdateBrakeStateOK` that
  one `writeEntries` keeps it and fulfils the promise for the amplifier command; the
  drives add what their `readEntries` may change in between (`IInv`). `Held` adds what
  the enable command has to do with an open brake. That is not yet the promise, which is
  about the control word: `Powers` relates the word that is written to the command of one
  write (stepper) or two reads (DS402) ago, says which errors can still cut it, and that
  none of them meets a released brake with the enable command still there; for the
  DS402 drive also that a brake which opens has not counted further than the start-up of
  the device has come. Assumptions: `DriveAssumption` (times are naturals), and
  `OpenDelay >= 4` in `BrakeTimingCorrect` of the DS402 drive.
- **Axis** (`AxisProofs`). Four theorems, from the generator up.
  - `AxisTypesCorrect`: every variable of the axis, its generator and its interlocks
    keeps its type. This is where the record of the generator is shown to be closed
    under a step (`GeneratorStep`), a command to have one of the outcomes that its
    handler lists (`Outcome`) and a cycle to be a cycle of the axis' own source or of
    the PLC followed by what ends it (`Cycled`: `Awake`, then `OwnCycle` or
    `ExternalCycle`, then `Finished`). The other proofs go along the same cases.
  - `StopSlowsCorrect`: a motion without execute gets slower in every cycle until it
    ends. The property speaks of one step and is not inductive: that a stop cannot
    accelerate has to be known of every state in which the next cycle could begin
    one. `RampsKept` says it: a busy generator is enabled and knows its mode; a target
    velocity of zero, which is what a block on both sides leaves, comes with a target
    at the set point and a step on which the ramp cannot turn; and a distance to stop
    that does not belong to the step (`Stale`) occurs only at standstill and is gone
    after a cycle. Needs `ACC <= DEC`, at most one command between two cycles and no
    change of the source of an enabled axis; for the last two there are
    counterexamples, for the first TLC found none (ACC 3, DEC 1, 15 million states).
  - `SmoothCorrect`: what an enabled drive is given moves by at most one step of a
    motion or of the PLC. The invariant `Even` joins four facts: steps and velocities
    are bounded (`Bounded`), the generator stands at the set point whenever it leads
    (`At`), a switch that interlocks has been passed (`Flagged`), and while the PLC leads
    its set point is near that of the axis or on the blocked side of a switch
    (`Tracked`). Needs `PlcStep <= DEC`: after the stop ramp under an external set point
    the axis goes back to the PLC, which may be anywhere by then (see below).
  - `OverrunBoundedCorrect`: the set point and every position of the generator stay
    within one stop of the limit switches, and steps and velocities within those of one
    motion. That a position has not passed a bound says nothing about the next cycle,
    so the invariant `OverrunInv` says where the ramp down would end. `Side` tells it of
    one side of the axis, and is used for both by mirroring the positions. While the
    switch is closed the set point is at most a cycle ahead of it (`Approaching`), or on
    a ramp without execute that ends before the bound however long it goes on
    (`Coasting`, `Contained`), or at rest (`Resting`); once the switch is open it is on
    such a ramp and interlocked, or has been stopped by a command (`Beyond`). `Eases`
    says what a cycle of the generator does to a side: free, locked or stopped it comes
    nearer by a step at most, and a locked one slows down or turns round. Besides,
    command, sequencer and generator agree (`Gripped`), the bounds are those of `TypeOK`
    (`Within`), and the set point of the PLC is in reach or held on the blocked side of a
    switch (`Nearby`); the invariants of the other three theorems are conjuncts
    (`Steadied`). So a stop takes `Brake`: the step that passes the switch, the one
    before it is seen, what is left of a ramp step when a stop ends and a new motion
    begins, and the ramp itself (`RampDown`).

    Its hypotheses, which the run meets: `PlcStep <= DEC`, one command between two cycles
    and no change of source, as above; `{0, Start} \subseteq Reach`, the axis starts
    within its travel; and three that keep a first step short and the switches in view.
    `ACC <= DEC`: a motion whose first step is longer than `DEC` is ramped down by a
    lock, not ended, so a locked axis creeps past the switch with repeated commands.
    `ACC <= 10`: a step within 10 % of a ramp step of the nominal one is taken for it
    (`ecmcTrajectoryTrapetz.cpp:183-186`), and where that tolerance exceeds the unit of
    position a first step may be longer than `ACC`, and so than `DEC` if both are equal.
    `"waiting" \notin Commands`: a motion accepted before the drive has answered moves
    the set point away from the position that the switches see (`axis_waiting_doc`).
    An axis that loses its drive is covered.

  Assumptions: `TrapetzAssumption` (ramps are positive) and `AxisAssumption`
  (positions are integers, velocities positive with a largest one, bounds naturals).
- **Homing** (`HomingProofs`). `HomingInOrderCorrect` and `HomingReportsCorrect`, from
  one invariant (`IInv`). Either the axis is at rest on its primary encoder in state 0
  (`Rests`), or a sequence runs on that encoder or the borrowed one with its time and
  latches in their ranges (`Runs`), and then it is in a state of its own table, has
  room for the marks that are still to come, and has homed every encoder it is to
  reference if it is moving after homing (`Places`). Latches of an aborted run count
  on, so their bound grows with the number of commands. `RowsFit` and `TableOk` say of
  each table once what the step of a sequence needs. Sequences 7 to 10 on an axis that
  moves are left out by the property. Assumption: `HomingAssumption` with that of the
  generator.
- **Monitor** (`RealtimeProofs`). `OpenSwitchBlocks`, `InterlocksObeyed`,
  `PowerLossIsExplained`, `BounceIsLatched`, `MonitoringIsPunctual`,
  `AtTargetIsSettled`, `TypeCorrect`. The first three follow from one cycle; the
  latch needs the invariant `Latched` (a held switch is still flagged), the
  timing needs `Counting` (each counter is a function of how long its condition
  has lasted). `MonitoringIsPunctual` is exact in both directions for the lag, both
  overspeeds and the difference of velocities, but for three habits of the code, which
  the property states: with a delay of 0 the overspeed of the trajectory interlocks any
  axis with power; the counter of the drive starts over once it has passed its delay,
  which takes the interlock back; and the last cycle before the power counts as one with
  a difference of velocities. Assumption: `MonitorAssumption` (times are naturals).
- **Bus** (`RealtimeProofs`). `OkCorrect`, `AlarmCorrect`, `EcTypeCorrect`, from
  `BusInv`. The flags that are never taken back are harmless because of what came
  before they were set: `MasterWasSeen` (the master is well only after the slaves have
  been, and as the last look found it), `StartupWasLong` and `BusCounts`. `AlarmTells` is
  inductive alone. Assumption: `EcAssumption` (limits and periods are naturals).
- **Asynchronous requests** (`RealtimeProofs`). `AnswersCorrect`,
  `AsyncSdoTypeCorrect`, from `SdoInv`. What a client may rely on at rest is, while
  the object is busy, in its flags or in the request: `BusyIsInProcess`,
  `FailureIsKept`, `ReadIsKept`, `ReadIsPublished`. No assumption.

  `BusIsSafe` states the last two for the harness, `MCSpec => []BusSafe`: the
  invariant `RealtimeInv` says which part is chosen and that the others rest.
- **Application mode** (`RealtimeProofs`). `AppModeTypeCorrect`, `OneThread`,
  `CyclesAreProtected`, `RtComIsBlocked`, `RuntimeIsTrue`, for any number of
  threads. The invariant `AppModeInv` says in which steps each process holds the mutex
  and the port (`Locks`), that at most one thread is alive and none when the
  shell starts one (`OneAlive`, `Vacant`), in which modes a start proceeds
  (`StartModes`) and that the runtime flag is right (`Truthful`). Assumption:
  `AppModeAssumption` (thread names are not names of the other processes).
- **Encoder** (`ServicesProofs`). `PositionCorrect`, `LatchCorrect`,
  `EncoderTypeCorrect`, about `EncoderSpec`. That the position is the shaft's is not
  inductive: while an external source or an alarm holds the position the sum of
  turns, register and offset goes on. The invariant `CountsShaft` is about this sum.
  `WrapIsCounted` says that the code tells every wrap from every step, `CountFollows`
  that the sum moves with the shaft less a count for each wrap, `ReadFields` that a
  lap moves all by the same; a latched value is the old sum and the travel to the
  latch, on whichever side of a wrap. Assumption: `EncoderAssumption`, a step is below
  the threshold of 70 % of the register and what is left of it.
- **Around the axis** (`ServicesProofs`), about the harness, for any texts, sizes and
  numbers of objects. `VerifiedValuesAreStored`: what the configuration verified is in
  the slave. `CommandsAreRuled` (`MotionInv`): what the commands change of a blocked,
  enabled or busy axis. `PlcChangesOnlyWhatItSet`: what the code compares at the
  write, `data_` with `dataRead_`, is what the history of the scan says, what was
  assigned with what was shown. `DataInv` carries this from the read through the
  expression to the write of each variable, with reads that fail, clients in between and
  a permission that another variable of the same scan may take away.
  `DataIsSafe` (`StorageInv`, `EventInv`): the sums, extremes and counts of the three
  buffers are those of the values in them, through wraps within an append; an event is
  at most four executions away from arming its input again. Assumptions:
  `PlcAssumption`, `StorageAssumption`.
- **What EPICS sees** (`EpicsProofs`), about the harness, for any links, kinds of
  parameters, sizes of the table and rates, and any options of the motor record.
  `EpicsIsSafe` states `EpicsSafe` and joins two invariants. It promises data in time
  only to the records of the parameters that `Promised` names, those whose first record
  asked for a time, and whose time no other shortened unless the data is updated in every
  cycle, and it allows the time between two calls of the records on top of what was asked
  for; the code can be late for the others (see below).
  - `RecordInv`, of the motor record. That it is not told of an end before there is
    one is a matter of three states: what the axis does, what the copy of its status
    says and what a poll that is looking at the copy has seen. `AskedIsBusy`,
    `StatusIsTrue` and `CopyIsTrue` relate the three from the record's call to the
    first cycle after it; `ToldIsSeen` says that what the driver remembers is what it
    has told, so that only what is unchanged is left out.
  - `ParamInv`, of the parameters. `IndexTrue` makes the table of those in use and
    that of asyn inverse to the index of each parameter, through records that were
    refused in between. Freshness is a sum: the age of the value in the library is at
    most the counter of the parameter in updates and the cycles since the last
    update (`Phase`), and that in the records at most the promise less the cycles
    until the records are called (`InTime`, with `Late` for the rate of the calls and
    `CallsTrue` for its counter). `OwnTrue` is what each parameter keeps by itself:
    updates times cycles is no more than was asked for.

  Assumption: `ParamAssumption` (a record asks for a time or gives -1, data is updated
  every so many cycles, and the model's count of cycles, which starts over at `Round`,
  does so at a multiple of them).

Only model-checked:

- Liveness under fairness, which the prover does not reach: `EnableResolves`,
  `PowerRemoved`, `StopEndsLoop`, `ShellServed`, `MotorServed`, `MoveArrives`,
  `HomingEnds`, `BusResolves`.
- `HomedRight` and `NoJump` of `Homing`: the first is about where sensors, marks and
  switches lie to each other, which the run fixes; the second about the raw registers of
  two encoders, which every sequence, command and interruption may leave in the offset.
- `NoWordIsLost` is about one table of formats, each of which the run tries.
- `PlcSafe` and the process image within `InputsSafe`: the names of a program are
  registered, and the bits of the entries before an entry added up, by folds over
  sequences and sets, and what a fold computes for every input is an induction over
  data that the prover does not reach. Of `InputsSafe` the position and latch of the
  encoder are proved, not `VelocityIsTrue`.

## What the checks found

Runs that show a disagreement with what the repository says:

- `stepper_brake_doc`: an interlock or a time out clears the enable command
  behind the brake's back, so the falling edge that applies the brake is lost.
- `ds402_nobrake_interlock_doc`: after a time out of the state machine the
  control word is frozen, also under an interlock.
- `appmode_stop_doc`: `cyclic_task` ends with both locks held.
- `axis_waiting_doc`: a motion accepted before the drive has answered moves the
  set point that the drive then gets.
- `homing_switch_doc`: the switch back to the control encoder offsets the drive
  by the raw value of the encoder for homing.

What properties leave out, because it does not hold of the code:

- A motion whose velocity is set to zero on the fly and that is then stopped stays
  busy for ever: the generator falls back to its velocity mode with a step of zero and
  no branch ends it (`ecmcTrajectoryTrapetz.cpp:62-131`). `Velocities` excludes zero.
- After a stop ramp the axis goes back to the set point of a PLC
  (`ecmcAxisReal.cpp:95-116`). A PLC that moves by more than the ramp slows down in a
  cycle is by then anywhere: the set point jumps without bound. `Smooth` is proved for
  `PlcStep <= DEC`.
- A disable and an enable between the same two cycles let the set point fall back to
  the actual position without the cycle that would have synchronised it: `Smooth`
  and `StopSlows` are proved for one command between two cycles.
- The loss of the drive is never an error of the axis: `enableOld` is written only
  where the enable command changes (`ecmcAxisBase.cpp:554`, after the return in 1333),
  so it is FALSE whenever the axis is enabled and the branch of `ecmcAxisReal.cpp:160`
  that tests both is dead (`Lost` in `Axis`). The axis stays enabled, and goes on to
  ramp its set point down, while the drive is away.
- The half of `StopSlows` about the stop ramp under a PLC says something only for a
  PLC that is faster than the ramp (`PlcStep > DEC`), which the run has; the theorems on
  `Smooth` and `OverrunBounded` are for the others.
- Whether an axis with an order that loses its drive ever arrives: `MoveArrives` ends
  an order with the loss. Otherwise an order ends with the axis at rest at its target.
- A DS402 drive with an open delay below four cycles opens its brake before it commands
  power: the device may report torque while the start-up is still on its way to 15
  (`ecmcDriveDS402.cpp:161-211`).
- The three habits of the speed monitoring named at `MonitoringIsPunctual`
  (`ecmcMonitor.cpp:760-786`).
- Sequence 22 (`ecmcAxisSequencer.cpp:2558-2561`) lacks the `break` and looks at
  the wrong switch: `HomedRight` fails as soon as it is not left out. Index
  homings count latches of an aborted run on (2821). Sequences 7 to 10 end
  without homing and without error on an axis that moves (1590).
- Sequence 15 sets a position without telling a CSP drive (723): an enabled axis
  jumps, and `NoJump` leaves it out. The hand-over after a homing with another encoder
  is off by the difference of the raw registers; `NoJump` allows this and no more.
- Encoder: `rawRange_` is one short of the register's size (`ecmcEncoder.cpp:322`),
  each wrap costs a count; a latch in the cycle of a lap with a wrap is off by a
  turn (450); `masterOKOld_` is never cleared, so long travel during a loss of the
  bus counts as a wrap (580). `initFilter()` fills with zeros (`ecmcFilter.cpp:109`).
- Process image: values of two to four bits that do not begin with a byte are written
  elsewhere, inputs of that size that reach beyond their byte are read in part, and
  entries added after the configuration was applied are written elsewhere.
- Objects: a failed upload counts as a 0, so a 0 is verified by a slave that does
  not answer (`ecmcEcSDO.cpp:300`).
- Commands that do not look at `blockExtCom`: `setAxisEnableSoftLimitBwd`,
  `setAxisEmergDeceleration` and the others in `KnownThrough`.
- Parameters: the rate of a first record that gave none is never shortened, and a
  record at the rate of a PLC gets slower (`ecmcAsynDataItem.cpp:342`): its time is
  counted in updates of the data, the shortened one in cycles
  (`ecmcAsynPortDriver.cpp:1031`). The same happens to a first record that asks for
  less than the time between two updates. `Promised` leaves the three out.
- Storage: `setBufferSize()` keeps the index, which may then be behind the end
  (`ecmcDataStorage.cpp:127`); the model stops there. `setData()` that is refused
  has moved the index (228).
- PLC: the lines of a program are added again by a start after a failed one
  (`ecmcPLCMain.cpp:155`). Lines that are appended to a compiled program are dropped by
  the next start (`ecmcPLCMain.cpp:154`, `ecmcPLCTask.cpp:157-159`), and the expression
  of a set command by lines appended before it; `RunsWhatWasLoaded` says nothing then
  until the shell has cleared them and loaded again. A refused motion consumes its edge.
  `mc_halt()` never lowers its flag, so that only its first edge is one; while another
  caller holds the flag of a function up, an edge does nothing.

## Not modelled, and why

Floating point (PID terms, filters, S-curves by the library ruckig), texts and
logging, configuration getters and setters that only store a value, expressions
themselves, files, dynamic loading of plugins. The master library, exprtk and asyn
are external. `ecmcError.cpp` is a table of texts and a code; `ecmcAxisVirt` is the
cycle of the real axis without drive and controller. Within the modelled
components: modulo motion, jog and relative motion, the velocity controller, the
asyn control word, switch filters but for homing, the correction of an encoder
overflow between two latches of a homing, reset pulses and hardware warnings of
the drives, SoE objects, profile moves of the motor record. `PROJECT.json` says it
for each component.

## Plan

Done in this order because a wrong brake, interlock, set point or reference
moves hardware: drives, modes and locks, monitor, trajectory and axis, homing;
then what tells the axis the truth: encoder and bus; then what commands it and
reports it: commands, parser, parameters, motor record, PLC, storage and events.

Next modules: `AxisBus`, the cycle of `Axis` with the answer of `EcBus` and the
encoder of `Encoder` in place of their inputs; the asyn control word as a third
client of an axis; modulo motion in `Trapetz`; `PlcData` with two PLCs and the
cycle of `Axis`; `Homing` with an overflow of the register between two latches.

Next theorems: `NoJump` of `Homing` with the lemmas of `Smooth`; `OverrunBounded` for ramps
in units so fine that the tolerance counts; the scans of `PlcSafe` without its program.
