-------------------------------- MODULE Axis --------------------------------
(***************************************************************************)
(* A real axis (motion/ecmcAxisReal.cpp on motion/ecmcAxisBase.cpp) with   *)
(* its sequencer (motion/ecmcAxisSequencer.cpp, without homing), its       *)
(* trajectory generator and the limit switches at both ends.  Commands     *)
(* come between two cycles, under the lock of the realtime thread.  The    *)
(* drive is in CSP mode and follows the setpoint of the cycle before, and  *)
(* the bus is OK throughout.                                               *)
(***************************************************************************)
EXTENDS Motion

CONSTANTS
    BwdSwitch, FwdSwitch,   \* where the limit switches open
    Start,                  \* where the axis is when the program starts
    Targets, Velocities,    \* what motions are commanded with: where, and how fast
    Commands,               \* which commands are given, and what else may happen
    Gap,                    \* bound: how many commands between two cycles
    AllowSourceChange,      \* allowSourceChangeWhenEnbaled_
    First, Last,            \* bounds of the external setpoint
    PlcStep                 \* bound: how far the PLC moves it in a cycle

ASSUME AxisAssumption ==
    /\ {BwdSwitch, FwdSwitch, Start, First, Last} \subseteq Int /\ BwdSwitch < FwdSwitch
    /\ Targets \subseteq Int
    /\ Velocities \subseteq Nat \ {0}
    /\ \E v \in Velocities : \A w \in Velocities : w <= v
    /\ Gap \in Nat /\ PlcStep \in Nat
    /\ AllowSourceChange \in BOOLEAN

VARIABLES
    axis,      \* the axis with its command and its status
    external,  \* the setpoint that the PLC calculates
    order,     \* history: the last accepted position that nothing has cut short
    counter,   \* cycleCounter_, modulo 2
    given      \* the number of commands since the last cycle

vars == <<axis, external, order, counter, given>>

\* source, execute, enable, command, pos and velocity are the command of the
\* axis, out is the position written to the drive and enabled its answer.
Init ==
    /\ axis = [traj |-> Idle, flags |-> {}, source |-> "internal", execute |-> FALSE,
               enable |-> FALSE, enableOld |-> FALSE, command |-> "pos", pos |-> 0,
               velocity |-> 0, setpoint |-> 0, actual |-> Start,
               speed |-> 0, out |-> Start, enabled |-> FALSE, busy |-> FALSE, executeOld |-> FALSE,
               startup |-> TRUE, first |-> FALSE, ramping |-> FALSE, error |-> FALSE]
    /\ external = Start
    /\ order = {}
    /\ counter = 0
    /\ given = 0

-----------------------------------------------------------------------------
(* The operations of the axis on its record.                               *)

\* The trajectory starts where the axis is.
Synchronised(a) ==
    [a EXCEPT !.traj = SetTargetPos(SetCurrentPosSet([@ EXCEPT !.start = a.actual], a.actual),
                                    a.actual),
              !.setpoint = a.actual, !.first = TRUE]

SetEnable(a, on) ==
    LET b == IF on THEN Synchronised(a) ELSE SetExecute(a, FALSE)
    IN  IF on = a.enable THEN a
        ELSE [b EXCEPT !.traj = SetTrajEnable(@, on), !.enableOld = a.enable, !.enable = on]

SetReset(a) == [a EXCEPT !.error = FALSE, !.flags = {}]

SetTrajDataSourceType(a, source) ==
    IF source = a.source THEN a
    ELSE IF source = "internal"
    THEN [a EXCEPT !.source = source, !.traj.start = a.actual, !.busy = @ /\ a.enable,
                   !.execute = @ /\ a.enable]
    ELSE IF a.enable /\ ~AllowSourceChange THEN [a EXCEPT !.error = TRUE]
    ELSE [a EXCEPT !.source = source, !.flags = @ \ {"noExecute"}, !.busy = TRUE,
                   !.execute = TRUE]

MoveAbsolutePosition(a, pos, vel) ==
    LET b == [SetExecute(a, FALSE) EXCEPT !.command = "pos"]
    IN  IF ~Internal(a) \/ (a.error /\ ~OnTheFly(a, "pos")) THEN a
        ELSE IF OnTheFly(a, "pos") THEN SeqSetTargetPos(SeqSetTargetVel(a, vel), pos)
        ELSE SetExecute(SeqSetTargetPos(SeqSetTargetVel(b, vel), pos), TRUE)

MoveVelocity(a, vel) ==
    LET b == [SetExecute(a, FALSE) EXCEPT !.command = "vel"]
    IN  IF ~Internal(a) \/ a.error THEN a
        ELSE IF OnTheFly(a, "vel") THEN SeqSetTargetVel(a, vel)
        ELSE SetExecute(SeqSetTargetVel(b, vel), TRUE)

StopMotion(a, kill) ==
    LET b == SetExecute(a, FALSE) IN IF kill THEN SetEnable(b, FALSE) ELSE b

-----------------------------------------------------------------------------
(* The cycle, in the order of ecmcAxisReal::execute().                     *)

\* An axis that starts up is disabled.
PreExecute(a) == IF a.startup THEN [SetEnable(a, FALSE) EXCEPT !.startup = FALSE] ELSE a

\* The generator is called only when the setpoint is its own.
NextSetpoint(a) ==
    IF Internal(a) THEN OwnSetpoint(a)
    ELSE [a EXCEPT !.setpoint = external, !.flags = @ \ {"noExecute"}]

\* Encoder and sequencer.
Follow(a) ==
    [a EXCEPT !.actual = a.out, !.speed = a.out - a.actual, !.traj.start = a.setpoint,
              !.busy = Internal(a) => a.traj.busy]

CheckLimits(a, moving) ==
    LET bwd == LimitInterlock(a.flags, "bwdLimit", a.actual <= BwdSwitch, moving /\ a.speed <= 0)
    IN  [a EXCEPT !.flags = LimitInterlock(bwd, "fwdLimit", a.actual >= FwdSwitch,
                                           moving /\ a.speed >= 0)]

\* An external setpoint towards an interlocked side is replaced by a stop ramp.
TrajLock(a) ==
    \/ Summary(a.flags).fwd /\ a.setpoint > axis.setpoint
    \/ Summary(a.flags).bwd /\ a.setpoint < axis.setpoint
LockTrajectory(a) ==
    LET start == IF a.ramping THEN a.traj
                 ELSE InitStopRamp([a.traj EXCEPT !.start = a.actual], a.actual, a.speed)
        traj  == GetNextPosSet(start, Summary(a.flags), TRUE)
    IN  IF Internal(a) \/ ~TrajLock(a) THEN [a EXCEPT !.ramping = FALSE]
        ELSE [a EXCEPT !.ramping = TRUE, !.traj = traj, !.setpoint = traj.pos]

\* Without the drive the execute is taken back.  The loss of the drive is an
\* error, if enableOld tells that the axis had been enabled before.
Lost(a, enabledOld) == enabledOld /\ ~a.enabled /\ a.enableOld /\ a.enable
Control(a, enabledOld) ==
    LET b == IF GetExecute(a) THEN SetExecute(a, FALSE) ELSE a
        c == IF ~a.enable /\ ~a.first
             THEN [b EXCEPT !.setpoint = a.actual, !.traj.start = a.actual] ELSE b
        d == IF Lost(a, enabledOld) THEN [SetEnable(c, FALSE) EXCEPT !.error = TRUE] ELSE c
    IN  IF GetEnabled(a) THEN [a EXCEPT !.out = a.setpoint]
        ELSE [d EXCEPT !.out = a.actual]

PostExecute(a) == [a EXCEPT !.executeOld = GetExecute(a)]

Moving(a) == a.speed # 0 \/ a.traj.busy

\* The motion to a position is cut short by the loss of the drive and by a limit
\* switch, on its way or in the way of the present motion.
CutShort(pos) ==
    LET flags == axis.flags \cup axis'.flags
    IN  \/ ~GetEnabled(axis')
        \/ "fwdLimit" \in flags /\ (pos > axis.setpoint \/ axis'.setpoint > axis.setpoint)
        \/ "bwdLimit" \in flags /\ (pos < axis.setpoint \/ axis'.setpoint < axis.setpoint)

\* The PLC is executed after the axis.  It follows the axis until it has control
\* and then moves by steps of its own.
PLCSetpoint(a) ==
    IF ~GetEnabled(a) \/ Internal(a) THEN {a.actual}
    ELSE {external} \cup ((external - PlcStep)..(external + PlcStep) \cap First..Last)

Cycle ==
    \E enabled \in BOOLEAN :
        /\ enabled => axis.enable
        /\ enabled \/ ~GetEnabled(axis) \/ "lost" \in Commands
        /\ \E pre \in {PreExecute(axis)} :
           \E next \in {NextSetpoint([pre EXCEPT !.enabled = enabled])} :
           \E checked \in {CheckLimits(Follow(next), Moving(pre))} :
           \E locked \in {LockTrajectory(checked)} :
           \E controlled \in {Control(locked, axis.enabled)} :
               axis' = PostExecute(controlled)
        /\ external' \in PLCSetpoint(axis')
        /\ order' = {pos \in order : ~CutShort(pos)}
        /\ counter' = 1 - counter
        /\ given' = 0

-----------------------------------------------------------------------------
(* The commands, between two cycles.                                       *)

Command(name, a) ==
    /\ name \in Commands /\ given < Gap
    /\ axis' = a
    /\ given' = given + 1
    /\ UNCHANGED <<external, counter>>

Accepted == Internal(axis) /\ (OnTheFly(axis, "pos") \/ ~(axis.error \/ axis'.error))
\* A client that waits for the drive before it moves the axis.
Ready == "waiting" \in Commands \/ GetEnabled(axis)
CommandPosition == \E pos \in Targets, vel \in Velocities :
    /\ Ready /\ Command("move", MoveAbsolutePosition(axis, pos, vel))
    /\ order' = IF Accepted THEN {pos} ELSE {}
CommandVelocity == \E vel \in Velocities, sign \in {-1, 1} :
    Ready /\ Command("velocity", MoveVelocity(axis, sign * vel)) /\ order' = {}
Stop   == Command("stop", StopMotion(axis, FALSE)) /\ order' = {}
Kill   == Command("kill", StopMotion(axis, TRUE)) /\ order' = {}
Enable == \E on \in BOOLEAN : Command("enable", SetEnable(axis, on)) /\ order' = {}
Execute == \E on \in BOOLEAN : (on => Ready) /\ Command("execute", SetExecute(axis, on)) /\ order' = {}
\* Bound: the axis is disabled when it goes back to its own trajectory.
Source == \E source \in {"internal", "external"} :
    /\ source = "internal" => ~axis.enable
    /\ Command("source", SetTrajDataSourceType(axis, source))
    /\ order' = {}
\* Bound: a reset is given to an axis that stands.
Reset ==
    /\ axis.error /\ ~axis.busy
    /\ Command("reset", SetReset(axis))
    /\ UNCHANGED order

Next == Cycle \/ CommandPosition \/ CommandVelocity \/ Stop \/ Kill \/ Enable \/ Execute \/ Source \/ Reset

\* The realtime thread never stops.
Spec == Init /\ [][Next]_vars /\ []<>(counter = 0) /\ []<>(counter = 1)

-----------------------------------------------------------------------------
Speed == CHOOSE v \in Velocities : \A w \in Velocities : w <= v

\* The largest velocity, also that of a ramp that turns, and the largest step: an
\* arrival is a step of its own.
Top  == IF Speed + ACC > DEC THEN Speed + ACC - 1 ELSE DEC - 1
Step == IF Top > 3 * DEC THEN Top ELSE 3 * DEC

\* How far a stop takes: two cycles until the switch is seen, the ramp down, and the
\* step that a stop leaves to the next motion.
Ramps == (Top - 1) \div DEC
RampDown == Ramps * Top - DEC * ((Ramps * (Ramps + 1)) \div 2)
Brake == 2 * Step + DEC - 1 + RampDown
Reach == (BwdSwitch - Brake)..(FwdSwitch + Brake)

TypeOK ==
    /\ axis.traj \in [enable : BOOLEAN, execute : BOOLEAN, busy : BOOLEAN, mode : {"pos", "vel"},
                      start : Reach \cup First..Last, pos : Reach, local : Reach,
                      target : Reach \cup Targets,
                      vel : -Speed..Speed, nom : -Step..Step, prev : -Top..Top,
                      dist : -(Top * Top)..(Top * Top)]
    /\ axis.flags \subseteq {"noExecute", "fwdLimit", "bwdLimit"}
    /\ {axis.actual, axis.out} \subseteq Reach
    /\ external \in Reach \cup First..Last
    /\ order \subseteq Targets
    /\ counter \in 0..1 /\ given \in 0..Gap

\* However often a motion is commanded, and whatever target is put under a running ramp,
\* neither the setpoint nor any position of the generator gets further past a limit
\* switch than one stop takes, and no step or velocity gets larger than those of one
\* motion (ecmcTrajectoryTrapetz.cpp, ecmcAxisReal.cpp).
OverrunBounded == TypeOK /\ axis.setpoint \in Reach

\* Once a motion has lost its execute, or an external setpoint is replaced by a
\* stop ramp, every cycle slows it until it ends, whatever is commanded meanwhile
\* short of a new motion.
Stopping == (Internal(axis) /\ ~axis.traj.execute) \/ (axis.ramping /\ axis'.ramping)
StopSlows ==
    [][counter' # counter /\ Stopping /\ axis.traj.busy /\ axis'.traj.busy
        => Size(axis'.traj.prev) < Size(axis.traj.prev)]_vars

\* The position written to an enabled drive never jumps: not when a motion starts
\* or changes on the fly, nor when a stop ramp takes over from the PLC and gives
\* back to it.
Smooth ==
    [][counter' # counter /\ GetEnabled(axis) /\ GetEnabled(axis')
        => Size(axis'.out - axis.out) <= (IF Internal(axis) THEN Step ELSE PlcStep)]_vars

\* An accepted motion to a position ends at rest there, setpoint and axis, however
\* the target and the velocity are changed under it, unless it is cut short: by a
\* stop, another motion, a change of enable or source, the loss of the drive or a
\* switch (MoveAbsolutePosition, InternalTraj).
AtRest(pos) == axis.setpoint = pos /\ axis.actual = pos /\ ~axis.busy /\ ~axis.traj.busy
MoveArrives == \A pos \in Targets : order = {pos} ~> order # {pos} \/ AtRest(pos)

\* The setpoint of an axis does not change between enable and enabled: the comment
\* in ecmcAxisReal::execute().
SetpointHeld ==
    [][counter' # counter /\ Internal(axis) /\ axis.enable /\ axis'.enable /\ ~axis'.enabled
        => axis'.setpoint = axis.setpoint]_vars
=============================================================================
