------------------------------- MODULE Monitor -------------------------------
(***************************************************************************)
(* The monitoring of an axis (motion/ecmcMonitor.cpp): limit switches,     *)
(* soft limits, position lag, velocity and controller output raise the     *)
(* interlocks of the axis in every cycle.  The cycle is the one of         *)
(* ecmcAxisReal::execute(): the trajectory generator moves on before the   *)
(* monitor is executed, so it obeys what the cycle before has found.       *)
(***************************************************************************)
EXTENDS Integers, Interlocks

CONSTANTS
    LagTime,            \* posLagTime_
    MaxVelTrajTime,     \* maxVelTrajILDelay_
    MaxVelDriveTime,    \* maxVelDriveILDelay_
    VelDiffTrajTime,    \* velDiffTimeTraj_
    VelDiffDriveTime,   \* velDiffTimeDrive_
    AtTargetTime,       \* atTargetTime_
    Monitors,           \* the monitoring functions that are enabled
    Varying,            \* the inputs that change, the others are quiet
    Events,             \* what may happen between cycles
    Horizon             \* bound of velocityDiffCounter_, for TLC
MonitorFunctions == {"lag", "maxVel", "output", "velocityDiff", "atTarget", "hardware"}
Times == {LagTime, MaxVelTrajTime, MaxVelDriveTime, VelDiffTrajTime,
          VelDiffDriveTime, AtTargetTime}

ASSUME MonitorAssumption ==
    /\ Times \subseteq Nat
    /\ Monitors \subseteq MonitorFunctions
    /\ Horizon \in Nat /\ Horizon > VelDiffTrajTime /\ Horizon > VelDiffDriveTime

VARIABLES
    in,           \* the inputs of the last cycle
    flags,        \* the interlocks of the axis
    summary,      \* their summary, as refreshed last
    seen,         \* the summary that the trajectory obeyed in the last cycle
    counter,      \* lagMonCounter_, velocityDiffCounter_, maxVelCounterTraj_,
                  \* maxVelCounterDrive_ and atTargetCounter_
    atTarget,
    error,        \* the monitor or the axis has an error
    enable,       \* enable_, the axis was controlled in the last cycle
    latchOnLimit,
    alarm,        \* enableAlarmAtHardlimitBwd_ and Fwd_
    since,        \* history: for how many cycles a condition has held
    held,         \* history: the stops that were asked for and not released
    last          \* "cycle", or a command that came after it

vars == <<in, flags, summary, seen, counter, atTarget, error, enable,
          latchOnLimit, alarm, since, held, last>>

Vary(name, quiet, all) == IF name \in Varying THEN all ELSE {quiet}

\* bwd and fwd: the switches are closed.  vel: the sign of the actual velocity.
\* pos: the setpoint is beyond the enabled soft limit at this end and the axis
\* is not homing.  settled: the
\* controller error is within the tolerance and the setpoint at the target.
Inputs ==
    [bwd : Vary("bwd", TRUE, BOOLEAN), fwd : Vary("fwd", TRUE, BOOLEAN),
     vel : Vary("vel", 0, -1..1), moving : Vary("vel", FALSE, BOOLEAN),
     pos : Vary("pos", 0, -1..1),
     lag : Vary("lag", FALSE, BOOLEAN), diff : Vary("diff", FALSE, BOOLEAN),
     over : Vary("over", FALSE, BOOLEAN), high : Vary("high", FALSE, BOOLEAN),
     settled : Vary("settled", TRUE, BOOLEAN), encDiff : Vary("encDiff", FALSE, BOOLEAN),
     stopping : Vary("stopping", FALSE, BOOLEAN),
     hardware : Vary("hardware", FALSE, BOOLEAN),
     enabled : Vary("enabled", TRUE, BOOLEAN), master : Vary("master", TRUE, BOOLEAN)]

Quiet == CHOOSE i \in Inputs :
    i.bwd /\ i.fwd /\ i.vel = 0 /\ ~i.moving /\ i.pos = 0
    /\ ~(i.lag \/ i.diff \/ i.over \/ i.high \/ i.encDiff \/ i.stopping \/ i.hardware)
    /\ i.settled /\ i.enabled /\ i.master

Counters == {"lag", "velocityDiff", "maxVelTraj", "maxVelDrive", "atTarget"}

\* Where the code stops to count.
Bound == [lag |-> 2 * LagTime + 1, velocityDiff |-> Horizon, maxVelTraj |-> MaxVelTrajTime + 1,
          maxVelDrive |-> MaxVelDriveTime + 1, atTarget |-> AtTargetTime + 1]

\* What is counted as history, in cycles up to a bound.  With power and monitored: a
\* lag, an overspeed, a difference of velocities; fast since an overspeed has lasted for
\* its time, and until the power is lost.  apart is the difference with or without power.
Conditions == [lag |-> Bound.lag, over |-> Bound.maxVelTraj, fast |-> MaxVelDriveTime + 2,
               diff |-> Horizon, apart |-> Horizon, settled |-> Bound.atTarget]

Init ==
    /\ in = Quiet
    /\ flags = {}
    /\ summary = Summary({})
    /\ seen = Summary({})
    /\ counter = [c \in Counters |-> 0]
    /\ atTarget = FALSE
    /\ error = FALSE
    /\ enable = FALSE
    /\ latchOnLimit = TRUE
    /\ alarm = {}
    /\ since = [c \in DOMAIN Conditions |-> 0]
    /\ held = {}
    /\ last = "command"

-----------------------------------------------------------------------------
(* The checks of one cycle, on the interlocks F, the inputs i and the      *)
(* counters k.  Each returns the interlocks that it leaves.                *)

\* enabled and enabledOld
Running(i) == i.enabled /\ in.enabled

\* Mutant: standing counts as moving away.
BwdLimitStanding(F, i) ==
    With(F, "bwdLimit", \/ ~i.bwd
                        \/ latchOnLimit /\ "bwdLimit" \in F /\ i.moving /\ i.vel < 0)

BwdLimit(F, i) ==
    With(F, "bwdLimit", \/ ~i.bwd
                        \/ latchOnLimit /\ "bwdLimit" \in F /\ i.moving /\ i.vel <= 0)
FwdLimit(F, i) ==
    With(F, "fwdLimit", \/ ~i.fwd
                        \/ latchOnLimit /\ "fwdLimit" \in F /\ i.moving /\ i.vel >= 0)

SoftLimits(F, i) ==
    With(With(F, "bwdSoftLimit", i.pos = -1 /\ Running(i)),
              "fwdSoftLimit", i.pos = 1 /\ Running(i))

\* An error is returned at once, and what is not checked stays as it was.
LimitError(i) ==
    \/ ~i.bwd /\ (~i.fwd \/ "bwd" \in alarm)
    \/ ~i.fwd /\ "fwd" \in alarm
\* Mutant: the alarm is raised before the interlock.
CheckLimitsAlarmFirst(F, i) ==
    LET both == With(F, "bothLimitsLow", ~i.bwd /\ ~i.fwd)
        fwd  == FwdLimit(BwdLimit(both, i), i)
    IN  IF LimitError(i) THEN both ELSE SoftLimits(fwd, i)

CheckLimits(F, i) ==
    LET both == With(F, "bothLimitsLow", ~i.bwd /\ ~i.fwd)
        bwd  == BwdLimit(both, i)
        fwd  == FwdLimit(bwd, i)
    IN  IF ~i.bwd /\ ~i.fwd THEN both
        ELSE IF ~i.bwd /\ "bwd" \in alarm THEN bwd
        ELSE IF ~i.fwd /\ "fwd" \in alarm THEN fwd
        ELSE SoftLimits(fwd, i)

\* Mutant: the count goes on where it was left.
AtTargetCountKept(i, k) ==
    IF "atTarget" \notin Monitors \/ ~i.enabled \/ ~i.settled THEN k
    ELSE IF k <= AtTargetTime THEN k + 1 ELSE k

AtTargetCount(i, k) ==
    IF "atTarget" \notin Monitors \/ ~i.enabled THEN k
    ELSE IF ~i.settled THEN 0 ELSE IF k <= AtTargetTime THEN k + 1 ELSE k
AtTarget(i, k) == "atTarget" \in Monitors /\ i.enabled => i.settled /\ k > AtTargetTime

LagCount(i, k) ==
    IF "lag" \notin Monitors THEN k
    ELSE IF ~(i.lag /\ Running(i)) THEN 0
    ELSE IF k <= 2 * LagTime THEN k + 1 ELSE k
Lagging(i) == "lag" \in Monitors /\ i.lag /\ Running(i)
CheckPositionLag(F, i, k) ==
    With(With(F, "lagTraj", Lagging(i) /\ k > LagTime),
              "lagDrive", Lagging(i) /\ k >= 2 * LagTime)

MaxVelTrajCount(i, k) ==
    IF ~(Running(i) /\ i.over /\ "maxVel" \in Monitors) THEN 0
    ELSE IF k <= MaxVelTrajTime THEN k + 1 ELSE k
\* Mutant: one cycle early.
MaxVelTrajEarly(F, i, k) ==
    With(F, "maxVelocityTraj",
         Running(i) /\ ("maxVelocityTraj" \in F \/ (k > 0 /\ k >= MaxVelTrajTime - 1)))

MaxVelTraj(F, i, k) ==
    With(F, "maxVelocityTraj",
         Running(i) /\ ("maxVelocityTraj" \in F \/ k >= MaxVelTrajTime))
MaxVelDriveCount(F, k) ==
    IF "maxVelocityTraj" \in F /\ k <= MaxVelDriveTime THEN k + 1 ELSE 0
MaxVelDrive(F, k) ==
    With(F, "maxVelocityDrive", "maxVelocityTraj" \in F /\ k >= MaxVelDriveTime)

CheckCntrlMaxOutput(F, i) ==
    IF ~Running(i) THEN F \ {"cntrlOutputHLDrive", "cntrlOutputHLTraj"}
    ELSE IF "output" \in Monitors /\ i.high
    THEN F \cup {"cntrlOutputHLDrive", "cntrlOutputHLTraj"} ELSE F

\* Counts from 0 in every cycle when the monitoring is not enabled.
VelDiffCount(i, k) ==
    IF ~i.diff THEN 0
    ELSE IF "velocityDiff" \notin Monitors \/ ~Running(i) THEN 1
    ELSE IF k = Horizon THEN k ELSE k + 1
CheckVelocityDiff(F, k) ==
    With(With(F, "velocityDiffTraj", k > VelDiffTrajTime),
              "velocityDiffDrive", k > VelDiffDriveTime)

-----------------------------------------------------------------------------
(* One cycle.                                                              *)

Min2(a, b) == IF a < b THEN a ELSE b
Since(c, holds) == IF holds THEN Min2(since[c] + 1, Conditions[c]) ELSE 0

TooFast(i) == "maxVel" \in Monitors /\ i.over /\ Running(i)
Differs(i) == "velocityDiff" \in Monitors /\ i.diff /\ Running(i)
Lasted(over) == over > 0 /\ over >= MaxVelTrajTime

\* The state of the bus is refreshed, the interlock input only read.  The
\* trajectory generator refreshes again when it runs without execute.
Read(i) == With(With(flags, "etherCatMaster", ~i.master), "hardware",
                IF "hardware" \in Monitors THEN i.hardware ELSE "hardware" \in flags)
Moved(i) == With(Read(i), "noExecute", i.stopping \/ "noExecute" \in flags)
\* Mutant: the summary is not refreshed before the cycle.
SeenStale(i) == IF i.stopping THEN Summary(Moved(i)) ELSE summary

Seen(i) == IF i.stopping THEN Summary(Moved(i))
            ELSE Summary(With(flags, "etherCatMaster", ~i.master))

\* monitor.execute(): the counters and the interlocks after it
Counted(i, F) ==
    [lag          |-> LagCount(i, counter.lag),
     velocityDiff |-> VelDiffCount(i, counter.velocityDiff),
     maxVelTraj   |-> MaxVelTrajCount(i, counter.maxVelTraj),
     maxVelDrive  |-> MaxVelDriveCount(MaxVelTraj(F, i, MaxVelTrajCount(i, counter.maxVelTraj)),
                                       counter.maxVelDrive),
     atTarget     |-> AtTargetCount(i, counter.atTarget)]
Checked(i, F, k) ==
    LET lagged == CheckPositionLag(CheckLimits(F, i), i, k.lag)
        fast   == MaxVelDrive(MaxVelTraj(With(lagged, "encDiff", i.encDiff), i, k.maxVelTraj),
                              k.maxVelDrive)
    IN  CheckVelocityDiff(CheckCntrlMaxOutput(fast, i), k.velocityDiff)

ErrorFlags == {"lagTraj", "lagDrive", "maxVelocityTraj", "maxVelocityDrive",
               "velocityDiffTraj", "velocityDiffDrive"}
\* Mutant: only the interlock of the trajectory is an error.
FailsTraj(i, F) ==
    LimitError(i) \/ AnyOf(F, {"lagTraj", "maxVelocityTraj", "velocityDiffTraj"})

Fails(i, F) ==
    \/ LimitError(i)
    \/ "hardware" \in Monitors \cap F /\ enable
    \/ AnyOf(F, ErrorFlags)
    \/ Running(i) /\ i.high /\ "output" \in Monitors
    \/ ~i.master

\* One switch opened, or it was open and the axis still moves towards it.
Asked(switch, other, h, towards) == (~switch /\ other) \/ (h \in held /\ towards)

Cycle ==
    \E i \in Inputs :
        /\ in.vel # 0 => i.moving
        /\ LET k == Counted(i, Moved(i))
               F == Checked(i, Moved(i), k)
           IN  /\ counter' = k
               /\ flags' = F
               /\ summary' = Summary(F)
               /\ atTarget' = AtTarget(i, k.atTarget)
               /\ error' = (error \/ Fails(i, F))
        /\ in' = i
        /\ seen' = Seen(i)
        /\ enable' = (i.enabled /\ i.master)
        /\ since' = [lag     |-> Since("lag", Lagging(i)),
                     over    |-> Since("over", TooFast(i)),
                     fast    |-> Since("fast", Running(i)
                                    /\ (since.fast > 0 \/ Lasted(Since("over", TooFast(i))))),
                     diff    |-> Since("diff", Differs(i)),
                     apart   |-> Since("apart", i.diff),
                     settled |-> IF ~i.enabled THEN since.settled
                                 ELSE Since("settled", "atTarget" \in Monitors /\ i.settled)]
        /\ held' = {h \in {"bwd", "fwd"} :
                    \/ h = "bwd" /\ Asked(i.bwd, i.fwd, h, i.moving /\ i.vel <= 0)
                    \/ h = "fwd" /\ Asked(i.fwd, i.bwd, h, i.moving /\ i.vel >= 0)}
        /\ last' = "cycle"
        /\ UNCHANGED <<latchOnLimit, alarm>>

-----------------------------------------------------------------------------
(* Commands, between two cycles.                                           *)

\* setReset(): the errors, the counters and all interlocks are cleared.
Reset ==
    /\ "reset" \in Events
    /\ flags' = {}
    /\ summary' = Summary({})
    /\ counter' = [c \in Counters |-> 0]
    /\ atTarget' = FALSE
    /\ error' = FALSE
    /\ since' = [c \in DOMAIN Conditions |-> 0]
    /\ held' = {}
    /\ last' = "command"
    /\ UNCHANGED <<in, seen, enable, latchOnLimit, alarm>>

\* A new motion clears the interlock of the missing execute.
StartMotion ==
    /\ "start" \in Events
    /\ flags' = flags \ {"noExecute"}
    /\ summary' = Summary(flags')
    /\ last' = "command"
    /\ UNCHANGED <<in, seen, counter, atTarget, error, enable, latchOnLimit, alarm, since, held>>

SetPLCInterlock ==
    /\ \E flag \in Events \cap {"plc", "plcBWD", "plcFWD"}, on \in BOOLEAN :
        flags' = With(flags, flag, on)
    /\ last' = "command"
    /\ UNCHANGED <<in, summary, seen, counter, atTarget, error, enable, latchOnLimit, alarm, since, held>>

SetLatchAtLimit ==
    /\ "latch" \in Events
    /\ latchOnLimit' = ~latchOnLimit
    /\ held' = {}
    /\ last' = "command"
    /\ UNCHANGED <<in, flags, summary, seen, counter, atTarget, error, enable, alarm, since>>

SetEnableHardLimitAlarm ==
    /\ "alarm" \in Events
    /\ alarm' \in SUBSET {"bwd", "fwd"}
    /\ last' = "command"
    /\ UNCHANGED <<in, flags, summary, seen, counter, atTarget, error, enable, latchOnLimit, since, held>>

Next == Cycle \/ Reset \/ StartMotion \/ SetPLCInterlock \/ SetLatchAtLimit
        \/ SetEnableHardLimitAlarm

Spec == Init /\ [][Next]_vars

-----------------------------------------------------------------------------
TypeOK ==
    /\ in \in Inputs
    /\ flags \subseteq Flags
    /\ summary \in Summaries
    /\ seen \in Summaries
    /\ \A c \in Counters : counter[c] \in 0..Bound[c]
    /\ atTarget \in BOOLEAN /\ error \in BOOLEAN /\ enable \in BOOLEAN
    /\ latchOnLimit \in BOOLEAN
    /\ alarm \subseteq {"bwd", "fwd"}
    /\ \A c \in DOMAIN Conditions : since[c] \in 0..Conditions[c]
    /\ held \subseteq {"bwd", "fwd"}
    /\ last \in {"cycle", "command"}

\* After every cycle an open limit switch interlocks the motion towards it and
\* two open switches the drive, whatever the early returns of checkLimits()
\* leave out.
LimitBlocks ==
    last = "cycle" =>
        /\ ~in.bwd => summary.bwd
        /\ ~in.fwd => summary.fwd
        /\ ~in.bwd /\ ~in.fwd => summary.drive /\ summary.stop = "emergency"

\* The motion has to stop even if a limit switch is open for one cycle only:
\* until the axis stands or moves away the trajectory generator obeys, unless
\* the axis is reset or the latch is switched off.
BounceStops ==
    [][last' = "cycle" /\ latchOnLimit =>
        /\ "bwd" \in held => seen'.bwd
        /\ "fwd" \in held => seen'.fwd]_vars

\* Whatever the monitor has found in the cycle before or the PLC has asked for
\* since, the trajectory generator obeys in the next cycle.
FoundIsObeyed ==
    [][last' = "cycle" =>
        LET found == flags \ {"etherCatMaster"}
        IN  /\ AnyOf(found, DriveFlags \cup TrajFlags \cup BwdFlags) => seen'.bwd
            /\ AnyOf(found, DriveFlags \cup TrajFlags \cup FwdFlags) => seen'.fwd]_vars

\* A lag, an overspeed and a difference of velocities are interlocked when they have
\* lasted for their times, not earlier and not later, and the drive no earlier than the
\* trajectory.  What checkMaxVelocity() and checkVelocityDiff() make of it otherwise:
\*  - with a delay of 0 an overspeed is interlocked at once, but so is any axis with
\*    power, and the delay of the drive runs from there;
\*  - the counter of the drive starts again when it has passed its delay, which takes the
\*    interlock of the drive back: it is promised for the two cycles in between;
\*  - the last cycle before the power counts as one of the difference of velocities.
OverspeedPunctual ==
    /\ Lasted(since.over) => "maxVelocityTraj" \in flags
    /\ "maxVelocityDrive" \in flags => "maxVelocityTraj" \in flags
    /\ MaxVelTrajTime > 0 =>
        /\ "maxVelocityTraj" \in flags <=> since.fast > 0
        /\ "maxVelocityDrive" \in flags => since.fast >= MaxVelDriveTime
        /\ since.fast > 0 /\ since.fast \in MaxVelDriveTime..(MaxVelDriveTime + 1)
               => "maxVelocityDrive" \in flags
Punctual ==
    last = "cycle" =>
        /\ "lagTraj" \in flags <=> since.lag > LagTime
        /\ "lagDrive" \in flags <=> since.lag > 0 /\ since.lag >= 2 * LagTime
        /\ OverspeedPunctual
        /\ "velocityDiffTraj" \in flags
               <=> since.diff >= VelDiffTrajTime /\ since.apart > VelDiffTrajTime
        /\ "velocityDiffDrive" \in flags
               <=> since.diff >= VelDiffDriveTime /\ since.apart > VelDiffDriveTime

\* An interlock that takes the power of the axis leaves an error that tells so,
\* until the error is reset.
PowerLossExplained ==
    AnyOf(flags, DriveFlags \ {"hardware"}) => error

\* An enabled axis is at its target only when it has been within the tolerance
\* for the configured number of cycles, those without power left out.
AtTargetSettled ==
    atTarget /\ "atTarget" \in Monitors /\ in.enabled => since.settled > AtTargetTime
=============================================================================
