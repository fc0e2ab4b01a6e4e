------------------------------- MODULE Homing -------------------------------
(***************************************************************************)
(* The homing sequences of an axis (motion/ecmcAxisSequencer.cpp) in the   *)
(* cycle of motion/ecmcAxisReal.cpp: limit switches, a home sensor and an  *)
(* index latch along the way of the axis, one or two encoders, and a drive *)
(* in CSP mode that follows its raw setpoint one cycle later.  The axis is *)
(* enabled throughout.  Backward is -1 and forward is 1; a sequence and    *)
(* its mirror image are one definition with the direction as parameter.    *)
(***************************************************************************)
EXTENDS Motion, Sequences, FiniteSets

CONSTANTS
    BwdSwitch, FwdSwitch,   \* where the limit switches open
    CamFirst, CamLast,      \* where the home sensor is high
    Marks,                  \* where the index latch triggers
    AbsRange,               \* range of the absolute bits of the encoder
    Shift,                  \* raw value of encoder 1 less that of encoder 0
    HomeEncoders,           \* which encoder may be the one for homing
    Referenced,             \* which encoders may be referenced at homing
    Starts,                 \* where the axis may be at first
    Kinds,                  \* the homing sequences, by their number
    HomePosition, LatchCount,
    Towards, Off,           \* homeVelTowardsCam_ and homeVelOffCam_
    PostMoves, PostTarget,  \* whether and where to move after homing
    AtTargetTime,           \* atTargetTime_
    SeqTimeouts,            \* possible values of seqTimeout_, 0 for none
    Targets,                \* where other motions go
    Commands,               \* which commands are given
    Most                    \* bound: how many commands

ASSUME HomingAssumption ==
    /\ {BwdSwitch, FwdSwitch, CamFirst, CamLast, Shift, HomePosition, PostTarget} \subseteq Int
    /\ Marks \cup Starts \cup Targets \subseteq Int
    /\ HomeEncoders \subseteq {0, 1} /\ Referenced \subseteq SUBSET {0, 1}
    /\ {AbsRange, LatchCount, Towards, Off} \subseteq Nat \ {0}
    /\ SeqTimeouts \cup {AtTargetTime} \subseteq Nat /\ PostMoves \subseteq BOOLEAN
    /\ Kinds \subseteq 1..12 \cup {15, 21, 22}

VARIABLES
    axis,      \* the axis with its sequencer, encoders, monitor and drive
    counter,   \* cycleCounter_, modulo 2
    given      \* the number of commands up to now

vars == <<axis, counter, given>>

Encoders == {0, 1}
FilterCycles == 5        \* ECMC_MON_SWITCHES_FILTER_CYCLES

\* A limit switch opens at its position.
Sees(at) == [bwd |-> at > BwdSwitch, fwd |-> at < FwdSwitch, home |-> at \in CamFirst..CamLast]

\* The axis has been enabled where it stands.  at is where it was when the
\* encoders were read, and out is where the drive takes it until the next cycle.
\* now and was are the switches as the sequencer has seen them last.
\* Bound: with its own encoder for homing, an axis references both.
Init ==
    /\ counter = 0 /\ given = 0
    /\ \E at \in Starts, home \in HomeEncoders, refs \in Referenced, post \in PostMoves,
          timeout \in SeqTimeouts :
       /\ home = 0 => refs = Encoders
       /\ axis = [traj |-> [Idle EXCEPT !.enable = TRUE, !.start = at, !.pos = at, !.local = at,
                                     !.target = at],
               flags |-> {}, source |-> "internal", execute |-> FALSE, executeOld |-> FALSE,
               enable |-> TRUE, enabled |-> TRUE, command |-> "pos", pos |-> at, velocity |-> 0,
               setpoint |-> at, actual |-> at, speed |-> 0, busy |-> FALSE, error |-> FALSE,
               at |-> at, out |-> at, offset |-> 0, onTarget |-> TRUE, atTarget |-> 0,
               now |-> Sees(at), was |-> Sees(at),
               filter |-> [i \in 1..FilterCycles |-> Sees(at)],
               enc |-> [e \in Encoders |-> [offset |-> -(e * Shift), homed |-> FALSE]],
               latch |-> [armed |-> FALSE, high |-> FALSE, new |-> FALSE, at |-> 0],
               primary |-> 0, oldPrimary |-> 0, home |-> home, refs |-> refs, post |-> post,
               timeout |-> timeout, kind |-> 0, state |-> 0, running |-> FALSE, time |-> 0,
               latch1 |-> 0, latch2 |-> 0, latches |-> 0]

-----------------------------------------------------------------------------
(* Encoders, drive and the end of a sequence.                              *)

Raw(a, e) == a.at + e * Shift
ActPos(a, e) == Raw(a, e) + a.enc[e].offset
Referred(a, e, to) == [offset |-> to - Raw(a, e), homed |-> TRUE]

\* Mutant: the drive is not told.
NewPositionUntold(a, to) ==
    [a EXCEPT !.traj = SetTargetPos(SetCurrentPosSet(@, to), to), !.actual = to, !.setpoint = to]

\* The drive gets the raw value of the encoder that controls the axis now.
SetNewPositionCtrlDrvTrajBumpless(a, to) ==
    [a EXCEPT !.traj = SetTargetPos(SetCurrentPosSet(@, to), to), !.actual = to, !.setpoint = to,
              !.offset = Raw(a, a.primary) - to]

SwitchEncodersIfNeeded(a) ==
    IF a.home = a.primary THEN a
    ELSE [SetNewPositionCtrlDrvTrajBumpless(a, ActPos(a, a.home))
              EXCEPT !.oldPrimary = a.primary, !.primary = a.home]

\* Mutant: the control stays with the encoder for homing.
SwitchBackNever(a) == a

SwitchBackEncodersIfNeeded(a) ==
    IF a.oldPrimary = a.primary THEN a
    ELSE [SetNewPositionCtrlDrvTrajBumpless(a, ActPos(a, a.oldPrimary))
              EXCEPT !.primary = a.oldPrimary]

Halt(a) == TrajExecute(a, FALSE)

StopSeq(a) ==
    [SwitchBackEncodersIfNeeded(Halt(a)) EXCEPT !.running = FALSE, !.state = 0, !.time = 0]
\* Mutant: no error.
FailedSilently(a) == StopSeq(a)

Failed(a) == [StopSeq(a) EXCEPT !.error = TRUE]

\* The encoders that are to be referenced get the new position.  Control goes on
\* with the position of the encoder it goes back to.
FinalizeHomingSeq(a, to) ==
    LET control == IF a.oldPrimary \in a.refs THEN to ELSE ActPos(a, a.oldPrimary)
        b == [SetNewPositionCtrlDrvTrajBumpless(a, control) EXCEPT
                 !.enc = [e \in Encoders |-> IF e \in a.refs THEN Referred(a, e, to) ELSE a.enc[e]],
                 !.latch.armed = @ /\ a.home \notin a.refs,
                 !.latch1 = 0, !.latch2 = 0, !.latches = 0]
    IN  IF a.post THEN [b EXCEPT !.state = 1000] ELSE StopSeq(b)

-----------------------------------------------------------------------------
(* A sequence is a table, from its state 1 on.  For each state: the side   *)
(* on which no limit switch may open (0 for none), what it waits for, what *)
(* it does then, and the next state.                                       *)

Row(safe, when, do, next) == [safe |-> safe, when |-> when, do |-> do, next |-> next]

\* To the limit switch in direction d, and off it again.
ToLimit == Row(0, "limit", "halt", 2)
Turn(d) == Row(-d, "standing", "off", 3)
\* The end of a sequence, once the axis has settled.
End(side, do) == Row(side, "settled", do, 0)

OnLimit(d) == <<ToLimit, Turn(d), Row(-d, "leave", "latch1", 4), End(-d, "home")>>
SeqHoming1 == OnLimit(-1)
SeqHoming2 == OnLimit(1)

OnCam(d) == <<ToLimit, Turn(d), Row(-d, "cam", "latch1", 4), End(-d, "home")>>
SeqHoming3 == OnCam(-1)
SeqHoming4 == OnCam(1)

\* Over the cam, back, and to the middle of the two flanks.
OnCentre(d) ==
    <<ToLimit, Turn(d), Row(-d, "cam", "latch1", 4), Row(-d, "cam", "halt", 5),
      Row(-d, "standing", "on", 6), Row(d, "cam", "latch2", 7), End(d, "homeBetween")>>
SeqHoming5 == OnCentre(-1)
SeqHoming6 == OnCentre(1)

\* Sequences 7 to 10 wait in state 0 until the axis stands.
Stand(d) == Row(d, "standing", "on", 1)
Rising(d) == <<Row(d, "rise", "latch1", 2), End(0, "home")>>
SeqHoming7 == Rising(-1)
SeqHoming8 == Rising(1)

RisingCentre(d) ==
    <<Row(d, "rise", "latch1", 2), Row(d, "fall", "halt", 3), Row(d, "standing", "off", 4),
      Row(-d, "rise", "latch2", 5), End(0, "homeBetween")>>
SeqHoming9  == RisingCentre(-1)
SeqHoming10 == RisingCentre(1)

OnMark(d) ==
    <<Row(0, "limit", "disarm", 2), Row(-d, "standing", "offArmed", 3),
      Row(-d, "leave", "watch", 4), Row(-d, "mark", "latchMark", 5), End(-d, "home")>>
SeqHoming11 == OnMark(-1)
SeqHoming12 == OnMark(1)

\* 22 looks at the other switch and has no break after state 3.
OnAbsBits(d, leave) ==
    <<Row(-d, "limit", "halt", 2), Turn(d), Row(-d, leave, "halt", 4), End(-d, "homeAbs")>>
SeqHoming21 == OnAbsBits(-1, "leave")
SeqHoming22 == OnAbsBits(1, "leaveBwd")

Table(kind) ==
    CASE kind = 1 -> SeqHoming1 [] kind = 2 -> SeqHoming2 [] kind = 3 -> SeqHoming3
      [] kind = 4 -> SeqHoming4 [] kind = 5 -> SeqHoming5 [] kind = 6 -> SeqHoming6
      [] kind = 7 -> SeqHoming7 [] kind = 8 -> SeqHoming8 [] kind = 9 -> SeqHoming9
      [] kind = 10 -> SeqHoming10 [] kind = 11 -> SeqHoming11 [] kind = 12 -> SeqHoming12
      [] kind = 21 -> SeqHoming21 [] kind = 22 -> SeqHoming22
Backwards == {1, 3, 5, 7, 9, 11, 21}
Direction(kind) == IF kind \in Backwards THEN -1 ELSE 1

-----------------------------------------------------------------------------
(* One step of a sequence.                                                 *)

Side(d) == IF d < 0 THEN "bwd" ELSE "fwd"
Filtered(a, d) == Cardinality({i \in 1..FilterCycles : a.filter[i][Side(d)]}) > FilterCycles \div 2
\* Mutant: the limit switches do not matter.
SafeAlways(a, side) == TRUE

Safe(a, side) == side # 0 => Filtered(a, side)

AtTarget(a) == a.atTarget > AtTargetTime
Happens(a, d, event) ==
    CASE event = "limit"    -> a.was[Side(d)] /\ ~a.now[Side(d)]
      [] event = "leave"    -> a.was[Side(d)] # a.now[Side(d)]
      [] event = "leaveBwd" -> a.was.bwd # a.now.bwd
      [] event = "cam"      -> a.was.home # a.now.home
      [] event = "rise"     -> ~a.was.home /\ a.now.home
      [] event = "fall"     -> a.was.home /\ ~a.now.home
      [] event = "mark"     -> a.latch.new /\ a.latches + 1 >= LatchCount
      [] event = "standing" -> ~a.traj.busy
      [] event = "settled"  -> ~a.traj.busy /\ AtTarget(a)

\* What a state does as long as it waits.
Waiting(a, event) ==
    IF event \in {"standing", "settled"} THEN Halt(a)
    ELSE IF event = "mark"
    THEN [a EXCEPT !.latches = IF a.latch.new THEN @ + 1 ELSE @, !.latch.armed = ~a.latch.new]
    ELSE a

Move(a, vel) == TrajExecute([a EXCEPT !.traj = [SetTargetVel(@, vel) EXCEPT !.mode = "vel"]], TRUE)
Here(a) == ActPos(a, a.primary)

\* Mutant: the way since the latch is forgotten.
FoundHere(a, do, d) == HomePosition

\* What the position is, by what has been latched.  Between two integers the
\* middle is rounded down.
Found(a, do, d) ==
    LET rest == Raw(a, a.primary) % AbsRange
    IN  CASE do = "home"        -> Here(a) - a.latch1 + HomePosition
          [] do = "homeBetween" -> Here(a) - (a.latch1 + a.latch2) \div 2 + HomePosition
          [] do = "homeAbs"     ->
                 HomePosition + d * ((LatchCount - 1) * AbsRange + (IF d > 0 THEN rest
                                                                  ELSE AbsRange - rest))

Done(a, d, do) ==
    CASE do = "halt"     -> Halt(a)
      [] do = "disarm"   -> [Halt(a) EXCEPT !.latch.armed = FALSE]
      [] do = "off"      -> Move(a, -(d * Off))
      [] do = "offArmed" -> [Move(a, -(d * Off)) EXCEPT !.latch.armed = TRUE]
      [] do = "on"       -> Move(a, d * Off)
      [] do = "watch"    -> a
      [] do = "latch1"   -> [a EXCEPT !.latch1 = Here(a)]
      [] do = "latch2"   -> Halt([a EXCEPT !.latch2 = Here(a)])
      [] do = "latchMark" -> [a EXCEPT !.latch1 = a.latch.at + a.primary * Shift
                                                  + a.enc[a.primary].offset]
      [] OTHER           -> FinalizeHomingSeq(a, Found(a, do, d))

Step(a, d, row) ==
    LET b == Waiting(a, row.when)
    IN  IF ~Safe(a, row.safe) THEN Failed(a)
        ELSE IF Happens(a, d, row.when) THEN Done([b EXCEPT !.state = row.next], d, row.do)
        ELSE b

InitHomingSeq(a) == Halt([a EXCEPT !.enc[a.primary].homed = FALSE, !.traj.mode = "vel"])
Start(a, d) ==
    IF a.kind \in 7..10 THEN Step(InitHomingSeq(a), d, Stand(d))
    ELSE IF a.now[Side(d)] THEN [Move(InitHomingSeq(a), d * Towards) EXCEPT !.state = 1]
    ELSE [InitHomingSeq(a) EXCEPT !.state = 2]

\* Sequence 15 moves nothing.
SeqHoming15(a) ==
    LET b == [a EXCEPT !.traj = SetTargetPos(SetCurrentPosSet(@, HomePosition), HomePosition),
                       !.enc[a.primary] = Referred(a, a.primary, HomePosition),
                       !.actual = HomePosition, !.setpoint = HomePosition]
    IN  IF a.post THEN [b EXCEPT !.state = 1000] ELSE StopSeq(b)

\* Sequence 22 has no break after state 3.
Sequence(a) ==
    LET d     == Direction(a.kind)
        table == Table(a.kind)
        b     == Step(a, d, table[a.state])
    IN  IF a.state >= 1000 THEN a
        ELSE IF a.kind = 15 THEN SeqHoming15(a)
        ELSE IF a.state = 0 THEN Start(a, d)
        ELSE IF a.kind = 22 /\ a.state = 3 /\ b.running THEN Step(b, d, table[4])
        ELSE b

\* An absolute motion after a successful homing.
PostHomeMove(a) ==
    CASE a.state = 1000 ->
           IF a.setpoint = PostTarget THEN StopSeq(a) ELSE [Halt(a) EXCEPT !.state = 1001]
      [] a.state = 1001 ->
           IF a.traj.busy THEN a
           ELSE [TrajExecute([a EXCEPT !.traj = SetTargetPos([SetTargetVel(@, Towards) EXCEPT
                                                                !.mode = "pos"], PostTarget)], TRUE)
                     EXCEPT !.state = 1002]
      [] a.state = 1002 ->
           IF a.traj.busy THEN a
           ELSE [StopSeq(a) EXCEPT !.error = @ \/ a.traj.pos # PostTarget]
      [] a.state < 1000 -> a

-----------------------------------------------------------------------------
(* The cycle, in the order of ecmcAxisReal::execute().                     *)

\* The hardware latches the position of a mark that the axis passes.
Latched(a, at) ==
    LET passed == {m \in Marks : (a.at < m /\ m <= at) \/ (at <= m /\ m < a.at)}
        high   == a.latch.armed /\ (a.latch.high \/ passed # {})
    IN  [a.latch EXCEPT !.high = high, !.new = high /\ ~a.latch.high,
                        !.at = IF high /\ ~a.latch.high THEN CHOOSE m \in passed : TRUE ELSE @]

\* Encoders and switches, as the drive has moved on.
Read(a) ==
    [a EXCEPT !.at = a.out, !.speed = a.out - a.at, !.latch = Latched(a, a.out),
              !.filter = Append(Tail(@), Sees(a.out))]

\* The sequencer is ready when a sequence is in state 0 at its end.
Sequenced(a) == IF a.state = 0 THEN StopSeq(a) ELSE a
Execute(a) ==
    LET b == [a EXCEPT !.busy = (a.command = "home" /\ a.running) \/ a.traj.busy,
                       !.was = a.now, !.now = Sees(a.at),
                       !.time = IF a.running /\ a.timeout > 0 THEN @ + 1 ELSE @]
    IN  IF ~a.running THEN b
        ELSE IF a.timeout > 0 /\ b.time > a.timeout THEN Failed(b)
        ELSE Sequenced(PostHomeMove(Sequence(SwitchEncodersIfNeeded(b))))

Moving(a) == a.speed # 0 \/ a.traj.busy
CheckLimits(a, moving) ==
    LET bwd == LimitInterlock(a.flags, "bwdLimit", ~a.now.bwd, moving /\ a.speed <= 0)
    IN  [a EXCEPT !.flags = LimitInterlock(bwd, "fwdLimit", ~a.now.fwd, moving /\ a.speed >= 0)]

\* Within the tolerance, and at the position that is aimed at.
Aim(t) == IF t.mode = "vel" THEN t.pos ELSE t.target
CheckAtTarget(a, aim) ==
    [a EXCEPT !.atTarget = IF ~a.onTarget \/ aim # a.setpoint THEN 0
                           ELSE IF @ <= AtTargetTime THEN @ + 1 ELSE @]

Cycle ==
    /\ \E next \in {OwnSetpoint(Read(axis))} :
       \E seen \in {[next EXCEPT !.actual = ActPos(next, next.primary), !.traj.start = next.setpoint]} :
       \E run \in {Execute(seen)} :
       \E checked \in {CheckAtTarget(CheckLimits(run, Moving(axis)), Aim(axis.traj))} :
           axis' = [checked EXCEPT !.out = checked.setpoint + checked.offset,
                                   !.onTarget = checked.setpoint = checked.actual,
                                   !.executeOld = GetExecute(checked)]
    /\ counter' = 1 - counter
    /\ UNCHANGED given

-----------------------------------------------------------------------------
(* The commands, between two cycles.                                       *)

\* Every call takes the sequence back to its first state.
SeqSetExecuteHome(a, on) ==
    LET b == [a EXCEPT !.execute = on, !.running = FALSE, !.state = 0]
    IN  IF on /\ ~a.execute THEN [StopSeq(b) EXCEPT !.running = TRUE, !.busy = TRUE]
        ELSE IF on THEN b
        ELSE StopSeq(b)
AxisSetExecute(a, on) ==
    IF a.command # "home" THEN SetExecute(a, on)
    ELSE IF on /\ ~a.executeOld /\ a.busy THEN [a EXCEPT !.error = TRUE]
    ELSE SeqSetExecuteHome(a, on)

MoveHome(a, kind) ==
    LET b == [AxisSetExecute(a, FALSE) EXCEPT !.command = "home", !.kind = kind]
    IN  IF a.error THEN a ELSE AxisSetExecute(b, TRUE)

MoveAbsolutePosition(a, pos) ==
    LET b == [AxisSetExecute(a, FALSE) EXCEPT !.command = "pos"]
    IN  IF OnTheFly(a, "pos") THEN SeqSetTargetPos(SeqSetTargetVel(a, Towards), pos)
        ELSE IF a.error THEN a
        ELSE SetExecute(SeqSetTargetPos(SeqSetTargetVel(b, Towards), pos), TRUE)

Command(name, a) ==
    /\ name \in Commands /\ given < Most
    /\ axis' = a
    /\ given' = given + 1
    /\ UNCHANGED counter

\* Bound: one behaviour has one kind of homing.
Home == \E kind \in Kinds : axis.kind \in {0, kind} /\ Command("home", MoveHome(axis, kind))
MoveTo == \E pos \in Targets : Command("move", MoveAbsolutePosition(axis, pos))
Stop == Command("stop", AxisSetExecute(axis, FALSE))
\* Bound: a reset is given to an axis that stands.
Reset == axis.error /\ ~axis.busy /\ Command("reset", [axis EXCEPT !.error = FALSE, !.flags = {}, !.atTarget = 0])

Next == Cycle \/ Home \/ MoveTo \/ Stop \/ Reset

\* The realtime thread never stops.
Spec == Init /\ [][Next]_vars /\ []<>(counter = 0) /\ []<>(counter = 1)

-----------------------------------------------------------------------------
Cycles == counter' # counter
\* The last step of a motion, and the way of one cycle by which the axis lags.
Largest == 3 * DEC + Towards + ACC - 1

\* The counters of a sequence stay within their ranges, and it is in a state of
\* its table.  A homing that is given up leaves its count of latches to the next.
TypeOK ==
    /\ axis.kind \in Kinds \cup {0}
    /\ axis.running => axis.state \in {0, 1000, 1001, 1002}
                                      \cup (IF axis.kind = 15 THEN {} ELSE DOMAIN Table(axis.kind))
    /\ axis.time \in 0..axis.timeout /\ axis.latches \in 0..(LatchCount + given)
    /\ axis.atTarget \in 0..(AtTargetTime + 1)
    /\ axis.primary \in Encoders /\ axis.oldPrimary \in Encoders
    /\ axis.error \in BOOLEAN /\ axis.running \in BOOLEAN

\* Where the home position belongs, by the switches, the cam, the marks and the
\* absolute bits.
MarkAfter(d) ==
    IF d < 0 THEN CHOOSE m \in Marks : m > BwdSwitch /\ \A n \in Marks : n > BwdSwitch => m <= n
    ELSE CHOOSE m \in Marks : m < FwdSwitch /\ \A n \in Marks : n < FwdSwitch => m >= n
Reference(kind) ==
    LET d == Direction(kind)
        o == axis.home * Shift    \* the absolute bits are those of the encoder for homing
    IN  CASE kind \in {1, 2}  -> IF d < 0 THEN BwdSwitch + 1 ELSE FwdSwitch - 1
          [] kind \in {3, 4, 7, 8} -> IF kind \in {3, 8} THEN CamFirst ELSE CamLast
          [] kind \in {5, 6, 9, 10} -> (CamFirst + CamLast) \div 2
          [] kind \in {11, 12} -> MarkAfter(d)
          [] kind = 21 -> AbsRange * ((BwdSwitch + o) \div AbsRange + 1) - o
          [] kind = 22 -> AbsRange * ((FwdSwitch + o) \div AbsRange) - o

\* After a homing every encoder that it has referenced shows the home position
\* where the home position belongs, to within the distance of one cycle.
HomedRight ==
    [][Cycles /\ axis.running /\ axis.kind \notin {15, 22}
        => \A e \in Encoders :
              \/ axis'.enc[e].offset = axis.enc[e].offset
              \/ Size(Reference(axis.kind) + e * Shift + axis'.enc[e].offset - HomePosition) < Off]_vars

\* A homing that ends by itself has homed what it is to home or reports an error.
\* Sequences 7 to 10 give up on an axis that moves.
HomingReports ==
    [][Cycles /\ axis.running /\ ~axis'.running
        => \/ axis'.error
           \/ \A e \in axis.refs \cap (IF axis.kind = 15 THEN {axis.home} ELSE Encoders) :
                 axis'.enc[e].homed
           \/ axis.kind \in 7..10 /\ axis.state = 0 /\ axis.traj.busy]_vars

\* Every homing ends, with or without a time out.
HomingEnds == axis.running ~> ~axis.running

\* Whatever interrupts a homing and whenever it is started again, it is in a state of
\* its own table with its counters in their ranges, and outside a homing the axis is
\* controlled by its primary encoder (setExecute, stopSeq, switchBackEncodersIfNeeded).
PrimaryControls == axis.running \/ axis.primary = 0
HomingInOrder == TypeOK /\ PrimaryControls

\* Where the drive is sent by the next cycle, in the counts of its own encoder.
Told(a) == a.setpoint + a.offset

\* A homing with another encoder than the one that controls the axis sets the position
\* or gives the control back.
HandsBack ==
    /\ axis.home = 1
    /\ axis.running \/ axis.primary = 1
    /\ axis'.primary = 0 \/ (axis.state < 1000 /\ axis'.state >= 1000)

\* No position that a homing sets, and no change of the encoder, in a cycle or by a
\* command that interrupts it, makes the drive jump: it steps on from where it is.  The
\* one exception is the hand-over after a homing with another encoder, which is off by
\* what the two raw counters differ (setCspRef in switchBackEncodersIfNeeded and
\* finalizeHomingSeq), and by no more.  Sequence 15 does not tell the drive of the
\* position that it sets and is left out.
NoJump ==
    [][axis.kind # 15 =>
         IF Cycles
         THEN LET way == axis'.out - axis.out
              IN  \/ Size(way) <= Largest
                  \/ /\ HandsBack \/ Told(axis) # axis.out
                     /\ Size(way - Shift) <= Largest
         ELSE \/ Told(axis') = Told(axis)
              \/ HandsBack /\ Size(Told(axis') - Told(axis) - Shift) <= Largest]_vars

\* The comment at the switch between encoders: "Ensure no jump when switching".
SwitchBumpless ==
    [][Cycles /\ axis'.primary # axis.primary => Size(axis'.out - axis.out) <= Largest]_vars
=============================================================================
