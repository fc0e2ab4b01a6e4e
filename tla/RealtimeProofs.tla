--------------------------- MODULE RealtimeProofs ---------------------------
(***************************************************************************)
(* Theorems about the realtime thread and what it looks after beside the   *)
(* axis.                                                                   *)
(* The monitor: whatever its times, its functions and its inputs are, an   *)
(* open limit switch interlocks, the trajectory generator obeys what the   *)
(* cycle before has found, and an interlock that takes the power leaves an *)
(* error.  The bus: what the axes are told is backed by it, and the alarms *)
(* of the slaves tell the truth, for any slaves and reports, any limits    *)
(* and periods.  The requests: a client that sees an object at rest can    *)
(* rely on what it sees, for any data and any number of requests.  The     *)
(* application mode: whatever fails while the system is started, stopped   *)
(* and started again, and for any number of starts, one realtime thread at *)
(* most runs the axes, its cycles are protected by both locks, and the     *)
(* modes tell the truth.                                                   *)
(***************************************************************************)
EXTENDS MCRealtime, AppMode, TLAPS

(***************************************************************************)
(* The monitor.                                                            *)
(***************************************************************************)

-----------------------------------------------------------------------------
(* What the checks of a cycle do to one interlock.                         *)

\* With decides about its own flag and leaves the others alone.
LEMMA WithDecides ==
    ASSUME NEW F, NEW flag, NEW on, NEW g
    PROVE  /\ on => flag \in With(F, flag, on)
           /\ ~on => flag \notin With(F, flag, on)
           /\ g # flag => (g \in With(F, flag, on) <=> g \in F)
BY DEF With

LimitFlags == {"bothLimitsLow", "bwdLimit", "fwdLimit", "bwdSoftLimit", "fwdSoftLimit"}

\* checkLimits() knows its own interlocks only.
LEMMA LimitsKeepOthers ==
    ASSUME NEW F, NEW i, NEW g, g \notin LimitFlags
    PROVE  g \in CheckLimits(F, i) <=> g \in F
BY DEF CheckLimits, BwdLimit, FwdLimit, SoftLimits, With, LimitFlags

\* An open switch has its interlock, or that of both switches, after checkLimits(),
\* and the one of both switches means that both are open.
LEMMA LimitsFound ==
    ASSUME NEW F, NEW i
    PROVE  /\ ~i.bwd /\ i.fwd => "bwdLimit" \in CheckLimits(F, i)
           /\ ~i.fwd /\ i.bwd => "fwdLimit" \in CheckLimits(F, i)
           /\ ~i.bwd /\ ~i.fwd <=> "bothLimitsLow" \in CheckLimits(F, i)
BY DEF CheckLimits, BwdLimit, FwdLimit, SoftLimits, With

\* The later checks leave the interlocks of the switches alone.
LEMMA CheckedKeepsLimits ==
    ASSUME NEW F, NEW i, NEW k, NEW g \in LimitFlags
    PROVE  g \in Checked(i, F, k) <=> g \in CheckLimits(F, i)
BY DEF Checked, CheckPositionLag, MaxVelTraj, MaxVelDrive, CheckCntrlMaxOutput,
       CheckVelocityDiff, With, LimitFlags

\* An interlock of the bus or of the PLC is not touched by any check.
LEMMA CheckedKeepsMaster ==
    ASSUME NEW F, NEW i, NEW k
    PROVE  "etherCatMaster" \in Checked(i, F, k) <=> "etherCatMaster" \in F
<1>1. "etherCatMaster" \in CheckLimits(F, i) <=> "etherCatMaster" \in F
  BY LimitsKeepOthers DEF LimitFlags
<1> QED
  BY <1>1 DEF Checked, CheckPositionLag, MaxVelTraj, MaxVelDrive, CheckCntrlMaxOutput,
              CheckVelocityDiff, With

\* The interlock of the controller output is either set for a reason that is an
\* error, or it was there before.
LEMMA CheckedOutput ==
    ASSUME NEW F, NEW i, NEW k, "cntrlOutputHLDrive" \in Checked(i, F, k)
    PROVE  "cntrlOutputHLDrive" \in F \/ (Running(i) /\ i.high /\ "output" \in Monitors)
<1>1. "cntrlOutputHLDrive" \in CheckLimits(F, i) <=> "cntrlOutputHLDrive" \in F
  BY LimitsKeepOthers DEF LimitFlags
<1> QED
  BY <1>1 DEF Checked, CheckPositionLag, MaxVelTraj, MaxVelDrive, CheckCntrlMaxOutput,
              CheckVelocityDiff, With

-----------------------------------------------------------------------------
(* The limit switches.                                                     *)

\* Flags that are set show in the summary.
LEMMA SummaryShows ==
    ASSUME NEW F, NEW g \in F
    PROVE  /\ g \in DriveFlags => Summary(F).drive /\ Summary(F).bwd /\ Summary(F).fwd
           /\ g \in TrajFlags => Summary(F).bwd /\ Summary(F).fwd
           /\ g \in BwdFlags => Summary(F).bwd
           /\ g \in FwdFlags => Summary(F).fwd
           /\ g \in EmergencyFlags => Summary(F).stop = "emergency"
BY DEF Summary, AnyOf

\* After every cycle an open limit switch interlocks the motion towards it, and
\* two open switches take the power (checkLimits()).
THEOREM OpenSwitchBlocks == Spec => []LimitBlocks
<1>1. Init => LimitBlocks
  BY DEF Init, LimitBlocks
<1>2. LimitBlocks /\ [Next]_vars => LimitBlocks'
  <2> SUFFICES ASSUME LimitBlocks, [Next]_vars PROVE LimitBlocks'
    OBVIOUS
  <2>1. CASE Cycle
    <3>1. PICK i \in Inputs : /\ in' = i
                              /\ \E k : summary' = Summary(Checked(i, Moved(i), k))
      BY <2>1 DEF Cycle
    <3>2. PICK k : summary' = Summary(Checked(i, Moved(i), k))
      BY <3>1
    <3> DEFINE F == Checked(i, Moved(i), k)
    <3>3. /\ ~i.bwd /\ i.fwd => "bwdLimit" \in F
          /\ ~i.fwd /\ i.bwd => "fwdLimit" \in F
          /\ ~i.bwd /\ ~i.fwd => "bothLimitsLow" \in F
      BY LimitsFound, CheckedKeepsLimits DEF LimitFlags
    <3> HIDE DEF F
    <3>4. /\ ~i.bwd => Summary(F).bwd
          /\ ~i.fwd => Summary(F).fwd
          /\ ~i.bwd /\ ~i.fwd => Summary(F).drive /\ Summary(F).stop = "emergency"
      BY <3>3, SummaryShows DEF DriveFlags, BwdFlags, FwdFlags, EmergencyFlags
    <3>5. summary' = Summary(F)
      BY <3>2 DEF F
    <3> QED BY <3>1, <3>4, <3>5 DEF LimitBlocks
  <2>2. CASE UNCHANGED vars
    BY <2>2 DEF LimitBlocks, vars
  <2>3. CASE last' = "command"
    BY <2>3 DEF LimitBlocks
  <2> QED
    BY <2>1, <2>2, <2>3 DEF Next, Reset, StartMotion, SetPLCInterlock, SetLatchAtLimit,
                            SetEnableHardLimitAlarm
<1> QED BY <1>1, <1>2, PTL DEF Spec

-----------------------------------------------------------------------------
(* What was found is obeyed.                                               *)

\* What the cycle before has found, and the PLC has asked for since, is in the
\* summary that the trajectory generator looks at, refreshed before it or by it.
LEMMA SeenShows ==
    ASSUME NEW i, NEW g \in flags, g # "etherCatMaster"
    PROVE  /\ g \in DriveFlags \cup TrajFlags \cup BwdFlags => Seen(i).bwd
           /\ g \in DriveFlags \cup TrajFlags \cup FwdFlags => Seen(i).fwd
<1>1. CASE i.stopping
  <2>1. "noExecute" \in Moved(i)
    BY <1>1 DEF Moved, With
  <2>2. Summary(Moved(i)).bwd /\ Summary(Moved(i)).fwd
    BY <2>1, SummaryShows DEF TrajFlags
  <2> QED BY <1>1, <2>2 DEF Seen
<1>2. CASE ~i.stopping
  <2> DEFINE F == With(flags, "etherCatMaster", ~i.master)
  <2>1. g \in F
    BY WithDecides
  <2> HIDE DEF F
  <2>2. Seen(i) = Summary(F)
    BY <1>2 DEF Seen, F
  <2> QED BY <2>1, <2>2, SummaryShows
<1> QED BY <1>1, <1>2

\* No interlock that was found or set is missed by the next cycle (preExecute()
\* refreshes the summary before the trajectory generator runs).
THEOREM InterlocksObeyed == Spec => FoundIsObeyed
<1> DEFINE found == flags \ {"etherCatMaster"}
           Obeyed == /\ AnyOf(found, DriveFlags \cup TrajFlags \cup BwdFlags) => seen'.bwd
                     /\ AnyOf(found, DriveFlags \cup TrajFlags \cup FwdFlags) => seen'.fwd
<1>1. ASSUME [Next]_vars PROVE [last' = "cycle" => Obeyed]_vars
  <2>1. CASE Cycle
    <3>1. PICK i \in Inputs : seen' = Seen(i)
      BY <2>1 DEF Cycle
    <3>2. Obeyed
      BY <3>1, SeenShows DEF AnyOf
    <3> QED BY <3>2
  <2>2. CASE last' = "command"
    BY <2>2
  <2> QED
    BY <1>1, <2>1, <2>2 DEF Next, Reset, StartMotion, SetPLCInterlock, SetLatchAtLimit,
                            SetEnableHardLimitAlarm
<1> QED BY <1>1, PTL DEF Spec, FoundIsObeyed

-----------------------------------------------------------------------------
(* A loss of power is explained.                                           *)

PowerFlags == DriveFlags \ {"hardware"}

\* What takes the power in a cycle is an error of that cycle, or it was found
\* before the cycle, as the controller output is.
LEMMA PowerLossFails ==
    ASSUME NEW i, NEW k, NEW g \in PowerFlags, g \in Checked(i, Moved(i), k)
    PROVE  Fails(i, Checked(i, Moved(i), k)) \/ g \in flags
<1> DEFINE F == Checked(i, Moved(i), k)
<1>1. CASE g = "bothLimitsLow"
  <2>1. ~i.bwd /\ ~i.fwd
    BY <1>1, LimitsFound, CheckedKeepsLimits DEF LimitFlags
  <2> QED BY <2>1 DEF Fails, LimitError
<1>2. CASE g = "etherCatMaster"
  <2>1. ~i.master
    BY <1>2, CheckedKeepsMaster DEF Moved, Read, With
  <2> QED BY <2>1 DEF Fails
<1>3. CASE g = "cntrlOutputHLDrive"
  <2>1. "cntrlOutputHLDrive" \in Moved(i) <=> "cntrlOutputHLDrive" \in flags
    BY DEF Moved, Read, With
  <2> QED BY <1>3, <2>1, CheckedOutput DEF Fails
<1>4. CASE g \in {"lagDrive", "maxVelocityDrive", "velocityDiffDrive"}
  <2> HIDE DEF F
  <2>1. ASSUME g \in F PROVE Fails(i, F)
    BY <1>4, <2>1 DEF Fails, AnyOf, ErrorFlags
  <2> QED BY <2>1 DEF F
<1> QED BY <1>1, <1>2, <1>3, <1>4 DEF PowerFlags, DriveFlags

\* An interlock that takes the power of the axis leaves an error until the reset.
THEOREM PowerLossIsExplained == Spec => []PowerLossExplained
<1>1. Init => PowerLossExplained
  BY DEF Init, PowerLossExplained, AnyOf
<1>2. PowerLossExplained /\ [Next]_vars => PowerLossExplained'
  <2> SUFFICES ASSUME PowerLossExplained, [Next]_vars,
                      NEW g \in PowerFlags, g \in flags'
               PROVE  error'
    BY DEF PowerLossExplained, AnyOf, PowerFlags
  <2>0. g \in flags => error
    BY DEF PowerLossExplained, AnyOf, PowerFlags
  <2>1. CASE Cycle
    <3>1. PICK i \in Inputs :
             \E k : /\ flags' = Checked(i, Moved(i), k)
                    /\ error' = (error \/ Fails(i, Checked(i, Moved(i), k)))
      BY <2>1 DEF Cycle
    <3>2. PICK k : /\ flags' = Checked(i, Moved(i), k)
                   /\ error' = (error \/ Fails(i, Checked(i, Moved(i), k)))
      BY <3>1
    <3>3. Fails(i, Checked(i, Moved(i), k)) \/ g \in flags
      BY <3>2, PowerLossFails
    <3> QED BY <2>0, <3>2, <3>3
  <2>2. CASE Reset
    BY <2>2 DEF Reset
  <2>3. CASE StartMotion
    BY <2>0, <2>3 DEF StartMotion
  <2>4. CASE SetPLCInterlock
    <3>1. g \in flags
      BY <2>4 DEF SetPLCInterlock, With, PowerFlags, DriveFlags
    <3> QED BY <2>0, <2>4, <3>1 DEF SetPLCInterlock
  <2>5. CASE SetLatchAtLimit \/ SetEnableHardLimitAlarm \/ UNCHANGED vars
    BY <2>0, <2>5 DEF SetLatchAtLimit, SetEnableHardLimitAlarm, vars
  <2> QED BY <2>1, <2>2, <2>3, <2>4, <2>5 DEF Next
<1> QED BY <1>1, <1>2, PTL DEF Spec

-----------------------------------------------------------------------------
(* The latch of a limit switch.                                            *)

\* The inductive invariant: a stop that a switch has asked for is latched.
Latched ==
    latchOnLimit =>
        /\ "bwd" \in held => "bwdLimit" \in flags
        /\ "fwd" \in held => "fwdLimit" \in flags

\* checkLimits() keeps a latched interlock while the axis moves towards it, also
\* where it returns early.
LEMMA LimitsLatch ==
    ASSUME NEW F, NEW i, latchOnLimit
    PROVE  /\ "bwdLimit" \in F /\ i.moving /\ i.vel <= 0 => "bwdLimit" \in CheckLimits(F, i)
           /\ "fwdLimit" \in F /\ i.moving /\ i.vel >= 0 => "fwdLimit" \in CheckLimits(F, i)
BY DEF CheckLimits, BwdLimit, FwdLimit, SoftLimits, With

\* A cycle asks for a stop, or goes on asking, only with the interlock set.
LEMMA CycleLatches ==
    ASSUME Latched, Cycle PROVE Latched'
<1> SUFFICES ASSUME latchOnLimit'
             PROVE  /\ "bwd" \in held' => "bwdLimit" \in flags'
                    /\ "fwd" \in held' => "fwdLimit" \in flags'
  BY DEF Latched
<1>1. latchOnLimit
  BY DEF Cycle
<1>2. PICK i \in Inputs :
         /\ \E k : flags' = Checked(i, Moved(i), k)
         /\ "bwd" \in held' => Asked(i.bwd, i.fwd, "bwd", i.moving /\ i.vel <= 0)
         /\ "fwd" \in held' => Asked(i.fwd, i.bwd, "fwd", i.moving /\ i.vel >= 0)
  BY DEF Cycle
<1>3. PICK k : flags' = Checked(i, Moved(i), k)
  BY <1>2
<1>4. \A g \in {"bwdLimit", "fwdLimit"} : g \in flags' <=> g \in CheckLimits(Moved(i), i)
  BY <1>3, CheckedKeepsLimits DEF LimitFlags
<1>5. \A g \in {"bwdLimit", "fwdLimit"} : g \in flags => g \in Moved(i)
  BY DEF Moved, Read, With
<1>6. ASSUME "bwd" \in held' PROVE "bwdLimit" \in CheckLimits(Moved(i), i)
  BY <1>1, <1>2, <1>5, <1>6, LimitsFound, LimitsLatch DEF Asked, Latched
<1>7. ASSUME "fwd" \in held' PROVE "fwdLimit" \in CheckLimits(Moved(i), i)
  BY <1>1, <1>2, <1>5, <1>7, LimitsFound, LimitsLatch DEF Asked, Latched
<1> QED BY <1>4, <1>6, <1>7

LEMMA LatchedInvariant == Spec => []Latched
<1>1. Init => Latched
  BY DEF Init, Latched
<1>2. Latched /\ [Next]_vars => Latched'
  <2> SUFFICES ASSUME Latched, [Next]_vars PROVE Latched'
    OBVIOUS
  <2>1. CASE Cycle
    BY <2>1, CycleLatches
  <2>2. CASE Reset \/ SetLatchAtLimit
    BY <2>2 DEF Reset, SetLatchAtLimit, Latched
  <2>3. CASE StartMotion
    BY <2>3 DEF StartMotion, Latched
  <2>4. CASE SetPLCInterlock
    BY <2>4 DEF SetPLCInterlock, Latched, With
  <2>5. CASE SetEnableHardLimitAlarm \/ UNCHANGED vars
    BY <2>5 DEF SetEnableHardLimitAlarm, vars, Latched
  <2> QED BY <2>1, <2>2, <2>3, <2>4, <2>5 DEF Next
<1> QED BY <1>1, <1>2, PTL DEF Spec

\* A limit switch that was open for one cycle stops the motion for good: until the
\* axis stands, moves away or is reset the trajectory generator obeys.
THEOREM BounceIsLatched == Spec => BounceStops
<1> DEFINE Stops == latchOnLimit => /\ "bwd" \in held => seen'.bwd
                                    /\ "fwd" \in held => seen'.fwd
<1>1. ASSUME Latched, [Next]_vars PROVE [last' = "cycle" => Stops]_vars
  <2>1. CASE Cycle
    <3>1. PICK i \in Inputs : seen' = Seen(i)
      BY <2>1 DEF Cycle
    <3>2. Stops
      BY <1>1, <3>1, SeenShows DEF Latched, BwdFlags, FwdFlags
    <3> QED BY <3>2
  <2>2. CASE last' = "command"
    BY <2>2
  <2> QED
    BY <1>1, <2>1, <2>2 DEF Next, Reset, StartMotion, SetPLCInterlock, SetLatchAtLimit,
                            SetEnableHardLimitAlarm
<1>2. [last' = "cycle" => Stops]_vars
      => [last' = "cycle" /\ latchOnLimit =>
            /\ "bwd" \in held => seen'.bwd
            /\ "fwd" \in held => seen'.fwd]_vars
  OBVIOUS
<1> HIDE DEF Stops
<1> QED BY <1>1, <1>2, LatchedInvariant, PTL DEF Spec, BounceStops

-----------------------------------------------------------------------------
(* Counting.                                                               *)

\* The times and the bounds of the counters are natural numbers.
LEMMA BoundsAreNat ==
    /\ LagTime \in Nat /\ MaxVelTrajTime \in Nat /\ MaxVelDriveTime \in Nat
    /\ AtTargetTime \in Nat /\ VelDiffTrajTime \in Nat /\ VelDiffDriveTime \in Nat
    /\ Horizon \in Nat /\ Horizon > VelDiffTrajTime /\ Horizon > VelDiffDriveTime
    /\ Bound.lag = 2 * LagTime + 1 /\ Conditions.lag = 2 * LagTime + 1
    /\ Bound.maxVelTraj = MaxVelTrajTime + 1 /\ Conditions.over = MaxVelTrajTime + 1
    /\ Bound.atTarget = AtTargetTime + 1 /\ Conditions.settled = AtTargetTime + 1
    /\ Bound.maxVelDrive = MaxVelDriveTime + 1 /\ Conditions.fast = MaxVelDriveTime + 2
    /\ Bound.velocityDiff = Horizon /\ Conditions.diff = Horizon /\ Conditions.apart = Horizon
BY MonitorAssumption DEF Times, Bound, Conditions

\* The counter of the lag counts the cycles of a lag up to its bound.
LEMMA LagCounts ==
    ASSUME NEW i, NEW k \in 0..(2 * LagTime + 1), "lag" \notin Monitors => k = 0
    PROVE  /\ LagCount(i, k) = IF Lagging(i) THEN Min2(k + 1, 2 * LagTime + 1) ELSE 0
           /\ LagCount(i, k) \in 0..(2 * LagTime + 1)
           /\ "lag" \notin Monitors => LagCount(i, k) = 0
           /\ LagCount(i, k) > 0 => Lagging(i)
BY BoundsAreNat DEF LagCount, Lagging, Min2

\* That of the overspeed counts its cycles, when it is monitored.
LEMMA OverCounts ==
    ASSUME NEW i, NEW k \in 0..(MaxVelTrajTime + 1)
    PROVE  /\ MaxVelTrajCount(i, k) =
                IF TooFast(i) THEN Min2(k + 1, MaxVelTrajTime + 1) ELSE 0
           /\ MaxVelTrajCount(i, k) \in 0..(MaxVelTrajTime + 1)
BY BoundsAreNat DEF MaxVelTrajCount, TooFast, Min2

\* That of the target counts the cycles with power within the tolerance.
LEMMA TargetCounts ==
    ASSUME NEW i, NEW k \in 0..(AtTargetTime + 1)
    PROVE  /\ "atTarget" \in Monitors /\ i.enabled =>
                AtTargetCount(i, k) = IF i.settled THEN Min2(k + 1, AtTargetTime + 1) ELSE 0
           /\ ~i.enabled => AtTargetCount(i, k) = k
           /\ AtTargetCount(i, k) \in 0..(AtTargetTime + 1)
BY BoundsAreNat DEF AtTargetCount, Min2

\* That of the drive counts the cycles of the interlock, and starts again after its bound.
LEMMA DriveCounts ==
    ASSUME NEW F, NEW d \in 0..(MaxVelDriveTime + 1)
    PROVE  /\ MaxVelDriveCount(F, d) \in 0..(MaxVelDriveTime + 1)
           /\ "maxVelocityTraj" \notin F => MaxVelDriveCount(F, d) = 0
           /\ "maxVelocityTraj" \in F /\ d <= MaxVelDriveTime => MaxVelDriveCount(F, d) = d + 1
BY BoundsAreNat DEF MaxVelDriveCount

\* The difference of the velocities has lasted for d cycles with power and for a with or
\* without.  The counter starts one ahead when there was a difference before the power.
Ahead(d, a) == IF a > d THEN d + 1 ELSE d
LEMMA DiffCounts ==
    ASSUME NEW i, NEW d \in 0..Horizon, NEW a \in 0..Horizon, d <= a,
           NEW e, e = (IF Differs(i) THEN Min2(d + 1, Horizon) ELSE 0),
           NEW b, b = (IF i.diff THEN Min2(a + 1, Horizon) ELSE 0)
    PROVE  /\ e \in 0..Horizon /\ b \in 0..Horizon /\ e <= b
           /\ VelDiffCount(i, Ahead(d, a)) = Ahead(e, b)
<1>1. /\ Horizon \in Nat /\ Horizon > 0
      /\ Ahead(d, a) \in 0..Horizon
  BY BoundsAreNat DEF Ahead
<1>2. e \in 0..Horizon /\ b \in 0..Horizon /\ e <= b
  BY <1>1 DEF Min2, Differs
<1>3. CASE ~i.diff
  BY <1>1, <1>3 DEF VelDiffCount, Ahead, Differs
<1>4. CASE i.diff /\ ~Differs(i)
  <2>1. e = 0 /\ b > 0
    BY <1>1, <1>4 DEF Min2
  <2>2. VelDiffCount(i, Ahead(d, a)) = 1
    BY <1>4 DEF VelDiffCount, Differs
  <2> QED BY <1>2, <2>1, <2>2 DEF Ahead
<1>5. CASE i.diff /\ Differs(i)
  <2>1. VelDiffCount(i, Ahead(d, a)) = IF Ahead(d, a) = Horizon THEN Horizon ELSE Ahead(d, a) + 1
    BY <1>5 DEF VelDiffCount, Differs
  <2>2. e = Min2(d + 1, Horizon) /\ b = Min2(a + 1, Horizon)
    BY <1>5
  <2> QED BY <1>1, <1>2, <2>1, <2>2 DEF Ahead, Min2
<1> QED BY <1>2, <1>3, <1>4, <1>5

\* The counters are within their bounds and agree with what has happened.
CountersOK ==
    /\ counter.lag \in 0..(2 * LagTime + 1)
    /\ counter.velocityDiff \in 0..Horizon
    /\ counter.maxVelTraj \in 0..(MaxVelTrajTime + 1)
    /\ counter.maxVelDrive \in 0..(MaxVelDriveTime + 1)
    /\ counter.atTarget \in 0..(AtTargetTime + 1)
    /\ since.lag \in 0..(2 * LagTime + 1)
    /\ since.over \in 0..(MaxVelTrajTime + 1)
    /\ since.fast \in 0..(MaxVelDriveTime + 2)
    /\ since.diff \in 0..Horizon /\ since.apart \in 0..Horizon
    /\ since.settled \in 0..(AtTargetTime + 1)
CountsAgree ==
    /\ since.lag = counter.lag
    /\ "lag" \notin Monitors => counter.lag = 0
    /\ since.over = counter.maxVelTraj
    /\ since.diff <= since.apart /\ counter.velocityDiff = Ahead(since.diff, since.apart)
    /\ "atTarget" \in Monitors => since.settled = counter.atTarget

\* The interlock of an overspeed stands since the overspeed has lasted for its time, and
\* until it starts again the counter of the drive counts its cycles.
FastAgrees ==
    MaxVelTrajTime > 0 =>
        /\ "maxVelocityTraj" \in flags <=> since.fast > 0
        /\ since.fast <= MaxVelDriveTime + 1 => counter.maxVelDrive = since.fast

\* The history counts up to its bound.
LEMMA SinceCounts ==
    ASSUME NEW c, NEW b \in Nat, Conditions[c] = b, since[c] \in 0..b, NEW holds
    PROVE  /\ Since(c, holds) \in 0..b
           /\ Since(c, holds) = IF holds THEN Min2(since[c] + 1, b) ELSE 0
BY DEF Since, Min2

\* What the history becomes in a cycle with the inputs i.
Continued(i) ==
    [lag     |-> Since("lag", Lagging(i)),
     over    |-> Since("over", TooFast(i)),
     fast    |-> Since("fast", Running(i)
                    /\ (since.fast > 0 \/ Lasted(Since("over", TooFast(i))))),
     diff    |-> Since("diff", Differs(i)),
     apart   |-> Since("apart", i.diff),
     settled |-> IF ~i.enabled THEN since.settled
                 ELSE Since("settled", "atTarget" \in Monitors /\ i.settled)]

\* A cycle keeps the counters within their bounds and in agreement.
LEMMA CycleCounts ==
    ASSUME CountersOK, CountsAgree,
           NEW i, counter' = Counted(i, Moved(i)), since' = Continued(i)
    PROVE  CountersOK' /\ CountsAgree'
<1>2. /\ counter'.lag = LagCount(i, counter.lag)
      /\ counter'.velocityDiff = VelDiffCount(i, counter.velocityDiff)
      /\ counter'.maxVelTraj = MaxVelTrajCount(i, counter.maxVelTraj)
      /\ counter'.maxVelDrive =
            MaxVelDriveCount(MaxVelTraj(Moved(i), i, counter'.maxVelTraj), counter.maxVelDrive)
      /\ counter'.atTarget = AtTargetCount(i, counter.atTarget)
  BY DEF Counted
<1>3. /\ since'.lag = Since("lag", Lagging(i))
      /\ since'.over = Since("over", TooFast(i))
      /\ since'.fast = Since("fast", Running(i)
                                /\ (since.fast > 0 \/ Lasted(Since("over", TooFast(i)))))
      /\ since'.diff = Since("diff", Differs(i))
      /\ since'.apart = Since("apart", i.diff)
      /\ since'.settled = IF ~i.enabled THEN since.settled
                          ELSE Since("settled", "atTarget" \in Monitors /\ i.settled)
  BY DEF Continued
<1>4. /\ counter'.lag \in 0..(2 * LagTime + 1) /\ since'.lag \in 0..(2 * LagTime + 1)
      /\ since'.lag = counter'.lag
      /\ "lag" \notin Monitors => counter'.lag = 0
  <2>1. Since("lag", Lagging(i)) = IF Lagging(i) THEN Min2(since.lag + 1, 2 * LagTime + 1) ELSE 0
    BY SinceCounts, BoundsAreNat DEF CountersOK
  <2> QED BY <1>2, <1>3, <2>1, LagCounts DEF CountersOK, CountsAgree
<1>5. /\ counter'.maxVelTraj \in 0..(MaxVelTrajTime + 1)
      /\ since'.over \in 0..(MaxVelTrajTime + 1)
      /\ since'.over = counter'.maxVelTraj
  <2>1. /\ Since("over", TooFast(i)) \in 0..(MaxVelTrajTime + 1)
        /\ Since("over", TooFast(i)) =
             IF TooFast(i) THEN Min2(since.over + 1, MaxVelTrajTime + 1) ELSE 0
    BY SinceCounts, BoundsAreNat DEF CountersOK
  <2> QED BY <1>2, <1>3, <2>1, OverCounts DEF CountersOK, CountsAgree
<1>6. /\ counter'.atTarget \in 0..(AtTargetTime + 1)
      /\ since'.settled \in 0..(AtTargetTime + 1)
      /\ "atTarget" \in Monitors => since'.settled = counter'.atTarget
  <2> DEFINE holds == "atTarget" \in Monitors /\ i.settled
  <2> HIDE DEF holds
  <2>1. /\ Since("settled", holds) \in 0..(AtTargetTime + 1)
        /\ Since("settled", holds) = IF holds THEN Min2(since.settled + 1, AtTargetTime + 1) ELSE 0
    BY SinceCounts, BoundsAreNat DEF CountersOK
  <2> QED BY <1>2, <1>3, <2>1, TargetCounts DEF CountersOK, CountsAgree, holds
<1>7. /\ counter'.maxVelDrive \in 0..(MaxVelDriveTime + 1)
      /\ since'.fast \in 0..(MaxVelDriveTime + 2)
  <2>1. counter'.maxVelDrive \in 0..(MaxVelDriveTime + 1)
    BY <1>2, DriveCounts DEF CountersOK
  <2> DEFINE holds == Running(i) /\ (since.fast > 0 \/ Lasted(Since("over", TooFast(i))))
  <2>2. since'.fast = Since("fast", holds)
    BY <1>3
  <2> HIDE DEF holds
  <2>3. Since("fast", holds) \in 0..(MaxVelDriveTime + 2)
    BY SinceCounts, BoundsAreNat DEF CountersOK
  <2> QED BY <2>1, <2>2, <2>3
<1>8. /\ since'.diff \in 0..Horizon /\ since'.apart \in 0..Horizon
      /\ since'.diff <= since'.apart
      /\ counter'.velocityDiff = Ahead(since'.diff, since'.apart)
      /\ counter'.velocityDiff \in 0..Horizon
  <2>1. /\ since'.diff = IF Differs(i) THEN Min2(since.diff + 1, Horizon) ELSE 0
        /\ since'.apart = IF i.diff THEN Min2(since.apart + 1, Horizon) ELSE 0
    BY <1>3, SinceCounts, BoundsAreNat DEF CountersOK
  <2>2. /\ since'.diff \in 0..Horizon /\ since'.apart \in 0..Horizon
        /\ since'.diff <= since'.apart
        /\ VelDiffCount(i, Ahead(since.diff, since.apart)) = Ahead(since'.diff, since'.apart)
    BY <2>1, DiffCounts DEF CountersOK, CountsAgree
  <2>3. Ahead(since'.diff, since'.apart) \in 0..Horizon
    BY <2>2, BoundsAreNat DEF Ahead
  <2> QED BY <1>2, <2>2, <2>3 DEF CountsAgree
<1> QED BY <1>4, <1>5, <1>6, <1>7, <1>8 DEF CountersOK, CountsAgree

-----------------------------------------------------------------------------
(* Punctuality and types.                                                  *)

\* The inductive invariant of the counters.
Counting == CountersOK /\ CountsAgree /\ FastAgrees /\ Punctual /\ AtTargetSettled

\* The interlocks that are counted, after a cycle.
LEMMA CheckedCounts ==
    ASSUME NEW F, NEW i, NEW k
    PROVE  /\ "lagTraj" \in Checked(i, F, k) <=> Lagging(i) /\ k.lag > LagTime
           /\ "lagDrive" \in Checked(i, F, k) <=> Lagging(i) /\ k.lag >= 2 * LagTime
           /\ "maxVelocityTraj" \in Checked(i, F, k)
                 <=> Running(i) /\ ("maxVelocityTraj" \in F \/ k.maxVelTraj >= MaxVelTrajTime)
           /\ "maxVelocityDrive" \in Checked(i, F, k)
                 <=> "maxVelocityTraj" \in Checked(i, F, k) /\ k.maxVelDrive >= MaxVelDriveTime
           /\ "velocityDiffTraj" \in Checked(i, F, k) <=> k.velocityDiff > VelDiffTrajTime
           /\ "velocityDiffDrive" \in Checked(i, F, k) <=> k.velocityDiff > VelDiffDriveTime
<1>1. "maxVelocityTraj" \in CheckLimits(F, i) <=> "maxVelocityTraj" \in F
  BY DEF CheckLimits, BwdLimit, FwdLimit, SoftLimits, With
<1> DEFINE L == CheckLimits(F, i)
<1> HIDE DEF L
<1> QED
  BY <1>1 DEF Checked, CheckPositionLag, MaxVelTraj, MaxVelDrive, CheckCntrlMaxOutput,
              CheckVelocityDiff, With, L

\* What a cycle makes of the lag, the overspeed and the difference of the velocities is
\* punctual, because the counter of each has counted the cycles for which it has lasted.
LEMMA CycleIsPunctual ==
    ASSUME CountersOK, CountsAgree, FastAgrees, Cycle
    PROVE  Counting'
<1>1. PICK i \in Inputs :
         /\ counter' = Counted(i, Moved(i))
         /\ flags' = Checked(i, Moved(i), Counted(i, Moved(i)))
         /\ atTarget' = AtTarget(i, Counted(i, Moved(i)).atTarget)
         /\ in' = i
         /\ since' = Continued(i)
  BY DEF Cycle, Continued
<1>0. CountersOK' /\ CountsAgree'
  BY <1>1, CycleCounts
<1> DEFINE k == counter'
<1>2. /\ k.lag = LagCount(i, counter.lag)
      /\ k.maxVelTraj = MaxVelTrajCount(i, counter.maxVelTraj)
      /\ k.maxVelDrive =
            MaxVelDriveCount(MaxVelTraj(Moved(i), i, k.maxVelTraj), counter.maxVelDrive)
  BY <1>1 DEF Counted
<1>3. flags' = Checked(i, Moved(i), k) /\ atTarget' = AtTarget(i, k.atTarget)
  BY <1>1
<1>4. "maxVelocityTraj" \in Moved(i) <=> "maxVelocityTraj" \in flags
  BY DEF Moved, Read, With
<1> HIDE DEF k
<1>5. /\ "lagTraj" \in flags' <=> Lagging(i) /\ k.lag > LagTime
      /\ "lagDrive" \in flags' <=> Lagging(i) /\ k.lag >= 2 * LagTime
      /\ "maxVelocityTraj" \in flags'
            <=> Running(i) /\ ("maxVelocityTraj" \in flags \/ k.maxVelTraj >= MaxVelTrajTime)
      /\ "maxVelocityDrive" \in flags'
            <=> "maxVelocityTraj" \in flags' /\ k.maxVelDrive >= MaxVelDriveTime
      /\ "velocityDiffTraj" \in flags' <=> k.velocityDiff > VelDiffTrajTime
      /\ "velocityDiffDrive" \in flags' <=> k.velocityDiff > VelDiffDriveTime
  BY <1>3, <1>4, CheckedCounts
<1>6. k.lag > 0 <=> Lagging(i)
  BY <1>2, LagCounts, BoundsAreNat DEF CountersOK, CountsAgree, Min2
<1>7. /\ since'.lag = k.lag /\ since'.over = k.maxVelTraj
      /\ "atTarget" \in Monitors => since'.settled = k.atTarget
      /\ k.lag \in 0..(2 * LagTime + 1) /\ since'.over \in 0..(MaxVelTrajTime + 1)
      /\ since'.fast \in 0..(MaxVelDriveTime + 2)
      /\ since'.diff \in 0..Horizon /\ since'.apart \in 0..Horizon
      /\ since'.diff <= since'.apart /\ k.velocityDiff = Ahead(since'.diff, since'.apart)
  BY <1>0 DEF CountersOK, CountsAgree, k
<1>8. since'.over > 0 => Running(i)
  <2>1. Since("over", TooFast(i)) = IF TooFast(i) THEN Min2(since.over + 1, MaxVelTrajTime + 1)
                                    ELSE 0
    BY SinceCounts, BoundsAreNat DEF CountersOK
  <2> QED BY <1>1, <2>1 DEF Continued, TooFast
<1>9. Lasted(since'.over) => "maxVelocityTraj" \in flags'
  BY <1>5, <1>7, <1>8 DEF Lasted
<1>10. FastAgrees'
  <2> SUFFICES ASSUME MaxVelTrajTime > 0
               PROVE  /\ "maxVelocityTraj" \in flags' <=> since'.fast > 0
                      /\ since'.fast <= MaxVelDriveTime + 1 => k.maxVelDrive = since'.fast
    BY DEF FastAgrees, k
  <2> DEFINE holds == Running(i) /\ (since.fast > 0 \/ Lasted(since'.over))
  <2>1. since'.fast = IF holds THEN Min2(since.fast + 1, MaxVelDriveTime + 2) ELSE 0
    <3>1. since'.fast = Since("fast", holds)
      BY <1>1 DEF Continued
    <3> HIDE DEF holds
    <3> QED BY <3>1, SinceCounts, BoundsAreNat DEF CountersOK
  <2>2. "maxVelocityTraj" \in flags' <=> holds
    <3>1. Lasted(since'.over) <=> k.maxVelTraj >= MaxVelTrajTime
      BY <1>7, BoundsAreNat DEF Lasted
    <3> QED BY <1>5, <3>1 DEF FastAgrees
  <2>3. "maxVelocityTraj" \in MaxVelTraj(Moved(i), i, k.maxVelTraj) <=> "maxVelocityTraj" \in flags'
    BY <1>4, <1>5 DEF MaxVelTraj, With
  <2> HIDE DEF holds
  <2>4. since.fast \in 0..(MaxVelDriveTime + 2) /\ MaxVelDriveTime \in Nat
    BY BoundsAreNat DEF CountersOK
  <2>5. "maxVelocityTraj" \in flags' <=> since'.fast > 0
    BY <2>1, <2>2, <2>4 DEF Min2
  <2>6. CASE ~holds
    BY <1>2, <2>1, <2>2, <2>3, <2>5, <2>6, DriveCounts DEF CountersOK
  <2>7. CASE holds /\ since.fast <= MaxVelDriveTime
    <3>1. counter.maxVelDrive = since.fast
      BY <2>4, <2>7 DEF FastAgrees
    <3>2. k.maxVelDrive = counter.maxVelDrive + 1
      BY <1>2, <2>2, <2>3, <2>7, <3>1, DriveCounts DEF CountersOK
    <3> QED BY <2>1, <2>4, <2>5, <2>7, <3>1, <3>2 DEF Min2
  <2>8. CASE holds /\ since.fast > MaxVelDriveTime
    BY <2>1, <2>4, <2>5, <2>8 DEF Min2
  <2> QED BY <2>4, <2>6, <2>7, <2>8
<1>11. OverspeedPunctual'
  <2>1. MaxVelTrajTime > 0 =>
          /\ "maxVelocityTraj" \in flags' <=> since'.fast > 0
          /\ since'.fast <= MaxVelDriveTime + 1 => k.maxVelDrive = since'.fast
    BY <1>10 DEF FastAgrees, k
  <2> QED BY <1>5, <1>7, <1>9, <2>1, BoundsAreNat DEF OverspeedPunctual
<1>12. \A T \in Nat : T < Horizon =>
          (k.velocityDiff > T <=> since'.diff >= T /\ since'.apart > T)
  BY <1>7, BoundsAreNat DEF Ahead
<1>13. Punctual'
  <2>1. /\ "velocityDiffTraj" \in flags'
              <=> since'.diff >= VelDiffTrajTime /\ since'.apart > VelDiffTrajTime
        /\ "velocityDiffDrive" \in flags'
              <=> since'.diff >= VelDiffDriveTime /\ since'.apart > VelDiffDriveTime
    BY <1>5, <1>12, BoundsAreNat
  <2>2. /\ "lagTraj" \in flags' <=> since'.lag > LagTime
        /\ "lagDrive" \in flags' <=> since'.lag > 0 /\ since'.lag >= 2 * LagTime
    <3>1. k.lag \in Nat /\ LagTime \in Nat /\ since'.lag = k.lag
      BY <1>7, BoundsAreNat
    <3> QED BY <1>5, <1>6, <3>1
  <2> QED BY <1>11, <2>1, <2>2 DEF Punctual
<1>14. AtTargetSettled'
  BY <1>1, <1>3, <1>7 DEF AtTargetSettled, AtTarget
<1> QED BY <1>0, <1>10, <1>13, <1>14 DEF Counting

\* The counting invariant holds in every state.
LEMMA CountingInvariant == Spec => []Counting
<1>1. Init => Counting
  <2> SUFFICES ASSUME Init PROVE Counting
    OBVIOUS
  <2>1. CountersOK /\ CountsAgree /\ FastAgrees
    BY BoundsAreNat DEF Init, CountersOK, CountsAgree, FastAgrees, Counters, Conditions, Ahead
  <2>2. Punctual /\ AtTargetSettled
    BY DEF Init, Punctual, AtTargetSettled
  <2> QED BY <2>1, <2>2 DEF Counting
<1>2. Counting /\ [Next]_vars => Counting'
  <2> SUFFICES ASSUME Counting, [Next]_vars PROVE Counting'
    OBVIOUS
  <2>1. CASE Cycle
    BY <2>1, CycleIsPunctual DEF Counting
  <2>2. CASE Reset
    <3>1. (CountersOK /\ CountsAgree /\ FastAgrees)'
      BY <2>2, BoundsAreNat DEF Reset, CountersOK, CountsAgree, FastAgrees, Counters, Conditions,
                                Ahead
    <3>2. (Punctual /\ AtTargetSettled)'
      BY <2>2 DEF Reset, Punctual, AtTargetSettled
    <3> QED BY <3>1, <3>2 DEF Counting
  <2>3. CASE StartMotion \/ SetPLCInterlock \/ SetLatchAtLimit \/ SetEnableHardLimitAlarm
    <3>1. UNCHANGED <<counter, since, atTarget, in>> /\ last' = "command"
      BY <2>3 DEF StartMotion, SetPLCInterlock, SetLatchAtLimit, SetEnableHardLimitAlarm
    <3>2. "maxVelocityTraj" \in flags' <=> "maxVelocityTraj" \in flags
      BY <2>3 DEF StartMotion, SetPLCInterlock, SetLatchAtLimit, SetEnableHardLimitAlarm, With
    <3> QED BY <3>1, <3>2
            DEF Counting, CountersOK, CountsAgree, FastAgrees, Punctual, AtTargetSettled
  <2>4. CASE UNCHANGED vars
    BY <2>4 DEF vars, Counting, CountersOK, CountsAgree, FastAgrees, Punctual,
                OverspeedPunctual, AtTargetSettled
  <2> QED BY <2>1, <2>2, <2>3, <2>4 DEF Next
<1> QED BY <1>1, <1>2, PTL DEF Spec

\* A lag, an overspeed and a difference of the velocities are interlocked after their
\* times and not before, with the exceptions that Punctual names, whatever the times are.
THEOREM MonitoringIsPunctual == Spec => []Punctual
BY CountingInvariant, PTL DEF Counting

\* An enabled axis is at its target only after its time within the tolerance.
THEOREM AtTargetIsSettled == Spec => []AtTargetSettled
BY CountingInvariant, PTL DEF Counting

\* There are inputs with nothing to see.
LEMMA QuietIsInput == Quiet \in Inputs
<1> DEFINE q == [bwd |-> TRUE, fwd |-> TRUE, vel |-> 0, moving |-> FALSE, pos |-> 0,
                 lag |-> FALSE, diff |-> FALSE, over |-> FALSE, high |-> FALSE,
                 settled |-> TRUE, encDiff |-> FALSE, stopping |-> FALSE,
                 hardware |-> FALSE, enabled |-> TRUE, master |-> TRUE]
<1>1. q \in Inputs
  <2>1. \A name : TRUE \in Vary(name, TRUE, BOOLEAN) /\ FALSE \in Vary(name, FALSE, BOOLEAN)
    BY Zenon DEF Vary
  <2>2. 0 \in -1..1
    OBVIOUS
  <2>3. \A name : 0 \in Vary(name, 0, -1..1)
    BY <2>2, Zenon DEF Vary
  <2> QED BY <2>1, <2>3, Zenon DEF Inputs
<1>2. /\ q.bwd /\ q.fwd /\ q.vel = 0 /\ ~q.moving /\ q.pos = 0
      /\ ~(q.lag \/ q.diff \/ q.over \/ q.high \/ q.encDiff \/ q.stopping \/ q.hardware)
      /\ q.settled /\ q.enabled /\ q.master
  OBVIOUS
<1> HIDE DEF q
<1> QED BY <1>1, <1>2, Zenon DEF Quiet

\* The checks set interlocks of the axis only.
LEMMA CheckedAreFlags ==
    ASSUME flags \subseteq Flags, NEW i, NEW k
    PROVE  Checked(i, Moved(i), k) \subseteq Flags
<1>1. Moved(i) \subseteq Flags
  BY DEF Moved, Read, With, Flags, DriveFlags, TrajFlags
<1>2. CheckLimits(Moved(i), i) \subseteq Flags
  BY <1>1 DEF CheckLimits, BwdLimit, FwdLimit, SoftLimits, With, Flags, DriveFlags, BwdFlags,
              FwdFlags
<1> DEFINE L == CheckLimits(Moved(i), i)
<1> HIDE DEF L
<1>3. CheckPositionLag(L, i, k.lag) \subseteq Flags
  BY <1>2 DEF CheckPositionLag, With, Flags, DriveFlags, TrajFlags, L
<1> QED
  BY <1>3 DEF Checked, MaxVelTraj, MaxVelDrive, CheckCntrlMaxOutput, CheckVelocityDiff, With,
              Flags, DriveFlags, TrajFlags, L

\* A summary is a summary.
LEMMA SummaryType == ASSUME NEW F PROVE Summary(F) \in Summaries
BY DEF Summary, Summaries, AnyOf

\* The types of what is not counted.
Types ==
    /\ in \in Inputs
    /\ flags \subseteq Flags
    /\ summary \in Summaries
    /\ seen \in Summaries
    /\ atTarget \in BOOLEAN /\ error \in BOOLEAN /\ enable \in BOOLEAN
    /\ latchOnLimit \in BOOLEAN
    /\ alarm \subseteq {"bwd", "fwd"}
    /\ held \subseteq {"bwd", "fwd"}
    /\ last \in {"cycle", "command"}

LEMMA TypesInvariant == Spec => []Types
<1>1. Init => Types
  BY QuietIsInput, SummaryType DEF Init, Types
<1>2. Types /\ [Next]_vars => Types'
  <2> SUFFICES ASSUME Types, [Next]_vars PROVE Types'
    OBVIOUS
  <2>1. CASE Cycle
    <3>1. PICK i \in Inputs :
             /\ in' = i /\ seen' = Seen(i)
             /\ flags' = Checked(i, Moved(i), counter')
             /\ summary' = Summary(flags')
             /\ atTarget' = AtTarget(i, counter'.atTarget)
             /\ error' = (error \/ Fails(i, flags'))
             /\ enable' = (i.enabled /\ i.master)
      BY <2>1 DEF Cycle
    <3>2. Seen(i) \in Summaries
      BY SummaryType DEF Seen
    <3>3. held' \subseteq {"bwd", "fwd"} /\ last' = "cycle" /\ UNCHANGED <<latchOnLimit, alarm>>
      BY <2>1 DEF Cycle
    <3>4. atTarget' \in BOOLEAN /\ error' \in BOOLEAN /\ enable' \in BOOLEAN
      BY <3>1 DEF AtTarget
    <3> QED BY <3>1, <3>2, <3>3, <3>4, CheckedAreFlags, SummaryType DEF Types
  <2>2. CASE Reset
    BY <2>2, SummaryType DEF Reset, Types
  <2>3. CASE StartMotion
    BY <2>3, SummaryType DEF StartMotion, Types
  <2>4. CASE SetPLCInterlock
    BY <2>4 DEF SetPLCInterlock, Types, With, Flags, TrajFlags, BwdFlags, FwdFlags
  <2>5. CASE SetLatchAtLimit \/ SetEnableHardLimitAlarm
    BY <2>5 DEF SetLatchAtLimit, SetEnableHardLimitAlarm, Types
  <2>6. CASE UNCHANGED vars
    BY <2>6 DEF vars, Types
  <2> QED BY <2>1, <2>2, <2>3, <2>4, <2>5, <2>6 DEF Next
<1> QED BY <1>1, <1>2, PTL DEF Spec

\* Every state is of its type, and no counter passes its bound.
THEOREM TypeCorrect == Spec => []TypeOK
<1>1. Types /\ Counting => TypeOK
  <2> SUFFICES ASSUME Types, Counting PROVE TypeOK
    OBVIOUS
  <2>1. \A c \in Counters : counter[c] \in 0..Bound[c]
    BY BoundsAreNat DEF Counting, CountersOK, Counters
  <2>2. \A c \in DOMAIN Conditions : since[c] \in 0..Conditions[c]
    <3>1. DOMAIN Conditions = {"lag", "over", "fast", "diff", "apart", "settled"}
      BY DEF Conditions
    <3> QED BY <3>1, BoundsAreNat DEF Counting, CountersOK
  <2> QED BY <2>1, <2>2 DEF Types, TypeOK
<1> QED BY <1>1, TypesInvariant, CountingInvariant, PTL

(***************************************************************************)
(* The bus.                                                                *)
(***************************************************************************)

BusErrors == {"none", "not_online", "not_operational", "init", "preop", "safeop",
           "undefined", "status_not_ok", "mismatch"}
Buses == [diag: BOOLEAN, slaves: BOOLEAN, master: BOOLEAN, domain: BOOLEAN,
          failed: 0 .. (DomainLimit + 1), count: 0 .. (OkDelay + 1), startup: BOOLEAN,
          error: BusErrors, slow: 0 .. SlowPeriod, told: BOOLEAN]
BusPasts == [bad: 0 .. (DomainLimit + 1), good: 0 .. (OkDelay + 1), up: SUBSET Slaves,
          checked: BOOLEAN]

(***************************************************************************)
(* The invariant                                                           *)
(***************************************************************************)
BusTyped == /\ bus \in Buses /\ past \in BusPasts
         /\ state \in [Slaves -> Reports \cup {Down}] /\ slaveAlarm \in [Slaves -> BOOLEAN]

\* The counters of the code are those of the history: failures of the domain exactly, good
\* cycles of the startup at most.
BusCounts == /\ bus.failed = past.bad
          /\ bus.count <= past.good

\* The startup ends after enough good cycles.
StartupWasLong == bus.diag /\ ~bus.startup => past.good > OkDelay

\* The master is well only after the slaves have been, and the last look says so.
MasterWasSeen == bus.diag /\ bus.master => bus.slaves /\ past.checked

BusInv == BusTyped /\ BusCounts /\ StartupWasLong /\ MasterWasSeen /\ OkIsBacked /\ AlarmTells

LEMMA BusInitKeeps == ASSUME EcInit PROVE BusInv
<1>1. PICK diag \in BOOLEAN :
        bus = [diag |-> diag, slaves |-> FALSE, master |-> FALSE, domain |-> FALSE,
               failed |-> 0, count |-> 0, startup |-> TRUE, error |-> "status_not_ok",
               slow |-> 0, told |-> FALSE]
  BY DEF EcInit
<1>2. 0 \in 0 .. (DomainLimit + 1) /\ 0 \in 0 .. (OkDelay + 1) /\ 0 \in 0 .. SlowPeriod
  BY EcAssumption
<1> DEFINE z == 0
<1>3. bus = [diag |-> diag, slaves |-> FALSE, master |-> FALSE, domain |-> FALSE,
             failed |-> z, count |-> z, startup |-> TRUE, error |-> "status_not_ok",
             slow |-> z, told |-> FALSE]
      /\ past = [bad |-> z, good |-> z, up |-> {}, checked |-> FALSE]
  BY <1>1 DEF EcInit
<1>4. z \in 0 .. (DomainLimit + 1) /\ z \in 0 .. (OkDelay + 1) /\ z \in 0 .. SlowPeriod
      /\ z <= z
  BY <1>2
<1> HIDE DEF z
<1>5. bus \in Buses /\ past \in BusPasts
  BY <1>3, <1>4 DEF Buses, BusPasts, BusErrors
<1>6. bus.failed = past.bad /\ bus.count <= past.good /\ bus.startup /\ ~bus.master
      /\ ~bus.told /\ past.up = {}
  BY <1>3, <1>4
<1>7. state = [s \in Slaves |-> Down] /\ slaveAlarm = [s \in Slaves |-> FALSE]
  BY DEF EcInit
<1>8. ~Up(Down)
  BY DEF Up, Down
<1> QED
  BY <1>5, <1>6, <1>7, <1>8 DEF BusInv, BusTyped, BusCounts, StartupWasLong, MasterWasSeen,
     OkIsBacked, AlarmTells

(***************************************************************************)
(* What the functions of a cycle change                                    *)
(***************************************************************************)
LEMMA DomainFields ==
    ASSUME NEW b \in Buses, NEW w \in AnyWorld
    PROVE  LET r == CheckDomainState(b, w)
           IN  /\ r \in Buses
               /\ r.failed = IF w.complete THEN 0
                             ELSE IF b.failed <= DomainLimit THEN b.failed + 1 ELSE b.failed
               /\ r.domain = (r.failed <= DomainLimit)
               /\ r.diag = b.diag /\ r.slaves = b.slaves /\ r.master = b.master
               /\ r.count = b.count /\ r.startup = b.startup /\ r.slow = b.slow
<1> DEFINE failed == IF w.complete THEN 0
                     ELSE IF b.failed <= DomainLimit THEN b.failed + 1 ELSE b.failed
           ok == failed <= DomainLimit
           r == CheckDomainState(b, w)
<1>1. b.failed \in 0 .. (DomainLimit + 1)
  BY DEF Buses
<1>2. failed \in 0 .. (DomainLimit + 1) /\ ok \in BOOLEAN
  BY <1>1, EcAssumption
<1>3. r = [b EXCEPT !.failed = failed, !.domain = ok]
  BY DEF CheckDomainState
<1>4. ok = (failed <= DomainLimit)
  OBVIOUS
<1> HIDE DEF failed, ok, r
<1>5. r \in Buses /\ r.failed = failed /\ r.domain = ok
      /\ r.diag = b.diag /\ r.slaves = b.slaves /\ r.master = b.master
      /\ r.count = b.count /\ r.startup = b.startup /\ r.slow = b.slow
  BY <1>2, <1>3 DEF Buses
<1> QED
  BY <1>4, <1>5 DEF failed, r

LEMMA StatusFields ==
    ASSUME NEW b \in Buses
    PROVE  LET r == AfterStatusOk(b)
           IN  /\ r \in Buses
               /\ r.startup = (b.startup /\ ~StartupEnds(b))
               /\ r.diag = b.diag /\ r.slaves = b.slaves /\ r.master = b.master
               /\ r.domain = b.domain /\ r.failed = b.failed /\ r.count = b.count
               /\ r.slow = b.slow /\ r.told = b.told
BY DEF AfterStatusOk, StartupEnds, Buses, BusErrors

LEMMA StateFields ==
    ASSUME NEW b \in Buses, NEW w \in AnyWorld
    PROVE  LET r == CheckState(b, w)
           IN  /\ r \in Buses
               /\ r.slaves = (~b.diag \/ SlavesOk(b, w))
               /\ b.diag => r.master = IF SlavesOk(b, w) THEN MasterOk(w) ELSE b.master
               /\ r.diag = b.diag /\ r.startup = b.startup /\ r.domain = b.domain
               /\ r.failed = b.failed /\ r.count = b.count /\ r.slow = b.slow
<1> DEFINE errors == {SlaveError(w.slave[s]) : s \in Slaves} \ {"none"}
           first == IF b.error = "none" /\ errors # {} THEN errors ELSE {b.error}
           up == SlavesOk(b, w)
           missing == up /\ w.link /\ Cardinality(Responding(w)) < Cardinality(Slaves)
           fault == IF missing THEN "mismatch" ELSE CHOOSE e \in first : TRUE
           master == IF up THEN MasterOk(w) ELSE b.master
           r == CheckState(b, w)
<1>1. fault \in BusErrors
  <2>1. \A s \in Slaves : SlaveError(w.slave[s]) \in BusErrors
    BY DEF SlaveError, BusErrors
  <2>2. first \subseteq BusErrors /\ first # {}
    BY <2>1 DEF Buses
  <2> HIDE DEF first
  <2>3. (CHOOSE e \in first : TRUE) \in first
    BY <2>2
  <2> QED
    BY <2>2, <2>3 DEF BusErrors
<1>2. up \in BOOLEAN
  BY DEF SlavesOk, Buses
<1>3. master \in BOOLEAN
  BY DEF MasterOk, Buses, AnyWorld
<1>4. CASE ~b.diag
  <2>1. r = [b EXCEPT !.slaves = TRUE, !.master = TRUE]
    BY <1>4 DEF CheckState
  <2> HIDE DEF r
  <2> QED
    BY <1>4, <2>1 DEF Buses, r
<1>5. CASE b.diag
  <2>1. r = [b EXCEPT !.slaves = up, !.master = master, !.error = fault]
    BY <1>5 DEF CheckState
  <2> HIDE DEF r, up, master, fault
  <2>2. r \in Buses /\ r.slaves = up /\ r.master = master
        /\ r.diag = b.diag /\ r.startup = b.startup /\ r.domain = b.domain
        /\ r.failed = b.failed /\ r.count = b.count /\ r.slow = b.slow
    BY <1>1, <1>2, <1>3, <2>1 DEF Buses
  <2>3. r.slaves = (~b.diag \/ up)
    BY <1>2, <1>5, <2>2
  <2>4. r.master = IF up THEN MasterOk(w) ELSE b.master
    BY <2>2 DEF master
  <2> QED
    BY <2>2, <2>3, <2>4 DEF r, up
<1> QED
  BY <1>4, <1>5 DEF Buses

LEMMA CountFields ==
    ASSUME NEW b \in Buses
    PROVE  LET r == CountGood(b)
           IN  /\ r \in Buses
               /\ r.count = IF b.startup /\ AllOk(b) /\ b.count <= OkDelay THEN b.count + 1
                            ELSE b.count
               /\ r.diag = b.diag /\ r.slaves = b.slaves /\ r.master = b.master
               /\ r.startup = b.startup /\ r.domain = b.domain /\ r.failed = b.failed
<1> DEFINE more == b.startup /\ AllOk(b) /\ b.count <= OkDelay
           count == b.count + 1
           r == CountGood(b)
<1>1. CASE more
  <2>1. count \in 0 .. (OkDelay + 1)
    BY <1>1, EcAssumption DEF Buses
  <2>2. r = [b EXCEPT !.count = count]
    BY <1>1 DEF CountGood
  <2> HIDE DEF count, r
  <2>3. r \in Buses /\ r.count = count
        /\ r.diag = b.diag /\ r.slaves = b.slaves /\ r.master = b.master
        /\ r.startup = b.startup /\ r.domain = b.domain /\ r.failed = b.failed
    BY <2>1, <2>2 DEF Buses
  <2> QED
    BY <1>1, <2>3 DEF count, r
<1>2. CASE ~more
  <2>1. r = b
    BY <1>2 DEF CountGood
  <2> QED
    BY <1>2, <2>1
<1> QED
  BY <1>1, <1>2

(***************************************************************************)
(* A cycle                                                                 *)
(***************************************************************************)
\* The bus after a cycle, with what it was in between.
LEMMA CycleKeeps ==
    ASSUME BusInv, NEW w \in AnyWorld, BusCycle(w)
    PROVE  BusInv'
<1> DEFINE slow == bus.slow = 0
           b1 == CheckDomainState(bus, w)
           b2 == AfterStatusOk(b1)
           b3 == IF slow THEN CheckState(b2, w) ELSE b2
           b4 == CountGood(b3)
           looked == slow /\ bus.diag
           bad == IF w.complete THEN 0
                  ELSE IF past.bad <= DomainLimit THEN past.bad + 1 ELSE past.bad
           good == IF (w.complete \/ past.bad < DomainLimit) /\ past.good <= OkDelay
                   THEN past.good + 1 ELSE past.good
           up == IF looked THEN past.up \cup {s \in Slaves : Up(w.slave[s])} ELSE past.up
           checked == IF looked THEN MasterOk(w) ELSE past.checked
           tell == StatusOk(b2)
           left == IF slow THEN SlowPeriod ELSE bus.slow - 1
<1>1. /\ bus \in Buses /\ past \in BusPasts /\ BusCounts /\ StartupWasLong /\ MasterWasSeen
      /\ AlarmTells
      /\ state \in [Slaves -> Reports \cup {Down}] /\ slaveAlarm \in [Slaves -> BOOLEAN]
  BY DEF BusInv, BusTyped
<1>2. /\ bus' = [b4 EXCEPT !.slow = IF slow THEN SlowPeriod ELSE @ - 1, !.told = tell]
      /\ past' = [bad |-> bad, good |-> good, up |-> up, checked |-> checked]
      /\ state' = IF looked THEN w.slave ELSE state
      /\ slaveAlarm' = IF looked THEN [s \in Slaves |-> AlarmAfter(s, w.slave[s])] ELSE slaveAlarm
  BY DEF BusCycle
<1>3. /\ b1 \in Buses /\ b1.failed = bad /\ b1.domain = (b1.failed <= DomainLimit)
      /\ b1.diag = bus.diag /\ b1.slaves = bus.slaves /\ b1.master = bus.master
      /\ b1.count = bus.count /\ b1.startup = bus.startup /\ b1.slow = bus.slow
  BY <1>1, DomainFields DEF BusCounts
<1> HIDE DEF b1
<1>4. /\ b2 \in Buses /\ b2.startup = (b1.startup /\ ~StartupEnds(b1))
      /\ b2.diag = b1.diag /\ b2.slaves = b1.slaves /\ b2.master = b1.master
      /\ b2.domain = b1.domain /\ b2.failed = b1.failed /\ b2.count = b1.count
      /\ b2.slow = b1.slow
  BY <1>3, StatusFields
<1> HIDE DEF b2
<1>5. /\ b3 \in Buses /\ b3.diag = b2.diag /\ b3.startup = b2.startup
      /\ b3.domain = b2.domain /\ b3.failed = b2.failed /\ b3.count = b2.count
      /\ b3.slow = b2.slow
      /\ looked => /\ b3.slaves = SlavesOk(b2, w)
                   /\ b3.master = IF SlavesOk(b2, w) THEN MasterOk(w) ELSE b2.master
      /\ ~slow => b3 = b2
  <2>1. CASE slow
    <3>1. b3 = CheckState(b2, w)
      BY <2>1
    <3>2. bus.diag => b2.diag
      BY <1>3, <1>4
    <3>3. b2.diag => CheckState(b2, w).slaves = SlavesOk(b2, w)
      BY <1>4, StateFields DEF SlavesOk, Buses
    <3> HIDE DEF b3
    <3> QED
      BY <1>4, <2>1, <3>1, <3>2, <3>3, StateFields
  <2>2. CASE ~slow
    BY <1>4, <2>2
  <2> QED
    BY <2>1, <2>2
<1> HIDE DEF b3
<1>6. /\ b4 \in Buses /\ b4.diag = b3.diag /\ b4.slaves = b3.slaves
      /\ b4.master = b3.master /\ b4.startup = b3.startup /\ b4.failed = b3.failed
      /\ b4.count = IF b3.startup /\ AllOk(b3) /\ b3.count <= OkDelay THEN b3.count + 1
                    ELSE b3.count
      /\ b4.slow = b3.slow
  <2>1. b4.slow = b3.slow
    BY <1>5 DEF CountGood, Buses
  <2> QED
    BY <1>5, <2>1, CountFields
<1> HIDE DEF b4
<1>7. bus' = [b4 EXCEPT !.slow = left, !.told = tell]
  BY <1>2, <1>3, <1>4, <1>5, <1>6 DEF Buses
<1>8. left \in 0 .. SlowPeriod
  BY <1>1, EcAssumption DEF Buses
<1>9. tell \in BOOLEAN
  BY <1>4 DEF StatusOk, AllOk, Buses
<1>10. bad \in 0 .. (DomainLimit + 1) /\ good \in 0 .. (OkDelay + 1)
  BY <1>1, EcAssumption DEF BusPasts
<1>11. up \in SUBSET Slaves /\ checked \in BOOLEAN
  BY <1>1 DEF BusPasts, MasterOk, AnyWorld
<1>12. good >= past.good /\ (bad <= DomainLimit /\ past.good <= OkDelay => good = past.good + 1)
  BY <1>1, EcAssumption DEF BusPasts
<1>13. b4.count <= good
  <2>1. b3.count = bus.count /\ bus.count \in 0 .. (OkDelay + 1) /\ past.good \in 0 .. (OkDelay + 1)
    BY <1>1, <1>3, <1>4, <1>5 DEF Buses, BusPasts
  <2>2. AllOk(b3) => bad <= DomainLimit
    BY <1>3, <1>4, <1>5 DEF AllOk
  <2>3. bus.count <= past.good
    BY <1>1 DEF BusCounts
  <2>4. b4.count = b3.count \/ (b4.count = b3.count + 1 /\ AllOk(b3) /\ b3.count <= OkDelay)
    BY <1>6
  <2> HIDE DEF bad, good
  <2> QED
    BY <1>10, <1>12, <2>1, <2>2, <2>3, <2>4, EcAssumption
<1>14. bus.diag /\ ~b2.startup => good > OkDelay
  <2>1. bus.diag /\ ~bus.startup => past.good > OkDelay
    BY <1>1 DEF StartupWasLong
  <2>2. bus.diag /\ bus.startup /\ ~b2.startup => bus.count > OkDelay
    BY <1>3, <1>4 DEF StartupEnds
  <2>3. bus.count \in Nat /\ past.good \in Nat /\ bus.count <= past.good
    BY <1>1, EcAssumption DEF Buses, BusPasts, BusCounts
  <2>4. bus.startup \in BOOLEAN
    BY <1>1 DEF Buses
  <2> HIDE DEF good
  <2> QED
    BY <1>10, <1>12, <2>1, <2>2, <2>3, <2>4, EcAssumption
<1>15. bus.diag /\ b4.master => b4.slaves /\ checked
  BY <1>1, <1>3, <1>4, <1>5, <1>6 DEF MasterWasSeen, SlavesOk
<1>16. bus.diag /\ tell => /\ bad <= DomainLimit
                           /\ good > OkDelay
                           /\ checked \/ left = SlowPeriod
  <2> SUFFICES ASSUME bus.diag, tell
               PROVE  bad <= DomainLimit /\ good > OkDelay /\ (checked \/ left = SlowPeriod)
    OBVIOUS
  <2>1. b2.domain /\ b2.master /\ ~b2.startup
    BY <1>3, <1>4 DEF StatusOk, AllOk
  <2>2. bad <= DomainLimit
    BY <1>3, <1>4, <2>1
  <2>3. past.checked
    BY <1>1, <1>3, <1>4, <2>1 DEF MasterWasSeen
  <2> QED
    BY <1>14, <2>1, <2>2, <2>3
\* The alarms
<1>17. /\ state' \in [Slaves -> Reports \cup {Down}] /\ slaveAlarm' \in [Slaves -> BOOLEAN]
       /\ \A s \in Slaves : /\ Up(state'[s]) => ~slaveAlarm'[s]
                            /\ s \in up /\ ~Up(state'[s]) => slaveAlarm'[s]
  <2>1. CASE ~looked
    BY <1>1, <1>2, <2>1 DEF AlarmTells
  <2>2. CASE looked
    <3>1. state' = w.slave /\ w.slave \in [Slaves -> Reports]
      BY <1>2, <2>2 DEF AnyWorld
    <3>2. slaveAlarm' = [s \in Slaves |-> AlarmAfter(s, w.slave[s])]
      BY <1>2, <2>2
    <3>3. \A s \in Slaves : AlarmAfter(s, w.slave[s]) \in BOOLEAN
      BY <1>1 DEF AlarmAfter, Up
    <3>4. ASSUME NEW s \in Slaves
          PROVE  /\ Up(w.slave[s]) => ~AlarmAfter(s, w.slave[s])
                 /\ s \in up /\ ~Up(w.slave[s]) => AlarmAfter(s, w.slave[s])
      BY <1>1, <2>2 DEF AlarmAfter, Up, AlarmTells
    <3> QED
      BY <3>1, <3>2, <3>3, <3>4
  <2> QED
    BY <2>1, <2>2
<1> HIDE DEF bad, good, up, checked, tell, left, looked, slow
<1>18. bus' \in Buses /\ bus'.diag = b4.diag /\ bus'.slaves = b4.slaves
       /\ bus'.master = b4.master /\ bus'.failed = b4.failed /\ bus'.count = b4.count
       /\ bus'.startup = b4.startup /\ bus'.slow = left /\ bus'.told = tell
  BY <1>6, <1>7, <1>8, <1>9 DEF Buses
<1>19. past' \in BusPasts /\ past'.bad = bad /\ past'.good = good /\ past'.up = up
       /\ past'.checked = checked
  BY <1>2, <1>10, <1>11 DEF BusPasts
<1>20. BusTyped' /\ AlarmTells'
  BY <1>17, <1>18, <1>19 DEF BusTyped, AlarmTells
<1>21. BusCounts'
  BY <1>3, <1>4, <1>5, <1>6, <1>13, <1>18, <1>19 DEF BusCounts
<1>22. StartupWasLong'
  BY <1>3, <1>4, <1>5, <1>6, <1>14, <1>18, <1>19 DEF StartupWasLong
<1>23. MasterWasSeen' /\ OkIsBacked'
  BY <1>3, <1>4, <1>5, <1>6, <1>15, <1>16, <1>18, <1>19 DEF MasterWasSeen, OkIsBacked
<1> QED
  BY <1>20, <1>21, <1>22, <1>23 DEF BusInv

LEMMA BusStepKeeps ==
    ASSUME BusInv, [EcNext]_ecVars
    PROVE  BusInv'
<1>1. ASSUME NEW w \in AnyWorld, BusCycle(w) PROVE BusInv'
  BY <1>1, CycleKeeps
<1>2. CASE ShellAsks
  <2>1. bus \in Buses
    BY DEF BusInv, BusTyped
  <2>2. bus' = AfterStatusOk(bus) /\ state' = state /\ slaveAlarm' = slaveAlarm /\ past' = past
        /\ bus.count > OkDelay
    BY <1>2 DEF ShellAsks, StartupEnds
  <2>3. bus' \in Buses /\ bus'.diag = bus.diag /\ bus'.slaves = bus.slaves
        /\ bus'.master = bus.master /\ bus'.failed = bus.failed /\ bus'.count = bus.count
        /\ bus'.slow = bus.slow /\ bus'.told = bus.told
    BY <2>1, <2>2, StatusFields
  <2>4. past.good > OkDelay
    <3>1. bus.count \in Nat /\ past.good \in Nat /\ bus.count <= past.good
      BY EcAssumption DEF BusInv, BusTyped, BusCounts, Buses, BusPasts
    <3> QED
      BY <2>2, <3>1, EcAssumption
  <2> QED
    BY <2>2, <2>3, <2>4 DEF BusInv, BusTyped, BusCounts, StartupWasLong, MasterWasSeen,
       OkIsBacked, AlarmTells
<1>3. CASE ResetError
  <2>1. bus \in Buses
    BY DEF BusInv, BusTyped
  <2>2. bus' = [bus EXCEPT !.error = "none"] /\ state' = state /\ slaveAlarm' = slaveAlarm
        /\ past' = past
    BY <1>3 DEF ResetError
  <2>3. bus' \in Buses /\ bus'.diag = bus.diag /\ bus'.slaves = bus.slaves
        /\ bus'.master = bus.master /\ bus'.failed = bus.failed /\ bus'.count = bus.count
        /\ bus'.slow = bus.slow /\ bus'.told = bus.told /\ bus'.startup = bus.startup
    BY <2>1, <2>2 DEF Buses, BusErrors
  <2> QED
    BY <2>2, <2>3 DEF BusInv, BusTyped, BusCounts, StartupWasLong, MasterWasSeen,
       OkIsBacked, AlarmTells
<1>4. CASE UNCHANGED ecVars
  BY <1>4 DEF ecVars, BusInv, BusTyped, BusCounts, StartupWasLong, MasterWasSeen,
     OkIsBacked, AlarmTells
<1> QED
  BY <1>1, <1>2, <1>3, <1>4 DEF EcNext

(***************************************************************************)
(* The theorems                                                            *)
(***************************************************************************)
LEMMA BusHolds == EcSpec => []BusInv
<1>1. EcInit => BusInv
  BY BusInitKeeps
<1>2. BusInv /\ [EcNext]_ecVars => BusInv'
  BY BusStepKeeps
<1> QED
  BY <1>1, <1>2, PTL DEF EcSpec

\* Every variable keeps its type.
THEOREM EcTypeCorrect == EcSpec => []EcTypeOK
<1>1. BusInv => EcTypeOK
  BY DEF BusInv, BusTyped, EcTypeOK, Buses
<1>2. EcSpec => []BusInv
  BY BusHolds
<1> QED
  BY <1>1, <1>2, PTL

\* The axes are told that the bus is in order only while it is within its tolerance, after
\* a startup that was long enough, and when the last look at the master found it well.
THEOREM OkCorrect == EcSpec => []OkIsBacked
<1>1. BusInv => OkIsBacked
  BY DEF BusInv
<1>2. EcSpec => []BusInv
  BY BusHolds
<1> QED
  BY <1>1, <1>2, PTL

\* The slaveAlarm of a slave tells what the last look at it showed.
THEOREM AlarmCorrect == EcSpec => []AlarmTells
<1>1. BusInv => AlarmTells
  BY DEF BusInv
<1>2. EcSpec => []BusInv
  BY BusHolds
<1> QED
  BY <1>1, <1>2, PTL

(***************************************************************************)
(* The requests.                                                           *)
(***************************************************************************)

(***************************************************************************)
(* The invariant.  While the object is busy a command is in process, and   *)
(* the request may be under way, answered or failed; what a client may     *)
(* rely on later is by then in the flags or still in the request.          *)
(***************************************************************************)
BusyIsInProcess ==
    /\ sdo.busy <=> InProcess
    /\ request.state = "BUSY" => sdo.busy

\* A failure is in the error flag, or waits for the next cycle.
FailureIsKept == sdoPast.failed => sdo.error \/ (sdo.busy /\ request.state = "ERROR")

\* A read is remembered until the object comes to rest.
ReadIsKept == sdo.busy /\ sdoPast.read => sdo.inProcess["read"]

ReadIsPublished ==
    ~sdo.busy /\ request.state = "SUCCESS" /\ sdoPast.read => told = request.data

SdoInv == /\ AsyncSdoTypeOK /\ BusyIsInProcess /\ FailureIsKept /\ ReadIsKept
        /\ ReadIsPublished

Objects == [buffer: Data, busy: BOOLEAN, error: BOOLEAN,
            trigger: [Triggers -> BOOLEAN], inProcess: [Triggers -> BOOLEAN]]
Requests == [state: {"UNUSED", "BUSY", "SUCCESS", "ERROR"}, kind: Triggers, data: Data]
SdoPasts == [count: Nat, read: BOOLEAN, failed: BOOLEAN]

LEMMA SdoInvIsEnough == SdoInv => AnswersAreTrue
BY DEF SdoInv, BusyIsInProcess, FailureIsKept, ReadIsPublished, AnswersAreTrue

LEMMA SdoInitKeeps == AsyncSdoInit => SdoInv
BY DEF AsyncSdoInit, SdoInv, AsyncSdoTypeOK, BusyIsInProcess, FailureIsKept, ReadIsKept,
   ReadIsPublished, InProcess, Triggers

LEMMA SdoStepKeeps == SdoInv /\ [AsyncSdoNext]_sdoVars => SdoInv'
<1> SUFFICES ASSUME SdoInv, [AsyncSdoNext]_sdoVars PROVE SdoInv'
  OBVIOUS
<1>1. sdo \in Objects /\ request \in Requests /\ device \in Data /\ told \in Data
      /\ sdoPast \in SdoPasts
  BY DEF SdoInv, AsyncSdoTypeOK, Objects, Requests, SdoPasts
<1>2. BusyIsInProcess /\ FailureIsKept /\ ReadIsKept /\ ReadIsPublished
  BY DEF SdoInv
<1> USE DEF BusyIsInProcess, FailureIsKept, ReadIsKept, ReadIsPublished, InProcess
<1>3. ASSUME NEW v \in Data, SetBuffer(v) PROVE SdoInv'
  <2>1. sdo' \in Objects /\ sdo'.busy = sdo.busy /\ sdo'.error = sdo.error
        /\ sdo'.inProcess = sdo.inProcess
    BY <1>1, <1>3 DEF SetBuffer, Objects
  <2> QED
    BY <1>1, <1>2, <1>3, <2>1 DEF SetBuffer, SdoInv, AsyncSdoTypeOK, Objects, Requests, SdoPasts
<1>4. ASSUME NEW t \in Triggers, NEW level \in BOOLEAN, NoEdge(t, level) PROVE SdoInv'
  <2>1. sdo' \in Objects /\ sdo'.busy = sdo.busy /\ sdo'.error = sdo.error
        /\ sdo'.inProcess = sdo.inProcess
    BY <1>1, <1>4 DEF NoEdge, Objects
  <2> QED
    BY <1>1, <1>2, <1>4, <2>1 DEF NoEdge, SdoInv, AsyncSdoTypeOK, Objects, Requests, SdoPasts
<1>5. ASSUME NEW t \in Triggers, Refused(t) PROVE SdoInv'
  <2>1. sdo' \in Objects /\ sdo'.busy = sdo.busy /\ sdo'.error
        /\ sdo'.inProcess = sdo.inProcess
    BY <1>1, <1>5 DEF Refused, Objects
  <2> QED
    BY <1>1, <1>2, <1>5, <2>1 DEF Refused, SdoInv, AsyncSdoTypeOK, Objects, Requests, SdoPasts
<1>6. ASSUME NEW t \in Triggers, Accepted(t) PROVE SdoInv'
  <2>1. sdo' \in Objects /\ sdo'.busy /\ sdo'.inProcess[t]
        /\ \A u \in Triggers : u # t => sdo'.inProcess[u] = sdo.inProcess[u]
    BY <1>1, <1>6 DEF Accepted, Objects
  <2>2. sdo'.inProcess["read"] \/ sdo'.inProcess["write"]
    BY <2>1 DEF Triggers
  <2>3. request' \in Requests /\ request'.state = "BUSY"
    <3> DEFINE data == IF t = "write" THEN sdo.buffer ELSE request.data
    <3>1. data \in Data
      BY <1>1 DEF Objects, Requests
    <3>2. request' = [state |-> "BUSY", kind |-> t, data |-> data]
      BY <1>6 DEF Accepted
    <3> HIDE DEF data
    <3> QED
      BY <3>1, <3>2 DEF Requests
  <2>4. sdoPast' \in SdoPasts /\ ~sdoPast'.failed
        /\ sdoPast'.read = (t = "read" \/ (sdo.busy /\ sdoPast.read))
    BY <1>1, <1>6 DEF Accepted, SdoPasts, Objects
  <2>5. sdoPast'.read => sdo'.inProcess["read"]
    BY <1>2, <2>1, <2>4 DEF Triggers
  <2>6. device' = device /\ told' = told
    BY <1>6 DEF Accepted
  <2> QED
    BY <1>1, <2>1, <2>2, <2>3, <2>4, <2>5, <2>6
       DEF SdoInv, AsyncSdoTypeOK, Objects, Requests, SdoPasts
<1>7. CASE Answered
  <2>1. request' \in Requests /\ request'.state = "SUCCESS" /\ request.state = "BUSY"
    BY <1>1, <1>7 DEF Answered, Requests
  <2>2. device' \in Data
    BY <1>1, <1>7 DEF Answered, Requests
  <2> QED
    BY <1>1, <1>2, <1>7, <2>1, <2>2
       DEF Answered, SdoInv, AsyncSdoTypeOK, Objects, Requests, SdoPasts
<1>8. CASE Failed
  <2>1. request' \in Requests /\ request'.state = "ERROR" /\ request.state = "BUSY"
    BY <1>1, <1>8 DEF Failed, Requests
  <2>2. device' \in Data
    BY <1>1, <1>8 DEF Failed, Requests
  <2>3. sdoPast' \in SdoPasts /\ sdoPast'.read = sdoPast.read
    BY <1>1, <1>8 DEF Failed, SdoPasts
  <2> QED
    BY <1>1, <1>2, <1>8, <2>1, <2>2, <2>3
       DEF Failed, SdoInv, AsyncSdoTypeOK, Objects, Requests, SdoPasts
<1>9. CASE Execute
  <2> DEFINE read == sdo.inProcess["read"] /\ request.state = "SUCCESS"
             buffer == IF read THEN request.data ELSE sdo.buffer
             fault == sdo.error \/ request.state = "ERROR"
             none == [t \in Triggers |-> FALSE]
  <2>1. buffer \in Data /\ fault \in BOOLEAN /\ none \in [Triggers -> BOOLEAN]
    BY <1>1 DEF Objects, Requests
  <2>2. sdo' = [sdo EXCEPT !.busy = FALSE, !.inProcess = none, !.error = fault,
                           !.buffer = buffer]
    BY <1>1, <1>9 DEF Execute, AtRest, Objects
  <2>3. request.state \in {"SUCCESS", "ERROR"}
        /\ told' = (IF read THEN request.data ELSE told)
        /\ request' = request /\ device' = device /\ sdoPast' = sdoPast
    BY <1>9 DEF Execute
  <2>4. told' \in Data
    BY <1>1, <2>3 DEF Requests
  <2>5. ~none["read"] /\ ~none["write"]
    BY DEF Triggers
  <2>6. sdo.busy
    BY <1>2, <1>9 DEF Execute
  <2>7. sdoPast'.failed => fault
    BY <1>2, <2>3
  <2>8. request'.state = "SUCCESS" /\ sdoPast'.read => told' = request'.data
    BY <1>2, <2>3, <2>6
  <2> HIDE DEF buffer, fault, none, read
  <2>9. sdo' \in Objects /\ ~sdo'.busy /\ sdo'.error = fault /\ sdo'.inProcess = none
    BY <1>1, <2>1, <2>2 DEF Objects
  <2> QED
    BY <1>1, <2>3, <2>4, <2>5, <2>7, <2>8, <2>9
       DEF SdoInv, AsyncSdoTypeOK, Objects, Requests, SdoPasts
<1>10. CASE UNCHANGED sdoVars
  BY <1>1, <1>2, <1>10 DEF sdoVars, SdoInv, AsyncSdoTypeOK, Objects, Requests, SdoPasts
<1> QED
  BY <1>3, <1>4, <1>5, <1>6, <1>7, <1>8, <1>9, <1>10 DEF AsyncSdoNext

(***************************************************************************)
(* The theorems                                                            *)
(***************************************************************************)
LEMMA SdoHolds == AsyncSdoSpec => []SdoInv
BY SdoInitKeeps, SdoStepKeeps, PTL DEF AsyncSdoSpec

\* Every variable keeps its type.
THEOREM AsyncSdoTypeCorrect == AsyncSdoSpec => []AsyncSdoTypeOK
<1>1. SdoInv => AsyncSdoTypeOK
  BY DEF SdoInv
<1> QED
  BY <1>1, SdoHolds, PTL

\* Whatever clients command while a request is under way, at rest the error tells of the
\* last request and the value published is the one that was read.
THEOREM AnswersCorrect == AsyncSdoSpec => []AnswersAreTrue
BY SdoInvIsEnough, SdoHolds, PTL

(***************************************************************************)
(* The run.                                                                *)
(***************************************************************************)

\* The invariant of the whole, whatever the thread is looked at for.
RealtimeInv ==
    /\ choice = "bus" => BusInv
    /\ choice = "sdo" => SdoInv

\* The bus, the requests and the monitor do not touch each other.
LEMMA RealtimeStepKeeps == RealtimeInv /\ [MCNext]_allVars => RealtimeInv'
<1> SUFFICES ASSUME RealtimeInv, [MCNext]_allVars PROVE RealtimeInv'
  OBVIOUS
<1>1. choice' = choice
  BY DEF MCNext, allVars
<1>2. CASE choice = "bus"
  <2>1. [EcNext]_ecVars
    BY <1>2 DEF MCNext, allVars
  <2> QED
    BY <1>1, <1>2, <2>1, BusStepKeeps DEF RealtimeInv
<1>3. CASE choice = "sdo"
  <2>1. [AsyncSdoNext]_sdoVars
    BY <1>3 DEF MCNext, allVars
  <2> QED
    BY <1>1, <1>3, <2>1, SdoStepKeeps DEF RealtimeInv
<1> QED
  BY <1>1, <1>2, <1>3 DEF RealtimeInv

LEMMA RealtimeInitKeeps == MCInit => RealtimeInv
BY BusInitKeeps, SdoInitKeeps DEF MCInit, RealtimeInv

\* The axes are told that the bus is in order only when it is, the alarm of a slave tells
\* what the last look at it showed, and the value and the error of an object at rest are
\* those of its last requests.
THEOREM BusIsSafe == MCSpec => []BusSafe
<1>1. RealtimeInv => BusSafe
  BY SdoInvIsEnough DEF RealtimeInv, BusSafe, BusInv
<1> QED
  BY <1>1, RealtimeInitKeeps, RealtimeStepKeeps, PTL DEF MCSpec

(***************************************************************************)
(* The application mode, beside the parts of MCRealtime.                   *)
(***************************************************************************)
\* The steps of a realtime thread that has ecmcRTMutex, the end included.
Holding == {"test", "unlocked", "work", "work alone", "ended"}

\* A thread has the mutex in these steps and the port around a cycle.
Locks ==
    /\ \A t \in Threads : rtMutex = t <=> rt[t] \in Holding
    /\ \A t \in Threads : rt[t] \in {"want mutex", "work"} => port = t

\* One thread at most is on its way to the loop or in it; an ended one keeps
\* all others out, because it has the mutex for ever.
OneAlive ==
    /\ Ended => \A t \in Threads : ~InLoop(t)
    /\ ~Ended => \A t, u \in Threads : Alive(t) /\ Alive(u) => t = u

\* What the shell knows of the modes while it starts the system.
StartModes ==
    /\ shell = "scan" => appModeStat # "runtime"
    /\ shell \in {"start", "wait"} => appModeCmd = "runtime" /\ appModeStat = "startup"
    /\ shell = "allow" => appModeCmd = "runtime" /\ appModeStat = "runtime"

\* Before a thread is created, and after a start that failed before, no other is
\* in its loop or will ever get there.
NoThreadYet ==
    \/ shell = "start"
    \/ appModeCmd = "runtime" /\ appModeStat # "runtime" /\ shell # "wait"
Vacant == NoThreadYet => \A t \in Threads : ~InLoop(t) /\ (rt[t] = "first" => Ended)

\* The status says what there is.
Truthful ==
    /\ shell = "wait" \/ appModeStat = "runtime" => \E t \in Threads : Alive(t)
    /\ appModeStat = "startup" => ~allowRtCom

AppModeInv == AppModeTypeOK /\ Locks /\ OneAlive /\ StartModes /\ Vacant /\ Truthful

-----------------------------------------------------------------------------
\* The invariant holds initially.
LEMMA AppModeInitKeeps == AppModeInit => AppModeInv
BY AppModeAssumption DEF AppModeInit, AppModeInv, AppModeTypeOK, Locks, OneAlive, StartModes, Vacant, Truthful,
    NoThreadYet, Ended, InLoop, Alive, LoopSteps, RtSteps, Holding, Modes, Nobody, Shell, Motor

\* The thread t goes from one step to another, and all others stay where they are.
LEMMA ThreadMoves ==
    ASSUME AppModeTypeOK, NEW t \in Threads, NEW from \in RtSteps, NEW to \in RtSteps, RtTo(t, from, to)
    PROVE  /\ rt' \in [Threads -> RtSteps]
           /\ rt[t] = from /\ rt'[t] = to
           /\ \A u \in Threads : u # t => rt'[u] = rt[u]
BY DEF AppModeTypeOK, RtTo

\* Nobody enters or leaves the loop.
SameThreads ==
    /\ \A u \in Threads : (InLoop(u)' <=> InLoop(u)) /\ (rt'[u] = "first" <=> rt[u] = "first")
    /\ Ended' <=> Ended

\* Steps inside the loop are such steps.
LEMMA LoopStep ==
    ASSUME AppModeTypeOK, NEW t \in Threads, NEW from \in LoopSteps, NEW to \in LoopSteps,
           RtTo(t, from, to)
    PROVE  SameThreads
<1>1. /\ rt[t] = from /\ rt'[t] = to
      /\ \A u \in Threads : u # t => rt'[u] = rt[u]
  BY ThreadMoves DEF RtSteps
<1>2. from \notin {"first", "ended"} /\ to \notin {"first", "ended"}
  BY DEF LoopSteps
<1>3. \A u \in Threads : (InLoop(u)' <=> InLoop(u)) /\ (rt'[u] = "first" <=> rt[u] = "first")
  BY <1>1, <1>2 DEF InLoop
<1>4. \A u \in Threads : rt'[u] = "ended" <=> rt[u] = "ended"
  BY <1>1, <1>2
<1> QED BY <1>3, <1>4 DEF SameThreads, Ended

\* As long as nobody enters or leaves the loop, and the modes stay, who is alive
\* stays as well.
LEMMA SameThreadsKeep ==
    ASSUME AppModeInv, SameThreads, UNCHANGED <<appModeCmd, appModeStat, allowRtCom, shell>>
    PROVE  OneAlive' /\ StartModes' /\ Vacant' /\ Truthful'
<1>1. OneAlive'
  BY DEF AppModeInv, SameThreads, OneAlive, Alive
<1>2. StartModes'
  BY DEF AppModeInv, StartModes
<1>3. Vacant'
  BY DEF AppModeInv, SameThreads, Vacant, NoThreadYet
<1>4. Truthful'
  BY DEF AppModeInv, SameThreads, Truthful, Alive
<1> QED BY <1>1, <1>2, <1>3, <1>4

\* The loop's steps keep the types and the locks.
LEMMA ThreadKeepsLocks ==
    ASSUME AppModeInv, NEW t \in Threads, RtStep(t)
    PROVE  AppModeTypeOK' /\ Locks'
<1>0. /\ \A u \in Threads : u # "nobody" /\ u # "shell" /\ u # "motor"
      /\ "nobody" # "motor" /\ "nobody" # "shell"
  BY AppModeAssumption
<1>1. CASE RtFirst(t)
  <2>1. /\ rt' \in [Threads -> RtSteps]
        /\ rt[t] = "first" /\ rt'[t] = "test"
        /\ \A u \in Threads : u # t => rt'[u] = rt[u]
    BY <1>1, ThreadMoves DEF AppModeInv, RtSteps, LoopSteps, RtFirst
  <2>2. AppModeTypeOK'
    BY <1>0, <1>1, <2>1 DEF AppModeInv, AppModeTypeOK, RtFirst, Nobody, Motor
  <2>3. \A u \in Threads : rtMutex' = u <=> rt'[u] \in Holding
    BY <1>0, <1>1, <2>1 DEF AppModeInv, Locks, RtFirst, Holding, Nobody
  <2>4. \A u \in Threads : rt'[u] \in {"want mutex", "work"} => port' = u
    BY <1>0, <1>1, <2>1 DEF AppModeInv, Locks, RtFirst, Holding
  <2> QED BY <2>2, <2>3, <2>4 DEF Locks
<1>2. CASE RtContinue(t)
  <2>1. /\ rt' \in [Threads -> RtSteps]
        /\ rt[t] = "test" /\ rt'[t] = "unlocked"
        /\ \A u \in Threads : u # t => rt'[u] = rt[u]
    BY <1>2, ThreadMoves DEF AppModeInv, RtSteps, LoopSteps, RtContinue
  <2>2. AppModeTypeOK'
    BY <1>0, <1>2, <2>1 DEF AppModeInv, AppModeTypeOK, RtContinue, Nobody, Shell
  <2>3. \A u \in Threads : rtMutex' = u <=> rt'[u] \in Holding
    BY <1>0, <1>2, <2>1 DEF AppModeInv, Locks, RtContinue, Holding
  <2>4. \A u \in Threads : rt'[u] \in {"want mutex", "work"} => port' = u
    BY <1>0, <1>2, <2>1 DEF AppModeInv, Locks, RtContinue, Holding, Nobody
  <2> QED BY <2>2, <2>3, <2>4 DEF Locks
<1>3. CASE RtEnd(t)
  <2>1. /\ rt' \in [Threads -> RtSteps]
        /\ rt[t] = "test" /\ rt'[t] = "ended"
        /\ \A u \in Threads : u # t => rt'[u] = rt[u]
    BY <1>3, ThreadMoves DEF AppModeInv, RtSteps, LoopSteps, RtEnd
  <2> QED BY <1>0, <1>3, <2>1 DEF AppModeInv, AppModeTypeOK, Locks, RtEnd, Holding, Modes
<1>4. CASE RtSleep(t)
  <2>1. /\ rt' \in [Threads -> RtSteps]
        /\ rt[t] = "unlocked" /\ rt'[t] = "asleep"
        /\ \A u \in Threads : u # t => rt'[u] = rt[u]
    BY <1>4, ThreadMoves DEF AppModeInv, RtSteps, LoopSteps, RtSleep
  <2>2. AppModeTypeOK'
    BY <1>0, <1>4, <2>1 DEF AppModeInv, AppModeTypeOK, RtSleep, Locks, Holding, Nobody, Motor
  <2>3. \A u \in Threads : rtMutex' = u <=> rt'[u] \in Holding
    BY <1>0, <1>4, <2>1 DEF AppModeInv, Locks, RtSleep, Holding, Nobody
  <2>4. \A u \in Threads : rt'[u] \in {"want mutex", "work"} => port' = u
    BY <1>0, <1>4, <2>1 DEF AppModeInv, Locks, RtSleep, Holding
  <2> QED BY <2>2, <2>3, <2>4 DEF Locks
<1>5. CASE RtWake(t)
  <2>1. /\ rt' \in [Threads -> RtSteps]
        /\ rt[t] = "asleep" /\ rt'[t] \in {"want port", "want mutex only"}
        /\ \A u \in Threads : u # t => rt'[u] = rt[u]
    BY <1>5, ThreadMoves DEF AppModeInv, RtSteps, LoopSteps, RtWake
  <2> QED BY <1>0, <1>5, <2>1 DEF AppModeInv, AppModeTypeOK, Locks, RtWake, Holding
<1>6. CASE RtLockPort(t)
  <2>1. /\ rt' \in [Threads -> RtSteps]
        /\ rt[t] = "want port" /\ rt'[t] = "want mutex"
        /\ \A u \in Threads : u # t => rt'[u] = rt[u]
    BY <1>6, ThreadMoves DEF AppModeInv, RtSteps, LoopSteps, RtLockPort
  <2>2. AppModeTypeOK'
    BY <1>0, <1>6, <2>1 DEF AppModeInv, AppModeTypeOK, RtLockPort, Nobody, Shell
  <2>3. \A u \in Threads : rtMutex' = u <=> rt'[u] \in Holding
    BY <1>0, <1>6, <2>1 DEF AppModeInv, Locks, RtLockPort, Holding
  <2>4. \A u \in Threads : rt'[u] \in {"want mutex", "work"} => port' = u
    BY <1>0, <1>6, <2>1 DEF AppModeInv, Locks, RtLockPort, Holding, Nobody
  <2> QED BY <2>2, <2>3, <2>4 DEF Locks
<1>7. CASE RtLockMutex(t)
  <2>1. /\ rt' \in [Threads -> RtSteps]
        /\ \/ rt[t] = "want mutex" /\ rt'[t] = "work"
           \/ rt[t] = "want mutex only" /\ rt'[t] = "work alone"
        /\ \A u \in Threads : u # t => rt'[u] = rt[u]
    BY <1>7, ThreadMoves DEF AppModeInv, RtSteps, LoopSteps, RtLockMutex
  <2>2. AppModeTypeOK'
    <3>1. motor # "busy" /\ motor' = motor /\ rtMutex' = t
      BY <1>0, <1>7 DEF AppModeInv, AppModeTypeOK, RtLockMutex, Nobody, Motor
    <3>2. rtMutex' = Motor <=> motor' = "busy"
      BY <1>0, <3>1 DEF Motor
    <3>3. UNCHANGED <<appModeCmd, appModeStat, allowRtCom, port, shell, motor, ecOK>>
      BY <1>7 DEF RtLockMutex
    <3>4. rtMutex' \in Threads \cup {Nobody, Motor} /\ rt' \in [Threads -> RtSteps]
      BY <2>1, <3>1
    <3>5. port' = Shell <=> shell' \notin {"idle", "want port"}
      BY <3>3 DEF AppModeInv, AppModeTypeOK
    <3> QED BY <3>2, <3>3, <3>4, <3>5 DEF AppModeInv, AppModeTypeOK
  <2>3. \A u \in Threads : rtMutex' = u <=> rt'[u] \in Holding
    BY <1>0, <1>7, <2>1 DEF AppModeInv, Locks, RtLockMutex, Holding, Nobody
  <2>4. \A u \in Threads : rt'[u] \in {"want mutex", "work"} => port' = u
    BY <1>0, <1>7, <2>1 DEF AppModeInv, Locks, RtLockMutex, Holding
  <2> QED BY <2>2, <2>3, <2>4 DEF Locks
<1>8. CASE RtWork(t)
  <2>1. /\ rt' \in [Threads -> RtSteps]
        /\ rt[t] \in {"work", "work alone"} /\ rt'[t] = "test"
        /\ \A u \in Threads : u # t => rt'[u] = rt[u]
    BY <1>8, ThreadMoves DEF AppModeInv, RtSteps, LoopSteps, RtWork
  <2>2. ecOK' \in BOOLEAN
    BY <1>8 DEF AppModeInv, AppModeTypeOK, RtWork
  <2> QED BY <1>0, <1>8, <2>1, <2>2 DEF AppModeInv, AppModeTypeOK, Locks, RtWork, Holding
<1> QED BY <1>1, <1>2, <1>3, <1>4, <1>5, <1>6, <1>7, <1>8, RtStep(t) DEF RtStep

\* The loop's steps keep the invariant.  A thread gets into its loop only with
\* the mutex, and out of it only when the shell has told it to.
LEMMA ThreadKeepsInv ==
    ASSUME AppModeInv, NEW t \in Threads, RtStep(t)
    PROVE  AppModeInv'
<1>1. AppModeTypeOK' /\ Locks'
  BY ThreadKeepsLocks
<1>2. CASE RtFirst(t)
  <2>1. /\ rt[t] = "first" /\ rt'[t] = "test"
        /\ \A u \in Threads : u # t => rt'[u] = rt[u]
    BY <1>2, ThreadMoves DEF AppModeInv, RtFirst, RtSteps, LoopSteps
  <2>2. ~Ended
    BY <1>2, AppModeAssumption DEF RtFirst, AppModeInv, Locks, Ended, Holding, Nobody
  <2>3. ~Ended' /\ \A u \in Threads : Alive(u)' <=> Alive(u)
    BY <2>1, <2>2 DEF Ended, Alive, InLoop, LoopSteps
  <2>4. OneAlive'
    BY <2>2, <2>3 DEF AppModeInv, OneAlive
  <2>5. UNCHANGED <<appModeCmd, appModeStat, allowRtCom, shell>>
    BY <1>2 DEF RtFirst
  <2>6. StartModes' /\ Truthful'
    BY <2>3, <2>5 DEF AppModeInv, StartModes, Truthful
  <2>7. ~NoThreadYet
    BY <2>1, <2>2 DEF AppModeInv, Vacant
  <2>8. Vacant'
    BY <2>5, <2>7 DEF Vacant, NoThreadYet
  <2> QED BY <1>1, <2>4, <2>6, <2>8 DEF AppModeInv
<1>3. CASE RtEnd(t)
  <2>1. /\ rt[t] = "test" /\ rt'[t] = "ended"
        /\ \A u \in Threads : u # t => rt'[u] = rt[u]
    BY <1>3, ThreadMoves DEF AppModeInv, RtEnd, RtSteps, LoopSteps
  <2>2. appModeCmd' = appModeCmd /\ appModeCmd # "runtime" /\ shell' = shell
        /\ appModeStat' = "config"
    BY <1>3 DEF RtEnd
  <2>3. InLoop(t)
    BY <2>1 DEF InLoop, LoopSteps
  <2>4. Ended' /\ \A u \in Threads : ~InLoop(u)'
    <3>1. \A u \in Threads : u # t => ~InLoop(u)
      BY <2>3 DEF AppModeInv, OneAlive, Alive
    <3>2. \A u \in Threads : u # t => ~InLoop(u)'
      BY <2>1, <3>1 DEF InLoop
    <3> QED BY <2>1, <3>2 DEF Ended, InLoop, LoopSteps
  <2>5. OneAlive' /\ Vacant'
    BY <2>4 DEF OneAlive, Vacant
  <2>6. StartModes' /\ Truthful'
    BY <2>2 DEF AppModeInv, StartModes, Truthful
  <2> QED BY <1>1, <2>5, <2>6 DEF AppModeInv
<1>4. CASE RtContinue(t) \/ RtSleep(t) \/ RtWake(t) \/ RtLockPort(t) \/ RtLockMutex(t) \/ RtWork(t)
  <2>1. UNCHANGED <<appModeCmd, appModeStat, allowRtCom, shell>>
    BY <1>4 DEF RtContinue, RtSleep, RtWake, RtLockPort, RtLockMutex, RtWork
  <2>2. \E from, to \in LoopSteps : RtTo(t, from, to)
    BY <1>4 DEF RtContinue, RtSleep, RtWake, RtLockPort, RtLockMutex, RtWork, LoopSteps
  <2>3. SameThreads
    BY <2>2, LoopStep DEF AppModeInv
  <2> QED BY <1>1, <2>1, <2>3, SameThreadsKeep DEF AppModeInv
<1> QED BY <1>2, <1>3, <1>4, RtStep(t) DEF RtStep

\* The shell and the motor record.  A new thread comes when there is no other, or
\* none that will ever run.
LEMMA CallersKeepLocks ==
    ASSUME AppModeInv, ShellIdle \/ ShellStep \/ MotorIdle \/ MotorLock \/ MotorUnlock
    PROVE  AppModeTypeOK' /\ Locks'
<1>0. /\ \A u \in Threads : u # "nobody" /\ u # "shell" /\ u # "motor"
      /\ "nobody" # "motor" /\ "nobody" # "shell"
  BY AppModeAssumption
<1>1. CASE ShellIdle
  BY <1>1 DEF ShellIdle, AppModeInv, AppModeTypeOK, Locks
<1>2. CASE ShellLock
  BY <1>0, <1>2 DEF ShellLock, AppModeInv, AppModeTypeOK, Locks, Nobody, Shell
<1>3. CASE OtherCommand
  BY <1>0, <1>3 DEF OtherCommand, Return, AppModeInv, AppModeTypeOK, Locks, Nobody, Shell
<1>4. CASE SetAppModeConfig
  BY <1>0, <1>4 DEF SetAppModeConfig, SetAppModeCfg, Return, AppModeInv, AppModeTypeOK, Locks, Nobody, Shell
<1>5. CASE SetAppModeRun
  BY <1>5 DEF SetAppModeRun, AppModeInv, AppModeTypeOK, Locks
<1>6. CASE ScanTimeout
  BY <1>0, <1>6 DEF ScanTimeout, SetAppModeCfg, Return, AppModeInv, AppModeTypeOK, Locks, Nobody, Shell
<1>7. CASE ScanDone
  BY <1>7 DEF ScanDone, AppModeInv, AppModeTypeOK, Locks, Modes
<1>8. CASE StartFails
  BY <1>0, <1>8 DEF StartFails, Return, AppModeInv, AppModeTypeOK, Locks, Nobody, Shell
<1>9. ASSUME NEW t \in Threads, StartThread(t)
      PROVE  AppModeTypeOK' /\ Locks'
  BY <1>9 DEF StartThread, AppModeInv, AppModeTypeOK, Locks, Holding, RtSteps
<1>10. CASE Started
  BY <1>10 DEF Started, AppModeInv, AppModeTypeOK, Locks, Modes
<1>11. CASE AllowRtCom
  BY <1>0, <1>11 DEF AllowRtCom, Return, AppModeInv, AppModeTypeOK, Locks, Nobody, Shell
<1>12. CASE StartTimeout
  BY <1>0, <1>12 DEF StartTimeout, SetAppModeCfg, Return, AppModeInv, AppModeTypeOK, Locks, Nobody, Shell
<1>13. CASE MotorIdle
  BY <1>13 DEF MotorIdle, AppModeInv, AppModeTypeOK, Locks
<1>14. CASE MotorLock
  BY <1>0, <1>14 DEF MotorLock, AppModeInv, AppModeTypeOK, Locks, Nobody, Motor
<1>15. CASE MotorUnlock
  BY <1>0, <1>15 DEF MotorUnlock, AppModeInv, AppModeTypeOK, Locks, Nobody, Motor
<1> QED BY <1>1, <1>2, <1>3, <1>4, <1>5, <1>6, <1>7, <1>8, <1>9, <1>10, <1>11, <1>12, <1>13,
    <1>14, <1>15 DEF ShellStep

\* They keep the invariant: each start, failed or not, leaves the modes and the
\* threads in agreement.
LEMMA CallersKeepInv ==
    ASSUME AppModeInv, ShellIdle \/ ShellStep \/ MotorIdle \/ MotorLock \/ MotorUnlock
    PROVE  AppModeInv'
<1>1. AppModeTypeOK' /\ Locks'
  BY CallersKeepLocks
<1>2. ASSUME rt' = rt
      PROVE  (OneAlive <=> OneAlive') /\ SameThreads
  BY <1>2 DEF OneAlive, SameThreads, Ended, Alive, InLoop
\* Neither the modes nor the threads change, and no start goes on.
<1>3. ASSUME UNCHANGED <<appModeCmd, appModeStat, allowRtCom, rt>>,
             shell' = shell \/ {shell, shell'} \subseteq {"idle", "want port", "command"}
      PROVE  AppModeInv'
  <2>1. NoThreadYet' => NoThreadYet
    BY <1>3 DEF NoThreadYet
  <2>2. Vacant' /\ Truthful'
    BY <1>2, <1>3, <2>1 DEF AppModeInv, SameThreads, Vacant, Truthful, Alive
  <2> QED BY <1>1, <1>2, <1>3, <2>2 DEF AppModeInv, StartModes
<1>4. CASE ShellIdle \/ ShellLock \/ OtherCommand
  BY <1>3, <1>4 DEF ShellIdle, ShellLock, OtherCommand, Return
<1>5. CASE MotorIdle \/ MotorLock \/ MotorUnlock
  BY <1>3, <1>5 DEF MotorIdle, MotorLock, MotorUnlock
\* The mode is commanded back.
<1>6. CASE SetAppModeConfig \/ ScanTimeout \/ StartTimeout
  <2>1. /\ appModeCmd' = "config" /\ appModeStat' = appModeStat /\ rt' = rt /\ shell' = "idle"
        /\ allowRtCom' = FALSE \/ allowRtCom' = allowRtCom
    BY <1>6 DEF SetAppModeConfig, ScanTimeout, StartTimeout, SetAppModeCfg, Return
  <2>2. StartModes' /\ Vacant'
    BY <2>1 DEF StartModes, Vacant, NoThreadYet
  <2>3. Truthful'
    BY <1>2, <2>1 DEF AppModeInv, Truthful, SameThreads, Alive
  <2> QED BY <1>1, <1>2, <2>1, <2>2, <2>3 DEF AppModeInv
<1>7. CASE SetAppModeRun
  <2>1. UNCHANGED <<appModeCmd, appModeStat, allowRtCom, rt>> /\ shell = "command" /\ shell' = "scan"
        /\ appModeStat # "runtime"
    BY <1>7 DEF SetAppModeRun
  <2>2. (NoThreadYet' <=> NoThreadYet) /\ StartModes'
    BY <2>1 DEF NoThreadYet, StartModes
  <2>3. Vacant' /\ Truthful'
    BY <1>2, <2>1, <2>2 DEF AppModeInv, Vacant, Truthful, SameThreads, Alive
  <2> QED BY <1>1, <1>2, <2>1, <2>2, <2>3 DEF AppModeInv
\* A loop that was told to stop has stopped; one that was not is not there.
<1>8. CASE ScanDone
  <2>1. /\ shell = "scan" /\ shell' = "start" /\ rt' = rt /\ Settled /\ ~allowRtCom'
        /\ appModeCmd' = "runtime" /\ appModeStat' = "startup"
    BY <1>8 DEF ScanDone
  <2>2. \A t \in Threads : ~InLoop(t) /\ (rt[t] = "first" => Ended)
    <3>1. CASE appModeCmd = "runtime"
      BY <2>1, <3>1 DEF AppModeInv, StartModes, Vacant, NoThreadYet
    <3>2. CASE appModeCmd # "runtime"
      <4>1. \A t \in Threads : rt[t] \in {"none", "ended", "first"}
        BY <2>1, <3>2 DEF Settled
      <4>2. ASSUME NEW t \in Threads, rt[t] = "first"
            PROVE  Ended
        <5>1. rtMutex \in Threads
          BY <2>1, <3>2, <4>2 DEF Settled
        <5>2. rt[rtMutex] \in Holding
          BY <5>1 DEF AppModeInv, Locks
        <5> QED BY <4>1, <5>1, <5>2 DEF Holding, Ended
      <4> QED BY <4>1, <4>2 DEF InLoop, LoopSteps
    <3> QED BY <3>1, <3>2
  <2>3. Vacant'
    BY <1>2, <2>1, <2>2 DEF Vacant, SameThreads
  <2>4. StartModes' /\ Truthful'
    BY <2>1 DEF StartModes, Truthful
  <2> QED BY <1>1, <1>2, <2>1, <2>3, <2>4 DEF AppModeInv
<1>9. CASE StartFails
  <2>1. UNCHANGED <<appModeCmd, appModeStat, allowRtCom, rt>> /\ shell = "start" /\ shell' = "idle"
    BY <1>9 DEF StartFails, Return
  <2>2. NoThreadYet /\ StartModes'
    BY <2>1 DEF NoThreadYet, StartModes
  <2>3. Vacant' /\ Truthful'
    BY <1>2, <2>1, <2>2 DEF AppModeInv, Vacant, Truthful, SameThreads, Alive
  <2> QED BY <1>1, <1>2, <2>1, <2>2, <2>3 DEF AppModeInv
<1>10. ASSUME NEW t \in Threads, StartThread(t)
       PROVE  AppModeInv'
  <2>1. /\ UNCHANGED <<appModeCmd, appModeStat, allowRtCom>> /\ shell = "start" /\ shell' = "wait"
        /\ rt[t] = "none" /\ rt'[t] = "first"
        /\ \A u \in Threads : u # t => rt'[u] = rt[u]
    BY <1>10 DEF StartThread, AppModeInv, AppModeTypeOK
  <2>2. \A u \in Threads : ~InLoop(u) /\ (rt[u] = "first" => Ended)
    BY <2>1 DEF AppModeInv, Vacant, NoThreadYet
  <2>3. Ended' <=> Ended
    BY <2>1 DEF Ended
  <2>4. \A u \in Threads : ~InLoop(u)'
    BY <2>1, <2>2 DEF InLoop, LoopSteps
  <2>5. OneAlive'
    BY <2>1, <2>2, <2>3, <2>4 DEF OneAlive, Alive
  <2>6. StartModes' /\ Vacant'
    BY <2>1 DEF AppModeInv, StartModes, Vacant, NoThreadYet
  <2>7. Truthful'
    BY <2>1 DEF AppModeInv, Truthful, Alive
  <2> QED BY <1>1, <2>5, <2>6, <2>7 DEF AppModeInv
<1>11. CASE Started
  <2>1. /\ UNCHANGED <<appModeCmd, allowRtCom, rt>> /\ shell = "wait" /\ shell' = "allow"
        /\ appModeStat' = "runtime"
    BY <1>11 DEF Started
  <2>2. StartModes' /\ Vacant'
    BY <2>1 DEF AppModeInv, StartModes, Vacant, NoThreadYet
  <2>3. Truthful'
    BY <1>2, <2>1 DEF AppModeInv, Truthful, SameThreads, Alive
  <2> QED BY <1>1, <1>2, <2>1, <2>2, <2>3 DEF AppModeInv
<1>12. CASE AllowRtCom
  <2>1. UNCHANGED <<appModeCmd, appModeStat, rt>> /\ shell = "allow" /\ shell' = "idle"
    BY <1>12 DEF AllowRtCom, Return
  <2>2. appModeStat = "runtime"
    BY <2>1 DEF AppModeInv, StartModes
  <2>3. StartModes' /\ Vacant'
    BY <2>1, <2>2 DEF StartModes, Vacant, NoThreadYet
  <2>4. Truthful'
    BY <1>2, <2>1, <2>2 DEF AppModeInv, Truthful, SameThreads, Alive
  <2> QED BY <1>1, <1>2, <2>1, <2>3, <2>4 DEF AppModeInv
<1> QED BY <1>4, <1>5, <1>6, <1>7, <1>8, <1>9, <1>10, <1>11, <1>12 DEF ShellStep

-----------------------------------------------------------------------------
\* Every reachable state has the invariant.
LEMMA AppModeInvHolds == AppModeSpec => []AppModeInv
<1>1. AppModeInv /\ [AppModeNext]_appModeVars => AppModeInv'
  <2> SUFFICES ASSUME AppModeInv, [AppModeNext]_appModeVars PROVE AppModeInv'
    OBVIOUS
  <2>1. CASE UNCHANGED appModeVars
    <3>1. AppModeTypeOK' /\ Locks'
      BY <2>1 DEF appModeVars, AppModeInv, AppModeTypeOK, Locks
    <3>2. SameThreads /\ UNCHANGED <<appModeCmd, appModeStat, allowRtCom, shell>>
      BY <2>1 DEF appModeVars, SameThreads, Ended, InLoop
    <3> QED BY <3>1, <3>2, SameThreadsKeep DEF AppModeInv
  <2>2. CASE AppModeNext
    BY <2>2, ThreadKeepsInv, CallersKeepInv DEF AppModeNext
  <2> QED BY <2>1, <2>2
<1> QED BY <1>1, AppModeInitKeeps, PTL DEF AppModeSpec

\* The modes, locks and steps have their types, for any number of starts.
THEOREM AppModeTypeCorrect == AppModeSpec => []AppModeTypeOK
<1>1. AppModeInv => AppModeTypeOK
  BY DEF AppModeInv
<1> QED BY <1>1, AppModeInvHolds, PTL

\* However often the system is started, stopped and fails to start, two realtime
\* threads never run the axes together.
THEOREM OneThread == AppModeSpec => []OneRealtimeThread
<1>1. AppModeInv => OneRealtimeThread
  BY DEF AppModeInv, OneAlive, OneRealtimeThread, Alive
<1> QED BY <1>1, AppModeInvHolds, PTL

\* A cycle that began in runtime is run with both locks, and no command of the
\* shell and no call of the motor record comes in between.
THEOREM CyclesAreProtected == AppModeSpec => []CycleIsProtected
<1>1. AppModeInv => CycleIsProtected
  BY AppModeAssumption DEF AppModeInv, Locks, AppModeTypeOK, CycleIsProtected, Holding, Shell, Motor
<1> QED BY <1>1, AppModeInvHolds, PTL

\* The realtime thread does not call into the port while a start lasts.
THEOREM RtComIsBlocked == AppModeSpec => []RtComBlockedInStartup
<1>1. AppModeInv => RtComBlockedInStartup
  BY DEF AppModeInv, Truthful, RtComBlockedInStartup
<1> QED BY <1>1, AppModeInvHolds, PTL

\* A system in runtime has a realtime thread.
THEOREM RuntimeIsTrue == AppModeSpec => []RuntimeHasThread
<1>1. AppModeInv => RuntimeHasThread
  BY DEF AppModeInv, Truthful, RuntimeHasThread
<1> QED BY <1>1, AppModeInvHolds, PTL
=============================================================================
