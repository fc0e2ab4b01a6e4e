--------------------------- MODULE MotionCommands ---------------------------
(***************************************************************************)
(* The commands that reach an axis from the shell, the motor record and    *)
(* the command parser (motion/ecmcMotion.cpp): which objects each of them  *)
(* asks for, which are refused while communication is blocked, and those   *)
(* that depend on the state of the axis.                                   *)
(***************************************************************************)
EXTENDS Naturals, FiniteSets

CONSTANT MaxEncoders   \* ECMC_MAX_ENCODERS

VARIABLES axis,   \* axes[i], what of it the commands look at; "type" is "none" before
          through \* the name of a command that acts and was let through a blockade

motionVars == <<axis, through>>

(***************************************************************************)
(* The commands, by the part of the axis they are about.  "needs" are the  *)
(* objects they refuse to work without.                                    *)
(***************************************************************************)
Command(names, needs, blockable, asks) ==
    [name: names, needs: {needs}, blockable: {blockable}, asks: {asks}]

Query(names, needs) == Command(names, needs, FALSE, TRUE)
Blockable(names, needs) == Command(names, needs, TRUE, FALSE)
Open(names, needs) == Command(names, needs, FALSE, FALSE)

MoveCommands ==
    Blockable({"moveAbsolutePosition", "moveRelativePosition", "moveVelocity",
        "moveHome", "setPosition"}, {"seq", "traj"})

StopAndErrors ==
         Open({"stopMotion"}, {})
    \cup Query({"getAxisError", "getAxisErrorID", "getAxisCycleCounter"}, {})

SequenceSettings ==
    Blockable({"setAxisCommand", "setAxisCmdData", "setAxisSeqTimeout",
        "setAxisHomePostMoveEnable", "setAxisHomePostMoveTargetPosition"}, {"seq"})

SequenceQueries ==
         Query({"getAxisCommand", "getAxisCmdData"}, {"seq"})
    \cup Query({"getAxisDebugInfoData", "getAxisStatusStructV2"}, {})

EnableAndAlarms ==
         Query({"getAxisEnable", "getAxisBlockCom", "getAxisEnabled"}, {})
    \cup Blockable({"setAxisEnableMotionFunctions"}, {})
    \cup Blockable({"setAxisEnableAlarmAtHardLimits"}, {"mon"})
    \cup Query({"getAxisEnableAlarmAtHardLimits"}, {"mon"})

SourceQueries ==
         Query({"getAxisTrajSource"}, {"traj"})
    \cup Query({"getAxisEncSource", "getAxisEncPrimaryIndex", "getAxisEncConfigIndex",
              "getAxisEncHomeIndex"}, {"enc"})
    \cup Query({"getAxisAllowCommandsFromPLC", "getAxisType"}, {})
    \cup Query({"getAxisPLCEnable"}, {"plcs"})

SoftLimitSettings ==
         Open({"setAxisEnableSoftLimitBwd"}, {"mon"})
    \cup Blockable({"setAxisEnableSoftLimitFwd", "setAxisEnableAlarmAtSoftLimit",
              "setAxisSoftLimitPosBwd", "setAxisSoftLimitPosFwd"}, {"mon"})

SoftLimitQueries ==
         Query({"getAxisSoftLimitPosBwd", "getAxisSoftLimitPosFwd",
              "getAxisEnableSoftLimitBwd", "getAxisEnableSoftLimitFwd"}, {"mon"})
    \cup Query({"getAxisBusy"}, {})

RampSettings ==
         Blockable({"setAxisAcceleration", "setAxisDeceleration", "setAxisJerk"},
              {"traj"})
    \cup Open({"setAxisEmergDeceleration"}, {"traj"})

TargetSettings ==
    Blockable({"setAxisTargetPos", "setAxisTargetVel", "setAxisJogVel",
        "setAxisExtSetPos", "setAxisHomeVelTowardsCam", "setAxisHomeVelOffCam",
        "setAxisHomePos"}, {"seq"})

EncoderAndPlcSettings ==
         Blockable({"setAxisEncHomeLatchCountOffset"}, {"enc"})
    \cup Blockable({"setAxisAllowCommandsFromPLC"}, {})
    \cup Blockable({"setAxisPLCEnable"}, {"plcs"})
    \cup Open({"axisErrorReset"}, {})

FilterSettings ==
         Blockable({"appendAxisPLCExpr"}, {"plcs"})
    \cup Blockable({"setAxisPLCTrajVelFilterEnable", "setAxisPLCTrajVelFilterSize",
              "setAxisPLCEncVelFilterEnable", "setAxisPLCEncVelFilterSize",
              "setAxisEncVelFilterSize", "setAxisEncPosFilterSize",
              "setAxisEncPosFilterEnable"}, {})

SourceSettings ==
         Blockable({"setAxisTrajSource", "setAxisTrajStartPos"}, {"traj"})
    \cup Blockable({"setAxisEncSource"}, {"enc"})

TrajectoryQueries ==
         Query({"getAxisAcceleration", "getAxisDeceleration", "getAxisVelFF"}, {"traj"})
    \cup Query({"getAxisTargetPos", "getAxisPosSet", "getAxisExecute", "getAxisReset",
              "getAxisID"}, {})
    \cup Query({"getAxisTargetVel", "getAxisDone"}, {"seq"})

SwitchQueries ==
         Query({"getAxisAtHardFwd", "getAxisAtHardBwd"}, {"mon"})
    \cup Query({"getAxisLimitSwitchFwd", "getAxisLimitSwitchBwd", "getAxisEncHomed",
              "getAxisEncPosAct", "getAxisEncVelAct", "getAxisAtHome",
              "getAxisCntrlError"}, {})

HomeAndScaleQueries ==
         Query({"getAxisHomeVelOffCam", "getAxisHomeVelTowardsCam"}, {"seq"})
    \cup Query({"getAxisEncScaleNum", "getAxisEncScaleDenom", "getAxisEncPosRaw"}, {})

ControllerSettings ==
    Blockable({"setAxisCntrlKp", "setAxisCntrlKi", "setAxisCntrlKd", "setAxisCntrlKff",
        "setAxisCntrlOutHL", "setAxisCntrlOutLL", "setAxisCntrlIpartHL",
        "setAxisCntrlIpartLL"}, {"cntrl"})

ControllerQueries ==
    Query({"getAxisCntrlOutPpart", "getAxisCntrlOutIpart", "getAxisCntrlOutDpart",
        "getAxisCntrlOutFFpart", "getAxisCntrlOutput"}, {"cntrl"})

EncoderSettings ==
    Blockable({"setAxisEncOffset", "setAxisEncBits", "setAxisEncAbsBits",
        "setAxisEncRawMask", "setAxisEncType", "setAxisEncMaxDiffToPrimEnc",
        "setAxisEncEnableRefAtHome", "setAxisEncRefToOtherEncAtStartup"}, {"enc"})

DriveSettings ==
         Query({"getAxisDrvScaleNum", "getAxisDrvScale", "getAxisDrvEnable"}, {"drv"})
    \cup Blockable({"setAxisDrvScaleNum", "setAxisDrvScaleDenom",
              "setAxisDrvBrakeEnable", "setAxisDrvBrakeOpenDelayTime",
              "setAxisDrvBrakeCloseAheadTime", "setAxisDrvStateMachineTimeout",
              "setAxisDrvReduceTorqueEnable"}, {"drv"})

TargetMonitoring ==
         Query({"getAxisMonAtTargetTol", "getAxisMonAtTargetTime",
              "getAxisMonEnableAtTargetMon"}, {"mon"})
    \cup Blockable({"setAxisMonAtTargetTol", "setAxisEnableCheckEncsDiff",
              "setAxisMonAtTargetTime", "setAxisMonEnableAtTargetMon"}, {"mon"})

SwitchPolarities ==
         Blockable({"setAxisMonExtHWInterlockPolarity", "setAxisMonLimitBwdPolarity",
              "setAxisMonLimitFwdPolarity", "setAxisMonHomeSwitchPolarity"}, {"mon"})
    \cup Query({"getAxisMonExtHWInterlockPolarity", "getAxisMonLimitBwdPolarity",
              "getAxisMonLimitFwdPolarity", "getAxisMonHomeSwitchPolarity"}, {"mon"})

LagMonitoring ==
         Query({"getAxisMonPosLagTol", "getAxisMonPosLagTime", "getAxisMonEnableLagMon"},
              {"mon"})
    \cup Blockable({"setAxisMonPosLagTol", "setAxisMonPosLagTime",
              "setAxisMonEnableLagMon"}, {"mon"})

VelocityMonitoring ==
         Blockable({"setAxisMonMaxVel", "setAxisMonEnableMaxVel",
              "setAxisMonMaxVelDriveILDelay", "setAxisMonMaxVelTrajILDelay",
              "setAxisMonLatchLimit"}, {"mon"})
    \cup Query({"getAxisMonMaxVel", "getAxisMonEnableMaxVel", "getAxisMonLatchLimit"},
              {"mon"})

InterlockMonitoring ==
         Blockable({"setAxisMonEnableExternalInterlock", "setAxisMonEnableCntrlOutHLMon",
              "setAxisMonEnableVelocityDiff", "setAxisMonVelDiffTol",
              "setAxisMonVelDiffTrajILDelay", "setAxisMonVelDiffDriveILDelay",
              "setAxisMonCntrlOutHL"}, {"mon"})
    \cup Query({"getAxisMonAtTarget"}, {"mon"})

DiagnosticAndModulo ==
         Open({"setDiagAxisIndex", "setAxisModRange", "setAxisModType",
              "setAxisDisableAtErrorReset", "setAxisAllowSourceChangeWhenEnabled"}, {})
    \cup Query({"getAxisModRange", "getAxisModType"}, {})

PlainCommands == UNION {
    MoveCommands, StopAndErrors, SequenceSettings, SequenceQueries, EnableAndAlarms,
    SourceQueries, SoftLimitSettings, SoftLimitQueries, RampSettings, TargetSettings,
    EncoderAndPlcSettings, FilterSettings, SourceSettings, TrajectoryQueries,
    SwitchQueries, HomeAndScaleQueries, ControllerSettings, ControllerQueries,
    EncoderSettings, DriveSettings, TargetMonitoring, SwitchPolarities, LagMonitoring,
    VelocityMonitoring, InterlockMonitoring, DiagnosticAndModulo}

(***************************************************************************)
(* Checks                                                                  *)
(***************************************************************************)
\* A virtual axis has no drive and no controller; an axis brings the PLCs with it.
Objects ==
    CASE axis.type = "none" -> {}
      [] axis.type = "virtual" -> {"enc", "traj", "mon", "seq", "plcs"}
      [] axis.type = "real" -> {"enc", "traj", "mon", "seq", "plcs", "drv", "cntrl"}

Lets(blockable, needs) ==
    /\ axis.type # "none" /\ needs \subseteq Objects
    /\ blockable => ~axis.blocked

Note(name) == through' = IF axis.blocked THEN name ELSE "none"

\* Refusals, and commands that change nothing of what is modelled here.
Refuse(name) == through' = "none" /\ UNCHANGED axis

Apply(name, changed) == Note(name) /\ axis' = changed

(***************************************************************************)
(* Actions: the clients                                                    *)
(***************************************************************************)
MotionInit ==
    /\ axis = [type |-> "none", blocked |-> FALSE, enable |-> FALSE, execute |-> FALSE,
               error |-> FALSE, busy |-> FALSE, scale |-> 1, encoders |-> 1,
               cfg |-> 0, primary |-> 0, home |-> 0, brake |-> FALSE]
    /\ through = "none"

\* createAxis(): an axis is created once; "made" tells if its parts could be made.
CreateAxis(type, made) ==
    IF axis.type = "none" /\ type \in {"real", "virtual"} /\ made
    THEN Apply("createAxis", [axis EXCEPT !.type = type])
    ELSE Refuse("createAxis")

Plain(c) ==
    IF Lets(c.blockable, c.needs) /\ ~c.asks THEN Apply(c.name, axis) ELSE Refuse(c.name)

SetBlockCom(on) ==
    IF Lets(FALSE, {}) THEN Apply("setAxisBlockCom", [axis EXCEPT !.blocked = on])
    ELSE Refuse("setAxisBlockCom")

\* An axis with an error takes no start; disabling takes the start back, too.
SetExecute(on) ==
    IF Lets(TRUE, {}) /\ ~(on /\ axis.error)
    THEN Apply("setAxisExecute", [axis EXCEPT !.execute = on])
    ELSE Refuse("setAxisExecute")

SetEnable(on) ==
    IF Lets(TRUE, {})
    THEN Apply("setAxisEnable", [axis EXCEPT !.enable = on, !.execute = @ /\ on])
    ELSE Refuse("setAxisEnable")

\* Writing the scale that is there already is allowed at any time.
SetEncScale(name, value) ==
    IF Lets(TRUE, {}) /\ (value = axis.scale \/ ~axis.enable)
    THEN Apply(name, [axis EXCEPT !.scale = value])
    ELSE Refuse(name)

\* A new encoder is the one that the encoder settings go to from now on.
AddEncoder ==
    IF Lets(TRUE, {}) /\ axis.encoders < MaxEncoders
    THEN Apply("addAxisEnc", [axis EXCEPT !.encoders = @ + 1, !.cfg = axis.encoders])
    ELSE Refuse("addAxisEnc")

\* Mutant: a busy axis is not spared.
SelectAnyEncoder(role, index) ==
    LET name == "selectAxisEnc" IN
    IF Lets(TRUE, {}) /\ index < axis.encoders
    THEN Apply(name, IF index < 0 THEN axis ELSE [axis EXCEPT ![role] = index])
    ELSE Refuse(name)

\* A negative index changes nothing and is no error; the encoder that controls the axis
\* is not exchanged while the axis is busy.
SelectEncoder(role, index) ==
    LET name == "selectAxisEnc" IN
    IF Lets(TRUE, {}) /\ (index < 0 \/ (index < axis.encoders
                                        /\ (role = "primary" => ~axis.busy)))
    THEN Apply(name, IF index < 0 THEN axis ELSE [axis EXCEPT ![role] = index])
    ELSE Refuse(name)

\* Linking an EtherCAT entry: "entry" tells what the name finds.
LinkEncoder(entry) ==
    IF entry = "found" /\ Lets(TRUE, {"enc"}) THEN Apply("linkEcEntryToAxisEnc", axis)
    ELSE Refuse("linkEcEntryToAxisEnc")

\* The brake is enabled by linking its output and disabled by linking an empty name.
LinkDrive(entry, brake) ==
    IF Lets(TRUE, {"drv"}) /\ (entry = "found" \/ (entry = "empty" /\ brake))
    THEN Apply("linkEcEntryToAxisDrv",
               [axis EXCEPT !.brake = IF brake THEN entry = "found" ELSE @])
    ELSE Refuse("linkEcEntryToAxisDrv")

LinkMonitor(entry) ==
    IF entry = "found" /\ Lets(TRUE, {"mon"}) THEN Apply("linkEcEntryToAxisMon", axis)
    ELSE Refuse("linkEcEntryToAxisMon")

LinkStatus(entry) ==
    IF entry = "found" /\ Lets(TRUE, {}) THEN Apply("linkEcEntryToAxisStatusOutput", axis)
    ELSE Refuse("linkEcEntryToAxisStatusOutput")

\* The realtime thread and the PLCs.
AxisGoesOn ==
    /\ axis.type # "none"
    /\ \E busy, error, enable \in BOOLEAN :
         axis' = [axis EXCEPT !.busy = busy, !.error = error, !.enable = enable]
    /\ UNCHANGED through

Entries == {"found", "missing", "empty"}

MotionNext ==
    \/ \E type \in {"real", "virtual", "unknown"}, made \in BOOLEAN : CreateAxis(type, made)
    \/ \E c \in PlainCommands : Plain(c)
    \/ \E on \in BOOLEAN : SetBlockCom(on) \/ SetExecute(on) \/ SetEnable(on)
    \/ \E name \in {"setAxisEncScaleNum", "setAxisEncScaleDenom"}, value \in 1..2 :
         SetEncScale(name, value)
    \/ AddEncoder
    \/ \E role \in {"cfg", "primary", "home"}, index \in (0 - 1)..MaxEncoders :
         SelectEncoder(role, index)
    \/ \E entry \in Entries : LinkEncoder(entry) \/ LinkMonitor(entry) \/ LinkStatus(entry)
    \/ \E entry \in Entries, brake \in BOOLEAN : LinkDrive(entry, brake)
    \/ AxisGoesOn

MotionSpec == MotionInit /\ [][MotionNext]_motionVars

(***************************************************************************)
(* Properties                                                              *)
(***************************************************************************)
\* The commands that act although communication is blocked: the stop, the reset, lifting
\* the blockade, and settings that the code leaves open or forgets.
KnownThrough ==
    {"stopMotion", "axisErrorReset", "setAxisBlockCom", "setAxisEnableSoftLimitBwd",
     "setAxisEmergDeceleration", "setDiagAxisIndex", "setAxisModRange", "setAxisModType",
     "setAxisDisableAtErrorReset", "setAxisAllowSourceChangeWhenEnabled"}

\* Whatever the order of commands and of what the axis does: a blocked axis is changed by
\* the known exceptions only; the scale of an encoder does not change while the axis is
\* enabled, the encoder that controls it does not change while it is busy, and a selected
\* encoder always exists.
KeepsRules ==
    /\ through' \in KnownThrough \cup {"none"}
    /\ axis.blocked /\ axis'.blocked =>
         /\ axis'.scale = axis.scale /\ axis'.primary = axis.primary
         /\ axis'.execute = axis.execute /\ axis'.brake = axis.brake
    /\ axis.enable /\ axis'.scale # axis.scale => ~axis'.enable
    /\ axis.busy => axis'.primary = axis.primary
    /\ {axis'.cfg, axis'.primary, axis'.home} \subseteq 0..(axis'.encoders - 1)
=============================================================================
