----------------------------- MODULE CmdParser -----------------------------
(***************************************************************************)
(* The command parser (com/ecmcCmdParser.c): a line is split at ";", every *)
(* command is compared with the formats of its chain, in their order, and  *)
(* the handler of the first one that fits is called.  A format is the name *)
(* and the conversions of its sscanf(); of a text only the name and the    *)
(* kinds of its words are kept.                                            *)
(***************************************************************************)
EXTENDS Naturals, Sequences, FiniteSets, SequencesExt

VARIABLES parser,  \* the line, the place of the next command in it, the replies
          ads      \* the last command to an address, and the reply

parserVars == <<parser, ads>>

(***************************************************************************)
(* Formats.  "d" is %d, "x" 0x%x, "f" %lf, "w" %[^,], "t" %[^)], "l" the   *)
(* rest of the line behind "=", and "e" stands for two separators in a row.*)
(***************************************************************************)
None == <<>>
D == <<"d">>
F == <<"f">>
DD == <<"d", "d">>
DF == <<"d", "f">>
DT == <<"d", "t">>
DDD == <<"d", "d", "d">>

Conversions(args) == Len(SelectSeq(args, LAMBDA a : a # "e"))

Formats(args, names, needs) ==
    [i \in DOMAIN names |-> [name |-> names[i], args |-> args, needs |-> needs]]

Same(args, names) == Formats(args, names, {Conversions(args)})
WithText(names) == Formats(<<"d", "l">>, names, {1, 2})   \* an empty text is allowed
Obsolete(args, names) == Formats(args, names, {})      \* is printed and not handled

ObjectCommands ==
       Same(D, <<"SetAppMode">>)
    \o Same(None, <<"ValidateConfig">>)
    \o Same(D, <<"SetEcStartupTimeout">>)
    \o Same(F, <<"SetSampleRate", "SetSamplePeriodMs">>)
    \o Same(<<"d","d","d","d">>, <<"CreateAxis">>)
    \o Same(DDD, <<"CreateAxis">>)
    \o Same(DD, <<"CreateAxis">>)
    \o Same(D, <<"CreateAxis", "CreateDefaultAxis">>)
    \o Same(DF, <<"CreatePLC">>)
    \o Same(D, <<"CreatePLC", "DeletePLC">>)
    \o Same(DD, <<"SetPLCEnable">>)

LinkCommands ==
       Same(<<"w","t">>, <<"LinkEcEntryToObject">>)
    \o Same(<<"e","t">>, <<"LinkEcEntryToObject">>)
    \o Same(<<"e","e">>, <<"LinkEcEntryToObject">>)
    \o Same(<<"d","w","d","d","d">>, <<"LinkEcEntryToAxisEncoder",
            "LinkEcEntryToAxisDrive">>)
    \o Same(<<"d","e","d","d","d">>, <<"LinkEcEntryToAxisDrive">>)
    \o Same(<<"d","w","d","d","d">>, <<"LinkEcEntryToAxisMonitor">>)
    \o Same(DT, <<"LinkEcEntryToEcStatusOutput">>)
    \o Same(<<"d","w","d">>, <<"LinkEcEntryToAxisStatusOutput",
            "WriteEcEntryIDString">>)

SlaveCommands ==
       Same(D, <<"EcSetMaster", "EcResetMaster">>)
    \o Same(<<"d","d","x","x">>, <<"EcAddSlave">>)
    \o Same(DDD, <<"EcSlaveConfigWatchDog">>)
    \o Same(<<"d","d","x","x","x">>, <<"EcSlaveVerify">>)
    \o Same(<<"d","d","x","x">>, <<"EcSlaveVerify">>)
    \o Same(<<"d","d","x">>, <<"EcAddPdo">>)

EntryCommands ==
       Same(<<"d","x","x","d","d","x","x","x","d","d","t">>, <<"EcAddEntryComplete">>)
    \o Same(<<"d","x","x","d","d","x","x","x","d","w","d">>, <<"EcAddEntryComplete">>)
    \o Same(<<"d","x","x","d","d","x","x","x","d","t">>, <<"EcAddEntryComplete">>)

EntryTypeCommands ==
       Same(<<"d","x","x","d","d","x","x","x","w","w","d">>, <<"EcAddEntryDT">>)
    \o Same(<<"d","x","x","d","d","x","x","x","w","t">>, <<"EcAddEntryDT">>)
    \o Same(<<"d","x","x","w","t">>, <<"EcAddSdoAsync">>)
    \o Same(<<"w","d","d","w","t">>, <<"EcAddMemMapDT">>)
    \o Same(<<"d","w","d","d","t">>, <<"EcAddMemMap">>)

ClockAndSdoCommands ==
       Same(<<"d","x","d","d","d","d">>, <<"EcSlaveConfigDC">>)
    \o Same(DD, <<"EcSelectReferenceDC">>)
    \o Same(D, <<"EcUseClockRealtime">>)
    \o Same(<<"d","w","d">>, <<"EcSetEntryUpdateInRealtime">>)
    \o Same(None, <<"EcResetError">>)
    \o Same(DDD, <<"EcAddSyncManager">>)
    \o Same(<<"d","x","x","d","d">>, <<"EcAddSdo">>)
    \o Same(<<"d","x","x","x","d">>, <<"EcAddSdo">>)
    \o Same(<<"d","x","w","d">>, <<"EcAddSdoComplete">>)
    \o Same(<<"d","x","x","w","d">>, <<"EcAddSdoBuffer">>)
    \o Same(<<"d","x","x","d","d">>, <<"EcWriteSdo">>)

SdoCommands ==
       Same(<<"d","x","x","x","d">>, <<"EcWriteSdo">>)
    \o Same(<<"d","x","x","d","d">>, <<"EcVerifySdo">>)
    \o Same(<<"d","x","x","x","d">>, <<"EcVerifySdo">>)
    \o Same(<<"d","d","d","d","d">>, <<"EcWriteSoE">>)
    \o Same(D, <<"EcApplyConfig">>)
    \o Same(None, <<"EcApplyConfig">>)
    \o Same(D, <<"EcSetDiagnostics", "EcEnablePrintouts",
            "EcSetDomainFailedCyclesLimit", "EcSetDelayECOkAtStartup">>)

AxisCommands ==
       Same(DF, <<"SetAxisJogVel">>)
    \o Same(DD, <<"SetAxisEnableAlarmAtHardLimits">>)
    \o Same(DF, <<"SetAxisEmergDeceleration">>)
    \o Same(DD, <<"SetAxisTrajSourceType", "SetAxisEncSourceType">>)
    \o Same(DF, <<"SetAxisEncScaleNum", "SetAxisEncScaleDenom">>)
    \o Same(DD, <<"SetAxisEncBits", "SetAxisEncAbsBits", "SetAxisEncRawMask",
            "SetAxisEncType">>)
    \o Same(DF, <<"SetAxisEncOffset">>)
    \o Same(DD, <<"SetAxisEncRefToOtherEncAtStartup", "SetAxisEncEnableRefAtHome">>)
    \o Same(D, <<"AddAxisEnc">>)
    \o Same(DD, <<"SelectAxisEncPrimary", "SelectAxisEncConfig", "SelectAxisEncHome">>)
    \o Same(DF, <<"SetAxisEncMaxDiffToPrimEnc">>)

ControllerCommands ==
       Same(DF, <<"SetAxisCntrlKp", "SetAxisCntrlKi", "SetAxisCntrlKd",
            "SetAxisCntrlKff", "SetAxisCntrlOutHL", "SetAxisCntrlOutLL",
            "SetAxisCntrlIPartHL", "SetAxisCntrlIPartLL", "SetAxisSoftLimitPosBwd">>)
    \o Same(DD, <<"SetAxisEnableSoftLimitBwd">>)
    \o Same(DF, <<"SetAxisSoftLimitPosFwd">>)
    \o Same(DD, <<"SetAxisEnableSoftLimitFwd", "SetAxisEnableAlarmAtSoftLimit">>)
    \o Same(<<"d","d","d","d">>, <<"SetAxisEnableMotionFunctions">>)

MonitoringCommands ==
       Same(DD, <<"SetAxisMonEnableEncsDiff">>)
    \o Same(DF, <<"SetAxisMonAtTargetTol">>)
    \o Same(DD, <<"SetAxisMonAtTargetTime", "SetAxisMonEnableAtTargetMon">>)
    \o Same(DF, <<"SetAxisMonPosLagTol">>)
    \o Same(DD, <<"SetAxisMonPosLagTime", "SetAxisMonEnableLagMon">>)
    \o Same(DF, <<"SetAxisMonMaxVel">>)
    \o Same(DD, <<"SetAxisMonEnableMaxVel", "SetAxisMonMaxVelDriveILDelay",
            "SetAxisMonMaxVelTrajILDelay", "SetAxisMonEnableExtHWInterlock",
            "SetAxisMonExtHWInterlockPolarity", "SetAxisMonLimitBwdPolarity",
            "SetAxisMonLimitFwdPolarity", "SetAxisMonHomeSwitchPolarity">>)

VelocityMonitoringCommands ==
       Same(DD, <<"SetAxisMonEnableCntrlOutHLMon", "SetAxisMonEnableVelocityDiff",
            "SetAxisMonVelDiffTrajILDelay", "SetAxisMonVelDiffDriveILDelay">>)
    \o Same(DF, <<"SetAxisMonVelDiffTol", "SetAxisMonCntrlOutHL">>)
    \o Same(DD, <<"SetAxisMonLatchLimit">>)
    \o Same(DF, <<"SetAxisDrvScaleNum", "SetAxisDrvScaleDenom">>)
    \o Same(DD, <<"SetAxisDrvBrakeEnable", "SetAxisDrvBrakeOpenDelayTime",
            "SetAxisDrvBrakeCloseAheadTime">>)

DriveCommands ==
       Same(DF, <<"SetAxisDrvStateMachineTimeout">>)
    \o Same(DD, <<"SetAxisDrvReduceTorqueEnable">>)
    \o Obsolete(DD, <<"SetAxisDrvType">>)
    \o Same(DF, <<"SetAxisModRange">>)
    \o Same(DD, <<"SetAxisModType", "SetAxisDisableAtErrorReset",
            "SetAxisAllowSourceChangeWhenEnabled">>)
    \o Same(D, <<"SetDiagAxisIndex", "SetDiagAxisFreq", "SetDiagAxisEnable">>)
    \o Same(DF, <<"SetAxisHomePosition", "SetAxisHomeVelTowardsCam",
            "SetAxisHomeVelOffCam">>)
    \o Same(DD, <<"SetAxisHomeLatchCountOffset", "SetAxisEncHomeLatchCountOffset">>)

TraceAndMotionCommands ==
       Same(D, <<"SetEnableFuncCallDiag", "SetTraceMask">>)
    \o Same(DD, <<"SetTraceMaskBit">>)
    \o Same(D, <<"SetEnableTimeDiag">>)
    \o Same(DD, <<"SetAxisBlockCom">>)
    \o Same(DF, <<"SetAxisTrajStartPos", "SetAxisJerk", "SetAxisAcc", "SetAxisDec",
            "SetAxisVel">>)
    \o Same(<<"d","f","f">>, <<"SetAxisVelAccDecTime">>)

FilterCommands ==
       Same(DD, <<"SetAxisPLCTrajVelFilterEnable", "SetAxisPLCTrajVelFilterSize",
            "SetAxisPLCEncVelFilterEnable", "SetAxisPLCEncVelFilterSize",
            "SetAxisEncVelFilterSize", "SetAxisEncPosFilterSize",
            "SetAxisEncPosFilterEnable">>)

ExpressionCommands ==
       WithText(<<"AppendAxisPLCExpr", "SetPLCExpr", "AppendPLCExpr",
            "AppendAxisPLCExpr">>)
    \o Same(DT, <<"LoadAxisPLCFile", "LoadPLCFile">>)
    \o Same(D, <<"ClearPLCExpr", "CompilePLC">>)

PlcCommands ==
       Same(D, <<"CompileAxisPLC">>)
    \o Same(DD, <<"SetAxisAllowCommandsFromPLC", "SetAxisPLCEnable">>)
    \o Same(<<"d","w","t">>, <<"LoadPlugin">>)
    \o Same(DT, <<"LoadPlugin">>)
    \o Same(D, <<"ReportPlugin">>)
    \o Same(DD, <<"SetAxisSeqTimeout", "SetAxisHomePostMoveEnable">>)
    \o Same(DF, <<"SetAxisHomePostMoveTargetPosition">>)

EventCommands ==
       Same(D, <<"CreateEvent">>)
    \o Same(DDD, <<"CreateStorage">>)
    \o Same(DD, <<"SetStorageEnablePrintouts">>)
    \o Same(D, <<"PrintDataStorage">>)
    \o Same(DD, <<"SetDataStorageCurrentDataIndex">>)
    \o Same(<<"d","d","d","w","d">>, <<"LinkEcEntryToEvent">>)
    \o Same(DD, <<"SetEventType", "SetEventSampleTime", "SetEventEnable">>)
    \o Same(D, <<"ClearStorage">>)
    \o Same(DD, <<"SetEventTriggerEdge", "SetEventEnableArmSequence",
            "SetEventEnablePrintouts">>)
    \o Same(D, <<"TriggerEvent", "ArmEvent", "CreateRecorder">>)

RecorderCommands ==
       Same(DD, <<"LinkStorageToRecorder">>)
    \o Same(<<"d","d","d","w","d">>, <<"LinkEcEntryToRecorder">>)
    \o Same(DDD, <<"LinkAxisDataToRecorder">>)
    \o Same(DD, <<"SetRecorderEnable", "SetRecorderEnablePrintouts">>)
    \o Same(DDD, <<"LinkRecorderToEvent">>)
    \o Same(D, <<"TriggerRecorder", "CreateCommandList">>)
    \o Same(DDD, <<"LinkCommandListToEvent">>)
    \o Same(DD, <<"SetCommandListEnable", "SetCommandListEnablePrintouts">>)
    \o Same(<<"d","l">>, <<"AddCommandToCommandList">>)
    \o Same(D, <<"TriggerCommandList">>)
    \o Same(<<"l">>, <<"IocshCmd">>)

MoveAndAskCommands ==
       Same(None, <<"stAxisStatusV2?", "sErrorMessage?">>)
    \o Same(D, <<"nCommand", "nCmdData", "bEnable", "bExecute", "bReset">>)
    \o Same(F, <<"fPosition", "fVelocity", "fAcceleration", "fDeceleration",
            "fHomePosition">>)
    \o Same(None, <<"stAxisStatus?">>)

AnswerCommands ==
       Same(None, <<"bBusy?", "bError?", "nErrorId?", "bEnable?", "bEnabled?",
            "bExecute?", "bReset?", "bHomeSensor?", "bLimitBwd?", "bLimitFwd?", "bHomed?",
            "bDone?", "fActPosition?", "fActVelocity?", "fVelocity?", "fPosition?",
            "nCommand?", "nCmdData?", "nMotionAxisID?", "fAcceleration?",
            "fDeceleration?">>)

EntryQueries ==
       Same(None, <<"GetControllerError", "ControllerErrorReset",
            "GetControllerErrorMessage">>)
    \o Same(DD, <<"ReadEcEntry">>)
    \o Same(DT, <<"ReadEcEntryIDString", "ReadEcEntryIndexIDString">>)
    \o Same(D, <<"ReadEcSlaveIndex">>)
    \o Same(DDD, <<"WriteEcEntry">>)
    \o Same(<<"d","w","f">>, <<"WritePLCVar">>)
    \o Same(DT, <<"ReadPLCVar">>)
    \o Same(<<"d","x","x","d">>, <<"EcReadSdo">>)
    \o Same(<<"d","d","d","d">>, <<"EcReadSoE">>)
    \o Same(D, <<"EcGetSlaveVendorId", "EcGetSlaveProductCode",
            "EcGetSlaveRevisionNum", "EcGetSlaveSerialNum">>)
    \o Same(<<"t">>, <<"EcGetMemMapId">>)

AxisQueries ==
       Same(D, <<"GetAxisBlockCom", "GetAxisCycleCounter", "GetAxisType",
            "GetAxisModRange", "GetAxisModType", "GetAxisMonLimitFwdPolarity",
            "GetAxisMonLimitBwdPolarity", "GetAxisMonHomeSwitchPolarity",
            "GetAxisMonExtHWInterlockPolarity", "GetAxisMonLatchLimit",
            "GetAxisEnableAlarmAtHardLimits", "GetAxisEncSourceType",
            "GetAxisEncPrimaryIndex", "GetAxisEncConfigIndex", "GetAxisEncHomeIndex",
            "GetAxisTrajSourceType", "GetAxisAllowCommandsFromPLC">>)

ExpressionQueries ==
       Same(D, <<"GetAxisPLCEnable", "GetPLCEnable", "GetAxisPLCExpr", "GetPLCExpr",
            "GetAxisDebugInfoData", "GetAxisEncPosRaw", "GetAxisDebugInfoData">>)

MotionAndDataCommands ==
       Same(<<"d","f","f","f","f">>, <<"MoveAbsolutePosition",
            "MoveRelativePosition">>)
    \o Same(<<"d","f","f","f">>, <<"MoveVelocity">>)
    \o Same(DD, <<"StopMotion">>)
    \o Same(D, <<"StopMotion", "GetStorageDataIndex", "GetRecorderEnabled",
            "GetEventEnabled", "ReadDataStorage">>)
    \o WithText(<<"WriteDataStorage", "AppendDataStorage">>)
    \o Same(None, <<"EcPrintAllHardware">>)
    \o Same(D, <<"EcPrintSlaveConfig">>)

(***************************************************************************)
(* The chains, in the order of the code.                                   *)
(***************************************************************************)
CfgFormats ==
    ObjectCommands \o LinkCommands \o SlaveCommands \o EntryCommands
      \o EntryTypeCommands \o ClockAndSdoCommands \o SdoCommands \o AxisCommands
      \o ControllerCommands \o MonitoringCommands \o VelocityMonitoringCommands
      \o DriveCommands \o TraceAndMotionCommands \o FilterCommands
      \o ExpressionCommands \o PlcCommands \o EventCommands \o RecorderCommands

MainFormats == MoveAndAskCommands \o AnswerCommands

OtherFormats ==
    EntryQueries \o AxisQueries \o ExpressionQueries \o MotionAndDataCommands

Chain == [Cfg |-> CfgFormats, Main |-> MainFormats, other |-> OtherFormats]

(***************************************************************************)
(* sscanf().  A conversion takes the whole of some words and the beginning *)
(* of others; it ends there, and so does the count of the values.  What    *)
(* follows the last conversion is not compared.                            *)
(***************************************************************************)
Takes == [d |-> {"int"}, x |-> {"hex"}, f |-> {"int", "hex", "real"},
          w |-> {"int", "hex", "real", "word"}, e |-> {"none"}, l |-> {"line"}]
Begins(a) == IF a = "d" THEN {"hex", "real"} ELSE {}

Fits(args, words, i) ==
    /\ i \in DOMAIN words
    /\ IF args[i] = "t" THEN i < Len(words) \/ words[i] # "none"
       ELSE words[i] \in Takes[args[i]]

\* The number of conversions that take a whole word before one that does not.
Clean(args, words) ==
    CHOOSE n \in 0..Len(args) :
        /\ \A i \in 1..n : Fits(args, words, i)
        /\ n < Len(args) => ~Fits(args, words, n + 1)

Taken(args, words) ==
    LET n == Clean(args, words)
        begun == n < Len(args) /\ n < Len(words) /\ words[n + 1] \in Begins(args[n + 1])
    IN Conversions(SubSeq(args, 1, n)) + (IF begun THEN 1 ELSE 0)

\* Every word has its conversion, and every conversion its word.
Exact(args, words) == Len(args) = Len(words) /\ Clean(args, words) = Len(args)

\* A command without a value is compared as a whole.
Accepts(format, text) ==
    /\ format.name = text.name
    /\ IF Conversions(format.args) = 0 THEN Exact(format.args, text.words)
       ELSE Taken(format.args, text.words) \in format.needs

Accepting(formats, text) == {i \in DOMAIN formats : Accepts(formats[i], text)}

\* Mutant: the last that fits.
LastOf(indexes) == CHOOSE i \in indexes : \A j \in indexes : i >= j

FirstOf(indexes) == CHOOSE i \in indexes : \A j \in indexes : i <= j

(***************************************************************************)
(* One command.  "Main." is looked for before "ADSPORT=" is removed.       *)
(***************************************************************************)
ChainOf(text) == IF text.chain = "Main" /\ text.port = "good" THEN "other" ELSE text.chain

\* Nothing is called and nothing is printed.
Unanswered(text) ==
    \/ text.port = "bad"
    \/ /\ ChainOf(text) = "Main"
       /\ ~text.axis \/ Accepting(MainFormats, text) = {}

Unknown == [name |-> "unknown", args |-> <<>>, needs |-> {}]

Handler(text) ==
    LET formats == Chain[ChainOf(text)]
        accepting == Accepting(formats, text)
    IN IF accepting = {} THEN Unknown ELSE formats[FirstOf(accepting)]

(***************************************************************************)
(* "ADSPORT=<port>/.ADR.16#<group>,16#<offset>,<length>,<type>", with "="  *)
(* and a value or with "?".  The group is a thousand plus the axis.        *)
(***************************************************************************)
Ads(groups, type, sign, offsets) == groups \X {type} \X {sign} \X offsets

AdsGetInt ==
         Ads({"4000"}, 2, "?", {"15"}) \cup Ads({"5000"}, 2, "?", {"6", "8", "B", "C"})
    \cup Ads({"6000"}, 2, "?", {"10"}) \cup Ads({"7000"}, 2, "?", {"6"})

AdsPutInt == Ads({"5000"}, 2, "=", {"B", "C"}) \cup Ads({"4000"}, 2, "=", {"15"})

AdsGetFloat ==
         Ads({"4000"}, 5, "?", {"6", "7", "8", "9", "16", "17", "27", "101"})
    \cup Ads({"5000"}, 5, "?", {"D", "E", "23", "24"})
    \cup Ads({"6000"}, 5, "?", {"12", "13"}) \cup Ads({"7000"}, 5, "?", {"101"})

AdsPutFloat ==
         Ads({"4000"}, 5, "=", {"6", "7", "8", "9", "27"})
    \cup Ads({"5000"}, 5, "=", {"D", "E", "23", "24"})

\* Those that succeed whatever the axis answers (an error leaves the value, or a 0).
AdsAlwaysDone ==
         Ads({"5000"}, 2, "?", {"B", "C"}) \cup Ads({"4000"}, 2, "=", {"15"})
    \cup Ads({"4000"}, 5, "?", {"8", "9", "27"}) \cup Ads({"4000"}, 5, "=", {"8", "9"})

AdsAccesses == AdsGetInt \cup AdsPutInt \cup AdsGetFloat \cup AdsPutFloat

\* The port is 501, a float has 8 bytes and an integer 2; a value behind "=" is read.
AdsField(adr, fails) ==
    LET access == <<adr.group, adr.type, adr.sign, adr.offset>>
        wellFormed == adr.values = 5 /\ adr.port = 501
                        /\ <<adr.type, adr.length>> \in {<<5, 8>>, <<2, 2>>}
                        /\ (adr.sign = "=" => adr.number)
        known == access \in AdsAccesses
    IN IF wellFormed /\ known /\ (fails => access \in AdsAlwaysDone) THEN "done"
       ELSE "error"

Reply(text, format, field) == [text |-> text, format |-> format, field |-> field]

(***************************************************************************)
(* A line.                                                                 *)
(***************************************************************************)
NoAdr == [group |-> "none", offset |-> "none", type |-> 0, sign |-> "none", length |-> 0,
          port |-> 0, number |-> FALSE, values |-> 0]

NoLine == [line |-> <<>>, next |-> 1, replies |-> <<>>]
NoAds == [adr |-> NoAdr, field |-> "none"]

ParserInit == parser = NoLine /\ ads = NoAds

Idle == parser.next > Len(parser.line)

Ready == parser = NoLine /\ ads = NoAds

Receive(line) ==
    /\ Ready
    /\ parser' = [line |-> line, next |-> 1, replies |-> <<>>]
    /\ UNCHANGED ads

\* A command that is too long ends the line: the rest of it is dropped.
Refuse ==
    /\ ~Idle
    /\ LET text == parser.line[parser.next]
       IN /\ text.long
          /\ parser' = [parser EXCEPT
                !.next = Len(parser.line) + 1,
                !.replies = Append(@, Reply(text, Unknown, "refused"))]
    /\ UNCHANGED ads

\* An error of a handler is a reply like others: the next command is taken.
HandleOneArg(fails) ==
    /\ ~Idle
    /\ LET text == parser.line[parser.next]
           format == Handler(text)
           field == IF Unanswered(text) THEN "nothing"
                    ELSE IF fails \/ format = Unknown THEN "error" ELSE "done"
       IN /\ ~text.long
          /\ fails => ~Unanswered(text) /\ format # Unknown
          /\ parser' = [parser EXCEPT
                !.next = @ + 1,
                !.replies = Append(@, Reply(text, format, field))]
    /\ UNCHANGED ads

\* Nothing of a line is kept for the next one.
Return ==
    /\ (parser.line # <<>> /\ Idle) \/ ads # NoAds
    /\ parser' = NoLine
    /\ ads' = NoAds

\* motorHandleADS_ADR(): the other commands that may follow "ADSPORT=" go to the chains.
HandleAdr(adr, fails) ==
    /\ Ready
    /\ ads' = [adr |-> adr, field |-> AdsField(adr, fails)]
    /\ UNCHANGED parser

(***************************************************************************)
(* The lines of this model: a command with the words that a format of its  *)
(* chain wants, with one of them of another kind, or without the last; and *)
(* two of the texts of "Several".                                          *)
(***************************************************************************)
Example == [d |-> "int", x |-> "hex", f |-> "real", w |-> "word", t |-> "word",
            l |-> "line", e |-> "none"]
WellFormed(args) == [i \in DOMAIN args |-> Example[args[i]]]
Kinds == {"int", "hex", "real", "word", "none"}

Variants(words) ==
    {words, words \o <<"int">>}
      \cup {[words EXCEPT ![i] = k] : i \in DOMAIN words, k \in Kinds}
      \cup {SubSeq(words, 1, Len(words) - 1) : i \in DOMAIN words}

Text(chain, name, words) ==
    [chain |-> chain, name |-> name, words |-> words, port |-> "none", axis |-> TRUE,
     long |-> FALSE]

Commands(chain) ==
    UNION {{Text(chain, Chain[chain][i].name, words) :
              words \in Variants(WellFormed(Chain[chain][i].args))} :
                i \in DOMAIN Chain[chain]}

\* Those that come two in a line.
Several ==
    LET create == Text("Cfg", "CreateAxis", <<"int">>)
        enable == Text("Main", "bEnable", <<"int">>)
    IN {create, [create EXCEPT !.long = TRUE], [enable EXCEPT !.axis = FALSE],
        [enable EXCEPT !.port = "good"],
        [Text("other", "StopMotion", <<"int">>) EXCEPT !.port = "bad"]}

ParserNext ==
    \/ /\ Ready
       /\ \/ \E chain \in DOMAIN Chain : \E text \in Commands(chain) : Receive(<<text>>)
          \/ \E a \in Several, b \in Several : Receive(<<a, b>>)
          \/ \E access \in AdsAccesses \cup Ads({"5000"}, 3, "?", {"6"}), length \in {2, 8},
                values \in {4, 5}, port \in {501, 851}, number \in BOOLEAN, fails \in BOOLEAN :
               HandleAdr([group |-> access[1], offset |-> access[4], type |-> access[2],
                          sign |-> access[3], length |-> length, port |-> port,
                          number |-> number, values |-> values], fails)
    \/ Refuse
    \/ \E fails \in BOOLEAN : HandleOneArg(fails)
    \/ Return

ParserSpec == ParserInit /\ [][ParserNext]_parserVars

(***************************************************************************)
(* Properties                                                              *)
(***************************************************************************)
\* A command that was written as one of the formats wants it is understood, and no word of
\* it is lost to another format of the same name that stands before (CreateAxis, StopMotion,
\* EcSlaveVerify, EcAddSdo, ... exist with several lists of arguments, and sscanf() does not
\* look at what follows the last value).
NoWordIsLost ==
    \A i \in DOMAIN parser.replies :
        LET reply == parser.replies[i]
            text == reply.text
            formats == Chain[ChainOf(text)]
            wanted == \E j \in DOMAIN formats :
                         /\ formats[j].name = text.name /\ formats[j].needs # {}
                         /\ Exact(formats[j].args, text.words)
        IN wanted /\ reply.field # "nothing" /\ ~text.long =>
               reply.format # Unknown /\ Exact(reply.format.args, text.words)
=============================================================================
