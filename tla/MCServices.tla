----------------------------- MODULE MCServices -----------------------------
(***************************************************************************)
(* What is around the axis: the objects of the slaves, the process image,  *)
(* the encoder of a linear and of a modulo axis, the commands and their    *)
(* parser, the parameters and the motor record that EPICS sees, the PLC    *)
(* and its library, storages and events.  Each has a module with its own   *)
(* environment; a behaviour of this one is a behaviour of one of them, the *)
(* part, on small constants.  The slots hold the variables of the part in  *)
(* their order; the parser and the encoder have their own.                 *)
(***************************************************************************)
EXTENDS Integers, CmdParser, Encoder

CONSTANTS SdoTexts,      \* Texts and MaxConfig of EcSdo,
          MaxConfig,
          MaxEncoders,   \* MaxEncoders of MotionCommands,
          PlcValues,     \* Values of PlcData
          StorageSizes,  \* Sizes and MaxAppends of DataStorage
          MaxAppends,
          ParamKinds,    \* Kinds, Links and the other constants of Params
          ParamLinks, TableSize, DefaultRate, MaxAge, MaxLinks, Round,
          MotorKinds,    \* Kinds, Options and bounds of MotorRecord
          Options, Tries, MaxActs

VARIABLES part, s1, s2, s3, s4, s5, s6, s7

slots == <<part, s1, s2, s3, s4, s5, s6, s7>>
vars == <<slots, parserVars, encoderVars>>

Unused == "unused"
Rest3 == s4 = Unused /\ s5 = Unused /\ s6 = Unused /\ s7 = Unused
Rest2 == s3 = Unused /\ Rest3
AllUnused == s1 = Unused /\ s2 = Unused /\ Rest2

(***************************************************************************)
(* Objects of the slaves, and the process image                            *)
(***************************************************************************)
\* Numbers with one blank, two blanks and none between them; -1 is the blank.
FewTexts == {<<1>>, <<0, -1, 1>>, <<1, -1, -1>>, <<-1, 1>>, <<1, -1, -1, 0>>, <<>>}

Sdo == INSTANCE EcSdo WITH Texts <- SdoTexts,
    object <- s1, startup <- s2, result <- s3

\* Names that come twice, in two directions, and an entry of a type without bits.
EntryKinds == {
    [name |-> "a", sm |-> 2, pdo |-> 1, out |-> TRUE, bits |-> 1],
    [name |-> "a", sm |-> 2, pdo |-> 2, out |-> TRUE, bits |-> 4],
    [name |-> "b", sm |-> 2, pdo |-> 2, out |-> FALSE, bits |-> 2],
    [name |-> "b", sm |-> 3, pdo |-> 3, out |-> FALSE, bits |-> 3],
    [name |-> "b", sm |-> 3, pdo |-> 3, out |-> TRUE, bits |-> 0] }

Image == INSTANCE EcImage WITH
    Kinds <- EntryKinds,
    MapKinds <- {[start |-> "a", bytes |-> 2, out |-> TRUE],
                 [start |-> "b", bytes |-> 1, out |-> FALSE]},
    MaxEntries <- 3, MaxMaps <- 1, MaxOdd <- 1,
    entry <- s1, list <- s2, inUse <- s3, map <- s4, phase <- s5, image <- s6

\* The encoder of a modulo axis; that of a linear one has the constants of the cfg.
Turntable == INSTANCE Encoder WITH Modulo <- 6, Positions <- {3}, MaxTravel <- 8

(***************************************************************************)
(* Commands                                                                *)
(***************************************************************************)
MotionCmds == INSTANCE MotionCommands WITH axis <- s1, through <- s2

(***************************************************************************)
(* EPICS                                                                   *)
(***************************************************************************)
FewKinds == {[types |-> {"scalar"}, wide |-> TRUE, bits |-> 64, every |-> 1],
             [types |-> {"array", "scalar"}, wide |-> TRUE, bits |-> 0, every |-> 2]}
FewLinks == {[type |-> "scalar", cmd |-> "FLOAT64TOINT32", ms |-> 1],
             [type |-> "array", cmd |-> "none", ms |-> 3],
             [type |-> "scalar", cmd |-> "none", ms |-> -1]}

Parameters == INSTANCE Params WITH
    Names <- {"a", "b"}, Kinds <- ParamKinds, Links <- ParamLinks,
    avail <- s1, library <- s2, port <- s3

\* A record asks for a time, or for none with -1.
ASSUME ParamAssumption ==
    /\ Round \in Nat \ {0}
    /\ \A kind \in ParamKinds : kind.every \in Nat \ {0} /\ Round % kind.every = 0
    /\ \A link \in ParamLinks : link.ms \in Nat \cup {-1}
    /\ {DefaultRate, MaxAge} \subseteq Nat

Motor == INSTANCE MotorRecord WITH
    Kinds <- MotorKinds,
    axis <- s1, status <- s2, drvlocal <- s3, record <- s4, call <- s5, since <- s6

(***************************************************************************)
(* PLC, data and events                                                    *)
(***************************************************************************)
Name(class, id, exists) == [class |-> class, id |-> id, exists |-> exists]

PlcTask == INSTANCE Plc WITH
    Lines <- {[names |-> <<Name("static", "s", TRUE), Name("global", "g", TRUE)>>, good |-> TRUE],
              [names |-> <<Name("ds", "x", FALSE)>>, good |-> FALSE]},
    CycleTimes <- {1, 5}, MaxVariables <- 5, MaxText <- 2,
    plc <- s1, var <- s2, globals <- s3, running <- s4, scans <- s5, program <- s6

PlcVars == INSTANCE PlcData WITH
    Values <- PlcValues,
    name <- s1, table <- s2, datum <- s3, status <- s4, var <- s5, at <- s6, scan <- s7

\* An expression yields numbers; what is not one is never assigned.
ASSUME PlcAssumption == PlcValues \subseteq Int \ {PlcVars!NaN}

PlcLib == INSTANCE PlcFunctions WITH
    IntBits <- 2, WordBits <- 3, Sizes <- {1, 3}, Callers <- {1, 2}, Triggers <- {0, 1, 2},
    axis <- s1, flag <- s2, mcError <- s3, call <- s4, asked <- s5, word <- s6, copy <- s7

Storage == INSTANCE DataStorage WITH
    Sizes <- StorageSizes, storage <- s1, stored <- s2

\* A buffer has at least one cell.
ASSUME StorageAssumption == StorageSizes \subseteq Nat \ {0}

Event == INSTANCE Events WITH
    Kinds <- {"sampled", "change"}, Periods <- {2},
    Linked <- <<[kind |-> "recorder", source |-> TRUE], [kind |-> "list", source |-> TRUE]>>,
    event <- s1, consumers <- s2, arm <- s3, owed <- s4

(***************************************************************************)
(* One of them                                                             *)
(***************************************************************************)
Init ==
    /\ ParserInit
    /\ EncoderInit /\ (part \in {"encoder", "turntable"} \/ enc.offset = 0)
    /\ \/ part \in {"encoder", "turntable"} /\ AllUnused
       \/ part = "sdo" /\ Sdo!SdoInit /\ Rest3
       \/ part = "image" /\ Image!ImageInit /\ s7 = Unused
       \/ part = "commands" /\ MotionCmds!MotionInit /\ Rest2
       \/ part = "parser" /\ AllUnused
       \/ part = "params" /\ Parameters!ParamsInit /\ Rest3
       \/ part = "motor" /\ Motor!MotorInit /\ s7 = Unused
       \/ part = "plc" /\ PlcTask!PlcInit /\ s7 = Unused
       \/ part = "plc data" /\ PlcVars!DataInit
       \/ part = "plc library" /\ PlcLib!FunctionInit
       \/ part = "storage" /\ Storage!StorageInit /\ Rest2
       \/ part = "event" /\ Event!EventInit /\ s5 = Unused /\ s6 = Unused /\ s7 = Unused

OtherNext ==
    \/ part = "sdo" /\ Sdo!SdoNext /\ UNCHANGED <<part, s4, s5, s6, s7>>
    \/ part = "image" /\ Image!ImageNext /\ UNCHANGED <<part, s7>>
    \/ part = "commands" /\ MotionCmds!MotionNext /\ UNCHANGED <<part, s3, s4, s5, s6, s7>>
    \/ part = "params" /\ Parameters!ParamsNext /\ UNCHANGED <<part, s4, s5, s6, s7>>
    \/ part = "motor" /\ Motor!MotorNext /\ UNCHANGED <<part, s7>>
    \/ part = "plc" /\ PlcTask!PlcNext /\ UNCHANGED <<part, s7>>
    \/ part = "plc data" /\ PlcVars!DataNext /\ UNCHANGED part
    \/ part = "plc library" /\ PlcLib!FunctionNext /\ UNCHANGED part
    \/ part = "storage" /\ Storage!StorageNext /\ UNCHANGED <<part, s3, s4, s5, s6, s7>>
    \/ part = "event" /\ Event!EventNext /\ UNCHANGED <<part, s5, s6, s7>>

Next ==
    \/ part = "parser" /\ ParserNext /\ UNCHANGED <<slots, encoderVars>>
    \/ part = "encoder" /\ EncoderNext /\ UNCHANGED <<slots, parserVars>>
    \/ part = "turntable" /\ Turntable!EncoderNext /\ UNCHANGED <<slots, parserVars>>
    \/ UNCHANGED <<parserVars, encoderVars>> /\ OtherNext

Spec == Init /\ [][Next]_vars

(***************************************************************************)
(* Properties: those of the parts                                          *)
(***************************************************************************)
\* A value that was verified is in the slave, except a 0, also when fewer bytes were
\* written than verified (ethercat/ecmcEcSDO.cpp:281-379, ecmcEthercat.cpp:551-588).
VerifiedIsStored == part = "sdo" => Sdo!VerifiedIsStored

\* Every output arrives in its own bits of the process image, every input reads its own
\* (Misplaced and Unreadable name those that do not), no memory map leaves the domain and an
\* index leads to the entry of its name, whatever was added in which order (ecmcEc.cpp:
\* 244-383, 867-1175, ecmcEcEntry.cpp:311-632); and what an encoder makes of its register is
\* where the shaft is, was latched and how it moves, less one count for every wrap of the
\* register and nothing else (motion/ecmcEncoder.cpp:163-178, 231-252, 338-459).
InputsSafe ==
    /\ part = "image" => Image!ImageSafe
    /\ part = "encoder" => EncoderTrue
    /\ part = "turntable" => Turntable!EncoderTrue

\* Data is in the records of a parameter in the shortest time they asked for and the time
\* between two calls of the records, when the first of them asked for a time and none
\* shortened that of a parameter which is updated more seldom than every cycle (Promised:
\* the others can be late), and the index that a record has leads to its parameter
\* (com/ecmcAsynPortDriver.cpp:896-1080, ecmcAsynDataItem.cpp:134-286); the motor record is
\* not told that a motion is done before it is, and is told every error
\* (motor/ecmcMotorRecordAxis.cpp:958-1235).
EpicsSafe ==
    /\ part = "params" => Parameters!ParamsSafe
    /\ part = "motor" => Motor!DoneIsDone /\ Motor!ErrorsAreTold

\* A PLC runs in time what was loaded into it (plc/ecmcPLCTask.cpp:141-220,
\* ecmcPLCMain.cpp:135-228), and its functions move what they are asked to and change no
\* other bit or cell (ecmcPLCTask_libMc.inc, ecmcPLCTask_libEc.inc, ecmcPLCTask_libDs.inc).
PlcSafe ==
    /\ part = "plc" => PlcTask!PlcSafe
    /\ part = "plc library" => PlcLib!FunctionsSafe

\* The statistics of a storage are those of the data it holds (misc/ecmcDataStorage.cpp:
\* 232-331, 581-656), and an event arms its input again (misc/ecmcEvent.cpp:265-433).
DataSafe ==
    /\ part = "storage" => Storage!StatisticsAreOfData
    /\ part = "event" => Event!ReArmed

\* A blocked axis is changed by the known exceptions only, the scale of an encoder not
\* while the axis is enabled and the encoder in use not while it is busy; the encoders
\* that are selected exist (motion/ecmcMotion.cpp, ecmcMotion.h:26-110).
CommandsKeepRules == [][part = "commands" => MotionCmds!KeepsRules]_vars

\* A PLC leaves a datum as others have set it unless its expression has asked for a change
\* in the same scan, and that of an axis unless the axis takes commands from PLCs; what it
\* has asked for is what is written (plc/ecmcPLCDataIF.cpp:132-292, 602-748).
ChangesOnlyWhatItSet == [][part = "plc data" => PlcVars!ChangesWhatItSet]_vars
=============================================================================
