------------------------------ MODULE Encoder ------------------------------
(***************************************************************************)
(* An encoder (motion/ecmcEncoder.cpp): from the register of the terminal, *)
(* which wraps, to the position of the axis, its velocity and the position *)
(* that the hardware latched, through losses of the bus, alarms, modulo    *)
(* axes and homing.  The scale is 1: counts are the unit of position.      *)
(* engOffset_ is only ever added to rawPosOffset_ and is part of offset.   *)
(***************************************************************************)
EXTENDS Integers

CONSTANTS Size,       \* values of the register, 2^bits_
          Modulo,     \* moduloRange, 0 for a linear axis
          MaxStep,    \* travel of the shaft in a cycle
          Positions,  \* that homing sets or a PLC gives
          Registers,  \* of the first reading
          MaxTravel   \* bound of this model: how far from 0 the shaft turns

VARIABLES enc,      \* members of ecmcEncoder
          source,   \* data_->command_.encSource
          told,     \* by this cycle: distance for the velocity, latched position
          shaft     \* history: what the shaft did, see EncoderInit

encoderVars == <<enc, source, told, shaft>>

RawRange == Size - 1
RawLimit == (RawRange * 7) \div 10    \* ECMC_OVER_UNDER_FLOW_FACTOR

\* Between two readings the shaft moves less than tells a wrap from a step.
ASSUME EncoderAssumption ==
    /\ Size \in Nat \ {0} /\ Modulo \in Nat /\ MaxStep \in Nat /\ MaxTravel \in Nat
    /\ MaxStep <= RawLimit /\ MaxStep < Size - RawLimit
    /\ Positions \subseteq Int /\ Registers \subseteq 0 .. RawRange

Sources == {"internal", "external"}
Steps == -MaxStep .. MaxStep

(***************************************************************************)
(* The shaft, as the register shows it                                     *)
(***************************************************************************)
Wraps(reg, d) == IF reg + d >= Size THEN 1 ELSE IF reg + d < 0 THEN -1 ELSE 0
Turned(reg, d) ==
    IF reg + d >= Size THEN reg + d - Size
    ELSE IF reg + d < 0 THEN reg + d + Size ELSE reg + d

(***************************************************************************)
(* The functions of the encoder                                            *)
(***************************************************************************)
HandleOverUnderFlow(old, reg, turns) ==
    IF old > reg /\ old - reg > RawLimit THEN turns + 1
    ELSE IF old < reg /\ reg - old > RawLimit THEN turns - 1
    ELSE turns

MultiTurn(turns, reg, offset) == turns * RawRange + reg + offset

SetActPosOf(e, pos) ==
    [e EXCEPT !.turns = 0, !.offset = pos - e.reg, !.local = pos, !.act = pos]

\* One lap back into the modulo range.
Lap(pos) ==
    IF Modulo = 0 THEN 0
    ELSE IF pos >= Modulo THEN -Modulo ELSE IF pos < 0 THEN Modulo ELSE 0

\* What the shaft travelled, for the velocity.
DistTraveled(pos, old) ==
    IF Modulo # 0 /\ 10 * (pos - old) > 7 * Modulo THEN pos - old - Modulo
    ELSE IF Modulo # 0 /\ 10 * (pos - old) < -7 * Modulo THEN pos - old + Modulo
    ELSE pos - old

\* Mutant: the first reading is compared with a register of 0.
CountedFromZero(e, reg) ==
    [e EXCEPT !.reg = reg, !.okOld = TRUE, !.turns = HandleOverUnderFlow(e.reg, reg, @)]

\* The register counts on: a wrap since the last reading is a turn.
Counted(e, reg) ==
    [e EXCEPT !.reg = reg, !.okOld = TRUE,
              !.turns = HandleOverUnderFlow(IF e.okOld THEN e.reg ELSE reg, reg, @)]

RawPosition(e) == MultiTurn(e.turns, e.reg, e.offset)

\* After a lap the counting starts again at the register.
ReadHwActPos(e, reg) ==
    LET counted == Counted(e, reg)
        pos == RawPosition(counted)
        local == pos + Lap(pos)
    IN IF Lap(pos) = 0 THEN [counted EXCEPT !.local = pos]
       ELSE [counted EXCEPT !.local = local, !.turns = 0, !.offset = local - reg]

\* Mutant: a latched value is taken to be of the turn after it.
ReadHwLatchLate(e, read, value) ==
    MultiTurn(HandleOverUnderFlow(e.reg, value, read.turns), value, read.offset)

\* A new value that the hardware latched between the reading e and the next, read: the
\* register may have wrapped before it or after it.
ReadHwLatch(e, read, value) ==
    LET turnsOld == IF Lap(RawPosition(Counted(e, read.reg))) = 0 THEN e.turns ELSE 0
    IN MultiTurn(HandleOverUnderFlow(e.reg, value, turnsOld), value, read.offset)

(***************************************************************************)
(* Initial state                                                           *)
(***************************************************************************)
Untold == [dist |-> 0, latch |-> 0, moved |-> 0, wrap |-> 0, latched |-> 0, wraps |-> 0,
           steady |-> FALSE, fresh |-> FALSE]

\* place: where the shaft was at the last reading: what it was referenced to and its travel
\*   since, with no lap taken off; unseen: its travel since that reading
\* wraps: how often the register has wrapped upwards since, less how often downwards
\* far: unseen is too much, the register may be anywhere; lost: such a register was read
\* internal: the position is that of the last reading
\* In told, history too: how far the shaft moved and the register wrapped in this cycle, if
\* the position before was a reading (steady); where the shaft was when a value was latched
\* and the wraps until then, if one was (fresh).
EncoderInit ==
    \E offset \in Positions :
        /\ enc = [reg |-> 0, turns |-> 0, offset |-> offset, local |-> 0, act |-> 0,
                  status |-> FALSE, okOld |-> FALSE, error |-> FALSE]
        /\ source = "internal"
        /\ told = Untold
        /\ shaft = [place |-> 0, wraps |-> 0, unseen |-> 0, far |-> FALSE, lost |-> FALSE,
                    internal |-> FALSE]

(***************************************************************************)
(* A cycle: readEntries()                                                  *)
(***************************************************************************)
\* The axis that starts resets an incremental encoder (initEncoders()); the position
\* of an absolute one counts from the register.
FirstReading ==
    /\ ~enc.okOld
    /\ \E reg \in Registers, incremental \in BOOLEAN, external \in Positions :
        LET read == ReadHwActPos(enc, reg)
            start == [read EXCEPT
                !.act = IF source = "internal" THEN read.local ELSE external]
        IN /\ enc' = IF incremental THEN SetActPosOf(start, 0) ELSE start
           /\ shaft' = [shaft EXCEPT
                  !.place = IF incremental THEN 0 ELSE reg + enc.offset,
                  !.internal = incremental \/ source = "internal"]
    /\ UNCHANGED <<source, told>>

\* The shaft moves by d, and the latch strikes after e of all that is unseen then.  An
\* alarm sets the error after the reading.  The encoder is the primary one, which takes
\* the position of an external source.  Bound of this model: after a lost reading the
\* next one comes when the position has been set.
Reading(d, e, status, alarm, external) ==
    LET total == shaft.unseen + d
        far == shaft.far \/ total \notin Steps
        Reg(t) == IF far THEN 0 .. RawRange ELSE {Turned(enc.reg, t)}
        wrap == Wraps(enc.reg, total)
        new == status /\ ~enc.status
    IN
    /\ enc.okOld /\ ~enc.error /\ ~shaft.lost
    /\ IF far \/ ~new THEN e = 0 ELSE e \in 0 .. total \/ e \in total .. 0
    /\ far \/ shaft.place + total \in -MaxTravel .. MaxTravel
    /\ \E reg \in Reg(total) :
        LET read == ReadHwActPos(enc, reg)
            lap == Lap(RawPosition(Counted(enc, reg)))
        IN /\ enc' = [read EXCEPT
                  !.status = status, !.error = alarm,
                  !.act = IF source = "internal" THEN read.local ELSE external]
           /\ shaft' = [shaft EXCEPT
                  !.place = IF far THEN 0 ELSE @ + total,
                  !.wraps = IF far THEN 0 ELSE @ + wrap,
                  !.unseen = 0, !.far = FALSE, !.lost = far,
                  !.internal = source = "internal"]
           /\ \E value \in IF new THEN Reg(e) ELSE {0} :
                told' = [dist |-> DistTraveled(read.local, enc.act),
                         moved |-> total, wrap |-> wrap,
                         steady |-> shaft.internal /\ ~far,
                         latch |-> IF new THEN ReadHwLatch(enc, read, value) ELSE 0,
                         latched |-> IF new THEN shaft.place + e ELSE 0,
                         wraps |-> IF new THEN shaft.wraps + Wraps(enc.reg, e) ELSE 0,
                         fresh |-> new /\ ~far /\ (lap = 0 \/ wrap = 0)]
    /\ UNCHANGED source

\* Nothing is read while the bus is away or the encoder has an error.
Away(d, external) ==
    LET total == shaft.unseen + d
        far == shaft.far \/ total \notin Steps
    IN
    /\ enc.okOld
    /\ enc' = [enc EXCEPT !.act = IF source = "external" THEN external ELSE @]
    /\ told' = Untold
    /\ shaft' = [shaft EXCEPT !.unseen = IF far THEN 0 ELSE total, !.far = far,
                              !.internal = @ /\ source = "internal"]
    /\ UNCHANGED source

(***************************************************************************)
(* Between two cycles, or in the sequencer after the reading               *)
(***************************************************************************)
SetActPos(pos) ==
    /\ enc.okOld
    /\ enc' = SetActPosOf(enc, pos)
    /\ told' = Untold
    /\ shaft' = [shaft EXCEPT !.place = pos, !.wraps = 0, !.lost = FALSE, !.internal = TRUE]
    /\ UNCHANGED source

SetEncDataSourceType(s) ==
    /\ source' = s /\ told' = Untold
    /\ UNCHANGED <<enc, shaft>>

ErrorReset ==
    /\ enc' = [enc EXCEPT !.error = FALSE] /\ told' = Untold
    /\ UNCHANGED <<source, shaft>>

EncoderNext ==
    \/ FirstReading
    \/ \E d \in Steps, e \in Steps, status \in BOOLEAN, alarm \in BOOLEAN,
          external \in Positions : Reading(d, e, status, alarm, external)
    \/ \E d \in Steps, external \in Positions : Away(d, external)
    \/ \E pos \in Positions : SetActPos(pos)
    \/ \E s \in Sources : SetEncDataSourceType(s)
    \/ ErrorReset

EncoderSpec == EncoderInit /\ [][EncoderNext]_encoderVars

(***************************************************************************)
(* Properties                                                              *)
(***************************************************************************)
EncoderTypeOK ==
    /\ enc \in [reg: 0 .. RawRange, turns: Int, offset: Int, local: Int, act: Int,
                status: BOOLEAN, okOld: BOOLEAN, error: BOOLEAN]
    /\ source \in Sources
    /\ told \in [dist: Int, latch: Int, moved: Int, wrap: Int, latched: Int, wraps: Int,
                 steady: BOOLEAN, fresh: BOOLEAN]
    /\ shaft \in [place: Int, wraps: Int, unseen: Steps, far: BOOLEAN, lost: BOOLEAN,
                  internal: BOOLEAN]

\* The same position of the axis: on a modulo axis but for whole laps.
SamePosition(a, b) == IF Modulo = 0 THEN a = b ELSE (a - b) % Modulo = 0

\* The position is that of the shaft less one count for every wrap of the register: the
\* code takes a turn for 2^bits - 1 counts (rawRange_, ecmcEncoder.cpp:322).  Nothing else
\* is lost, through wraps, laps, homing, and losses of the bus and alarms in which the
\* shaft goes no further than in a cycle (ecmcEncoder.cpp:163-178, 231-252, 338-400).
PositionFollows ==
    shaft.internal /\ ~shaft.lost => SamePosition(enc.act, shaft.place - shaft.wraps)

\* A latched position is the one at which the hardware latched it, less a count for every
\* wrap until then, also when the register wrapped in that cycle, before or after; not when
\* it wraps in the cycle of a lap, there it is off by a turn (ecmcEncoder.cpp:424-459).
LatchIsTrue == told.fresh => SamePosition(told.latch, told.latched - told.wraps)

\* The velocity is made from the travel of the shaft in a cycle, less a count if the
\* register wraps in it, also over a lap and after homing (ecmcEncoder.cpp:404-420).
VelocityIsTrue == told.steady => told.dist = told.moved - told.wrap

EncoderTrue == PositionFollows /\ LatchIsTrue /\ VelocityIsTrue
=============================================================================
