--------------------------- MODULE ServicesProofs ---------------------------
(***************************************************************************)
(* Proofs about the parts of MCServices, for every value of its constants: *)
(* the encoder, the objects of the slaves, the motion commands, the data   *)
(* of PLCs, the events and the storages.  Each part has its lemmas and its *)
(* inductive invariant; at the end the module that runs them inherits      *)
(* what they keep.                                                         *)
(***************************************************************************)
EXTENDS MCServices, SequenceTheorems, TLAPS

(***************************************************************************)
(* The register                                                            *)
(***************************************************************************)
\* A wrap of the register is what the code takes for one.
LEMMA WrapIsCounted ==
    ASSUME NEW r \in 0 .. RawRange, NEW t \in Steps, NEW n \in Int
    PROVE  /\ Turned(r, t) \in 0 .. RawRange
           /\ Wraps(r, t) \in {-1, 0, 1}
           /\ HandleOverUnderFlow(r, Turned(r, t), n) = n + Wraps(r, t)
           /\ Turned(r, t) = IF Wraps(r, t) = 1 THEN r + t - Size
                             ELSE IF Wraps(r, t) = -1 THEN r + t + Size ELSE r + t
<1> DEFINE L == RawLimit
<1>1. L \in Int /\ MaxStep <= L /\ MaxStep < Size - L /\ Size \in Nat \ {0}
      /\ MaxStep \in Nat
  BY EncoderAssumption DEF RawLimit, RawRange
<1>2. r \in Int /\ t \in Int /\ 0 <= r /\ r <= Size - 1 /\ -MaxStep <= t /\ t <= MaxStep
  BY <1>1 DEF Steps, RawRange
<1>3. RawLimit = L
  OBVIOUS
<1> HIDE DEF L
<1> QED
  BY <1>1, <1>2, <1>3 DEF Turned, Wraps, HandleOverUnderFlow, RawRange

\* So the counted position moves with the shaft, less a count for a wrap.
LEMMA CountFollows ==
    ASSUME NEW r \in 0 .. RawRange, NEW t \in Steps, NEW n \in Int, NEW o \in Int
    PROVE  MultiTurn(HandleOverUnderFlow(r, Turned(r, t), n), Turned(r, t), o)
             = MultiTurn(n, r, o) + t - Wraps(r, t)
<1> DEFINE w == Wraps(r, t)
           s == Turned(r, t)
<1>1. w \in {-1, 0, 1} /\ HandleOverUnderFlow(r, s, n) = n + w
      /\ s = IF w = 1 THEN r + t - Size ELSE IF w = -1 THEN r + t + Size ELSE r + t
  BY WrapIsCounted
<1>2. Size \in Int /\ r \in Int /\ t \in Int
  BY EncoderAssumption DEF Steps, RawRange
<1> HIDE DEF w, s
<1>3. CASE w = 1
  <2>1. (n + 1) * (Size - 1) = n * (Size - 1) + (Size - 1)
    BY <1>2
  <2> QED
    BY <1>1, <1>2, <1>3, <2>1 DEF MultiTurn, RawRange, w, s
<1>4. CASE w = -1
  <2>1. (n - 1) * (Size - 1) = n * (Size - 1) - (Size - 1)
    BY <1>2
  <2> QED
    BY <1>1, <1>2, <1>4, <2>1 DEF MultiTurn, RawRange, w, s
<1>5. CASE w = 0
  BY <1>1, <1>2, <1>5 DEF MultiTurn, RawRange, w, s
<1> QED
  BY <1>1, <1>3, <1>4, <1>5

(***************************************************************************)
(* A reading                                                               *)
(***************************************************************************)
Encoders == [reg: 0 .. RawRange, turns: Int, offset: Int, local: Int, act: Int,
             status: BOOLEAN, okOld: BOOLEAN, error: BOOLEAN]

LEMMA RangeIsInt == RawRange \in Int /\ (0 .. RawRange) \subseteq Int
BY EncoderAssumption DEF RawRange

LEMMA MultiTurnIsInt ==
    ASSUME NEW n \in Int, NEW r \in 0 .. RawRange, NEW o \in Int
    PROVE  MultiTurn(n, r, o) \in Int
BY RangeIsInt DEF MultiTurn

LEMMA TurnsAreInt ==
    ASSUME NEW a, NEW b, NEW n \in Int
    PROVE  HandleOverUnderFlow(a, b, n) \in Int
BY DEF HandleOverUnderFlow

LEMMA LapIsInt == ASSUME NEW p \in Int PROVE Lap(p) \in Int
BY EncoderAssumption DEF Lap

\* What counting changes.
LEMMA CountedFields ==
    ASSUME NEW e \in Encoders, NEW reg \in 0 .. RawRange
    PROVE  /\ Counted(e, reg) \in Encoders
           /\ Counted(e, reg).reg = reg /\ Counted(e, reg).okOld
           /\ Counted(e, reg).offset = e.offset
           /\ Counted(e, reg).turns =
                HandleOverUnderFlow(IF e.okOld THEN e.reg ELSE reg, reg, e.turns)
           /\ RawPosition(Counted(e, reg)) \in Int
<1> DEFINE n == HandleOverUnderFlow(IF e.okOld THEN e.reg ELSE reg, reg, e.turns)
           c == Counted(e, reg)
<1>1. n \in Int
  BY TurnsAreInt DEF Encoders
<1>2. c = [e EXCEPT !.reg = reg, !.okOld = TRUE, !.turns = n]
  BY DEF Counted
<1> HIDE DEF n
<1>3. c \in Encoders /\ c.reg = reg /\ c.okOld /\ c.offset = e.offset /\ c.turns = n
  BY <1>1, <1>2 DEF Encoders
<1> HIDE DEF c
<1>4. RawPosition(c) \in Int
  <2>1. c.turns \in Int /\ c.reg \in 0 .. RawRange /\ c.offset \in Int
    BY <1>3 DEF Encoders
  <2> QED
    BY <2>1, MultiTurnIsInt DEF RawPosition
<1> QED
  BY <1>3, <1>4 DEF c, n

\* A reading puts the counted position, a lap further, into the encoder: as its
\* position and as what its turns, register and offset add up to.
LEMMA ReadFields ==
    ASSUME NEW e \in Encoders, NEW reg \in 0 .. RawRange
    PROVE  LET r == ReadHwActPos(e, reg)
               p == RawPosition(Counted(e, reg))
           IN  /\ r \in Encoders
               /\ r.okOld /\ r.reg = reg
               /\ r.local = p + Lap(p)
               /\ RawPosition(r) = p + Lap(p)
               /\ Lap(p) = 0 => r.offset = e.offset
               /\ Lap(p) # 0 => r.offset = p + Lap(p) - reg
<1> DEFINE c == Counted(e, reg)
           p == RawPosition(c)
           q == p + Lap(p)
           r == ReadHwActPos(e, reg)
<1>1. c \in Encoders /\ c.reg = reg /\ c.okOld /\ c.offset = e.offset /\ p \in Int
  BY CountedFields
<1>2. Lap(p) \in Int /\ q \in Int /\ reg \in Int /\ q - reg \in Int
  BY <1>1, LapIsInt, RangeIsInt
<1>3. r = IF Lap(p) = 0 THEN [c EXCEPT !.local = p]
          ELSE [c EXCEPT !.local = q, !.turns = 0, !.offset = q - reg]
  BY DEF ReadHwActPos
<1>4. p = MultiTurn(c.turns, c.reg, c.offset)
  BY DEF RawPosition
<1> HIDE DEF c, p, r
<1>5. CASE Lap(p) = 0
  <2>1. r = [c EXCEPT !.local = p] /\ q = p
    BY <1>1, <1>3, <1>5
  <2>2. r \in Encoders /\ r.local = p /\ r.reg = reg /\ r.okOld /\ r.turns = c.turns
        /\ r.offset = c.offset
    BY <1>1, <2>1 DEF Encoders
  <2>3. RawPosition(r) = p
    BY <1>1, <1>4, <2>2 DEF RawPosition
  <2> QED
    BY <1>1, <1>5, <2>1, <2>2, <2>3 DEF c, p, r
<1>6. CASE Lap(p) # 0
  <2> DEFINE o == q - reg
             z == 0
  <2>1. r = [c EXCEPT !.local = q, !.turns = z, !.offset = o]
    BY <1>3, <1>6
  <2>2. o \in Int /\ q \in Int /\ z \in Int
    BY <1>2
  <2>4. MultiTurn(z, reg, o) = q
    BY <1>2, RangeIsInt DEF MultiTurn
  <2>6. q = p + Lap(p) /\ o = q - reg
    OBVIOUS
  <2>8. o = p + Lap(p) - reg
    BY <1>1, <1>2
  <2> HIDE DEF q, o, z
  <2>3. r \in Encoders /\ r.local = q /\ r.reg = reg /\ r.okOld /\ r.turns = z
        /\ r.offset = o
    BY <1>1, <2>1, <2>2 DEF Encoders
  <2>5. RawPosition(r) = q
    BY <2>3, <2>4 DEF RawPosition
  <2>7. /\ r \in Encoders /\ r.okOld /\ r.reg = reg
        /\ r.local = p + Lap(p) /\ RawPosition(r) = p + Lap(p)
        /\ r.offset = p + Lap(p) - reg
    BY <2>3, <2>5, <2>6, <2>8
  <2> QED
    BY <1>6, <2>7 DEF c, p, r
<1> QED
  BY <1>5, <1>6

\* A reading after a step of the shaft.
LEMMA CountedFollows ==
    ASSUME NEW e \in Encoders, e.okOld, NEW t \in Steps
    PROVE  /\ Turned(e.reg, t) \in 0 .. RawRange
           /\ RawPosition(Counted(e, Turned(e.reg, t)))
                = RawPosition(e) + t - Wraps(e.reg, t)
<1>1. e.reg \in 0 .. RawRange /\ e.turns \in Int /\ e.offset \in Int
  BY DEF Encoders
<1>2. Turned(e.reg, t) \in 0 .. RawRange
  BY <1>1, WrapIsCounted
<1>3. RawPosition(Counted(e, Turned(e.reg, t)))
        = MultiTurn(HandleOverUnderFlow(e.reg, Turned(e.reg, t), e.turns),
                    Turned(e.reg, t), e.offset)
  BY <1>2, CountedFields DEF RawPosition
<1> QED
  BY <1>1, <1>2, <1>3, CountFollows DEF RawPosition

(***************************************************************************)
(* Positions that are the same but for laps of a modulo axis               *)
(***************************************************************************)
LEMMA WholeLaps ==
    ASSUME NEW m \in Nat \ {0}, NEW k \in Int
    PROVE  (k * m) % m = 0
BY Z3

LEMMA LapsOf ==
    ASSUME NEW m \in Nat \ {0}, NEW x \in Int, x % m = 0
    PROVE  \E k \in Int : x = k * m
BY Z3

\* A lap more or less does not matter.
LEMMA LapMore ==
    ASSUME NEW m \in Nat \ {0}, NEW x \in Int, x % m = 0
    PROVE  (x + m) % m = 0 /\ (x - m) % m = 0
<1>1. PICK k \in Int : x = k * m
  BY LapsOf
<1>2. x + m = (k + 1) * m /\ x - m = (k - 1) * m
  BY <1>1, Z3
<1>3. ((k + 1) * m) % m = 0 /\ ((k - 1) * m) % m = 0
  BY WholeLaps
<1> QED
  BY <1>2, <1>3

LEMMA SameIsKept ==
    ASSUME NEW a \in Int, NEW b \in Int, SamePosition(a, b)
    PROVE  /\ \A x \in Int : SamePosition(a + x, b + x)
           /\ \A p \in Int : SamePosition(a + Lap(p), b)
<1>1. \A x \in Int : (a + x) - (b + x) = a - b
  OBVIOUS
<1>2. CASE Modulo = 0
  BY <1>2 DEF SamePosition, Lap
<1>3. CASE Modulo # 0
  <2>1. Modulo \in Nat \ {0} /\ a - b \in Int /\ (a - b) % Modulo = 0
    BY <1>3, EncoderAssumption DEF SamePosition
  <2>2. ((a - b) + Modulo) % Modulo = 0 /\ ((a - b) - Modulo) % Modulo = 0
    BY <2>1, LapMore
  <2>3. ASSUME NEW p \in Int PROVE SamePosition(a + Lap(p), b)
    <3>1. Lap(p) \in {0, Modulo, -Modulo}
      BY DEF Lap
    <3>2. CASE Lap(p) = 0
      BY <2>1, <3>2 DEF SamePosition
    <3>3. CASE Lap(p) = Modulo
      <4>1. (a + Lap(p)) - b = (a - b) + Modulo
        BY <2>1, <3>3
      <4> QED BY <1>3, <2>2, <4>1 DEF SamePosition
    <3>4. CASE Lap(p) = -Modulo
      <4>1. (a + Lap(p)) - b = (a - b) - Modulo
        BY <2>1, <3>4
      <4> QED BY <1>3, <2>2, <4>1 DEF SamePosition
    <3> QED BY <3>1, <3>2, <3>3, <3>4
  <2>4. ASSUME NEW x \in Int PROVE SamePosition(a + x, b + x)
    BY <1>1, <1>3, <2>1 DEF SamePosition
  <2> QED BY <2>3, <2>4
<1> QED BY <1>2, <1>3

LEMMA SameAsItself == ASSUME NEW a \in Int PROVE SamePosition(a, a)
<1>1. CASE Modulo = 0
  BY <1>1 DEF SamePosition
<1>2. CASE Modulo # 0
  <2>1. Modulo \in Nat \ {0}
    BY <1>2, EncoderAssumption
  <2>2. (0 * Modulo) % Modulo = 0
    BY <2>1, WholeLaps
  <2>3. a - a = 0 * Modulo
    BY <2>1
  <2> QED BY <1>2, <2>2, <2>3 DEF SamePosition
<1> QED BY <1>1, <1>2

(***************************************************************************)
(* The invariant.  What turns, register and offset add up to is the place  *)
(* of the shaft less its wraps, also while the position that is told is    *)
(* another one: of an external source, or of before an alarm.              *)
(***************************************************************************)
CountsShaft ==
    enc.okOld /\ ~shaft.lost => SamePosition(RawPosition(enc), shaft.place - shaft.wraps)
ToldIsRead == shaft.internal => enc.okOld
StartsAtZero == ~enc.okOld => enc.turns = 0 /\ shaft.wraps = 0

IInv == /\ EncoderTypeOK /\ CountsShaft /\ ToldIsRead /\ StartsAtZero
        /\ PositionFollows /\ LatchIsTrue

Shafts == [place: Int, wraps: Int, unseen: Steps, far: BOOLEAN, lost: BOOLEAN, internal: BOOLEAN]
Tellings == [dist: Int, latch: Int, moved: Int, wrap: Int, latched: Int, wraps: Int,
             steady: BOOLEAN, fresh: BOOLEAN]

LEMMA StepsAreInt == Steps \subseteq Int /\ 0 \in Steps
BY EncoderAssumption DEF Steps

LEMMA UntoldIsTold == Untold \in Tellings /\ ~Untold.fresh
BY DEF Untold, Tellings

LEMMA InitKeeps == EncoderInit => IInv
<1> SUFFICES ASSUME EncoderInit PROVE IInv
  OBVIOUS
<1>1. PICK offset \in Positions :
        enc = [reg |-> 0, turns |-> 0, offset |-> offset, local |-> 0, act |-> 0,
               status |-> FALSE, okOld |-> FALSE, error |-> FALSE]
  BY DEF EncoderInit
<1>2. offset \in Int /\ 0 \in 0 .. RawRange
  BY EncoderAssumption DEF RawRange
<1>3. enc \in Encoders /\ ~enc.okOld /\ enc.turns = 0
  BY <1>1, <1>2 DEF Encoders
<1>4. shaft \in Shafts /\ ~shaft.internal /\ shaft.wraps = 0
  BY StepsAreInt DEF EncoderInit, Shafts
<1>5. told \in Tellings /\ ~told.fresh /\ source \in Sources
  BY UntoldIsTold DEF EncoderInit, Sources
<1> QED
  BY <1>3, <1>4, <1>5 DEF IInv, EncoderTypeOK, CountsShaft, ToldIsRead, StartsAtZero,
     PositionFollows, LatchIsTrue, Encoders, Shafts, Tellings

\* Setting the position leaves a sum that is the position.
LEMMA SetFields ==
    ASSUME NEW e \in Encoders, NEW pos \in Int
    PROVE  LET r == SetActPosOf(e, pos)
           IN  /\ r \in Encoders /\ r.okOld = e.okOld /\ r.act = pos
               /\ RawPosition(r) = pos
<1> DEFINE o == pos - e.reg
           z == 0
           r == SetActPosOf(e, pos)
<1>1. e.reg \in Int /\ e.reg \in 0 .. RawRange
  BY RangeIsInt DEF Encoders
<1>2. o \in Int /\ z \in Int /\ MultiTurn(z, e.reg, o) = pos
  BY <1>1, RangeIsInt DEF MultiTurn
<1>3. r = [e EXCEPT !.turns = z, !.offset = o, !.local = pos, !.act = pos]
  BY DEF SetActPosOf
<1> HIDE DEF o, z, r
<1>4. r \in Encoders /\ r.okOld = e.okOld /\ r.act = pos /\ r.turns = z /\ r.offset = o
      /\ r.reg = e.reg
  BY <1>2, <1>3 DEF Encoders
<1>5. RawPosition(r) = pos
  BY <1>2, <1>4 DEF RawPosition
<1> QED
  BY <1>4, <1>5 DEF r

LEMMA FirstReadingKeeps == IInv /\ FirstReading => IInv'
<1> SUFFICES ASSUME IInv, FirstReading PROVE IInv'
  OBVIOUS
<1>1. enc \in Encoders /\ shaft \in Shafts /\ told \in Tellings /\ source \in Sources
      /\ enc.turns = 0 /\ shaft.wraps = 0 /\ ~enc.okOld /\ LatchIsTrue
  BY DEF IInv, EncoderTypeOK, Encoders, Shafts, Tellings, StartsAtZero, FirstReading
<1>2. PICK reg \in Registers, incremental \in BOOLEAN, external \in Positions :
        LET read == ReadHwActPos(enc, reg)
            start == [read EXCEPT
                !.act = IF source = "internal" THEN read.local ELSE external]
        IN /\ enc' = IF incremental THEN SetActPosOf(start, 0) ELSE start
           /\ shaft' = [shaft EXCEPT
                  !.place = IF incremental THEN 0 ELSE reg + enc.offset,
                  !.internal = incremental \/ source = "internal"]
  BY DEF FirstReading
<1> DEFINE read == ReadHwActPos(enc, reg)
           act == IF source = "internal" THEN read.local ELSE external
           start == [read EXCEPT !.act = act]
           p == reg + enc.offset
           place == IF incremental THEN 0 ELSE reg + enc.offset
           internal == incremental \/ source = "internal"
<1>3. reg \in 0 .. RawRange /\ external \in Int /\ reg \in Int /\ enc.offset \in Int
  BY <1>1, EncoderAssumption, RangeIsInt DEF Encoders
<1>4. RawPosition(Counted(enc, reg)) = p
  <2>1. HandleOverUnderFlow(reg, reg, 0) = 0
    BY <1>3 DEF HandleOverUnderFlow
  <2>2. RawPosition(Counted(enc, reg)) = MultiTurn(0, reg, enc.offset)
    BY <1>1, <1>3, <2>1, CountedFields DEF RawPosition
  <2> QED
    BY <1>3, <2>2, RangeIsInt DEF MultiTurn
<1>5. read \in Encoders /\ read.okOld /\ read.local = p + Lap(p)
      /\ RawPosition(read) = p + Lap(p)
  BY <1>1, <1>3, <1>4, ReadFields
<1>6. p \in Int /\ Lap(p) \in Int /\ place = IF incremental THEN 0 ELSE p
  BY <1>3, LapIsInt
<1> HIDE DEF read, p, place
<1>7. start \in Encoders /\ start.okOld /\ start.act = act
      /\ RawPosition(start) = p + Lap(p)
  <2>1. act \in Int
    BY <1>3, <1>5 DEF Encoders
  <2> HIDE DEF act
  <2>2. start \in Encoders /\ start.okOld /\ start.act = act /\ start.turns = read.turns
        /\ start.reg = read.reg /\ start.offset = read.offset
    BY <1>5, <2>1 DEF Encoders
  <2> QED
    BY <1>5, <2>2 DEF RawPosition
<1> HIDE DEF start
<1>8. enc' = (IF incremental THEN SetActPosOf(start, 0) ELSE start)
      /\ shaft' = [shaft EXCEPT !.place = place, !.internal = internal]
  BY <1>2, <1>6 DEF read, start, place, p
<1>9. SetActPosOf(start, 0) \in Encoders /\ SetActPosOf(start, 0).okOld
      /\ SetActPosOf(start, 0).act = 0 /\ RawPosition(SetActPosOf(start, 0)) = 0
  BY <1>7, SetFields
<1>10. enc' \in Encoders /\ enc'.okOld /\ SamePosition(RawPosition(enc'), place)
       /\ (internal => SamePosition(enc'.act, place))
  <2>1. SamePosition(p + Lap(p), p) /\ SamePosition(0, 0)
    BY <1>6, SameAsItself, SameIsKept
  <2> QED BY <1>5, <1>6, <1>7, <1>8, <1>9, <2>1
<1>11. shaft' \in Shafts /\ shaft'.place - shaft'.wraps = place
       /\ shaft'.internal = internal
  <2>1. place \in Int /\ internal \in BOOLEAN
    BY <1>6
  <2> HIDE DEF internal
  <2>2. shaft' \in Shafts /\ shaft'.place = place /\ shaft'.wraps = 0
        /\ shaft'.internal = internal
    BY <1>1, <1>8, <2>1 DEF Shafts
  <2> QED
    BY <2>1, <2>2
<1>12. source' = source /\ told' = told
  BY DEF FirstReading
<1> HIDE DEF internal
<1> QED
  BY <1>1, <1>10, <1>11, <1>12 DEF IInv, EncoderTypeOK, Encoders, Shafts, Tellings,
     CountsShaft, ToldIsRead, StartsAtZero, PositionFollows, LatchIsTrue, RawPosition

LEMMA ReadingKeeps ==
    ASSUME IInv, NEW d \in Steps, NEW e \in Steps, NEW status \in BOOLEAN,
           NEW alarm \in BOOLEAN, NEW external \in Positions,
           Reading(d, e, status, alarm, external)
    PROVE  IInv'
<1> DEFINE total == shaft.unseen + d
           far == shaft.far \/ total \notin Steps
           Reg(t) == IF far THEN 0 .. RawRange ELSE {Turned(enc.reg, t)}
           wrap == Wraps(enc.reg, total)
           new == status /\ ~enc.status
<1>1. enc \in Encoders /\ shaft \in Shafts /\ source \in Sources /\ enc.okOld
      /\ ~shaft.lost /\ SamePosition(RawPosition(enc), shaft.place - shaft.wraps)
  BY DEF IInv, EncoderTypeOK, Encoders, Shafts, CountsShaft, Reading
<1>2. total \in Int /\ shaft.place \in Int /\ shaft.wraps \in Int /\ e \in Int /\ wrap \in Int
  <2>1. shaft.unseen \in Int /\ shaft.place \in Int /\ shaft.wraps \in Int /\ d \in Int /\ e \in Int
    BY <1>1, StepsAreInt DEF Shafts
  <2>2. wrap \in {-1, 0, 1}
    BY DEF Wraps
  <2> QED
    BY <2>1, <2>2
<1>3. PICK reg \in Reg(total) :
        LET read == ReadHwActPos(enc, reg)
            lap == Lap(RawPosition(Counted(enc, reg)))
        IN /\ enc' = [read EXCEPT
                  !.status = status, !.error = alarm,
                  !.act = IF source = "internal" THEN read.local ELSE external]
           /\ shaft' = [shaft EXCEPT
                  !.place = IF far THEN 0 ELSE @ + total,
                  !.wraps = IF far THEN 0 ELSE @ + wrap,
                  !.unseen = 0, !.far = FALSE, !.lost = far,
                  !.internal = source = "internal"]
           /\ \E value \in IF new THEN Reg(e) ELSE {0} :
                told' = [dist |-> DistTraveled(read.local, enc.act),
                         moved |-> total, wrap |-> wrap,
                         steady |-> shaft.internal /\ ~far,
                         latch |-> IF new THEN ReadHwLatch(enc, read, value) ELSE 0,
                         latched |-> IF new THEN shaft.place + e ELSE 0,
                         wraps |-> IF new THEN shaft.wraps + Wraps(enc.reg, e) ELSE 0,
                         fresh |-> new /\ ~far /\ (lap = 0 \/ wrap = 0)]
  BY Zenon DEF Reading
<1> DEFINE read == ReadHwActPos(enc, reg)
           counted == RawPosition(Counted(enc, reg))
           lap == Lap(counted)
           newPlace == IF far THEN 0 ELSE shaft.place + total
           newWraps == IF far THEN 0 ELSE shaft.wraps + wrap
           act == IF source = "internal" THEN read.local ELSE external
           internal == source = "internal"
<1>4. PICK value \in IF new THEN Reg(e) ELSE {0} :
        told' = [dist |-> DistTraveled(read.local, enc.act),
                 moved |-> total, wrap |-> wrap,
                 steady |-> shaft.internal /\ ~far,
                 latch |-> IF new THEN ReadHwLatch(enc, read, value) ELSE 0,
                 latched |-> IF new THEN shaft.place + e ELSE 0,
                 wraps |-> IF new THEN shaft.wraps + Wraps(enc.reg, e) ELSE 0,
                 fresh |-> new /\ ~far /\ (lap = 0 \/ wrap = 0)]
  BY <1>3
<1>5. enc' = [read EXCEPT !.status = status, !.error = alarm, !.act = act]
      /\ shaft' = [shaft EXCEPT !.place = newPlace, !.wraps = newWraps, !.unseen = 0,
                                !.far = FALSE, !.lost = far, !.internal = internal]
  BY <1>3
<1>6. enc.reg \in 0 .. RawRange /\ enc.reg \in Int /\ enc.turns \in Int
      /\ enc.offset \in Int
  BY <1>1, RangeIsInt DEF Encoders
<1>7. far \in BOOLEAN /\ (~far => total \in Steps)
  BY <1>1 DEF Shafts
<1>8. \A t \in Steps : Reg(t) \subseteq 0 .. RawRange
  BY <1>6, WrapIsCounted
<1>9. reg \in 0 .. RawRange /\ reg \in Int /\ (~far => reg = Turned(enc.reg, total))
  BY <1>3, <1>7, <1>8, RangeIsInt
<1>10. ~far => counted = RawPosition(enc) + total - wrap
  BY <1>1, <1>7, <1>9, CountedFollows
<1>11. /\ read \in Encoders /\ read.okOld /\ read.reg = reg
       /\ read.local = counted + lap /\ RawPosition(read) = counted + lap
       /\ lap = 0 => read.offset = enc.offset
       /\ lap # 0 => read.offset = counted + lap - reg
  BY <1>1, <1>9, ReadFields
<1>12. counted \in Int /\ lap \in Int
  BY <1>1, <1>9, CountedFields, LapIsInt
<1>13. RawPosition(enc) \in Int
  BY <1>1, <1>6, MultiTurnIsInt DEF RawPosition
<1>14. newPlace \in Int /\ newWraps \in Int
       /\ (~far => SamePosition(counted + lap, newPlace - newWraps))
  <2>1. newPlace \in Int /\ newWraps \in Int
    BY <1>2
  <2>2. SUFFICES ASSUME ~far PROVE SamePosition(counted + lap, newPlace - newWraps)
    BY <2>1
  <2>3. newPlace - newWraps = (shaft.place - shaft.wraps) + (total - wrap)
        /\ counted = RawPosition(enc) + (total - wrap)
    BY <1>2, <1>10, <1>13, <2>2
  <2>4. SamePosition(counted, newPlace - newWraps)
    <3>1. shaft.place - shaft.wraps \in Int /\ total - wrap \in Int
      BY <1>2
    <3>2. SamePosition(RawPosition(enc) + (total - wrap),
                       (shaft.place - shaft.wraps) + (total - wrap))
      <4> HIDE DEF total, wrap
      <4> QED BY <1>1, <1>13, <3>1, SameIsKept
    <3> QED BY <2>3, <3>2
  <2> HIDE DEF newPlace, newWraps
  <2> QED BY <1>12, <2>1, <2>4, SameIsKept
<1>15. ~far /\ new => Wraps(enc.reg, e) \in Int
                      /\ value = Turned(enc.reg, e) /\ value \in 0 .. RawRange
  BY <1>4, <1>6, WrapIsCounted
\* The latched value
<1>16. ~far /\ new /\ (lap = 0 \/ wrap = 0) =>
         SamePosition(ReadHwLatch(enc, read, value),
                      (shaft.place + e) - (shaft.wraps + Wraps(enc.reg, e)))
  <2> SUFFICES ASSUME ~far, new, lap = 0 \/ wrap = 0
               PROVE  SamePosition(ReadHwLatch(enc, read, value),
                                   (shaft.place + e) - (shaft.wraps + Wraps(enc.reg, e)))
    OBVIOUS
  <2> DEFINE turnsOld == IF lap = 0 THEN enc.turns ELSE 0
             w == Wraps(enc.reg, e)
  <2>1. turnsOld \in Int /\ read.offset \in Int /\ w \in Int
    BY <1>6, <1>11, <1>15 DEF Encoders
  <2>2. ReadHwLatch(enc, read, value)
          = MultiTurn(HandleOverUnderFlow(enc.reg, value, turnsOld), value, read.offset)
    BY <1>11 DEF ReadHwLatch
  <2>3. MultiTurn(HandleOverUnderFlow(enc.reg, value, turnsOld), value, read.offset)
          = MultiTurn(turnsOld, enc.reg, read.offset) + e - w
    <3> HIDE DEF turnsOld, read
    <3>1. value = Turned(enc.reg, e)
      BY <1>15
    <3> QED
      BY <1>6, <2>1, <3>1, CountFollows
  <2>4. MultiTurn(turnsOld, enc.reg, read.offset) = RawPosition(enc) + lap
    <3>1. CASE lap = 0
      <4>1. MultiTurn(turnsOld, enc.reg, read.offset) = RawPosition(enc)
        BY <1>11, <3>1 DEF RawPosition
      <4> QED
        BY <1>13, <3>1, <4>1
    <3>2. CASE lap # 0 /\ wrap = 0
      <4> HIDE DEF read, counted, lap, wrap, total, far
      <4>1. reg = enc.reg + total
        <5>1. total \in Steps /\ Wraps(enc.reg, total) = 0
          BY <1>7, <3>2 DEF wrap
        <5> QED
          BY <1>6, <1>9, <5>1, WrapIsCounted
      <4>2. counted = RawPosition(enc) + total
        BY <1>2, <1>10, <1>13, <3>2
      <4>3. read.offset = RawPosition(enc) + total + lap - (enc.reg + total)
        BY <1>11, <3>2, <4>1, <4>2, <1>2, <1>12, <1>6, <1>13
      <4>4. turnsOld = 0
        BY <3>2
      <4> QED
        BY <1>2, <1>6, <1>12, <1>13, <4>3, <4>4, RangeIsInt DEF MultiTurn
    <3> QED
      BY <3>1, <3>2
  <2>5. ReadHwLatch(enc, read, value) = (RawPosition(enc) + (e - w)) + lap
        /\ (shaft.place + e) - (shaft.wraps + w) = (shaft.place - shaft.wraps) + (e - w)
    <3> HIDE DEF turnsOld, read, w, lap
    <3> QED BY <1>2, <1>12, <1>13, <2>1, <2>2, <2>3, <2>4
  <2>6. e - w \in Int /\ shaft.place - shaft.wraps \in Int
    BY <1>2, <2>1
  <2>7. SamePosition(RawPosition(enc) + (e - w), (shaft.place - shaft.wraps) + (e - w))
    BY <1>1, <1>13, <2>6, SameIsKept
  <2>8. SamePosition((RawPosition(enc) + (e - w)) + lap,
                     (shaft.place - shaft.wraps) + (e - w))
    <3> HIDE DEF w, counted
    <3> QED BY <1>12, <1>13, <2>6, <2>7, SameIsKept
  <2> QED
    BY <2>5, <2>8
\* The pieces of the invariant
<1>17. told'.fresh => SamePosition(told'.latch, told'.latched - told'.wraps)
  BY <1>4, <1>16
<1>18. ReadHwLatch(enc, read, value) \in Int \/ ~new
  <2> SUFFICES ASSUME new PROVE ReadHwLatch(enc, read, value) \in Int
    OBVIOUS
  <2>1. value \in 0 .. RawRange /\ read.offset \in Int
    BY <1>4, <1>8, <1>11 DEF Encoders
  <2>2. \A n \in Int : HandleOverUnderFlow(enc.reg, value, n) \in Int
    BY TurnsAreInt
  <2> DEFINE turnsOld == IF lap = 0 THEN enc.turns ELSE 0
             turns == HandleOverUnderFlow(enc.reg, value, turnsOld)
  <2>3. turnsOld \in Int
    BY <1>6
  <2>4. turns \in Int
    BY <2>2, <2>3
  <2>5. ReadHwLatch(enc, read, value) = MultiTurn(turns, value, read.offset)
    BY <1>11 DEF ReadHwLatch
  <2> HIDE DEF turns, read
  <2> QED
    BY <2>1, <2>4, <2>5, MultiTurnIsInt
<1>19. told' \in Tellings
  <2>1. DistTraveled(read.local, enc.act) \in Int
    BY <1>1, <1>11, EncoderAssumption DEF DistTraveled, Encoders
  <2>2. total \in Int /\ wrap \in Int
    BY <1>2
  <2>3. Wraps(enc.reg, e) \in Int /\ shaft.place + e \in Int
        /\ shaft.wraps + Wraps(enc.reg, e) \in Int
    BY <1>2, <2>2 DEF Wraps
  <2> DEFINE dist == DistTraveled(read.local, enc.act)
             latch == IF new THEN ReadHwLatch(enc, read, value) ELSE 0
             latched == IF new THEN shaft.place + e ELSE 0
             wraps == IF new THEN shaft.wraps + Wraps(enc.reg, e) ELSE 0
             steady == shaft.internal /\ ~far
             fresh == new /\ ~far /\ (lap = 0 \/ wrap = 0)
  <2>4. dist \in Int /\ total \in Int /\ wrap \in Int /\ latch \in Int /\ latched \in Int
        /\ wraps \in Int
    BY <1>18, <2>1, <2>2, <2>3
  <2>5. steady \in BOOLEAN /\ fresh \in BOOLEAN
    BY <1>1 DEF Shafts
  <2>6. told' = [dist |-> dist, moved |-> total, wrap |-> wrap, steady |-> steady,
                 latch |-> latch, latched |-> latched, wraps |-> wraps, fresh |-> fresh]
    BY <1>4
  <2> HIDE DEF dist, total, wrap, latch, latched, wraps, steady, fresh
  <2> QED
    BY <2>4, <2>5, <2>6 DEF Tellings
<1>20. enc' \in Encoders /\ enc'.okOld /\ enc'.act = act
       /\ RawPosition(enc') = RawPosition(read)
  <2>1. act \in Int
    BY <1>11, EncoderAssumption DEF Encoders
  <2> HIDE DEF act, read
  <2>2. enc' \in Encoders /\ enc'.okOld /\ enc'.act = act /\ enc'.turns = read.turns
        /\ enc'.reg = read.reg /\ enc'.offset = read.offset
    BY <1>5, <1>11, <2>1 DEF Encoders
  <2> QED
    BY <2>2 DEF RawPosition
<1>21. shaft' \in Shafts /\ shaft'.place = newPlace /\ shaft'.wraps = newWraps
       /\ shaft'.lost = far
       /\ shaft'.internal = internal
  <2>1. internal \in BOOLEAN
    OBVIOUS
  <2> HIDE DEF internal, newPlace, newWraps, far
  <2> QED
    BY <1>1, <1>5, <1>7, <1>14, <2>1, StepsAreInt DEF Shafts
<1>22. internal => act = counted + lap
  BY <1>11
<1>23. source' = source
  BY DEF Reading
<1> HIDE DEF internal, act, newPlace, newWraps, far, read, counted, lap
<1>24. CountsShaft' /\ PositionFollows'
  BY <1>11, <1>14, <1>20, <1>21, <1>22 DEF CountsShaft, PositionFollows, RawPosition
<1> QED
  BY <1>1, <1>17, <1>19, <1>20, <1>21, <1>23, <1>24 DEF IInv, EncoderTypeOK, Encoders,
     Shafts, Tellings, ToldIsRead, StartsAtZero, LatchIsTrue

LEMMA AwayKeeps ==
    ASSUME IInv, NEW d \in Steps, NEW external \in Positions, Away(d, external)
    PROVE  IInv'
<1> DEFINE total == shaft.unseen + d
           far == shaft.far \/ total \notin Steps
           unseen == IF far THEN 0 ELSE total
           act == IF source = "external" THEN external ELSE enc.act
           internal == shaft.internal /\ source = "internal"
<1>1. enc \in Encoders /\ shaft \in Shafts /\ source \in Sources /\ enc.okOld
      /\ CountsShaft /\ PositionFollows
  BY DEF IInv, EncoderTypeOK, Encoders, Shafts, Away
<1>2. act \in Int /\ unseen \in Steps /\ far \in BOOLEAN /\ internal \in BOOLEAN
  BY <1>1, StepsAreInt, EncoderAssumption DEF Encoders, Shafts
<1>3. enc' = [enc EXCEPT !.act = act]
  BY DEF Away
<1>4. shaft' = [shaft EXCEPT !.unseen = unseen, !.far = far, !.internal = internal]
  BY DEF Away
<1>5. internal => act = enc.act /\ shaft.internal
  BY DEF Sources
<1>6. source' = source /\ told' = Untold
  BY DEF Away
<1> HIDE DEF act, unseen, far, internal
<1>7. enc' \in Encoders /\ enc'.okOld /\ enc'.act = act /\ enc'.turns = enc.turns
      /\ enc'.reg = enc.reg /\ enc'.offset = enc.offset
  BY <1>1, <1>2, <1>3 DEF Encoders
<1>8. shaft' \in Shafts /\ shaft'.place = shaft.place /\ shaft'.wraps = shaft.wraps
      /\ shaft'.lost = shaft.lost /\ shaft'.internal = internal
  BY <1>1, <1>2, <1>4 DEF Shafts
<1>9. CountsShaft' /\ PositionFollows'
  BY <1>1, <1>5, <1>7, <1>8 DEF CountsShaft, PositionFollows, RawPosition
<1>10. told' \in Tellings /\ ~told'.fresh
  BY <1>6, UntoldIsTold
<1> QED
  BY <1>1, <1>6, <1>7, <1>8, <1>9, <1>10 DEF IInv, EncoderTypeOK, Encoders, Shafts,
     Tellings, ToldIsRead, StartsAtZero, LatchIsTrue

LEMMA SetActPosKeeps ==
    ASSUME IInv, NEW pos \in Positions, SetActPos(pos)
    PROVE  IInv'
<1>1. enc \in Encoders /\ shaft \in Shafts /\ source \in Sources /\ enc.okOld
  BY DEF IInv, EncoderTypeOK, Encoders, Shafts, SetActPos
<1>2. pos \in Int
  BY EncoderAssumption
<1>3. enc' \in Encoders /\ enc'.okOld /\ enc'.act = pos /\ RawPosition(enc)' = pos
  <2>1. enc' = SetActPosOf(enc, pos)
    BY DEF SetActPos
  <2> QED
    BY <1>1, <1>2, <2>1, SetFields DEF RawPosition
<1>4. shaft' \in Shafts /\ shaft'.place - shaft'.wraps = pos
      /\ SamePosition(pos, pos)
  <2>1. shaft' = [shaft EXCEPT !.place = pos, !.wraps = 0, !.lost = FALSE, !.internal = TRUE]
    BY DEF SetActPos
  <2>2. shaft' \in Shafts
    <3> DEFINE o == 0
    <3>1. shaft' = [shaft EXCEPT !.place = pos, !.wraps = o, !.lost = FALSE,
                                 !.internal = TRUE] /\ o \in Int
      BY <2>1
    <3> HIDE DEF o
    <3> QED BY <1>1, <1>2, <3>1, Zenon DEF Shafts
  <2>3. shaft'.place = pos /\ shaft'.wraps = 0
    BY <1>1, <2>1 DEF Shafts
  <2> QED
    BY <1>2, <2>2, <2>3, SameAsItself
<1>5. source' = source /\ told' \in Tellings /\ ~told'.fresh
  BY UntoldIsTold DEF SetActPos
<1> QED
  BY <1>1, <1>3, <1>4, <1>5 DEF IInv, EncoderTypeOK, Encoders, Shafts, Tellings,
     CountsShaft, ToldIsRead, StartsAtZero, PositionFollows, LatchIsTrue

LEMMA StepKeeps == IInv /\ [EncoderNext]_encoderVars => IInv'
<1> SUFFICES ASSUME IInv, [EncoderNext]_encoderVars PROVE IInv'
  OBVIOUS
<1> USE DEF IInv, EncoderTypeOK, CountsShaft, ToldIsRead, StartsAtZero,
            PositionFollows, LatchIsTrue, RawPosition
<1>1. CASE FirstReading
  BY <1>1, FirstReadingKeeps
<1>2. ASSUME NEW d \in Steps, NEW e \in Steps, NEW status \in BOOLEAN,
             NEW alarm \in BOOLEAN, NEW external \in Positions,
             Reading(d, e, status, alarm, external)
      PROVE  IInv'
  BY <1>2, ReadingKeeps
<1>3. ASSUME NEW d \in Steps, NEW external \in Positions, Away(d, external)
      PROVE  IInv'
  BY <1>3, AwayKeeps
<1>4. ASSUME NEW pos \in Positions, SetActPos(pos) PROVE IInv'
  BY <1>4, SetActPosKeeps
<1>5. ASSUME NEW s \in Sources, SetEncDataSourceType(s) PROVE IInv'
  BY <1>5, UntoldIsTold DEF SetEncDataSourceType, Tellings
<1>6. CASE ErrorReset
  <2>1. enc \in Encoders
    BY DEF Encoders
  <2>2. enc' = [enc EXCEPT !.error = FALSE] /\ source' = source /\ shaft' = shaft
        /\ told' = Untold
    BY <1>6 DEF ErrorReset
  <2>3. enc' \in Encoders /\ enc'.okOld = enc.okOld /\ enc'.act = enc.act
        /\ enc'.turns = enc.turns /\ enc'.reg = enc.reg /\ enc'.offset = enc.offset
    BY <2>1, <2>2 DEF Encoders
  <2> QED
    BY <2>2, <2>3, UntoldIsTold DEF Encoders, Tellings
<1>7. CASE UNCHANGED encoderVars
  BY <1>7 DEF encoderVars
<1> QED
  BY <1>1, <1>2, <1>3, <1>4, <1>5, <1>6, <1>7 DEF EncoderNext

(***************************************************************************)
(* The theorems                                                            *)
(***************************************************************************)
\* The invariant of the proofs holds in every state.
LEMMA Holds == EncoderSpec => []IInv
BY InitKeeps, StepKeeps, PTL DEF EncoderSpec

\* Every variable keeps its type; the register stays within its bits.
THEOREM EncoderTypeCorrect == EncoderSpec => []EncoderTypeOK
<1>1. IInv => EncoderTypeOK
  BY DEF IInv
<1> QED
  BY <1>1, Holds, PTL

\* The position is that of the shaft less one count for every wrap of the register, and
\* but for whole laps, after every reading, for every size of the register and every
\* modulo range, whatever wraps, laps, losses and alarms came before.
THEOREM PositionCorrect == EncoderSpec => []PositionFollows
<1>1. IInv => PositionFollows
  BY DEF IInv
<1> QED
  BY <1>1, Holds, PTL

\* A latched position is the one of the latch, less the wraps until then, for every size
\* of the register and every modulo range.
THEOREM LatchCorrect == EncoderSpec => []LatchIsTrue
<1>1. IInv => LatchIsTrue
  BY DEF IInv
<1> QED
  BY <1>1, Holds, PTL

(***************************************************************************)
(* Objects of the slaves                                                   *)
(***************************************************************************)
\* A verified value is the last thing that was written: every command that changes the
\* object replaces the result, and a result that is a success compared what was read.
LEMMA ReadIsStored ==
    ASSUME NEW v, NEW stored, NEW answer, Sdo!Uploaded(stored, answer) = v
    PROVE  stored = v \/ (answer # "done" /\ v = 0)
BY DEF Sdo!Uploaded

LEMMA OtherCommand ==
    ASSUME NEW name, NEW ok, NEW value, name # "verify",
           s3' = Sdo!Command(name, ok, value)
    PROVE  Sdo!VerifiedIsStored'
<1>1. s3'.name = name
  BY DEF Sdo!Command
<1> QED
  BY <1>1 DEF Sdo!VerifiedIsStored

LEMMA VerifyCommand ==
    ASSUME NEW v, NEW ok, NEW answer, ok => s1' = v \/ (answer # "done" /\ v = 0),
           s3' = [Sdo!Command("verify", ok, v) EXCEPT !.read = answer = "done"]
    PROVE  Sdo!VerifiedIsStored'
<1>1. s3'.ok = ok /\ s3'.value = v /\ s3'.read = (answer = "done")
  BY Zenon DEF Sdo!Command
<1> QED
  BY <1>1 DEF Sdo!VerifiedIsStored

LEMMA VerifiedKeeps ==
    ASSUME Sdo!VerifiedIsStored, Sdo!SdoNext PROVE Sdo!VerifiedIsStored'
<1>1. ASSUME NEW v \in Sdo!Values, NEW size \in Sdo!Sizes, NEW accepted \in BOOLEAN,
             Sdo!AddSdo(v, size, accepted)
      PROVE  Sdo!VerifiedIsStored'
  BY <1>1, OtherCommand DEF Sdo!AddSdo
<1>2. ASSUME NEW text \in SdoTexts, NEW size \in Sdo!Sizes, NEW accepted \in BOOLEAN,
             Sdo!AddBuffer(text, size, accepted)
      PROVE  Sdo!VerifiedIsStored'
  BY <1>2, OtherCommand DEF Sdo!AddBuffer
<1>3. ASSUME NEW v \in Sdo!Values, NEW size \in Sdo!Sizes, NEW answer \in Sdo!Answers,
             Sdo!Download(v, size, answer)
      PROVE  Sdo!VerifiedIsStored'
  BY <1>3, OtherCommand DEF Sdo!Download
<1>4. ASSUME NEW answer \in Sdo!Answers, Sdo!Upload(answer) PROVE Sdo!VerifiedIsStored'
  <2>1. s3'.name = "read"
    BY <1>4 DEF Sdo!Upload, Sdo!Command
  <2> QED
    BY <2>1 DEF Sdo!VerifiedIsStored
<1>5. ASSUME NEW v \in Sdo!Values, NEW answer \in Sdo!Answers, Sdo!Verify(v, answer)
      PROVE  Sdo!VerifiedIsStored'
  <2>1. s1' = s1
    BY <1>5 DEF Sdo!Verify
  <2>2. s3' = [Sdo!Command("verify", Sdo!Uploaded(s1, answer) = v, v)
                 EXCEPT !.read = answer = "done"]
    BY <1>5 DEF Sdo!Verify
  <2> QED
    BY <2>1, <2>2, ReadIsStored, VerifyCommand
<1>6. ASSUME NEW v \in Sdo!Values, NEW size \in Sdo!Sizes, NEW answer \in Sdo!Answers,
             NEW readBack \in Sdo!Answers, Sdo!WriteAndVerify(v, size, answer, readBack)
      PROVE  Sdo!VerifiedIsStored'
  <2> DEFINE stored == IF answer = "done" THEN Sdo!Write(s1, v, size) ELSE s1
             fits == size <= Sdo!MaxSize
             ok == fits /\ answer # "failed" /\ Sdo!Uploaded(stored, readBack) = v
  <2>1. s1' = IF fits THEN stored ELSE s1
    BY <1>6 DEF Sdo!WriteAndVerify
  <2>2. s3' = [Sdo!Command("verify", ok, v) EXCEPT !.read = readBack = "done"]
    BY <1>6 DEF Sdo!WriteAndVerify
  <2>3. ok => s1' = v \/ (readBack # "done" /\ v = 0)
    <3> HIDE DEF fits, stored
    <3> QED
      BY <2>1, ReadIsStored
  <2> HIDE DEF ok
  <2> QED
    BY <2>2, <2>3, VerifyCommand
<1>7. ASSUME Sdo!SlaveStarts PROVE Sdo!VerifiedIsStored'
  BY <1>7, OtherCommand DEF Sdo!SlaveStarts
<1> QED
  BY <1>1, <1>2, <1>3, <1>4, <1>5, <1>6, <1>7 DEF Sdo!SdoNext

(***************************************************************************)
(* Commands                                                                *)
(***************************************************************************)
\* A command that only asks, that waits while communication is blocked, or that is known
\* to pass then.
Excused(c) == c.asks \/ c.blockable \/ c.name \in MotionCmds!KnownThrough

LEMMA QueriesAsk ==
    ASSUME NEW names, NEW needs, NEW c \in MotionCmds!Query(names, needs) PROVE Excused(c)
BY DEF MotionCmds!Query, MotionCmds!Command, Excused

LEMMA BlockableWait ==
    ASSUME NEW names, NEW needs, NEW c \in MotionCmds!Blockable(names, needs)
    PROVE  Excused(c)
BY DEF MotionCmds!Blockable, MotionCmds!Command, Excused

LEMMA OpenPass ==
    ASSUME NEW names, NEW needs, NEW c \in MotionCmds!Open(names, needs),
           names \subseteq MotionCmds!KnownThrough
    PROVE  Excused(c)
BY DEF MotionCmds!Open, MotionCmds!Command, Excused

LEMMA PlainExcused ==
    ASSUME NEW c \in MotionCmds!PlainCommands PROVE Excused(c)
<1>1. ASSUME c \in MotionCmds!MoveCommands PROVE Excused(c)
  BY <1>1, QueriesAsk, BlockableWait, OpenPass
     DEF MotionCmds!MoveCommands, MotionCmds!KnownThrough
<1>2. ASSUME c \in MotionCmds!StopAndErrors PROVE Excused(c)
  BY <1>2, QueriesAsk, BlockableWait, OpenPass
     DEF MotionCmds!StopAndErrors, MotionCmds!KnownThrough
<1>3. ASSUME c \in MotionCmds!SequenceSettings PROVE Excused(c)
  BY <1>3, QueriesAsk, BlockableWait, OpenPass
     DEF MotionCmds!SequenceSettings, MotionCmds!KnownThrough
<1>4. ASSUME c \in MotionCmds!SequenceQueries PROVE Excused(c)
  BY <1>4, QueriesAsk, BlockableWait, OpenPass
     DEF MotionCmds!SequenceQueries, MotionCmds!KnownThrough
<1>5. ASSUME c \in MotionCmds!EnableAndAlarms PROVE Excused(c)
  BY <1>5, QueriesAsk, BlockableWait, OpenPass
     DEF MotionCmds!EnableAndAlarms, MotionCmds!KnownThrough
<1>6. ASSUME c \in MotionCmds!SourceQueries PROVE Excused(c)
  BY <1>6, QueriesAsk, BlockableWait, OpenPass
     DEF MotionCmds!SourceQueries, MotionCmds!KnownThrough
<1>7. ASSUME c \in MotionCmds!SoftLimitSettings PROVE Excused(c)
  BY <1>7, QueriesAsk, BlockableWait, OpenPass
     DEF MotionCmds!SoftLimitSettings, MotionCmds!KnownThrough
<1>8. ASSUME c \in MotionCmds!SoftLimitQueries PROVE Excused(c)
  BY <1>8, QueriesAsk, BlockableWait, OpenPass
     DEF MotionCmds!SoftLimitQueries, MotionCmds!KnownThrough
<1>9. ASSUME c \in MotionCmds!RampSettings PROVE Excused(c)
  BY <1>9, QueriesAsk, BlockableWait, OpenPass
     DEF MotionCmds!RampSettings, MotionCmds!KnownThrough
<1>10. ASSUME c \in MotionCmds!TargetSettings PROVE Excused(c)
  BY <1>10, QueriesAsk, BlockableWait, OpenPass
     DEF MotionCmds!TargetSettings, MotionCmds!KnownThrough
<1>11. ASSUME c \in MotionCmds!EncoderAndPlcSettings PROVE Excused(c)
  BY <1>11, QueriesAsk, BlockableWait, OpenPass
     DEF MotionCmds!EncoderAndPlcSettings, MotionCmds!KnownThrough
<1>12. ASSUME c \in MotionCmds!FilterSettings PROVE Excused(c)
  BY <1>12, QueriesAsk, BlockableWait, OpenPass
     DEF MotionCmds!FilterSettings, MotionCmds!KnownThrough
<1>13. ASSUME c \in MotionCmds!SourceSettings PROVE Excused(c)
  BY <1>13, QueriesAsk, BlockableWait, OpenPass
     DEF MotionCmds!SourceSettings, MotionCmds!KnownThrough
<1>14. ASSUME c \in MotionCmds!TrajectoryQueries PROVE Excused(c)
  BY <1>14, QueriesAsk, BlockableWait, OpenPass
     DEF MotionCmds!TrajectoryQueries, MotionCmds!KnownThrough
<1>15. ASSUME c \in MotionCmds!SwitchQueries PROVE Excused(c)
  BY <1>15, QueriesAsk, BlockableWait, OpenPass
     DEF MotionCmds!SwitchQueries, MotionCmds!KnownThrough
<1>16. ASSUME c \in MotionCmds!HomeAndScaleQueries PROVE Excused(c)
  BY <1>16, QueriesAsk, BlockableWait, OpenPass
     DEF MotionCmds!HomeAndScaleQueries, MotionCmds!KnownThrough
<1>17. ASSUME c \in MotionCmds!ControllerSettings PROVE Excused(c)
  BY <1>17, QueriesAsk, BlockableWait, OpenPass
     DEF MotionCmds!ControllerSettings, MotionCmds!KnownThrough
<1>18. ASSUME c \in MotionCmds!ControllerQueries PROVE Excused(c)
  BY <1>18, QueriesAsk, BlockableWait, OpenPass
     DEF MotionCmds!ControllerQueries, MotionCmds!KnownThrough
<1>19. ASSUME c \in MotionCmds!EncoderSettings PROVE Excused(c)
  BY <1>19, QueriesAsk, BlockableWait, OpenPass
     DEF MotionCmds!EncoderSettings, MotionCmds!KnownThrough
<1>20. ASSUME c \in MotionCmds!DriveSettings PROVE Excused(c)
  BY <1>20, QueriesAsk, BlockableWait, OpenPass
     DEF MotionCmds!DriveSettings, MotionCmds!KnownThrough
<1>21. ASSUME c \in MotionCmds!TargetMonitoring PROVE Excused(c)
  BY <1>21, QueriesAsk, BlockableWait, OpenPass
     DEF MotionCmds!TargetMonitoring, MotionCmds!KnownThrough
<1>22. ASSUME c \in MotionCmds!SwitchPolarities PROVE Excused(c)
  BY <1>22, QueriesAsk, BlockableWait, OpenPass
     DEF MotionCmds!SwitchPolarities, MotionCmds!KnownThrough
<1>23. ASSUME c \in MotionCmds!LagMonitoring PROVE Excused(c)
  BY <1>23, QueriesAsk, BlockableWait, OpenPass
     DEF MotionCmds!LagMonitoring, MotionCmds!KnownThrough
<1>24. ASSUME c \in MotionCmds!VelocityMonitoring PROVE Excused(c)
  BY <1>24, QueriesAsk, BlockableWait, OpenPass
     DEF MotionCmds!VelocityMonitoring, MotionCmds!KnownThrough
<1>25. ASSUME c \in MotionCmds!InterlockMonitoring PROVE Excused(c)
  BY <1>25, QueriesAsk, BlockableWait, OpenPass
     DEF MotionCmds!InterlockMonitoring, MotionCmds!KnownThrough
<1>26. ASSUME c \in MotionCmds!DiagnosticAndModulo PROVE Excused(c)
  BY <1>26, QueriesAsk, BlockableWait, OpenPass
     DEF MotionCmds!DiagnosticAndModulo, MotionCmds!KnownThrough
<1> QED
  BY <1>1, <1>2, <1>3, <1>4, <1>5, <1>6, <1>7, <1>8, <1>9, <1>10, <1>11, <1>12,
     <1>13, <1>14, <1>15, <1>16, <1>17, <1>18, <1>19, <1>20, <1>21, <1>22,
     <1>23, <1>24, <1>25, <1>26
     DEF MotionCmds!PlainCommands

CommandedAxes ==
    [type: {"none", "virtual", "real"}, blocked: BOOLEAN, enable: BOOLEAN,
     execute: BOOLEAN, error: BOOLEAN, busy: BOOLEAN, scale: Nat, encoders: Nat,
     cfg: Nat, primary: Nat, home: Nat, brake: BOOLEAN]

\* An axis that is blocked has been created, and the encoders that are selected exist.
MotionInv ==
    /\ s1 \in CommandedAxes
    /\ s1.type = "none" => ~s1.blocked
    /\ s1.cfg < s1.encoders /\ s1.primary < s1.encoders /\ s1.home < s1.encoders
    /\ s2 \in MotionCmds!KnownThrough \cup {"none"}

\* What a command may do with the axis if it was let through a blockade or there was none.
MayChange(a, b) ==
    /\ a.blocked /\ b.blocked => b.scale = a.scale /\ b.primary = a.primary
                               /\ b.execute = a.execute /\ b.brake = a.brake
    /\ a.enable /\ b.scale # a.scale => ~b.enable
    /\ a.busy => b.primary = a.primary

LEMMA RulesOfChange ==
    ASSUME MotionInv, MotionInv', MayChange(s1, s1')
    PROVE  MotionCmds!KeepsRules
<1>1. s1'.cfg \in 0 .. (s1'.encoders - 1) /\ s1'.primary \in 0 .. (s1'.encoders - 1)
      /\ s1'.home \in 0 .. (s1'.encoders - 1)
  <2> DEFINE c == s1'.cfg
             p == s1'.primary
             h == s1'.home
             n == s1'.encoders
  <2>1. c \in Nat /\ p \in Nat /\ h \in Nat /\ n \in Nat
    BY DEF MotionInv, CommandedAxes
  <2>2. c < n /\ p < n /\ h < n
    BY DEF MotionInv
  <2> HIDE DEF c, p, h, n
  <2>3. c \in 0 .. (n - 1) /\ p \in 0 .. (n - 1) /\ h \in 0 .. (n - 1)
    BY <2>1, <2>2
  <2> QED
    BY <2>3 DEF c, p, h, n
<1>2. s2' \in MotionCmds!KnownThrough \cup {"none"}
  BY DEF MotionInv
<1> QED
  BY <1>1, <1>2 DEF MayChange, MotionCmds!KeepsRules

\* A refusal, and a command that is none of the axis' business.
LEMMA AxisIsLeft ==
    ASSUME MotionInv, s1' = s1, s2' \in MotionCmds!KnownThrough \cup {"none"}
    PROVE  MotionInv' /\ MayChange(s1, s1')
BY DEF MotionInv, MayChange

LEMMA RefusalLeaves ==
    ASSUME MotionInv, NEW name, MotionCmds!Refuse(name)
    PROVE  MotionInv' /\ MayChange(s1, s1')
BY AxisIsLeft DEF MotionCmds!Refuse

\* A command that waits while communication is blocked finds an axis that is not.
LEMMA BlockableIsFree ==
    ASSUME MotionInv, NEW needs, MotionCmds!Lets(TRUE, needs)
    PROVE  s1.blocked = FALSE
BY DEF MotionInv, CommandedAxes, MotionCmds!Lets

LEMMA FreeIsNotNoted ==
    ASSUME NEW name, NEW b, s1.blocked = FALSE, MotionCmds!Apply(name, b)
    PROVE  s1' = b /\ s2' = "none"
BY DEF MotionCmds!Apply, MotionCmds!Note

\* What such a command makes of the axis.
LEMMA FreeCommand ==
    ASSUME MotionInv, NEW needs, MotionCmds!Lets(TRUE, needs), NEW name, NEW b,
           MotionCmds!Apply(name, b), b \in CommandedAxes, b.type = s1.type,
           b.blocked = s1.blocked, b.cfg < b.encoders, b.primary < b.encoders,
           b.home < b.encoders, s1.enable /\ b.scale # s1.scale => ~b.enable,
           s1.busy => b.primary = s1.primary
    PROVE  MotionInv' /\ MayChange(s1, s1')
<1>1. s1.blocked = FALSE
  BY BlockableIsFree
<1>2. s1' = b /\ s2' = "none"
  BY <1>1, FreeIsNotNoted
<1> QED
  BY <1>1, <1>2 DEF MotionInv, MayChange

LEMMA CreateAxisKeeps ==
    ASSUME MotionInv, NEW type, NEW made, MotionCmds!CreateAxis(type, made)
    PROVE  MotionInv' /\ MayChange(s1, s1')
<1>1. CASE s1.type = "none" /\ type \in {"real", "virtual"} /\ made
  <2> DEFINE b == [s1 EXCEPT !.type = type]
  <2>1. MotionCmds!Apply("createAxis", b)
    BY <1>1 DEF MotionCmds!CreateAxis
  <2>2. s1.blocked = FALSE
    BY <1>1 DEF MotionInv, CommandedAxes
  <2>3. /\ b \in CommandedAxes /\ b.blocked = s1.blocked /\ b.encoders = s1.encoders
        /\ b.cfg = s1.cfg /\ b.primary = s1.primary /\ b.home = s1.home
        /\ b.scale = s1.scale
    BY <1>1 DEF MotionInv, CommandedAxes
  <2> HIDE DEF b
  <2>4. s1' = b /\ s2' = "none"
    BY <2>1, <2>2, FreeIsNotNoted
  <2> QED
    BY <2>2, <2>3, <2>4 DEF MotionInv, MayChange
<1>2. CASE ~(s1.type = "none" /\ type \in {"real", "virtual"} /\ made)
  BY <1>2, RefusalLeaves DEF MotionCmds!CreateAxis
<1> QED
  BY <1>1, <1>2

LEMMA PlainKeeps ==
    ASSUME MotionInv, NEW c \in MotionCmds!PlainCommands, MotionCmds!Plain(c)
    PROVE  MotionInv' /\ MayChange(s1, s1')
<1>1. CASE MotionCmds!Lets(c.blockable, c.needs) /\ ~c.asks
  <2>1. s1' = s1 /\ s2' = IF s1.blocked THEN c.name ELSE "none"
    BY <1>1 DEF MotionCmds!Plain, MotionCmds!Apply, MotionCmds!Note
  <2>2. s1.blocked => c.name \in MotionCmds!KnownThrough
    BY <1>1, PlainExcused DEF MotionCmds!Lets, Excused
  <2> QED
    BY <2>1, <2>2, AxisIsLeft
<1>2. CASE ~(MotionCmds!Lets(c.blockable, c.needs) /\ ~c.asks)
  BY <1>2, RefusalLeaves DEF MotionCmds!Plain
<1> QED
  BY <1>1, <1>2

LEMMA SetBlockComKeeps ==
    ASSUME MotionInv, NEW on \in BOOLEAN, MotionCmds!SetBlockCom(on)
    PROVE  MotionInv' /\ MayChange(s1, s1')
<1>1. CASE MotionCmds!Lets(FALSE, {})
  <2> DEFINE b == [s1 EXCEPT !.blocked = on]
  <2>1. s1' = b /\ s2' = IF s1.blocked THEN "setAxisBlockCom" ELSE "none"
    BY <1>1 DEF MotionCmds!SetBlockCom, MotionCmds!Apply, MotionCmds!Note
  <2>2. s1.type # "none"
    BY <1>1 DEF MotionCmds!Lets
  <2>3. /\ b \in CommandedAxes /\ b.type = s1.type /\ b.encoders = s1.encoders
        /\ b.cfg = s1.cfg /\ b.primary = s1.primary /\ b.home = s1.home
        /\ b.scale = s1.scale /\ b.execute = s1.execute /\ b.brake = s1.brake
    BY DEF MotionInv, CommandedAxes
  <2> HIDE DEF b
  <2>4. s2' \in MotionCmds!KnownThrough \cup {"none"}
    BY <2>1 DEF MotionCmds!KnownThrough
  <2> QED
    BY <2>1, <2>2, <2>3, <2>4 DEF MotionInv, MayChange
<1>2. CASE ~MotionCmds!Lets(FALSE, {})
  BY <1>2, RefusalLeaves DEF MotionCmds!SetBlockCom
<1> QED
  BY <1>1, <1>2

LEMMA SetExecuteKeeps ==
    ASSUME MotionInv, NEW on \in BOOLEAN, MotionCmds!SetExecute(on)
    PROVE  MotionInv' /\ MayChange(s1, s1')
<1>1. CASE MotionCmds!Lets(TRUE, {}) /\ ~(on /\ s1.error)
  <2> DEFINE b == [s1 EXCEPT !.execute = on]
  <2>1. MotionCmds!Apply("setAxisExecute", b)
    BY <1>1 DEF MotionCmds!SetExecute
  <2>2. /\ b \in CommandedAxes /\ b.type = s1.type /\ b.blocked = s1.blocked
        /\ b.encoders = s1.encoders /\ b.cfg = s1.cfg /\ b.primary = s1.primary
        /\ b.home = s1.home /\ b.scale = s1.scale
    BY DEF MotionInv, CommandedAxes
  <2> HIDE DEF b
  <2> QED
    BY <1>1, <2>1, <2>2, FreeCommand DEF MotionInv
<1>2. CASE ~(MotionCmds!Lets(TRUE, {}) /\ ~(on /\ s1.error))
  BY <1>2, RefusalLeaves DEF MotionCmds!SetExecute
<1> QED
  BY <1>1, <1>2

LEMMA SetEnableKeeps ==
    ASSUME MotionInv, NEW on \in BOOLEAN, MotionCmds!SetEnable(on)
    PROVE  MotionInv' /\ MayChange(s1, s1')
<1>1. CASE MotionCmds!Lets(TRUE, {})
  <2> DEFINE b == [s1 EXCEPT !.enable = on, !.execute = @ /\ on]
  <2>1. MotionCmds!Apply("setAxisEnable", b)
    BY <1>1 DEF MotionCmds!SetEnable
  <2>2. /\ b \in CommandedAxes /\ b.type = s1.type /\ b.blocked = s1.blocked
        /\ b.encoders = s1.encoders /\ b.cfg = s1.cfg /\ b.primary = s1.primary
        /\ b.home = s1.home /\ b.scale = s1.scale
    BY DEF MotionInv, CommandedAxes
  <2> HIDE DEF b
  <2> QED
    BY <1>1, <2>1, <2>2, FreeCommand DEF MotionInv
<1>2. CASE ~MotionCmds!Lets(TRUE, {})
  BY <1>2, RefusalLeaves DEF MotionCmds!SetEnable
<1> QED
  BY <1>1, <1>2

LEMMA SetEncScaleKeeps ==
    ASSUME MotionInv, NEW name, NEW value \in 1 .. 2, MotionCmds!SetEncScale(name, value)
    PROVE  MotionInv' /\ MayChange(s1, s1')
<1>1. CASE MotionCmds!Lets(TRUE, {}) /\ (value = s1.scale \/ ~s1.enable)
  <2> DEFINE b == [s1 EXCEPT !.scale = value]
  <2>1. MotionCmds!Apply(name, b)
    BY <1>1 DEF MotionCmds!SetEncScale
  <2>2. value \in Nat
    OBVIOUS
  <2>3. /\ b \in CommandedAxes /\ b.type = s1.type /\ b.blocked = s1.blocked
        /\ b.encoders = s1.encoders /\ b.cfg = s1.cfg /\ b.primary = s1.primary
        /\ b.home = s1.home /\ b.scale = value /\ b.enable = s1.enable
    BY <2>2 DEF MotionInv, CommandedAxes
  <2> HIDE DEF b
  <2> QED
    BY <1>1, <2>1, <2>3, FreeCommand DEF MotionInv
<1>2. CASE ~(MotionCmds!Lets(TRUE, {}) /\ (value = s1.scale \/ ~s1.enable))
  BY <1>2, RefusalLeaves DEF MotionCmds!SetEncScale
<1> QED
  BY <1>1, <1>2

LEMMA AddEncoderKeeps ==
    ASSUME MotionInv, MotionCmds!AddEncoder
    PROVE  MotionInv' /\ MayChange(s1, s1')
<1>1. CASE MotionCmds!Lets(TRUE, {}) /\ s1.encoders < MaxEncoders
  <2> DEFINE n == s1.encoders
             b == [s1 EXCEPT !.encoders = n + 1, !.cfg = n]
  <2>1. MotionCmds!Apply("addAxisEnc", b)
    BY <1>1 DEF MotionCmds!AddEncoder
  <2>2. n \in Nat /\ s1.primary \in Nat /\ s1.home \in Nat
    BY DEF MotionInv, CommandedAxes
  <2>3. n + 1 \in Nat
    BY <2>2
  <2>4. /\ b \in CommandedAxes /\ b.type = s1.type /\ b.blocked = s1.blocked
        /\ b.encoders = n + 1 /\ b.cfg = n /\ b.primary = s1.primary
        /\ b.home = s1.home /\ b.scale = s1.scale
    BY <2>2, <2>3 DEF MotionInv, CommandedAxes
  <2>5. s1.primary < n /\ s1.home < n
    BY DEF MotionInv
  <2> HIDE DEF b, n
  <2>6. b.cfg < b.encoders /\ b.primary < b.encoders /\ b.home < b.encoders
    BY <2>2, <2>4, <2>5
  <2> QED
    BY <1>1, <2>1, <2>4, <2>6, FreeCommand
<1>2. CASE ~(MotionCmds!Lets(TRUE, {}) /\ s1.encoders < MaxEncoders)
  BY <1>2, RefusalLeaves DEF MotionCmds!AddEncoder
<1> QED
  BY <1>1, <1>2

LEMMA SelectEncoderKeeps ==
    ASSUME MotionInv, NEW role \in {"cfg", "primary", "home"},
           NEW index \in (0 - 1) .. MaxEncoders, MotionCmds!SelectEncoder(role, index)
    PROVE  MotionInv' /\ MayChange(s1, s1')
<1> DEFINE allowed == index < 0 \/ (index < s1.encoders
                                     /\ (role = "primary" => ~s1.busy))
<1>1. CASE MotionCmds!Lets(TRUE, {}) /\ allowed
  <2> DEFINE b == IF index < 0 THEN s1 ELSE [s1 EXCEPT ![role] = index]
  <2>1. MotionCmds!Apply("selectAxisEnc", b)
    BY <1>1 DEF MotionCmds!SelectEncoder
  <2>2. CASE index < 0
    <3>1. b = s1
      BY <2>2
    <3> HIDE DEF b
    <3> QED
      BY <1>1, <2>1, <3>1, FreeCommand DEF MotionInv
  <2>3. CASE ~(index < 0)
    <3>1. index \in Nat /\ index < s1.encoders /\ (role = "primary" => ~s1.busy)
      BY <1>1, <2>3
    <3>2. b = [s1 EXCEPT ![role] = index]
      BY <2>3
    <3> HIDE DEF b
    <3>3. /\ b \in CommandedAxes /\ b.type = s1.type /\ b.blocked = s1.blocked
          /\ b.encoders = s1.encoders /\ b.scale = s1.scale
          /\ b.cfg = (IF role = "cfg" THEN index ELSE s1.cfg)
          /\ b.primary = (IF role = "primary" THEN index ELSE s1.primary)
          /\ b.home = (IF role = "home" THEN index ELSE s1.home)
      <4>1. CASE role = "cfg"
        BY <3>1, <3>2, <4>1 DEF MotionInv, CommandedAxes
      <4>2. CASE role = "primary"
        BY <3>1, <3>2, <4>2 DEF MotionInv, CommandedAxes
      <4>3. CASE role = "home"
        BY <3>1, <3>2, <4>3 DEF MotionInv, CommandedAxes
      <4> QED
        BY <4>1, <4>2, <4>3
    <3>4. b.cfg < b.encoders /\ b.primary < b.encoders /\ b.home < b.encoders
      BY <3>1, <3>3 DEF MotionInv
    <3>5. s1.busy => b.primary = s1.primary
      BY <3>1, <3>3
    <3> QED
      BY <1>1, <2>1, <3>3, <3>4, <3>5, FreeCommand
  <2> QED
    BY <2>2, <2>3
<1>2. CASE ~(MotionCmds!Lets(TRUE, {}) /\ allowed)
  BY <1>2, RefusalLeaves DEF MotionCmds!SelectEncoder
<1> QED
  BY <1>1, <1>2

\* The links: a virtual axis and a name that finds nothing refuse them.
LEMMA LinkKeeps ==
    ASSUME MotionInv, NEW entry,
           MotionCmds!LinkEncoder(entry) \/ MotionCmds!LinkMonitor(entry)
                                         \/ MotionCmds!LinkStatus(entry)
    PROVE  MotionInv' /\ MayChange(s1, s1')
<1>1. ASSUME NEW name, NEW needs, MotionCmds!Lets(TRUE, needs), MotionCmds!Apply(name, s1)
      PROVE  MotionInv' /\ MayChange(s1, s1')
  BY <1>1, FreeCommand DEF MotionInv
<1>2. CASE MotionCmds!LinkEncoder(entry)
  BY <1>1, <1>2, RefusalLeaves DEF MotionCmds!LinkEncoder
<1>3. CASE MotionCmds!LinkMonitor(entry)
  BY <1>1, <1>3, RefusalLeaves DEF MotionCmds!LinkMonitor
<1>4. CASE MotionCmds!LinkStatus(entry)
  BY <1>1, <1>4, RefusalLeaves DEF MotionCmds!LinkStatus
<1> QED
  BY <1>2, <1>3, <1>4

LEMMA LinkDriveKeeps ==
    ASSUME MotionInv, NEW entry, NEW brake \in BOOLEAN, MotionCmds!LinkDrive(entry, brake)
    PROVE  MotionInv' /\ MayChange(s1, s1')
<1> DEFINE allowed == entry = "found" \/ (entry = "empty" /\ brake)
<1>1. CASE MotionCmds!Lets(TRUE, {"drv"}) /\ allowed
  <2> DEFINE b == [s1 EXCEPT !.brake = IF brake THEN entry = "found" ELSE @]
  <2>1. MotionCmds!Apply("linkEcEntryToAxisDrv", b)
    BY <1>1 DEF MotionCmds!LinkDrive
  <2>2. /\ b \in CommandedAxes /\ b.type = s1.type /\ b.blocked = s1.blocked
        /\ b.encoders = s1.encoders /\ b.cfg = s1.cfg /\ b.primary = s1.primary
        /\ b.home = s1.home /\ b.scale = s1.scale
    BY DEF MotionInv, CommandedAxes
  <2> HIDE DEF b
  <2> QED
    BY <1>1, <2>1, <2>2, FreeCommand DEF MotionInv
<1>2. CASE ~(MotionCmds!Lets(TRUE, {"drv"}) /\ allowed)
  BY <1>2, RefusalLeaves DEF MotionCmds!LinkDrive
<1> QED
  BY <1>1, <1>2

LEMMA AxisGoesOnKeeps ==
    ASSUME MotionInv, MotionCmds!AxisGoesOn
    PROVE  MotionInv' /\ MayChange(s1, s1')
<1>1. PICK busy \in BOOLEAN, error \in BOOLEAN, enable \in BOOLEAN :
             s1' = [s1 EXCEPT !.busy = busy, !.error = error, !.enable = enable]
  BY DEF MotionCmds!AxisGoesOn
<1>2. s2' = s2
  BY DEF MotionCmds!AxisGoesOn
<1>3. /\ s1' \in CommandedAxes /\ s1'.type = s1.type /\ s1'.blocked = s1.blocked
      /\ s1'.encoders = s1.encoders /\ s1'.cfg = s1.cfg /\ s1'.primary = s1.primary
      /\ s1'.home = s1.home /\ s1'.scale = s1.scale /\ s1'.execute = s1.execute
      /\ s1'.brake = s1.brake
  BY <1>1 DEF MotionInv, CommandedAxes
<1> QED
  BY <1>2, <1>3 DEF MotionInv, MayChange

LEMMA MotionStep ==
    ASSUME MotionInv, MotionCmds!MotionNext
    PROVE  MotionInv' /\ MayChange(s1, s1')
<1>1. ASSUME NEW on \in BOOLEAN,
             \/ MotionCmds!SetBlockCom(on)
             \/ MotionCmds!SetExecute(on)
             \/ MotionCmds!SetEnable(on)
      PROVE  MotionInv' /\ MayChange(s1, s1')
  BY <1>1, SetBlockComKeeps, SetExecuteKeeps, SetEnableKeeps
<1> QED
  BY <1>1, CreateAxisKeeps, PlainKeeps, SetEncScaleKeeps, AddEncoderKeeps,
     SelectEncoderKeeps, LinkKeeps, LinkDriveKeeps, AxisGoesOnKeeps
     DEF MotionCmds!MotionNext

(***************************************************************************)
(* The variable of a PLC                                                   *)
(***************************************************************************)
PlcNumbers == Int \ {99}

\* Read as no number, until the expression has set it.
Unread == {"ds.append", "ds.clear"}

LEMMA NaNIsApart == PlcVars!NaN = 99 /\ PlcVars!One = 2
BY DEF PlcVars!NaN, PlcVars!One

LEMMA StoredIsNumber ==
    ASSUME NEW n, NEW v \in PlcNumbers
    PROVE  PlcVars!Stored(n, v) \in PlcNumbers
<1>1. PlcVars!Truth(v >= PlcVars!One) \in PlcNumbers /\ PlcVars!Truth(v # 0) \in PlcNumbers
  BY NaNIsApart DEF PlcVars!Truth, PlcNumbers
<1>2. PlcVars!Whole(v) \in PlcNumbers
  BY NaNIsApart DEF PlcVars!Whole, PlcNumbers
<1> QED
  BY <1>1, <1>2 DEF PlcVars!Stored

LEMMA TakenIsNumber ==
    ASSUME NEW n \in Unread, NEW v, PlcVars!Takes(n, v)
    PROVE  v # 99
BY NaNIsApart DEF PlcVars!Takes, PlcVars!Status, Unread

LEMMA SeenIsNumber ==
    ASSUME NEW n \in PlcVars!Names \ Unread, s3.value \in PlcNumbers, s4 \in PlcNumbers
    PROVE  PlcVars!Seen(n) \in PlcNumbers
BY NaNIsApart DEF PlcVars!Seen, PlcVars!Truth, PlcNumbers, Unread

LEMMA SeenIsInt ==
    ASSUME NEW n, s3.value \in PlcNumbers, s4 \in PlcNumbers
    PROVE  PlcVars!Seen(n) \in Int
BY NaNIsApart DEF PlcVars!Seen, PlcVars!Truth, PlcNumbers

Datum(d) == d.value \in PlcNumbers /\ d = [value |-> d.value, allow |-> d.allow]

\* The two copies of the variable in a scan: what was read is what the expression was
\* shown, what is to be written is what it has assigned, if it has.
InScan(x, at, scan) ==
    /\ at # 0 => x.read = scan.shown
    /\ at = -1 => x.data = scan.shown
    /\ at > 0 => x.data = IF scan.set THEN scan.value ELSE scan.shown

\* The datum and its copy are numbers, and so is what was read and set unless reading
\* finds none.
DataInv ==
    /\ s1 \in PlcVars!Names
    /\ s2 \in {<<s1, PlcVars!Permission>>, <<PlcVars!Permission, s1>>}
    /\ Datum(s3)
    /\ s4 \in PlcNumbers
    /\ s1 \in DOMAIN s5
    /\ s5[s1] \in [data: Int, read: Int]
    /\ s1 \notin Unread => s5[s1].data # 99
    /\ s6 \in {-1, 0, 1, 2}
    /\ InScan(s5[s1], s6, s7)

LEMMA DataInitKeeps ==
    ASSUME PlcVars!DataInit PROVE DataInv
<1>1. s3 \in [value: {0}, allow: BOOLEAN] /\ 0 \in PlcNumbers
  BY DEF PlcVars!DataInit, PlcNumbers
<1>2. Datum(s3) /\ s3.value = 0
  BY <1>1 DEF Datum
<1>3. s2 \in {<<s1, PlcVars!Permission>>, <<PlcVars!Permission, s1>>}
      /\ s5 = [n \in PlcVars!ToSet(s2) |-> [data |-> 0, read |-> 0]] /\ s4 = s3.value
      /\ s1 \in PlcVars!Names /\ s6 = 0
  BY DEF PlcVars!DataInit
<1>4. s1 \in PlcVars!ToSet(s2)
  <2>1. CASE s2 = <<s1, PlcVars!Permission>>
    <3>1. s2[1] = s1 /\ 1 \in DOMAIN s2
      BY <2>1
    <3> QED
      BY <3>1 DEF PlcVars!ToSet
  <2>2. CASE s2 = <<PlcVars!Permission, s1>>
    <3>1. s2[2] = s1 /\ 2 \in DOMAIN s2
      BY <2>2
    <3> QED
      BY <3>1 DEF PlcVars!ToSet
  <2> QED
    BY <1>3, <2>1, <2>2
<1>5. s1 \in DOMAIN s5 /\ s5[s1] = [data |-> 0, read |-> 0]
  BY <1>3, <1>4
<1> QED
  BY <1>1, <1>2, <1>3, <1>5 DEF DataInv, Datum, InScan

LEMMA ReadKeeps ==
    ASSUME DataInv, PlcVars!Read PROVE DataInv'
<1>1. s3.value \in PlcNumbers /\ s4 \in PlcNumbers /\ s1 \in DOMAIN s5
  BY DEF DataInv, Datum
<1> PICK failed \in SUBSET ({s1} \cap PlcVars!MayFail) :
          /\ s5' = [n \in DOMAIN s5 |-> [data |-> PlcVars!Shown(n, failed),
                                        read |-> PlcVars!Shown(n, failed)]]
          /\ s7' = [shown |-> PlcVars!Shown(s1, failed), set |-> FALSE, value |-> 0]
  BY DEF PlcVars!Read
<1> DEFINE shown == PlcVars!Shown(s1, failed)
<1>2. s1 \in DOMAIN s5' /\ s5'[s1] = [data |-> shown, read |-> shown] /\ s7'.shown = shown
  BY <1>1
<1>3. PlcVars!Seen(s1) \in Int /\ (s1 \notin Unread => PlcVars!Seen(s1) \in PlcNumbers)
  BY <1>1, SeenIsNumber, SeenIsInt DEF DataInv
<1>4. shown \in Int /\ (s1 \notin Unread => shown # 99)
  BY <1>3 DEF PlcVars!Shown, DataInv, PlcNumbers
<1>5. s1' = s1 /\ s2' = s2 /\ s3' = s3 /\ s4' = s4 /\ s6' = -1
  BY DEF PlcVars!Read
<1> HIDE DEF shown
<1> QED
  BY <1>2, <1>4, <1>5 DEF DataInv, Datum, InScan

LEMMA RefreshKeeps ==
    ASSUME DataInv, PlcVars!Refresh PROVE DataInv'
<1> PICK set \in SUBSET DOMAIN s5 : \E v \in [set -> PlcValues] :
          /\ s5' = [n \in DOMAIN s5 |-> IF n \in set THEN [s5[n] EXCEPT !.data = v[n]]
                                                   ELSE s5[n]]
          /\ s7' = [shown |-> s7.shown, set |-> s1 \in set,
                    value |-> IF s1 \in set THEN v[s1] ELSE 0]
  BY DEF PlcVars!Refresh
<1> PICK v \in [set -> PlcValues] :
          /\ s5' = [n \in DOMAIN s5 |-> IF n \in set THEN [s5[n] EXCEPT !.data = v[n]]
                                                   ELSE s5[n]]
          /\ s7' = [shown |-> s7.shown, set |-> s1 \in set,
                    value |-> IF s1 \in set THEN v[s1] ELSE 0]
  OBVIOUS
<1>1. s5' = [n \in DOMAIN s5 |-> IF n \in set THEN [s5[n] EXCEPT !.data = v[n]]
                                              ELSE s5[n]]
  OBVIOUS
<1>2. s1' = s1 /\ s2' = s2 /\ s3' = s3 /\ s4' = s4 /\ s6 = -1 /\ s6' = 1
  BY DEF PlcVars!Refresh
<1>3. s1 \in DOMAIN s5'
  BY <1>1 DEF DataInv, Datum
<1>4. CASE s1 \in set
  <2>1. v[s1] \in Int /\ v[s1] # 99
    BY <1>4, PlcAssumption, NaNIsApart
  <2>2. s5'[s1] = [s5[s1] EXCEPT !.data = v[s1]]
    BY <1>1, <1>4 DEF DataInv, Datum
  <2>3. s7'.shown = s7.shown /\ s7'.set /\ s7'.value = v[s1]
    BY <1>4
  <2>4. InScan(s5'[s1], s6', s7')
    BY <1>2, <2>1, <2>2, <2>3 DEF DataInv, InScan
  <2> QED
    BY <1>2, <1>3, <2>1, <2>2, <2>4 DEF DataInv, Datum
<1>5. CASE s1 \notin set
  <2>1. s5'[s1] = s5[s1]
    BY <1>1, <1>5 DEF DataInv, Datum
  <2>2. s7'.shown = s7.shown /\ ~s7'.set
    BY <1>5
  <2>3. InScan(s5'[s1], s6', s7')
    BY <1>2, <2>1, <2>2 DEF DataInv, InScan
  <2> QED
    BY <1>2, <1>3, <2>1, <2>3 DEF DataInv, Datum
<1> QED
  BY <1>4, <1>5

\* What is written is a number: where none was read, nothing takes it.
LEMMA WriteKeeps ==
    ASSUME DataInv, PlcVars!Write PROVE DataInv'
<1> DEFINE n == s2[s6]
           v == s5[n].data
<1>1. s1' = s1 /\ s2' = s2 /\ s4' = s4 /\ s5' = s5 /\ s7' = s7
  BY DEF PlcVars!Write
<1>5. s6 \in {1, 2} /\ s6' \in {0, 2}
  <2>1. Len(s2) = 2 /\ DOMAIN s2 = 1..2
    BY DEF DataInv
  <2>2. s6 \in DOMAIN s2 /\ s6' = IF s6 = Len(s2) THEN 0 ELSE s6 + 1
    BY DEF PlcVars!Write, PlcVars!Following
  <2> HIDE DEF n, v
  <2> QED
    BY <2>1, <2>2
<1>6. s6' \in {-1, 0, 1, 2} /\ InScan(s5'[s1'], s6', s7')
  BY <1>1, <1>5 DEF DataInv, InScan
<1>2. CASE s3' = s3
  BY <1>1, <1>2, <1>6 DEF DataInv, Datum
<1>3. CASE n = PlcVars!Permission /\ s3' = [s3 EXCEPT !.allow = v >= PlcVars!One]
  <2>1. Datum(s3')
    BY <1>3 DEF DataInv, Datum
  <2> QED
    BY <1>1, <1>6, <2>1 DEF DataInv, Datum
<1>4. CASE /\ n # PlcVars!Permission /\ PlcVars!Takes(n, v)
           /\ s3' = [s3 EXCEPT !.value = PlcVars!Stored(n, v)]
  <2>1. n = s1
    BY <1>4 DEF DataInv, PlcVars!Write
  <2>2. v \in PlcNumbers
    BY <1>4, <2>1, TakenIsNumber DEF DataInv, Datum, PlcNumbers
  <2> DEFINE stored == PlcVars!Stored(n, v)
  <2>3. stored \in PlcNumbers
    BY <2>2, StoredIsNumber
  <2>4. s3' = [s3 EXCEPT !.value = stored]
    BY <1>4
  <2> HIDE DEF stored
  <2>5. Datum(s3')
    BY <2>3, <2>4 DEF DataInv, Datum
  <2> QED
    BY <1>1, <1>6, <2>5 DEF DataInv, Datum
<1> QED
  BY <1>2, <1>3, <1>4 DEF PlcVars!Write, PlcVars!WriteTo

LEMMA AxisCycleKeeps ==
    ASSUME DataInv, PlcVars!AxisCycle PROVE DataInv'
<1>1. 0 \in PlcNumbers /\ PlcValues \subseteq PlcNumbers /\ s3.value \in PlcNumbers
  BY PlcAssumption, NaNIsApart DEF PlcNumbers, DataInv, Datum
<1>2. s4' \in PlcNumbers
  BY <1>1 DEF PlcVars!AxisCycle
<1>3. s1' = s1 /\ s2' = s2 /\ s3' = s3 /\ s5' = s5 /\ s6' = s6 /\ s7' = s7
  BY DEF PlcVars!AxisCycle
<1> QED
  BY <1>2, <1>3 DEF DataInv, Datum

LEMMA ClientWritesKeeps ==
    ASSUME DataInv, PlcVars!ClientWrites PROVE DataInv'
<1>1. s1' = s1 /\ s2' = s2 /\ s4' = s4 /\ s5' = s5 /\ s6' = s6 /\ s7' = s7
  BY DEF PlcVars!ClientWrites
<1>2. ASSUME NEW v \in PlcValues, s3' = [s3 EXCEPT !.value = PlcVars!Stored(s1, v)]
      PROVE  DataInv'
  <2> DEFINE stored == PlcVars!Stored(s1, v)
  <2>1. v \in PlcNumbers
    BY PlcAssumption, NaNIsApart DEF PlcNumbers
  <2>2. stored \in PlcNumbers
    BY <2>1, StoredIsNumber
  <2>3. s3' = [s3 EXCEPT !.value = stored]
    BY <1>2
  <2> HIDE DEF stored
  <2>4. Datum(s3')
    BY <2>2, <2>3 DEF DataInv, Datum
  <2> QED
    BY <1>1, <2>4 DEF DataInv, Datum
<1>3. ASSUME NEW on \in BOOLEAN, s3' = [s3 EXCEPT !.allow = on]
      PROVE  DataInv'
  <2>1. Datum(s3')
    BY <1>3 DEF DataInv, Datum
  <2> QED
    BY <1>1, <2>1 DEF DataInv, Datum
<1> QED
  BY <1>2, <1>3 DEF PlcVars!ClientWrites

LEMMA DataStep ==
    ASSUME DataInv, PlcVars!DataNext PROVE DataInv'
BY ReadKeeps, RefreshKeeps, WriteKeeps, AxisCycleKeeps, ClientWritesKeeps
   DEF PlcVars!DataNext

\* What write() finds of the variable is what the scan has made of it.
LEMMA FoundIsAsked ==
    ASSUME DataInv, s6 > 0,
           s5[s1].data # s5[s1].read,
           s1 \in PlcVars!Bool =>
               PlcVars!Positive(s5[s1].data) # PlcVars!Positive(s5[s1].read)
    PROVE  PlcVars!Asked /\ s5[s1].data = s7.value
<1>1. s5[s1].read = s7.shown /\ s5[s1].data = IF s7.set THEN s7.value ELSE s7.shown
  BY DEF DataInv, InScan
<1>2. s7.set /\ s5[s1].data = s7.value
  BY <1>1
<1> QED
  BY <1>1, <1>2, Zenon DEF PlcVars!Asked

LEMMA AskedIsFound ==
    ASSUME DataInv, s6 > 0, PlcVars!Asked
    PROVE  /\ s5[s1].data = s7.value
           /\ ~PlcVars!Unchanged(s1, s5[s1])
<1>1. s5[s1].read = s7.shown /\ s5[s1].data = s7.value /\ s7.value # s7.shown
  BY DEF DataInv, InScan, PlcVars!Asked
<1>2. s1 \in PlcVars!Bool => PlcVars!Positive(s7.value) # PlcVars!Positive(s7.shown)
  BY Zenon DEF PlcVars!Asked
<1> QED
  BY <1>1, <1>2, Zenon DEF PlcVars!Unchanged

\* A write() that changes the datum has found the variable changed and permitted.
LEMMA WriteHasReason ==
    ASSUME DataInv, PlcVars!Write, s3'.value # s3.value
    PROVE  /\ PlcVars!Asked
           /\ s3'.value = PlcVars!Stored(s1, s7.value)
           /\ s1 \in PlcVars!OfAxis => s3.allow
<1> DEFINE n == s2[s6]
           x == s5[n]
<1>1. s3' # s3
  OBVIOUS
<1>2. ~PlcVars!Unchanged(n, x) /\ PlcVars!Permitted(n) /\ PlcVars!Takes(n, x.data)
      /\ PlcVars!WriteTo(n, x.data)
  BY <1>1 DEF PlcVars!Write
<1>3. n # PlcVars!Permission
  <2> SUFFICES ASSUME n = PlcVars!Permission PROVE FALSE
    OBVIOUS
  <2>1. s3' = [s3 EXCEPT !.allow = x.data >= PlcVars!One]
    BY <1>2 DEF PlcVars!WriteTo
  <2> QED
    BY <2>1 DEF DataInv, Datum
<1>4. n = s1 /\ s6 > 0
  BY <1>3 DEF DataInv, PlcVars!Write
<1>5. x.data # 99
  BY <1>2, <1>4, TakenIsNumber DEF DataInv, Datum
<1>6. s3' = [s3 EXCEPT !.value = PlcVars!Stored(n, x.data)]
  BY <1>1, <1>2, <1>3 DEF PlcVars!WriteTo
<1>7. s3'.value = PlcVars!Stored(n, x.data)
  <2> DEFINE stored == PlcVars!Stored(n, x.data)
  <2>1. s3' = [s3 EXCEPT !.value = stored]
    BY <1>6
  <2> HIDE DEF stored
  <2>2. s3'.value = stored
    BY <2>1 DEF DataInv, Datum
  <2> QED
    BY <2>2 DEF stored
<1> HIDE DEF n
<1>8. x.data # x.read
  BY <1>2, <1>5, NaNIsApart DEF PlcVars!Unchanged
<1>9. n \in PlcVars!Bool => PlcVars!Positive(x.data) # PlcVars!Positive(x.read)
  BY <1>2, Zenon DEF PlcVars!Unchanged
<1>10. n \in PlcVars!OfAxis => s3.allow
  BY <1>2 DEF PlcVars!Permitted
<1>11. PlcVars!Asked /\ s5[s1].data = s7.value
  BY <1>4, <1>8, <1>9, FoundIsAsked, Zenon
<1> QED
  BY <1>4, <1>7, <1>10, <1>11, Zenon

\* A write() that finds what was asked for does it.
LEMMA WriteDoes ==
    ASSUME DataInv, PlcVars!Write, s2[s6] = s1, PlcVars!Asked, PlcVars!Permitted(s1),
           PlcVars!Takes(s1, s7.value)
    PROVE  s3'.value = PlcVars!Stored(s1, s7.value) \/ s1 \in PlcVars!MayRefuse
<1>1. s6 > 0
  BY DEF DataInv, PlcVars!Write
<1>2. s5[s1].data = s7.value /\ ~PlcVars!Unchanged(s1, s5[s1])
  BY <1>1, AskedIsFound
<1>3. PlcVars!WriteTo(s1, s7.value)
  BY <1>2 DEF PlcVars!Write
<1>4. s1 # PlcVars!Permission
  BY DEF DataInv, PlcVars!Names, PlcVars!OfAxis, PlcVars!OfStorage, PlcVars!Status,
         PlcVars!Copied, PlcVars!Other, PlcVars!Blocking, PlcVars!Direct, PlcVars!Gains,
         PlcVars!Permission
<1> DEFINE stored == PlcVars!Stored(s1, s7.value)
<1>5. s3' = [s3 EXCEPT !.value = stored] \/ s1 \in PlcVars!MayRefuse
  BY <1>3, <1>4 DEF PlcVars!WriteTo
<1> HIDE DEF stored
<1>6. s3'.value = stored \/ s1 \in PlcVars!MayRefuse
  BY <1>5 DEF DataInv, Datum
<1> QED
  BY <1>6 DEF stored

LEMMA DataChanges ==
    ASSUME DataInv, PlcVars!DataNext
    PROVE  PlcVars!ChangesWhatItSet
<1> SUFFICES ASSUME s6 > 0, s6' # s6
             PROVE  /\ s3'.value # s3.value =>
                          /\ PlcVars!Asked /\ s3'.value = PlcVars!Stored(s1, s7.value)
                          /\ s1 \in PlcVars!OfAxis => s3.allow
                    /\ s2[s6] = s1 /\ PlcVars!Asked /\ PlcVars!Permitted(s1)
                       /\ PlcVars!Takes(s1, s7.value) =>
                          s3'.value = PlcVars!Stored(s1, s7.value) \/ s1 \in PlcVars!MayRefuse
  BY Zenon DEF PlcVars!ChangesWhatItSet
<1>1. ~PlcVars!Read /\ ~PlcVars!Refresh /\ ~PlcVars!AxisCycle
  BY DEF PlcVars!Read, PlcVars!Refresh, PlcVars!AxisCycle
<1>2. ~PlcVars!ClientWrites
  BY DEF PlcVars!ClientWrites
<1>3. PlcVars!Write
  BY <1>1, <1>2 DEF PlcVars!DataNext
<1> QED
  BY <1>3, WriteHasReason, WriteDoes, Zenon

(***************************************************************************)
(* The parts together                                                      *)
(***************************************************************************)
LEMMA PartStays == ASSUME [Next]_vars PROVE part' = part
BY DEF Next, OtherNext, vars, slots

LEMMA SdoPart ==
    ASSUME [Next]_vars, part = "sdo" PROVE Sdo!SdoNext \/ UNCHANGED <<s1, s2, s3>>
BY DEF Next, OtherNext, vars, slots

LEMMA CommandsPart ==
    ASSUME [Next]_vars, part = "commands"
    PROVE  MotionCmds!MotionNext \/ UNCHANGED <<s1, s2>>
BY DEF Next, OtherNext, vars, slots

LEMMA DataPart ==
    ASSUME [Next]_vars, part = "plc data"
    PROVE  PlcVars!DataNext \/ UNCHANGED <<s1, s2, s3, s4, s5, s6, s7>>
BY DEF Next, OtherNext, vars, slots

\* A value that was verified is in the slave, whatever texts the commands bring, whatever
\* the slave answers to each of them and however often it starts; a 0 that was verified
\* because the upload failed is the exception that the property names.
THEOREM VerifiedValuesAreStored == Spec => []VerifiedIsStored
<1>1. Init => VerifiedIsStored
  <2> SUFFICES ASSUME Init, part = "sdo" PROVE Sdo!VerifiedIsStored
    BY DEF VerifiedIsStored
  <2>1. s3 = Sdo!Command("none", FALSE, 0)
    BY DEF Init, Sdo!SdoInit
  <2> QED
    BY <2>1 DEF Sdo!Command, Sdo!VerifiedIsStored
<1>2. VerifiedIsStored /\ [Next]_vars => VerifiedIsStored'
  <2> SUFFICES ASSUME VerifiedIsStored, [Next]_vars, part' = "sdo"
               PROVE  Sdo!VerifiedIsStored'
    BY DEF VerifiedIsStored
  <2>1. part = "sdo" /\ Sdo!VerifiedIsStored
    BY PartStays DEF VerifiedIsStored
  <2>2. CASE Sdo!SdoNext
    BY <2>1, <2>2, VerifiedKeeps
  <2>3. CASE UNCHANGED <<s1, s2, s3>>
    BY <2>1, <2>3 DEF Sdo!VerifiedIsStored
  <2> QED
    BY <2>1, <2>2, <2>3, SdoPart
<1> QED
  BY <1>1, <1>2, PTL DEF Spec

\* The axis of the commands in every state.
LEMMA CommandsHold == Spec => [](part = "commands" => MotionInv)
<1> DEFINE Inv == part = "commands" => MotionInv
<1>1. Init => Inv
  <2> SUFFICES ASSUME Init, part = "commands" PROVE MotionInv
    OBVIOUS
  <2>1. MotionCmds!MotionInit
    BY DEF Init
  <2> QED
    BY <2>1 DEF MotionCmds!MotionInit, MotionInv, CommandedAxes
<1>2. Inv /\ [Next]_vars => Inv'
  <2> SUFFICES ASSUME Inv, [Next]_vars, part' = "commands" PROVE MotionInv'
    OBVIOUS
  <2>1. part = "commands" /\ MotionInv
    BY PartStays
  <2>2. CASE MotionCmds!MotionNext
    BY <2>1, <2>2, MotionStep
  <2>3. CASE UNCHANGED <<s1, s2>>
    BY <2>1, <2>3 DEF MotionInv
  <2> QED
    BY <2>1, <2>2, <2>3, CommandsPart
<1> QED
  BY <1>1, <1>2, PTL DEF Spec

\* Whatever the order of commands and of what the axis does, for any number of encoders: a
\* blocked axis is changed by the known exceptions only, no scale changes while the axis
\* is enabled, the encoder that controls it not while it is busy, and the encoders that
\* are selected exist.
THEOREM CommandsAreRuled == Spec => CommandsKeepRules
<1>1. ASSUME part = "commands" => MotionInv, [Next]_vars
      PROVE  [part = "commands" => MotionCmds!KeepsRules]_vars
  <2> SUFFICES ASSUME part = "commands", ~UNCHANGED vars PROVE MotionCmds!KeepsRules
    BY Zenon
  <2>1. CASE MotionCmds!MotionNext
    BY <1>1, <2>1, MotionStep, RulesOfChange
  <2>2. CASE UNCHANGED <<s1, s2>>
    <3>1. MotionInv' /\ MayChange(s1, s1')
      BY <1>1, <2>2, AxisIsLeft DEF MotionInv
    <3> QED
      BY <1>1, <3>1, RulesOfChange
  <2> QED
    BY <1>1, <2>1, <2>2, CommandsPart
<1> QED
  BY <1>1, CommandsHold, PTL DEF Spec, CommandsKeepRules

\* The variable of the PLC in every state.
LEMMA DataHold == Spec => [](part = "plc data" => DataInv)
<1> DEFINE Inv == part = "plc data" => DataInv
<1>1. Init => Inv
  BY DataInitKeeps DEF Init
<1>2. Inv /\ [Next]_vars => Inv'
  <2> SUFFICES ASSUME Inv, [Next]_vars, part' = "plc data" PROVE DataInv'
    OBVIOUS
  <2>1. part = "plc data" /\ DataInv
    BY PartStays
  <2>2. CASE PlcVars!DataNext
    BY <2>1, <2>2, DataStep
  <2>3. CASE UNCHANGED <<s1, s2, s3, s4, s5, s6, s7>>
    BY <2>1, <2>3 DEF DataInv
  <2> QED
    BY <2>1, <2>2, <2>3, DataPart
<1> QED
  BY <1>1, <1>2, PTL DEF Spec

\* A PLC changes a datum only if its expression has asked for it in the same scan, only to
\* what was assigned and, for an axis, only while the axis takes commands from PLCs; and
\* what was asked for is done unless it is refused: for any numbers, whichever of the two
\* variables is written first, whatever clients do during the scan and however often a
\* read fails.
THEOREM PlcChangesOnlyWhatItSet == Spec => ChangesOnlyWhatItSet
<1>1. ASSUME part = "plc data" => DataInv, [Next]_vars
      PROVE  [part = "plc data" => PlcVars!ChangesWhatItSet]_vars
  <2> SUFFICES ASSUME part = "plc data", ~UNCHANGED vars PROVE PlcVars!ChangesWhatItSet
    BY Zenon
  <2>1. CASE PlcVars!DataNext
    BY <1>1, <2>1, DataChanges
  <2>2. CASE UNCHANGED <<s1, s2, s3, s4, s5, s6, s7>>
    BY <2>2 DEF PlcVars!ChangesWhatItSet
  <2> QED
    BY <1>1, <2>1, <2>2, DataPart
<1> QED
  BY <1>1, DataHold, PTL DEF Spec, ChangesOnlyWhatItSet

(***************************************************************************)
(* Events                                                                  *)
(***************************************************************************)
EventFields == {"enabled", "kind", "period", "counter", "trigger", "triggered", "error",
                "startup", "arming", "armState", "armCount", "reArm"}

\* Where the arming sequence is: its output is low before it rises.
Arms(e, out) ==
    /\ DOMAIN e = EventFields
    /\ e.armState \in {0, 1, 2} /\ e.armCount \in {0, 1}
    /\ e.armState # 1 => e.armCount = 0
    /\ e.armState = 2 \/ e.armCount = 1 => out = 0

\* How many executions may be owed there.
Owes(e, n) ==
    /\ n \in Nat /\ n <= 4
    /\ n > 0 => /\ ~e.startup /\ e.arming
                /\ e.armState = 0 => (e.triggered \/ e.reArm) /\ n <= 1
                /\ e.armState = 1 => n <= 2 + e.armCount

EventInv == Arms(s1, s3) /\ Owes(s1, s4)

\* Nothing that the invariant speaks of differs.
SameArming(e, f) ==
    /\ DOMAIN f = EventFields /\ f.armState = e.armState /\ f.armCount = e.armCount
    /\ f.startup = e.startup /\ f.arming = e.arming
    /\ f.triggered = e.triggered /\ f.reArm = e.reArm

LEMMA SameArmingKeeps ==
    ASSUME EventInv, SameArming(s1, s1'), s3' = s3, s4' = s4 PROVE EventInv'
BY DEF EventInv, SameArming, Arms, Owes

\* One step of the arming sequence, and nothing else.
Steps1(e, f, out, new) ==
    /\ Arms(f, new)
    /\ e.armState = 0 => f.armState = 1 /\ f.armCount = 0
    /\ e.armState = 1 /\ e.armCount = 0 => f.armState = 1 /\ f.armCount = 1
    /\ e.armState = 1 /\ e.armCount = 1 => f.armState = 2
    /\ e.armState = 2 => f.armState = 0 /\ out = 0 /\ new = 1
    /\ f.startup = e.startup /\ f.arming = e.arming
    /\ f.triggered = e.triggered /\ f.reArm = e.reArm

LEMMA ArmStepSteps ==
    ASSUME NEW e, NEW out, Arms(e, out)
    PROVE  Steps1(e, Event!ArmStep(e), out, Event!ArmWrites(e, out))
<1> DEFINE f == Event!ArmStep(e)
           new == Event!ArmWrites(e, out)
<1>1. CASE e.armState = 0
  <2>1. f = [e EXCEPT !.armState = 1] /\ new = out
    BY <1>1 DEF Event!ArmStep, Event!ArmWrites
  <2> HIDE DEF f, new
  <2> QED
    BY <1>1, <2>1 DEF Steps1, Arms, EventFields, f, new
<1>2. CASE e.armState = 1 /\ e.armCount = 0
  <2>1. f = [e EXCEPT !.armState = 1, !.armCount = 1] /\ new = 0
    BY <1>2 DEF Event!ArmStep, Event!ArmWrites
  <2> HIDE DEF f, new
  <2> QED
    BY <1>2, <2>1 DEF Steps1, Arms, EventFields, f, new
<1>3. CASE e.armState = 1 /\ e.armCount = 1
  <2>1. f = [e EXCEPT !.armState = 2, !.armCount = 0] /\ new = 0
    BY <1>3 DEF Event!ArmStep, Event!ArmWrites
  <2> HIDE DEF f, new
  <2> QED
    BY <1>3, <2>1 DEF Steps1, Arms, EventFields, f, new
<1>4. CASE e.armState = 2
  <2>1. f = [e EXCEPT !.armState = 0] /\ new = 1
    BY <1>4 DEF Event!ArmStep, Event!ArmWrites
  <2> HIDE DEF f, new
  <2> QED
    BY <1>4, <2>1 DEF Steps1, Arms, EventFields, f, new
<1> QED
  BY <1>1, <1>2, <1>3, <1>4 DEF Arms

\* The first execution makes a step of its own; nothing is owed before it.
LEMMA StartUpSteps ==
    ASSUME EventInv
    PROVE  /\ Arms(Event!StartUp(s1), Event!StartUpArm)
           /\ Owes(Event!StartUp(s1), s4)
           /\ ~Event!StartUp(s1).startup
           /\ s4 > 0 => Event!StartUp(s1) = s1 /\ Event!StartUpArm = s3
<1> DEFINE e == Event!StartUp(s1)
           f == Event!ArmStep(s1)
           new == Event!ArmWrites(s1, s3)
<1>1. CASE s1.startup
  <2>1. s4 = 0
    BY <1>1 DEF EventInv, Owes
  <2>2. Arms(f, new)
    BY ArmStepSteps DEF EventInv, Steps1
  <2>3. e = [f EXCEPT !.startup = FALSE, !.error = IF @ = "hardware" THEN "none" ELSE @]
        /\ Event!StartUpArm = new
    BY <1>1 DEF Event!StartUp, Event!StartUpArm
  <2> HIDE DEF e, f, new
  <2>4. Arms(e, new) /\ ~e.startup
    BY <2>2, <2>3 DEF Arms, EventFields
  <2> QED
    BY <2>1, <2>3, <2>4 DEF Owes, e
<1>2. CASE ~s1.startup
  <2>1. e = s1 /\ Event!StartUpArm = s3
    BY <1>2 DEF Event!StartUp, Event!StartUpArm
  <2> QED
    BY <1>2, <2>1 DEF EventInv
<1> QED
  BY <1>1, <1>2

\* An execution that is not idle.
LEMMA ExecuteKeeps ==
    ASSUME EventInv, NEW seen, NEW works, Event!Execute(seen, works)
    PROVE  EventInv'
<1> DEFINE e == Event!StartUp(s1)
           out == Event!StartUpArm
           steps == e.arming /\ (e.triggered \/ e.armState # 0 \/ e.reArm)
           fired == Event!Fires(e, seen)
           b == IF steps THEN Event!ArmStep(e) ELSE e
           c == Event!Sampled(b, seen)
           new == IF steps THEN Event!ArmWrites(e, out) ELSE out
           error == IF fired THEN Event!CallConsumers(TRUE, works).error ELSE c.error
<1>1. s1' = [c EXCEPT !.reArm = @ /\ ~steps, !.triggered = fired, !.error = error]
  BY Zenon DEF Event!Execute
<1>2. s3' = new /\ s4' = Event!NextOwed(e, s3 = 0 /\ s3' = 1, fired)
  BY Zenon DEF Event!Execute
<1>3. Arms(e, out) /\ Owes(e, s4) /\ ~e.startup /\ (s4 > 0 => e = s1 /\ out = s3)
  BY StartUpSteps
<1>4. Arms(b, new) /\ b.startup = e.startup /\ b.arming = e.arming /\ b.reArm = e.reArm
  BY <1>3, ArmStepSteps DEF Steps1
<1>5. steps => Steps1(e, b, out, new)
  BY <1>3, ArmStepSteps
<1>6. ~steps => b = e /\ new = out
  OBVIOUS
<1> HIDE DEF e, out, b, new, error
<1>7. /\ DOMAIN c = EventFields /\ c.armState = b.armState /\ c.armCount = b.armCount
      /\ c.startup = b.startup /\ c.arming = b.arming /\ c.reArm = b.reArm
  BY <1>4 DEF Event!Sampled, Arms, EventFields
<1> HIDE DEF c, fired, steps
<1>8. /\ DOMAIN s1' = EventFields /\ s1'.armState = b.armState /\ s1'.armCount = b.armCount
      /\ s1'.startup = e.startup /\ s1'.arming = e.arming
      /\ s1'.triggered = fired
  BY <1>1, <1>4, <1>7 DEF EventFields
<1>9. ~steps => (s1'.reArm <=> e.reArm)
  BY <1>1, <1>4, <1>7 DEF EventFields
<1>10. Arms(s1', s3')
  BY <1>2, <1>4, <1>8 DEF Arms
<1> DEFINE n == s4'
<1>11. Owes(s1', n)
  <2>1. CASE ~e.arming
    <3>1. n = 0
      BY <1>2, <2>1 DEF Event!NextOwed
    <3> QED
      BY <3>1 DEF Owes
  <2>2. CASE e.arming /\ s4 > 0 /\ ~(s3 = 0 /\ s3' = 1)
    <3>1. n = s4 + 1 /\ e = s1 /\ out = s3
      BY <1>2, <1>3, <2>2 DEF Event!NextOwed
    <3>2. steps
      BY <1>3, <2>2 DEF Owes, Arms, steps
    <3>3. Steps1(e, b, out, new)
      BY <1>5, <3>2
    <3>4. e.armState # 2
      BY <1>2, <2>2, <3>1, <3>3 DEF Steps1
    <3>5. n \in Nat /\ n <= 4
          /\ (b.armState = 1 => n <= 2 + b.armCount) /\ b.armState # 0
      <4>1. CASE e.armState = 0
        BY <1>3, <2>2, <3>1, <3>3, <4>1 DEF Steps1, Owes
      <4>2. CASE e.armState = 1 /\ e.armCount = 0
        BY <1>3, <2>2, <3>1, <3>3, <4>2 DEF Steps1, Owes
      <4>3. CASE e.armState = 1 /\ e.armCount = 1
        BY <1>3, <2>2, <3>1, <3>3, <4>3 DEF Steps1, Owes
      <4> QED
        BY <1>3, <3>4, <4>1, <4>2, <4>3 DEF Arms
    <3> HIDE DEF n
    <3> QED
      BY <1>3, <1>8, <2>2, <3>5 DEF Owes
  <2>3. CASE e.arming /\ ~(s4 > 0 /\ ~(s3 = 0 /\ s3' = 1)) /\ fired
    <3>1. n = 1
      BY <1>2, <2>3 DEF Event!NextOwed
    <3>2. s1'.armCount \in {0, 1}
      BY <1>10 DEF Arms
    <3> HIDE DEF n
    <3> QED
      BY <1>3, <1>8, <2>3, <3>1, <3>2 DEF Owes
  <2>4. CASE e.arming /\ ~(s4 > 0 /\ ~(s3 = 0 /\ s3' = 1)) /\ ~fired
    <3>1. n = 0
      BY <1>2, <2>4 DEF Event!NextOwed
    <3> QED
      BY <3>1 DEF Owes
  <2> QED
    BY <2>1, <2>2, <2>3, <2>4
<1> QED
  BY <1>10, <1>11 DEF EventInv

\* An idle execution, after an error or while the event is disabled, forgets nothing.
LEMMA IdleKeeps ==
    ASSUME EventInv, Event!Idle PROVE EventInv'
<1> DEFINE e == Event!StartUp(s1)
<1>1. s1' = [e EXCEPT !.reArm = @ \/ e.error # "none"] /\ s3' = Event!StartUpArm /\ s4' = s4
  BY Zenon DEF Event!Idle
<1>2. Arms(e, s3') /\ Owes(e, s4)
  BY <1>1, StartUpSteps
<1> HIDE DEF e
<1>3. Arms(s1', s3') /\ Owes(s1', s4')
  BY <1>1, <1>2 DEF Arms, Owes, EventFields
<1> QED
  BY <1>3 DEF EventInv

\* A command that makes a step of the sequence, or finds it disabled.
LEMMA ArmKeeps ==
    ASSUME EventInv, Event!Arm PROVE EventInv'
<1>1. CASE s1.arming
  <2> DEFINE new == Event!ArmWrites(s1, s3)
             f == Event!ArmStep(s1)
  <2>1. s1' = f /\ s3' = new /\ s4' = IF s3 = 0 /\ s3' = 1 THEN 0 ELSE s4
    BY <1>1 DEF Event!Arm
  <2>2. Steps1(s1, s1', s3, s3')
    BY <2>1, ArmStepSteps DEF EventInv
  <2>3. Arms(s1, s3) /\ Owes(s1, s4)
    BY DEF EventInv
  <2> HIDE DEF new, f
  <2>4. CASE s1.armState = 0
    BY <2>1, <2>2, <2>3, <2>4 DEF Steps1, EventInv, Owes
  <2>5. CASE s1.armState = 1 /\ s1.armCount = 0
    BY <2>1, <2>2, <2>3, <2>5 DEF Steps1, EventInv, Owes
  <2>6. CASE s1.armState = 1 /\ s1.armCount = 1
    BY <2>1, <2>2, <2>3, <2>6 DEF Steps1, EventInv, Owes
  <2>7. CASE s1.armState = 2
    BY <2>1, <2>2, <2>3, <2>7 DEF Steps1, EventInv, Owes
  <2> QED
    BY <2>3, <2>4, <2>5, <2>6, <2>7 DEF Arms
<1>2. CASE ~s1.arming
  <2>1. s1' = [s1 EXCEPT !.error = "other"] /\ s3' = s3 /\ s4' = s4
    BY <1>2 DEF Event!Arm, Event!Set
  <2>2. SameArming(s1, s1')
    BY <2>1 DEF SameArming, EventInv, Arms, EventFields
  <2> QED
    BY <2>1, <2>2, SameArmingKeeps
<1> QED
  BY <1>1, <1>2

\* The commands that set members the sequence does not look at.
LEMMA SettingKeeps ==
    ASSUME EventInv, NEW kind, NEW on, NEW period,
           \/ Event!SetEventType(kind)
           \/ Event!SetTriggerEdge(kind)
           \/ Event!SetDataSampleTime(period)
           \/ Event!SetEnable(on)
    PROVE  EventInv'
<1>1. s3' = s3 /\ s4' = s4
  BY DEF Event!SetEventType, Event!SetTriggerEdge, Event!SetDataSampleTime,
         Event!SetEnable, Event!Set
<1>2. DOMAIN s1 = EventFields
  BY DEF EventInv, Arms
<1>3. CASE Event!SetEventType(kind)
  <2>1. s1' = [s1 EXCEPT !.kind = kind, !.error = "none"]
    BY <1>3 DEF Event!SetEventType, Event!Set
  <2> QED
    BY <1>1, <1>2, <2>1, SameArmingKeeps DEF SameArming, EventFields
<1>4. CASE Event!SetTriggerEdge(kind)
  <2>1. s1' = [s1 EXCEPT !.kind = kind]
    BY <1>4 DEF Event!SetTriggerEdge, Event!Set
  <2> QED
    BY <1>1, <1>2, <2>1, SameArmingKeeps DEF SameArming, EventFields
<1>5. CASE Event!SetDataSampleTime(period)
  <2>1. s1' = [s1 EXCEPT !.period = period]
    BY <1>5 DEF Event!SetDataSampleTime, Event!Set
  <2> QED
    BY <1>1, <1>2, <2>1, SameArmingKeeps DEF SameArming, EventFields
<1>6. CASE Event!SetEnable(on)
  <2> DEFINE error == IF on /\ ~s1.enabled THEN "none" ELSE s1.error
  <2>1. s1' = [s1 EXCEPT !.enabled = on, !.error = error]
    BY <1>6 DEF Event!SetEnable, Event!Set
  <2> HIDE DEF error
  <2> QED
    BY <1>1, <1>2, <2>1, SameArmingKeeps DEF SameArming, EventFields
<1> QED
  BY <1>3, <1>4, <1>5, <1>6

LEMMA SetEnableArmSequenceKeeps ==
    ASSUME EventInv, NEW on \in BOOLEAN, Event!SetEnableArmSequence(on)
    PROVE  EventInv'
<1>1. /\ s1' = [s1 EXCEPT !.arming = on, !.error = "none"]
      /\ s3' = s3 /\ s4' = IF on THEN s4 ELSE 0
  BY DEF Event!SetEnableArmSequence
<1>2. Arms(s1', s3')
  BY <1>1 DEF EventInv, Arms, EventFields
<1>3. Owes(s1', s4')
  BY <1>1 DEF EventInv, Arms, Owes, EventFields
<1> QED
  BY <1>2, <1>3 DEF EventInv

\* Triggers, resets and the loss of the hardware change errors and consumers only.
LEMMA ErrorsKeep ==
    ASSUME EventInv, NEW error, s1' = [s1 EXCEPT !.error = error], s3' = s3, s4' = s4
    PROVE  EventInv'
<1>1. SameArming(s1, s1')
  BY DEF EventInv, Arms, SameArming, EventFields
<1> QED
  BY <1>1, SameArmingKeeps

LEMMA TriggerEventKeeps ==
    ASSUME EventInv, NEW masterOK, NEW works, Event!TriggerEvent(masterOK, works)
    PROVE  EventInv'
<1> DEFINE calls == Event!CallConsumers(masterOK, works)
           error == IF calls.error = "none" THEN s1.error ELSE calls.error
<1>1. s1' = [s1 EXCEPT !.error = error] /\ s3' = s3 /\ s4' = s4
  BY DEF Event!TriggerEvent
<1> HIDE DEF error
<1> QED
  BY <1>1, ErrorsKeep

LEMMA EventStep ==
    ASSUME EventInv, Event!EventNext PROVE EventInv'
<1>1. CASE Event!HardwareLost
  BY <1>1, ErrorsKeep DEF Event!HardwareLost
<1>2. CASE Event!ErrorReset
  BY <1>2, ErrorsKeep DEF Event!ErrorReset
<1>3. ASSUME NEW i, NEW masterOK, NEW works, Event!TriggerConsumer(i, masterOK, works)
      PROVE  EventInv'
  BY <1>3 DEF EventInv, Event!TriggerConsumer
<1>4. ASSUME NEW i, NEW on, Event!SetConsumerEnable(i, on)
      PROVE  EventInv'
  BY <1>4 DEF EventInv, Event!SetConsumerEnable
<1> QED
  BY <1>1, <1>2, <1>3, <1>4, IdleKeeps, ExecuteKeeps, SettingKeeps, ArmKeeps,
     SetEnableArmSequenceKeeps, TriggerEventKeeps DEF Event!EventNext

LEMMA EventInitKeeps ==
    ASSUME Event!EventInit PROVE EventInv
BY DEF Event!EventInit, EventInv, Arms, Owes, EventFields

(***************************************************************************)
(* Storages                                                                *)
(***************************************************************************)
StorageFields == {"size", "type", "index", "count", "cells"}

Buffer(s) ==
    /\ DOMAIN s = StorageFields
    /\ s.size \in Nat \ {0} /\ s.type \in {"normal", "ring", "fifo"}
    /\ s.index \in Nat /\ s.count \in 0 .. s.size
    /\ s.cells \in [1 .. s.size -> Int]

Least(a, b) == IF a <= b THEN a ELSE b

\* Where the values 1 .. a are that have been appended: a normal buffer has the first in
\* their order, a fifo the last at its end; a ring has the last before its index and
\* those that came before them behind it.
NormalHas(s, a) ==
    s.index = s.count /\ \A i \in 1 .. s.count : s.cells[i] = i

FifoHas(s, a) ==
    \A i \in s.size - s.count + 1 .. s.size : s.cells[i] = a - s.size + i

RingHas(s, a) ==
    /\ s.index <= s.size
    /\ a < s.size => s.index = a
    /\ \A i \in 1 .. s.index : s.cells[i] = a - s.index + i
    /\ a >= s.size =>
         \A i \in s.index + 1 .. s.size : s.cells[i] = a - s.index - s.size + i

Has(s, a) ==
    /\ s.count = Least(a, s.size)
    /\ s.type = "normal" => NormalHas(s, a)
    /\ s.type = "fifo" => FifoHas(s, a)
    /\ s.type = "ring" => RingHas(s, a)

LEMMA MinOfTwo ==
    ASSUME NEW a \in Int, NEW b \in Int PROVE Storage!Min({a, b}) = Least(a, b)
<1>1. CASE a <= b
  BY <1>1 DEF Storage!Min, Least
<1>2. CASE ~(a <= b)
  BY <1>2 DEF Storage!Min, Least
<1> QED
  BY <1>1, <1>2

\* The statistics are those of the last values, of a normal buffer of the first ones.
LEMMA StatisticsFollow ==
    ASSUME NEW s, Buffer(s), NEW a \in Nat, Has(s, a)
    PROVE  Storage!CountedCells(s) = Storage!Kept(s, a)
<1> DEFINE size == s.size
           n == Least(a, size)
<1>1. size \in Nat \ {0} /\ n \in Nat /\ n <= size /\ n <= a /\ s.count = n
      /\ (n = a \/ n = size)
  BY DEF Buffer, Has, Least
<1>2. Storage!Min({a, size}) = n
  BY <1>1, MinOfTwo
<1> DEFINE cells == s.cells
           index == s.index
<1>3. CASE s.type = "normal"
  <2>1. \A i \in 1 .. n : cells[i] = i
    BY <1>1, <1>3 DEF Has, NormalHas
  <2>2. Storage!CountedCells(s) = {cells[i] : i \in 1 .. n}
    BY <1>1, <1>3 DEF Storage!CountedCells
  <2>3. Storage!Kept(s, a) = 1 .. n
    BY <1>2, <1>3 DEF Storage!Kept
  <2> HIDE DEF n, cells
  <2>4. {cells[i] : i \in 1 .. n} = 1 .. n
    BY <2>1
  <2> QED
    BY <2>2, <2>3, <2>4
<1>4. CASE s.type = "fifo"
  <2>1. \A i \in size - n + 1 .. size : cells[i] = a - size + i
    BY <1>1, <1>4 DEF Has, FifoHas
  <2>2. Storage!CountedCells(s) = {cells[i] : i \in size - n + 1 .. size}
    BY <1>1, <1>4 DEF Storage!CountedCells
  <2>3. Storage!Kept(s, a) = a - n + 1 .. a
    BY <1>2, <1>4 DEF Storage!Kept
  <2> HIDE DEF n, cells, size
  <2>4. \A k \in a - n + 1 .. a : k - a + size \in size - n + 1 .. size
                                  /\ cells[k - a + size] = k
    <3> TAKE k \in a - n + 1 .. a
    <3>1. k - a + size \in size - n + 1 .. size
      BY <1>1
    <3>2. cells[k - a + size] = a - size + (k - a + size)
      BY <2>1, <3>1
    <3> QED
      BY <1>1, <3>1, <3>2
  <2>5. \A i \in size - n + 1 .. size : cells[i] \in a - n + 1 .. a
    BY <1>1, <2>1
  <2>6. {cells[i] : i \in size - n + 1 .. size} = a - n + 1 .. a
    BY <2>4, <2>5
  <2> QED
    BY <2>2, <2>3, <2>6
<1>5. CASE s.type = "ring"
  <2>1. /\ index \in Nat /\ index <= size /\ (a < size => index = a)
        /\ \A i \in 1 .. index : cells[i] = a - index + i
        /\ a >= size => \A i \in index + 1 .. size : cells[i] = a - index - size + i
    BY <1>5 DEF Has, RingHas, Buffer
  <2>2. Storage!CountedCells(s) = {cells[i] : i \in 1 .. n}
    BY <1>1, <1>5 DEF Storage!CountedCells
  <2>3. Storage!Kept(s, a) = a - n + 1 .. a
    BY <1>2, <1>5 DEF Storage!Kept
  <2>4. n = size => a >= size
    BY <1>1
  <2>5. n = IF a <= size THEN a ELSE size
    BY DEF Least
  <2> HIDE DEF n, cells, size, index
  <2>6. index <= n
    BY <1>1, <2>1, <2>5
  <2>7. \A k \in a - n + 1 .. a : \E i \in 1 .. n : cells[i] = k
    <3> TAKE k \in a - n + 1 .. a
    <3>1. CASE k > a - index
      <4>1. k - a + index \in 1 .. index
        BY <1>1, <2>1, <3>1
      <4>2. cells[k - a + index] = k
        BY <1>1, <2>1, <4>1
      <4>3. k - a + index \in 1 .. n
        BY <1>1, <2>1, <2>6, <4>1
      <4> QED
        BY <4>2, <4>3
    <3>2. CASE ~(k > a - index)
      <4>1. a >= size /\ n = size
        BY <1>1, <2>1, <2>5, <3>2
      <4>2. k - a + index + size \in index + 1 .. size
        BY <1>1, <2>1, <3>2, <4>1
      <4>3. cells[k - a + index + size] = k
        BY <1>1, <2>1, <4>1, <4>2
      <4>4. k - a + index + size \in 1 .. n
        BY <1>1, <2>1, <4>1, <4>2
      <4> QED
        BY <4>3, <4>4
    <3> QED
      BY <3>1, <3>2
  <2>8. \A i \in 1 .. n : cells[i] \in a - n + 1 .. a
    <3> TAKE i \in 1 .. n
    <3>1. CASE i <= index
      BY <1>1, <2>1, <2>6, <3>1
    <3>2. CASE ~(i <= index)
      <4>1. a >= size /\ n = size
        BY <1>1, <2>1, <2>5, <3>2
      <4>2. i \in index + 1 .. size
        BY <1>1, <2>1, <3>2, <4>1
      <4>3. cells[i] = a - index - size + i
        BY <2>1, <4>1, <4>2
      <4> QED
        BY <1>1, <2>1, <4>1, <4>2, <4>3
    <3> QED
      BY <3>1, <3>2
  <2>9. {cells[i] : i \in 1 .. n} = a - n + 1 .. a
    BY <2>7, <2>8
  <2> QED
    BY <2>2, <2>3, <2>9
<1> QED
  BY <1>3, <1>4, <1>5 DEF Buffer

\* The values of a command continue those that have been appended.
Continues(values, a, len) ==
    len \in Nat /\ values = [i \in 1 .. len |-> a + i] /\ Len(values) = len

LEMMA CountBounded ==
    ASSUME NEW s, Buffer(s), NEW n \in Nat
    PROVE  /\ Storage!Counted(s, n) = Least(s.count + n, s.size)
           /\ Storage!Counted(s, n) \in 0 .. s.size
<1> DEFINE c == s.count
           size == s.size
<1>1. c \in Nat /\ size \in Nat /\ c <= size
  BY DEF Buffer
<1>2. Storage!Counted(s, n) = Storage!Min({c + n, size})
  BY DEF Storage!Counted
<1> HIDE DEF c, size
<1>3. Storage!Min({c + n, size}) = Least(c + n, size)
  BY <1>1, MinOfTwo
<1>4. Least(c + n, size) \in 0 .. size
  BY <1>1 DEF Least
<1> QED
  BY <1>2, <1>3, <1>4 DEF c, size

\* The rest that does not fit into a normal buffer is discarded.
LEMMA NormalAppends ==
    ASSUME NEW s, Buffer(s), s.type = "normal", s.index <= s.size, NEW a \in Nat, NEW len,
           NEW values, Continues(values, a, len)
    PROVE  /\ Buffer(Storage!AppendNormal(s, values))
           /\ Has(s, a) => Has(Storage!AppendNormal(s, values), a + len)
<1> DEFINE size == s.size
           index == s.index
           count == s.count
           cells == s.cells
           n == Storage!Min({Len(values), s.size - s.index})
           r == Storage!AppendNormal(s, values)
           counted == Storage!Counted(s, n)
           filled == [i \in 1 .. size |->
                        IF i \in index + 1 .. index + n THEN values[i - index] ELSE cells[i]]
<1>1. /\ size \in Nat \ {0} /\ index \in Nat /\ count \in 0 .. size /\ index <= size
      /\ cells \in [1 .. size -> Int]
  BY DEF Buffer
<1>2. len \in Nat /\ values = [i \in 1 .. len |-> a + i] /\ Len(values) = len
  BY DEF Continues
<1>3. n = Least(len, size - index)
  BY <1>1, <1>2, MinOfTwo
<1>4. n \in Nat /\ n <= len /\ index + n <= size /\ (n = len \/ index + n = size)
  BY <1>1, <1>2, <1>3 DEF Least
<1>5. r = [s EXCEPT !.index = index + n, !.count = counted, !.cells = filled]
  BY DEF Storage!AppendNormal
<1>6. counted = Least(count + n, size) /\ counted \in 0 .. size
  BY <1>4, CountBounded
<1>7. filled \in [1 .. size -> Int]
  <2> SUFFICES ASSUME NEW i \in 1 .. size
               PROVE  (IF i \in index + 1 .. index + n THEN values[i - index]
                       ELSE cells[i]) \in Int
    OBVIOUS
  <2> HIDE DEF n, size, index, cells
  <2>1. CASE i \in index + 1 .. index + n
    <3>1. i - index \in 1 .. len
      BY <1>1, <1>2, <1>4, <2>1
    <3>2. values[i - index] = a + (i - index)
      BY <1>2, <3>1
    <3> QED
      BY <1>1, <1>2, <2>1, <3>1, <3>2
  <2>2. CASE i \notin index + 1 .. index + n
    BY <1>1, <2>2
  <2> QED
    BY <2>1, <2>2
<1> HIDE DEF r, filled, counted, n
<1>8. /\ DOMAIN r = StorageFields /\ r.size = size /\ r.type = s.type
      /\ r.index = index + n /\ r.count = counted /\ r.cells = filled
  BY <1>5 DEF Buffer, StorageFields
<1>9. Buffer(r)
  <2> DEFINE next == index + n
  <2>1. next \in Nat
    BY <1>1, <1>4
  <2> HIDE DEF next
  <2> QED
    BY <1>6, <1>7, <1>8, <2>1 DEF Buffer, next
<1>10. ASSUME Has(s, a) PROVE Has(r, a + len)
  <2>1. count = Least(a, size) /\ index = count /\ \A i \in 1 .. count : cells[i] = i
    BY <1>10 DEF Has, NormalHas
  <2> HIDE DEF size, index, count, cells
  <2>2. counted = index + n
    BY <1>1, <1>4, <1>6, <2>1 DEF Least
  <2>3. counted = Least(a + len, size)
    BY <1>1, <1>2, <1>4, <2>1, <2>2 DEF Least
  <2>4. \A i \in 1 .. counted : filled[i] = i
    <3> TAKE i \in 1 .. counted
    <3>1. i \in 1 .. size
      BY <1>1, <1>6
    <3>2. CASE i \in index + 1 .. index + n
      <4>1. filled[i] = values[i - index]
        BY <3>1, <3>2 DEF filled
      <4>2. i - index \in 1 .. len
        BY <1>1, <1>2, <1>4, <3>1, <3>2
      <4>3. values[i - index] = a + (i - index)
        BY <1>2, <4>2
      <4>4. n # 0
        BY <1>1, <1>4, <3>1, <3>2
      <4>5. a = index
        BY <1>1, <1>2, <1>3, <1>4, <2>1, <4>4 DEF Least
      <4> QED
        BY <1>1, <4>1, <4>3, <4>5, <3>1
    <3>3. CASE i \notin index + 1 .. index + n
      <4>1. filled[i] = cells[i]
        BY <3>1, <3>3 DEF filled
      <4>2. i \in 1 .. count
        BY <1>1, <1>4, <2>1, <2>2, <3>3, <3>1
      <4> QED
        BY <2>1, <4>1, <4>2
    <3> QED
      BY <3>2, <3>3
  <2>5. NormalHas(r, a + len)
    BY <1>8, <2>2, <2>4 DEF NormalHas
  <2> QED
    BY <1>8, <2>3, <2>5 DEF Has, size
<1> QED
  BY <1>9, <1>10 DEF r

\* What does not fit behind the index of a ring goes to its beginning.
LEMMA RingAppends ==
    ASSUME NEW s, Buffer(s), s.type = "ring", s.index <= s.size, NEW a \in Nat, NEW len,
           NEW values, Continues(values, a, len), len <= s.size
    PROVE  /\ Buffer(Storage!AppendRing(s, values))
           /\ Has(s, a) => Has(Storage!AppendRing(s, values), a + len)
<1> DEFINE size == s.size
           index == s.index
           count == s.count
           cells == s.cells
           n == Storage!Min({Len(values), s.size - s.index})
           rest == Len(values) - n
           next == IF rest > 0 THEN rest ELSE index + n
           r == Storage!AppendRing(s, values)
           counted == Storage!Counted(s, n)
           filled == [i \in 1 .. size |->
                        IF i \in index + 1 .. index + n THEN values[i - index]
                        ELSE IF i <= rest THEN values[n + i] ELSE cells[i]]
<1>1. /\ size \in Nat \ {0} /\ index \in Nat /\ count \in 0 .. size /\ index <= size
      /\ cells \in [1 .. size -> Int] /\ len <= size
  BY DEF Buffer
<1>2. len \in Nat /\ values = [i \in 1 .. len |-> a + i] /\ Len(values) = len
  BY DEF Continues
<1>3. n = Least(len, size - index)
  BY <1>1, <1>2, MinOfTwo
<1>4. /\ n \in Nat /\ n <= len /\ index + n <= size /\ rest = len - n /\ rest \in Nat
      /\ rest <= index /\ (rest > 0 => index + n = size)
  BY <1>1, <1>2, <1>3 DEF Least
<1>5. r = [s EXCEPT !.index = next, !.count = counted, !.cells = filled]
  BY DEF Storage!AppendRing
<1>6. counted = Least(count + n, size) /\ counted \in 0 .. size
  BY <1>4, CountBounded
<1> HIDE DEF n, rest
<1>7. \A i \in 1 .. size : i \in index + 1 .. index + n => filled[i] = a + (i - index)
  <2> SUFFICES ASSUME NEW i \in 1 .. size, i \in index + 1 .. index + n
               PROVE  filled[i] = a + (i - index)
    OBVIOUS
  <2>1. filled[i] = values[i - index]
    OBVIOUS
  <2> HIDE DEF size, index, filled
  <2>2. i - index \in 1 .. len
    BY <1>1, <1>2, <1>4
  <2> QED
    BY <1>2, <2>1, <2>2
<1>8. \A i \in 1 .. size : i \notin index + 1 .. index + n /\ i <= rest
                             => filled[i] = a + (n + i)
  <2> SUFFICES ASSUME NEW i \in 1 .. size, i \notin index + 1 .. index + n, i <= rest
               PROVE  filled[i] = a + (n + i)
    OBVIOUS
  <2>1. filled[i] = values[n + i]
    OBVIOUS
  <2> HIDE DEF size, index, filled
  <2>2. n + i \in 1 .. len
    BY <1>1, <1>2, <1>4
  <2> QED
    BY <1>2, <2>1, <2>2
<1>9. \A i \in 1 .. size : i \notin index + 1 .. index + n /\ ~(i <= rest)
                             => filled[i] = cells[i]
  OBVIOUS
<1>10. filled \in [1 .. size -> Int]
  <2>1. \A i \in 1 .. size : filled[i] \in Int
    <3> TAKE i \in 1 .. size
    <3> HIDE DEF size, index, filled, cells
    <3>1. CASE i \in index + 1 .. index + n
      BY <1>1, <1>7, <3>1
    <3>2. CASE i \notin index + 1 .. index + n /\ i <= rest
      BY <1>4, <1>8, <3>2
    <3>3. CASE i \notin index + 1 .. index + n /\ ~(i <= rest)
      <4>1. filled[i] = cells[i]
        BY <1>9, <3>3
      <4> QED
        BY <1>1, <4>1
    <3> QED
      BY <3>1, <3>2, <3>3
  <2> QED
    BY <2>1
<1> HIDE DEF r, filled, counted
<1>11. /\ DOMAIN r = StorageFields /\ r.size = size /\ r.type = s.type
       /\ r.index = next /\ r.count = counted /\ r.cells = filled
  <2> HIDE DEF next
  <2> QED
    BY <1>5 DEF Buffer, StorageFields
<1>12. next \in Nat /\ next <= size
  BY <1>1, <1>4
<1>13. Buffer(r)
  <2> HIDE DEF next
  <2> QED
    BY <1>6, <1>10, <1>11, <1>12 DEF Buffer
<1>14. ASSUME Has(s, a) PROVE Has(r, a + len)
  <2>1. /\ count = Least(a, size) /\ (a < size => index = a)
        /\ \A i \in 1 .. index : cells[i] = a - index + i
        /\ a >= size => \A i \in index + 1 .. size : cells[i] = a - index - size + i
    BY <1>14 DEF Has, RingHas
  <2> HIDE DEF size, index, count, cells
  <2>2. counted = Least(a + len, size)
    BY <1>1, <1>2, <1>4, <1>6, <2>1 DEF Least
  <2>3. a + len < size => next = a + len
    BY <1>1, <1>2, <1>4, <2>1
  <2>4. ASSUME rest = 0 PROVE RingHas(r, a + len)
    <3>1. next = index + n /\ n = len
      BY <1>1, <1>2, <1>4, <2>4
    <3> HIDE DEF next
    <3>2. \A i \in 1 .. next : filled[i] = (a + len) - next + i
      <4> TAKE i \in 1 .. next
      <4>1. i \in 1 .. size
        BY <1>1, <1>4, <3>1
      <4>2. CASE i \in index + 1 .. index + n
        BY <1>1, <1>2, <1>7, <3>1, <4>1, <4>2
      <4>3. CASE i \notin index + 1 .. index + n
        <5>1. i \in 1 .. index
          BY <1>1, <1>4, <3>1, <4>1, <4>3
        <5>2. filled[i] = cells[i]
          BY <1>9, <2>4, <4>1, <4>3
        <5> QED
          BY <1>1, <1>2, <2>1, <3>1, <5>1, <5>2
      <4> QED
        BY <4>2, <4>3
    <3>3. ASSUME a + len >= size, NEW i \in next + 1 .. size
          PROVE  filled[i] = (a + len) - next - size + i
      <4>1. i \in 1 .. size /\ i \in index + 1 .. size /\ i \notin index + 1 .. index + n
        BY <1>1, <1>4, <3>1, <3>3
      <4>2. filled[i] = cells[i]
        BY <1>9, <2>4, <4>1
      <4>3. a >= size
        BY <1>1, <1>2, <1>4, <2>1, <3>1, <3>3
      <4>4. cells[i] = a - index - size + i
        BY <2>1, <4>1, <4>3
      <4> QED
        BY <1>1, <1>2, <3>1, <4>1, <4>2, <4>4
    <3> QED
      BY <2>3, <3>2, <3>3, <1>11, <1>12 DEF RingHas
  <2>5. ASSUME rest > 0 PROVE RingHas(r, a + len)
    <3>1. next = rest /\ index + n = size /\ len = n + rest
      BY <1>1, <1>2, <1>4, <2>5
    <3> HIDE DEF next
    <3>2. \A i \in 1 .. next : filled[i] = (a + len) - next + i
      <4> TAKE i \in 1 .. next
      <4>1. i \in 1 .. size /\ i \notin index + 1 .. index + n /\ i <= rest
        BY <1>1, <1>4, <3>1
      <4> QED
        BY <1>1, <1>2, <1>4, <1>8, <3>1, <4>1
    <3>3. \A i \in Int : (a + len) - next - size + i = (a - index) + i
      BY <1>1, <1>2, <1>4, <3>1
    <3>4. ASSUME NEW i \in next + 1 .. size
          PROVE  filled[i] = (a + len) - next - size + i
      <4>1. i \in 1 .. size /\ ~(i <= rest)
        BY <1>1, <1>4, <3>1, <3>4
      <4>2. CASE i \in index + 1 .. index + n
        <5>1. filled[i] = a + (i - index)
          BY <1>7, <4>1, <4>2
        <5> QED
          BY <1>1, <3>3, <4>1, <5>1
      <4>3. CASE i \notin index + 1 .. index + n
        <5>1. i \in 1 .. index
          BY <1>1, <1>4, <3>1, <4>1, <4>3
        <5>2. filled[i] = cells[i]
          BY <1>9, <4>1, <4>3
        <5> QED
          BY <1>1, <2>1, <3>3, <5>1, <5>2
      <4> QED
        BY <4>2, <4>3
    <3> QED
      BY <2>3, <3>2, <3>4, <1>11, <1>12 DEF RingHas
  <2>6. RingHas(r, a + len)
    BY <1>4, <2>4, <2>5
  <2> QED
    BY <1>11, <2>2, <2>6 DEF Has, size
<1> QED
  BY <1>13, <1>14 DEF r

\* The data of a fifo moves to the left and the values take its place.
LEMMA FifoAppends ==
    ASSUME NEW s, Buffer(s), s.type = "fifo", NEW a \in Nat, NEW len, NEW values,
           Continues(values, a, len)
    PROVE  /\ Buffer(Storage!AppendFifo(s, values))
           /\ Has(s, a) => Has(Storage!AppendFifo(s, values), a + len)
<1> DEFINE size == s.size
           count == s.count
           cells == s.cells
           r == Storage!AppendFifo(s, values)
           counted == Storage!Counted(s, Len(values))
           both == cells \o values
           moved == SubSeq(both, Len(values) + 1, Len(values) + size)
<1>1. size \in Nat \ {0} /\ count \in 0 .. size /\ cells \in [1 .. size -> Int]
  BY DEF Buffer
<1>2. len \in Nat /\ values = [i \in 1 .. len |-> a + i] /\ Len(values) = len
  BY DEF Continues
<1>3. r = [s EXCEPT !.count = counted, !.cells = moved]
  BY DEF Storage!AppendFifo
<1>4. counted = Least(count + len, size) /\ counted \in 0 .. size
  BY <1>2, CountBounded
<1> HIDE DEF r, counted, size, count, cells
<1>5. cells \in Seq(Int) /\ Len(cells) = size
  BY <1>1, SeqDef
<1>6. values \in Seq(Int)
  <2>1. values \in [1 .. len -> Int]
    BY <1>2
  <2> QED
    BY <1>2, <2>1, SeqDef
<1>7. /\ both \in Seq(Int)
      /\ \A i \in 1 .. size + len : i <= size => both[i] = cells[i]
      /\ \A i \in 1 .. size + len : ~(i <= size) => both[i] = values[i - size]
      /\ Len(both) = size + len
  <2>1. /\ both \in Seq(Int) /\ Len(both) = Len(cells) + Len(values)
        /\ \A i \in 1 .. Len(cells) + Len(values) :
              both[i] = IF i <= Len(cells) THEN cells[i] ELSE values[i - Len(cells)]
    BY <1>5, <1>6, ConcatProperties
  <2> HIDE DEF both
  <2>2. \A i \in 1 .. size + len :
              both[i] = IF i <= size THEN cells[i] ELSE values[i - size]
    BY <1>2, <1>5, <2>1
  <2> QED
    BY <1>2, <1>5, <2>1, <2>2
<1>8. \A i \in 1 .. size + len : both[i] \in Int
  BY <1>7, ElementOfSeq
<1> HIDE DEF both
<1>9. moved \in [1 .. size -> Int] /\ \A i \in 1 .. size : moved[i] = both[len + i]
  <2>1. \A i \in len + 1 .. len + size : both[i] \in Int
    BY <1>1, <1>2, <1>8
  <2>2. /\ moved \in Seq(Int) /\ Len(moved) = size
        /\ \A i \in 1 .. size : moved[i] = both[len + 1 + i - 1]
    <3>1. len + 1 \in Int /\ len + size \in Int /\ len + 1 <= len + size
          /\ (len + size) - (len + 1) + 1 = size
      BY <1>1, <1>2
    <3> QED
      BY <1>2, <2>1, <3>1, SubSeqProperties
  <2> HIDE DEF moved
  <2>3. moved \in [1 .. size -> Int]
    BY <2>2, LenProperties
  <2> QED
    BY <1>1, <1>2, <2>2, <2>3
<1> HIDE DEF moved
<1>10. /\ DOMAIN r = StorageFields /\ r.size = size /\ r.type = s.type
       /\ r.index = s.index /\ r.count = counted /\ r.cells = moved
  BY <1>3 DEF Buffer, StorageFields, size
<1>11. Buffer(r)
  BY <1>1, <1>4, <1>9, <1>10 DEF Buffer
<1>12. ASSUME Has(s, a) PROVE Has(r, a + len)
  <2>1. count = Least(a, size) /\ \A i \in size - count + 1 .. size : cells[i] = a - size + i
    BY <1>12 DEF Has, FifoHas, size, count, cells
  <2>2. counted = Least(a + len, size)
    BY <1>1, <1>2, <1>4, <2>1 DEF Least
  <2>3. \A i \in size - counted + 1 .. size : moved[i] = (a + len) - size + i
    <3> TAKE i \in size - counted + 1 .. size
    <3>1. i \in 1 .. size /\ len + i \in 1 .. size + len
      BY <1>1, <1>2, <1>4
    <3>2. moved[i] = both[len + i]
      BY <1>9, <3>1
    <3>3. CASE len + i <= size
      <4>1. both[len + i] = cells[len + i]
        BY <1>7, <3>1, <3>3
      <4>2. len + i \in size - count + 1 .. size
        BY <1>1, <1>2, <1>4, <3>1, <3>3 DEF Least
      <4>3. cells[len + i] = a - size + (len + i)
        BY <2>1, <4>2
      <4> QED
        BY <1>1, <1>2, <3>1, <3>2, <4>1, <4>3
    <3>4. CASE ~(len + i <= size)
      <4>1. both[len + i] = values[(len + i) - size]
        BY <1>7, <3>1, <3>4
      <4>2. (len + i) - size \in 1 .. len
        BY <1>1, <1>2, <3>1, <3>4
      <4>3. values[(len + i) - size] = a + ((len + i) - size)
        BY <1>2, <4>2
      <4> QED
        BY <1>1, <1>2, <3>1, <3>2, <4>1, <4>3
    <3> QED
      BY <3>3, <3>4
  <2>4. FifoHas(r, a + len)
    BY <1>10, <2>3 DEF FifoHas
  <2> QED
    BY <1>10, <2>2, <2>4 DEF Has
<1> QED
  BY <1>11, <1>12 DEF r

LEMMA AppendedKeeps ==
    ASSUME NEW s, Buffer(s), Storage!Defined(s), NEW a \in Nat, NEW len, NEW values,
           Continues(values, a, len), Storage!Fits(s, len)
    PROVE  /\ Buffer(Storage!Appended(s, values))
           /\ Has(s, a) => Has(Storage!Appended(s, values), a + len)
<1>1. s.type \in {"normal", "ring", "fifo"} /\ len <= s.size
      /\ (s.type # "fifo" => s.index <= s.size)
  BY DEF Buffer, Storage!Fits, Storage!Defined
<1>2. CASE s.type = "normal"
  <2>1. Storage!Appended(s, values) = Storage!AppendNormal(s, values)
    BY <1>2 DEF Storage!Appended
  <2> QED
    BY <1>1, <1>2, <2>1, NormalAppends
<1>3. CASE s.type = "ring"
  <2>1. Storage!Appended(s, values) = Storage!AppendRing(s, values)
    BY <1>3 DEF Storage!Appended
  <2> QED
    BY <1>1, <1>3, <2>1, RingAppends
<1>4. CASE s.type = "fifo"
  <2>1. Storage!Appended(s, values) = Storage!AppendFifo(s, values)
    BY <1>4 DEF Storage!Appended
  <2> QED
    BY <1>4, <2>1, FifoAppends
<1> QED
  BY <1>1, <1>2, <1>3, <1>4

\* Until the index or a cell is set the data is where its type has it; the index of a
\* buffer without data is at its beginning.
AsAppended(s, appended) == Has(s, appended) /\ (appended = 0 => s.index = 0)

StorageInv ==
    /\ Buffer(s1) /\ DOMAIN s2 = {"appended", "edited"} /\ s2.appended \in Nat
    /\ ~s2.edited => AsAppended(s1, s2.appended)

LEMMA NumbersContinue ==
    ASSUME StorageInv, NEW n \in Nat
    PROVE  Continues(Storage!Numbers(n), s2.appended, n)
BY DEF StorageInv, Continues, Storage!Numbers

\* A buffer that has been cleared has no data.
LEMMA EmptyIsKept ==
    ASSUME NEW s, Buffer(s), s.index = 0, s.count = 0 PROVE AsAppended(s, 0)
<1>1. s.size \in Nat \ {0}
  BY DEF Buffer
<1>2. Least(0, s.size) = 0
  BY <1>1 DEF Least
<1>3. NormalHas(s, 0) /\ FifoHas(s, 0) /\ RingHas(s, 0)
  BY <1>1 DEF NormalHas, FifoHas, RingHas
<1> QED
  BY <1>2, <1>3 DEF AsAppended, Has

LEMMA ClearedCells ==
    ASSUME NEW size \in Nat PROVE Storage!Cleared(size) \in [1 .. size -> Int]
BY DEF Storage!Cleared, Storage!NoValue

LEMMA AppendDataKeeps ==
    ASSUME StorageInv, NEW n \in 1 .. 2, Storage!AppendData(n) PROVE StorageInv'
<1> DEFINE values == Storage!Numbers(n)
           a == s2.appended
<1>1. /\ Storage!Fits(s1, n) /\ Storage!Defined(s1) /\ s1' = Storage!Appended(s1, values)
      /\ s2' = [s2 EXCEPT !.appended = a + n]
  BY DEF Storage!AppendData
<1>2. Continues(values, a, n)
  BY NumbersContinue
<1> HIDE DEF values
<1>3. Buffer(s1) /\ a \in Nat /\ n \in Nat /\ a + n # 0 /\ a + n \in Nat
  BY DEF StorageInv
<1>4. Buffer(s1') /\ (Has(s1, a) => Has(s1', a + n))
  BY <1>1, <1>2, <1>3, AppendedKeeps
<1> DEFINE total == a + n
<1> HIDE DEF total
<1>5. s2' = [s2 EXCEPT !.appended = total] /\ total \in Nat /\ total # 0
  BY <1>1, <1>3 DEF total
<1>6. DOMAIN s2' = {"appended", "edited"} /\ s2'.appended = total /\ s2'.edited = s2.edited
  BY <1>5 DEF StorageInv
<1> QED
  BY <1>4, <1>5, <1>6 DEF StorageInv, AsAppended, total

LEMMA SetDataKeeps ==
    ASSUME StorageInv, NEW n \in 1 .. 3, Storage!SetData(n) PROVE StorageInv'
<1> DEFINE values == Storage!Numbers(n)
           a == s2.appended
           start == [s1 EXCEPT !.index = 0]
           total == a + IF Storage!Fits(s1, n) THEN n ELSE 0
           edited == s2.edited \/ a > 0
<1>1. /\ s1' = IF Storage!Fits(s1, n) THEN Storage!Appended(start, values) ELSE start
      /\ s2' = [appended |-> total, edited |-> edited]
  BY DEF Storage!SetData
<1>2. Continues(values, a, n)
  BY NumbersContinue
<1>3. Buffer(s1) /\ a \in Nat
  BY DEF StorageInv
<1>4. total \in Nat
  BY <1>3
<1>5. /\ Buffer(start) /\ start.index = 0 /\ start.size = s1.size
      /\ ~edited => a = 0 /\ AsAppended(start, 0)
  <2>1. Buffer(start) /\ start.index = 0 /\ start.size = s1.size
        /\ start.count = s1.count
    <3> DEFINE z == 0 + 0
    <3> HIDE DEF z
    <3>1. z \in Nat /\ z = 0
      BY DEF z
    <3>2. start = [s1 EXCEPT !.index = z]
      BY <3>1
    <3>3. DOMAIN start = StorageFields /\ start.index = z /\ start.size = s1.size
          /\ start.type = s1.type /\ start.count = s1.count /\ start.cells = s1.cells
      BY <1>3, <3>2 DEF Buffer, StorageFields
    <3>4. Buffer(start)
      BY <1>3, <3>1, <3>3 DEF Buffer
    <3> QED
      BY <3>1, <3>3, <3>4
  <2>2. ASSUME ~edited PROVE a = 0 /\ AsAppended(start, 0)
    <3>1. ~s2.edited /\ ~(a > 0)
      BY <2>2
    <3>2. a = 0
      BY <1>3, <3>1
    <3>3. s1.count = Least(0, s1.size)
      BY <3>1, <3>2 DEF StorageInv, AsAppended, Has
    <3>4. s1.count = 0
      BY <1>3, <3>3 DEF Buffer, Least
    <3> HIDE DEF start
    <3> QED
      BY <2>1, <3>2, <3>4, EmptyIsKept
  <2> QED
    BY <2>1, <2>2
<1> HIDE DEF start, edited, values
<1>6. CASE Storage!Fits(s1, n)
  <2>1. s1' = Storage!Appended(start, values) /\ total = a + n
    BY <1>1, <1>6
  <2>2. Storage!Fits(start, n) /\ Storage!Defined(start)
    BY <1>3, <1>5, <1>6 DEF Storage!Fits, Storage!Defined, Buffer
  <2>3. Buffer(s1') /\ (Has(start, a) => Has(s1', a + n))
    BY <1>2, <1>3, <1>5, <2>1, <2>2, AppendedKeeps
  <2>4. total # 0
    BY <1>3, <2>1
  <2>5. ~edited => AsAppended(s1', total)
    BY <1>5, <2>1, <2>3, <2>4 DEF AsAppended
  <2> HIDE DEF total
  <2> QED
    BY <1>1, <1>4, <2>3, <2>5 DEF StorageInv
<1>7. CASE ~Storage!Fits(s1, n)
  <2>1. s1' = start /\ total = a
    BY <1>1, <1>3, <1>7
  <2>2. ~edited => AsAppended(s1', total)
    BY <1>5, <2>1
  <2> HIDE DEF total
  <2> QED
    BY <1>1, <1>4, <1>5, <2>1, <2>2 DEF StorageInv
<1> QED
  BY <1>6, <1>7

LEMMA SettingCellsKeeps ==
    ASSUME StorageInv, NEW i \in Int, i \in Nat,
           Storage!SetDataElement(i) \/ Storage!SetCurrentPosition(i)
    PROVE  StorageInv'
<1>1. Buffer(s1) /\ DOMAIN s2 = {"appended", "edited"} /\ s2.appended \in Nat
  BY DEF StorageInv
<1>2. s2' = [s2 EXCEPT !.edited = TRUE]
  BY DEF Storage!SetDataElement, Storage!SetCurrentPosition
<1>3. DOMAIN s2' = {"appended", "edited"} /\ s2'.appended = s2.appended /\ s2'.edited
  BY <1>1, <1>2
<1>4. CASE Storage!SetDataElement(i)
  <2> DEFINE cells == [s1.cells EXCEPT ![i] = Storage!NoValue]
  <2>1. s1' = [s1 EXCEPT !.cells = cells] /\ i \in 1 .. s1.size
    BY <1>4 DEF Storage!SetDataElement
  <2>2. cells \in [1 .. s1.size -> Int]
    BY <1>1, <2>1 DEF Buffer, Storage!NoValue
  <2> HIDE DEF cells
  <2>3. DOMAIN s1' = StorageFields /\ s1'.index = s1.index /\ s1'.size = s1.size
        /\ s1'.type = s1.type /\ s1'.count = s1.count /\ s1'.cells = cells
    BY <1>1, <2>1 DEF Buffer, StorageFields
  <2>4. Buffer(s1')
    BY <1>1, <2>2, <2>3 DEF Buffer
  <2> QED
    BY <1>1, <1>3, <2>4 DEF StorageInv
<1>5. CASE Storage!SetCurrentPosition(i)
  <2>1. s1' = [s1 EXCEPT !.index = i]
    BY <1>5 DEF Storage!SetCurrentPosition
  <2>2. DOMAIN s1' = StorageFields /\ s1'.index = i /\ s1'.size = s1.size
        /\ s1'.type = s1.type /\ s1'.count = s1.count /\ s1'.cells = s1.cells
    BY <1>1, <2>1 DEF Buffer, StorageFields
  <2>3. Buffer(s1')
    BY <1>1, <2>2 DEF Buffer
  <2> QED
    BY <1>1, <1>3, <2>3 DEF StorageInv
<1> QED
  BY <1>4, <1>5

LEMMA ClearBufferKeeps ==
    ASSUME StorageInv, Storage!ClearBuffer PROVE StorageInv'
<1> DEFINE cells == Storage!Cleared(s1.size)
           z == 0 + 0
<1>1. z \in Nat /\ z = 0
  OBVIOUS
<1> HIDE DEF z
<1>2. s1' = [s1 EXCEPT !.cells = cells, !.index = z, !.count = z]
      /\ s2' = [appended |-> z, edited |-> FALSE]
  BY <1>1 DEF Storage!ClearBuffer
<1>3. Buffer(s1) /\ cells \in [1 .. s1.size -> Int]
  BY ClearedCells DEF StorageInv, Buffer
<1> HIDE DEF cells
<1>4. DOMAIN s1' = StorageFields /\ s1'.index = z /\ s1'.size = s1.size
      /\ s1'.type = s1.type /\ s1'.count = z /\ s1'.cells = cells
  BY <1>2, <1>3 DEF Buffer, StorageFields
<1>5. Buffer(s1')
  BY <1>1, <1>3, <1>4 DEF Buffer
<1>6. AsAppended(s1', 0)
  BY <1>1, <1>4, <1>5, EmptyIsKept
<1> QED
  BY <1>1, <1>2, <1>5, <1>6 DEF StorageInv

LEMMA SetBufferSizeKeeps ==
    ASSUME StorageInv, NEW size \in StorageSizes, Storage!SetBufferSize(size)
    PROVE  StorageInv'
<1> DEFINE cells == Storage!Cleared(size)
           edited == s1.index # 0
           z == 0 + 0
<1>1. z \in Nat /\ z = 0 /\ size \in Nat \ {0}
  BY StorageAssumption
<1> HIDE DEF z
<1>2. s1' = [s1 EXCEPT !.cells = cells, !.count = z, !.size = size]
      /\ s2' = [appended |-> z, edited |-> edited]
  BY <1>1 DEF Storage!SetBufferSize
<1>3. Buffer(s1) /\ cells \in [1 .. size -> Int]
  BY <1>1, ClearedCells DEF StorageInv
<1> HIDE DEF cells
<1>4. DOMAIN s1' = StorageFields /\ s1'.index = s1.index /\ s1'.size = size
      /\ s1'.type = s1.type /\ s1'.count = z /\ s1'.cells = cells
  BY <1>2, <1>3 DEF Buffer, StorageFields
<1>5. Buffer(s1')
  BY <1>1, <1>3, <1>4 DEF Buffer
<1>6. ~edited => AsAppended(s1', 0)
  BY <1>1, <1>4, <1>5, EmptyIsKept
<1> HIDE DEF edited
<1> QED
  BY <1>1, <1>2, <1>5, <1>6 DEF StorageInv

LEMMA StorageStep ==
    ASSUME StorageInv, Storage!StorageNext PROVE StorageInv'
<1>1. ASSUME NEW i \in 1 .. Storage!Max(StorageSizes), Storage!SetDataElement(i)
      PROVE  StorageInv'
  <2>1. i \in 1 .. s1.size /\ s1.size \in Nat
    BY <1>1 DEF Storage!SetDataElement, StorageInv, Buffer
  <2> QED
    BY <1>1, <2>1, SettingCellsKeeps
<1>2. ASSUME NEW i \in 0 .. Storage!Max(StorageSizes), Storage!SetCurrentPosition(i)
      PROVE  StorageInv'
  <2>1. i \in Int /\ i \in Nat
    OBVIOUS
  <2> QED
    BY <1>2, <2>1, SettingCellsKeeps
<1> QED
  BY <1>1, <1>2, AppendDataKeeps, SetDataKeeps, ClearBufferKeeps, SetBufferSizeKeeps
     DEF Storage!StorageNext

LEMMA StorageInitKeeps ==
    ASSUME Storage!StorageInit PROVE StorageInv
<1> DEFINE z == 0 + 0
<1>1. z \in Nat /\ z = 0
  OBVIOUS
<1> HIDE DEF z
<1>2. PICK size \in StorageSizes : \E type \in Storage!BufferTypes :
        s1 = [size |-> size, type |-> type, index |-> 0, count |-> 0,
              cells |-> Storage!Cleared(size)]
  BY DEF Storage!StorageInit
<1>3. PICK type \in Storage!BufferTypes :
        s1 = [size |-> size, type |-> type, index |-> 0, count |-> 0,
              cells |-> Storage!Cleared(size)]
  BY <1>2
<1>4. s1 = [size |-> size, type |-> type, index |-> z, count |-> z,
              cells |-> Storage!Cleared(size)]
  BY <1>1, <1>3
<1>5. size \in Nat \ {0} /\ Storage!Cleared(size) \in [1 .. size -> Int]
  BY StorageAssumption, ClearedCells
<1>6. type \in {"normal", "ring", "fifo"}
  BY DEF Storage!BufferTypes
<1>7. DOMAIN s1 = StorageFields /\ s1.index = z /\ s1.size = size
      /\ s1.type = type /\ s1.count = z /\ s1.cells = Storage!Cleared(size)
  BY <1>4 DEF StorageFields
<1>8. Buffer(s1)
  BY <1>1, <1>5, <1>6, <1>7 DEF Buffer
<1>9. AsAppended(s1, 0)
  BY <1>1, <1>7, <1>8, EmptyIsKept
<1>10. s2 = [appended |-> z, edited |-> FALSE]
  BY <1>1 DEF Storage!StorageInit
<1> QED
  BY <1>1, <1>8, <1>9, <1>10 DEF StorageInv

LEMMA StorageFollows ==
    ASSUME StorageInv PROVE Storage!StatisticsAreOfData
BY StatisticsFollow DEF StorageInv, AsAppended, Storage!StatisticsAreOfData

(***************************************************************************)
(* Storages and events in the module that runs them                        *)
(***************************************************************************)
LEMMA StoragePart ==
    ASSUME [Next]_vars, part = "storage"
    PROVE  Storage!StorageNext \/ UNCHANGED <<s1, s2>>
BY DEF Next, OtherNext, vars, slots

LEMMA EventPart ==
    ASSUME [Next]_vars, part = "event"
    PROVE  Event!EventNext \/ UNCHANGED <<s1, s2, s3, s4>>
BY DEF Next, OtherNext, vars, slots

LEMMA StorageHolds == Spec => [](part = "storage" => StorageInv)
<1>1. Init => (part = "storage" => StorageInv)
  <2> SUFFICES ASSUME Init, part = "storage" PROVE Storage!StorageInit
    BY StorageInitKeeps
  <2> QED
    BY DEF Init
<1>2. (part = "storage" => StorageInv) /\ [Next]_vars => (part = "storage" => StorageInv)'
  <2> SUFFICES ASSUME part = "storage" => StorageInv, [Next]_vars, part' = "storage"
               PROVE  StorageInv'
    OBVIOUS
  <2>1. part = "storage" /\ StorageInv
    BY PartStays
  <2>2. CASE Storage!StorageNext
    BY <2>1, <2>2, StorageStep
  <2>3. CASE UNCHANGED <<s1, s2>>
    BY <2>1, <2>3 DEF StorageInv
  <2> QED
    BY <2>1, <2>2, <2>3, StoragePart
<1> QED
  BY <1>1, <1>2, PTL DEF Spec

LEMMA EventsHold == Spec => [](part = "event" => EventInv)
<1>1. Init => (part = "event" => EventInv)
  <2> SUFFICES ASSUME Init, part = "event" PROVE Event!EventInit
    BY EventInitKeeps
  <2> QED
    BY DEF Init
<1>2. (part = "event" => EventInv) /\ [Next]_vars => (part = "event" => EventInv)'
  <2> SUFFICES ASSUME part = "event" => EventInv, [Next]_vars, part' = "event"
               PROVE  EventInv'
    OBVIOUS
  <2>1. part = "event" /\ EventInv
    BY PartStays
  <2>2. CASE Event!EventNext
    BY <2>1, <2>2, EventStep
  <2>3. CASE UNCHANGED <<s1, s2, s3, s4>>
    BY <2>1, <2>3 DEF EventInv
  <2> QED
    BY <2>1, <2>2, <2>3, EventPart
<1> QED
  BY <1>1, <1>2, PTL DEF Spec

\* The average, the least and the greatest value of a storage are those of the data that
\* it should have kept, for buffers of any sizes, any number of values and whoever
\* appended them; and an event whose input has to be armed again is at most four
\* executions behind.
THEOREM DataIsSafe == Spec => []DataSafe
<1>1. (part = "storage" => StorageInv) => (part = "storage" => Storage!StatisticsAreOfData)
  BY StorageFollows
<1>2. (part = "event" => EventInv) => (part = "event" => Event!ReArmed)
  BY DEF EventInv, Owes, Event!ReArmed
<1>3. (part = "storage" => StorageInv) /\ (part = "event" => EventInv) => DataSafe
  BY <1>1, <1>2, Zenon DEF DataSafe
<1> QED
  BY <1>3, StorageHolds, EventsHold, PTL
=============================================================================
