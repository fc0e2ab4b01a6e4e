---------------------------- MODULE HomingProofs ----------------------------
(***************************************************************************)
(* Theorems about Homing: whatever the switches, the marks, the encoders   *)
(* and the times are, and whatever command comes when, a homing is in a    *)
(* state of its own table, the axis goes back to its own encoder, and a    *)
(* homing that ends by itself has homed what it is to home or says that it *)
(* has not.                                                                *)
(***************************************************************************)
EXTENDS Homing, TLAPS

\* The fields of the trajectory generator and of the axis.
TrajFields == {"enable", "execute", "busy", "mode", "start", "pos", "local", "target", "vel",
               "nom", "prev", "dist"}
AxisFields == {"traj", "flags", "source", "execute", "executeOld", "enable", "enabled", "command",
               "pos", "velocity", "setpoint", "actual", "speed", "busy", "error", "at", "out",
               "offset", "onTarget", "atTarget", "now", "was", "filter", "enc", "latch",
               "primary", "oldPrimary", "home", "refs", "post", "timeout", "kind", "state",
               "running", "time", "latch1", "latch2", "latches"}

\* A record of the axis.
Shaped(a) ==
    /\ DOMAIN a = AxisFields /\ DOMAIN a.traj = TrajFields /\ DOMAIN a.enc = Encoders
    /\ a.error \in BOOLEAN

\* Nothing else differs.
Only(r, a, fields) == \A f \in AxisFields \ fields : r[f] = a[f]

\* The calls of the generator that only set something keep its shape, and that it is busy.
LEMMA ShapeOfTraj ==
    ASSUME NEW t, DOMAIN t = TrajFields, NEW x
    PROVE  /\ DOMAIN SetTargetPos(t, x) = TrajFields /\ SetTargetPos(t, x).busy = t.busy
           /\ DOMAIN SetTargetVel(t, x) = TrajFields /\ SetTargetVel(t, x).busy = t.busy
           /\ DOMAIN SetCurrentPosSet(t, x) = TrajFields /\ SetCurrentPosSet(t, x).busy = t.busy
           /\ DOMAIN [t EXCEPT !.mode = x] = TrajFields /\ [t EXCEPT !.mode = x].busy = t.busy
           /\ DOMAIN [t EXCEPT !.start = x] = TrajFields /\ [t EXCEPT !.start = x].busy = t.busy
           /\ DOMAIN SetTrajExecute(t, x) = TrajFields
           /\ SetTrajExecute(t, FALSE).busy = t.busy
BY DEF SetTargetPos, SetTargetVel, SetCurrentPosSet, SetTrajExecute, Rises, TrajFields

\* A step of the generator does not start a motion.
LEMMA NextPosSet ==
    ASSUME NEW t, DOMAIN t = TrajFields, NEW locks
    PROVE  LET r == GetNextPosSet(t, locks, FALSE)
           IN  DOMAIN r = TrajFields /\ (r.busy => t.busy)
BY DEF GetNextPosSet, Moves, InternalTraj, TrajFields

\* A motion that is taken back leaves everything else alone, its end included.
LEMMA HaltFields ==
    ASSUME NEW a, Shaped(a)
    PROVE  LET r == Halt(a)
           IN  /\ Shaped(r) /\ Only(r, a, {"traj", "flags", "error"})
               /\ r.traj.busy = a.traj.busy /\ r.error = a.error
<1> DEFINE r == Halt(a)
           traj == SetTrajExecute(a.traj, FALSE)
           flags == IF Rises(a.traj, FALSE) THEN a.flags \ {"noExecute"} ELSE a.flags
           error == a.error \/ (FALSE /\ ~a.traj.enable)
<1>1. r = [a EXCEPT !.traj = traj, !.flags = flags, !.error = error]
  BY Zenon DEF Halt, TrajExecute
<1>2. error = a.error
  BY Zenon DEF Shaped
<1>3. DOMAIN traj = TrajFields /\ traj.busy = a.traj.busy
  BY ShapeOfTraj DEF Shaped
<1> HIDE DEF r, traj, flags, error
<1> QED
  BY <1>1, <1>2, <1>3 DEF Shaped, Only, AxisFields, r

\* A new position for controller, drive and trajectory.
LEMMA BumplessFields ==
    ASSUME NEW a, Shaped(a), NEW to
    PROVE  LET r == SetNewPositionCtrlDrvTrajBumpless(a, to)
           IN  /\ Shaped(r) /\ Only(r, a, {"traj", "actual", "setpoint", "offset"})
               /\ r.traj.busy = a.traj.busy
<1> DEFINE r == SetNewPositionCtrlDrvTrajBumpless(a, to)
           traj == SetTargetPos(SetCurrentPosSet(a.traj, to), to)
           offset == Raw(a, a.primary) - to
<1>1. r = [a EXCEPT !.traj = traj, !.actual = to, !.setpoint = to, !.offset = offset]
  BY DEF SetNewPositionCtrlDrvTrajBumpless
<1> DEFINE set == SetCurrentPosSet(a.traj, to)
<1>2. DOMAIN set = TrajFields /\ set.busy = a.traj.busy
  BY ShapeOfTraj DEF Shaped
<1>3. DOMAIN traj = TrajFields /\ traj.busy = set.busy
  BY <1>2, ShapeOfTraj
<1> HIDE DEF r, set, traj, offset
<1> QED
  BY <1>1, <1>2, <1>3 DEF Shaped, Only, AxisFields, r

\* Control goes to the encoder for homing, and what had it is remembered.
LEMMA SwitchFields ==
    ASSUME NEW a, Shaped(a)
    PROVE  LET r == SwitchEncodersIfNeeded(a)
           IN  /\ Shaped(r) /\ r.primary = a.home
               /\ Only(r, a, {"traj", "actual", "setpoint", "offset", "primary", "oldPrimary"})
               /\ r.traj.busy = a.traj.busy
               /\ r.oldPrimary = IF a.home = a.primary THEN a.oldPrimary ELSE a.primary
<1> DEFINE r == SwitchEncodersIfNeeded(a)
           b == SetNewPositionCtrlDrvTrajBumpless(a, ActPos(a, a.home))
<1>1. CASE a.home = a.primary
  BY <1>1 DEF SwitchEncodersIfNeeded, Shaped, Only
<1>2. CASE a.home # a.primary
  <2>1. r = [b EXCEPT !.oldPrimary = a.primary, !.primary = a.home]
    BY <1>2 DEF SwitchEncodersIfNeeded
  <2>2. Shaped(b) /\ Only(b, a, {"traj", "actual", "setpoint", "offset"})
        /\ b.traj.busy = a.traj.busy
    BY BumplessFields
  <2> HIDE DEF r, b
  <2> QED
    BY <1>2, <2>1, <2>2 DEF Shaped, Only, AxisFields, r
<1> QED
  BY <1>1, <1>2

\* Control goes back to the encoder that had it.
LEMMA SwitchBackFields ==
    ASSUME NEW a, Shaped(a)
    PROVE  LET r == SwitchBackEncodersIfNeeded(a)
           IN  /\ Shaped(r) /\ r.primary = a.oldPrimary
               /\ Only(r, a, {"traj", "actual", "setpoint", "offset", "primary"})
               /\ r.traj.busy = a.traj.busy
<1> DEFINE r == SwitchBackEncodersIfNeeded(a)
           b == SetNewPositionCtrlDrvTrajBumpless(a, ActPos(a, a.oldPrimary))
<1>1. CASE a.oldPrimary = a.primary
  BY <1>1 DEF SwitchBackEncodersIfNeeded, Shaped, Only
<1>2. CASE a.oldPrimary # a.primary
  <2>1. r = [b EXCEPT !.primary = a.oldPrimary]
    BY <1>2 DEF SwitchBackEncodersIfNeeded
  <2>2. Shaped(b) /\ Only(b, a, {"traj", "actual", "setpoint", "offset"})
        /\ b.traj.busy = a.traj.busy
    BY BumplessFields
  <2> HIDE DEF r, b
  <2> QED
    BY <1>2, <2>1, <2>2 DEF Shaped, Only, AxisFields, r
<1> QED
  BY <1>1, <1>2

\* What the end of a sequence leaves alone.
AtEnd == {"traj", "flags", "actual", "setpoint", "offset", "primary", "running", "state", "time"}

\* stopSeq() puts the sequence into its first state, with the time at 0.
LEMMA StopSeqFields ==
    ASSUME NEW a, Shaped(a)
    PROVE  LET r == StopSeq(a)
           IN  /\ Shaped(r) /\ Only(r, a, AtEnd)
               /\ r.primary = a.oldPrimary /\ r.running = FALSE /\ r.state = 0 /\ r.time = 0
<1> DEFINE r == StopSeq(a)
           b == Halt(a)
           c == SwitchBackEncodersIfNeeded(b)
           z == 0
<1>1. r = [c EXCEPT !.running = FALSE, !.state = z, !.time = z]
  BY DEF StopSeq
<1>2. Shaped(b) /\ Only(b, a, {"traj", "flags", "error"}) /\ b.error = a.error
  BY HaltFields
<1>3. Shaped(c) /\ c.primary = b.oldPrimary
      /\ Only(c, b, {"traj", "actual", "setpoint", "offset", "primary"})
  BY <1>2, SwitchBackFields
<1>4. b.oldPrimary = a.oldPrimary
  BY <1>2 DEF Only, AxisFields
<1>5. Only(c, a, {"traj", "flags", "actual", "setpoint", "offset", "primary"})
  BY <1>2, <1>3 DEF Only, AxisFields
<1> HIDE DEF r, b, c, z
<1>6. Shaped(r) /\ Only(r, a, AtEnd) /\ r.primary = a.oldPrimary /\ r.running = FALSE
      /\ r.state = z /\ r.time = z
  BY <1>1, <1>3, <1>4, <1>5 DEF Shaped, Only, AxisFields, AtEnd
<1> QED
  BY <1>6 DEF r, z

\* The same with an error.
LEMMA FailedFields ==
    ASSUME NEW a, Shaped(a)
    PROVE  LET r == Failed(a)
           IN  /\ Shaped(r) /\ Only(r, a, AtEnd \cup {"error"}) /\ r.error = TRUE
               /\ r.primary = a.oldPrimary /\ r.running = FALSE /\ r.state = 0 /\ r.time = 0
<1> DEFINE r == Failed(a)
           b == StopSeq(a)
<1>1. r = [b EXCEPT !.error = TRUE]
  BY DEF Failed
<1>2. Shaped(b) /\ Only(b, a, AtEnd)
      /\ b.primary = a.oldPrimary /\ b.running = FALSE /\ b.state = 0 /\ b.time = 0
  BY StopSeqFields
<1> HIDE DEF r, b
<1> QED
  BY <1>1, <1>2 DEF Shaped, Only, AxisFields, AtEnd, r

(***************************************************************************)
(* The tables                                                              *)
(***************************************************************************)
\* What a row of a table may do: home, or anything else.
Homes == {"home", "homeBetween", "homeAbs"}
Deeds == {"halt", "disarm", "off", "offArmed", "on", "watch", "latch1", "latch2", "latchMark"}
States(kind) == {0, 1000, 1001, 1002} \cup (IF kind = 15 THEN {} ELSE DOMAIN Table(kind))
Numbers == 1 .. 12 \cup {15, 21, 22}

\* A row leads to another one, or home.  The marks are counted up to state 4.
RowOk(row, last, state) ==
    /\ \/ row.do \in Homes /\ row.next = 0
       \/ row.do \in Deeds /\ row.next \in 1 .. last
    /\ row.when = "mark" => state < 5 /\ row.next >= 5
    /\ state >= 5 => row.next = 0 \/ row.next >= 5
\* A table with that many rows.
TableOk(table, last) ==
    DOMAIN table = 1 .. last /\ \A s \in 1 .. last : RowOk(table[s], last, s)

\* A row that leads to another one.
LEMMA RowsFit ==
    ASSUME NEW safe, NEW when, NEW deed \in Deeds, NEW last \in 2 .. 7, NEW next \in 1 .. last,
           NEW state \in 0 .. 7, when = "mark" => state < 5 /\ next >= 5,
           state >= 5 => next >= 5
    PROVE  RowOk(Row(safe, when, deed, next), last, state)
BY DEF RowOk, Row

\* The last row of a table.
LEMMA EndFits ==
    ASSUME NEW side, NEW deed \in Homes, NEW last \in 2 .. 7, NEW state \in 0 .. 7
    PROVE  RowOk(End(side, deed), last, state)
<1> DEFINE r == End(side, deed)
           z == 0
<1>1. r = [safe |-> side, when |-> "settled", do |-> deed, next |-> z]
  BY DEF End, Row
<1> HIDE DEF r, z
<1>2. r.next = z /\ r.do = deed /\ r.when # "mark"
  BY <1>1
<1>3. RowOk(r, last, state)
  BY <1>2 DEF RowOk, z
<1> QED
  BY <1>3 DEF r

\* Sequences 1 and 2.
LEMMA OnLimitOk == ASSUME NEW d PROVE TableOk(OnLimit(d), 4)
<1> DEFINE t == OnLimit(d)
<1>1. DOMAIN t = 1 .. 4
  BY DEF OnLimit
<1>2. /\ t[1] = ToLimit
      /\ t[2] = Turn(d)
      /\ t[3] = Row(-d, "leave", "latch1", 4)
      /\ t[4] = End(-d, "home")
  BY DEF OnLimit
<1> HIDE DEF t
<1>3. RowOk(t[1], 4, 1)
  BY <1>2, RowsFit DEF Deeds, Homes, ToLimit
<1>4. RowOk(t[2], 4, 2)
  BY <1>2, RowsFit DEF Deeds, Homes, Turn
<1>5. RowOk(t[3], 4, 3)
  BY <1>2, RowsFit DEF Deeds, Homes
<1>6. RowOk(t[4], 4, 4)
  BY <1>2, EndFits DEF Deeds, Homes
<1>7. \A s \in 1 .. 4 : s = 1 \/ s = 2 \/ s = 3 \/ s = 4
  OBVIOUS
<1> QED
  BY <1>1, <1>3, <1>4, <1>5, <1>6, <1>7 DEF TableOk, t

\* Sequences 3 and 4.
LEMMA OnCamOk == ASSUME NEW d PROVE TableOk(OnCam(d), 4)
<1> DEFINE t == OnCam(d)
<1>1. DOMAIN t = 1 .. 4
  BY DEF OnCam
<1>2. /\ t[1] = ToLimit
      /\ t[2] = Turn(d)
      /\ t[3] = Row(-d, "cam", "latch1", 4)
      /\ t[4] = End(-d, "home")
  BY DEF OnCam
<1> HIDE DEF t
<1>3. RowOk(t[1], 4, 1)
  BY <1>2, RowsFit DEF Deeds, Homes, ToLimit
<1>4. RowOk(t[2], 4, 2)
  BY <1>2, RowsFit DEF Deeds, Homes, Turn
<1>5. RowOk(t[3], 4, 3)
  BY <1>2, RowsFit DEF Deeds, Homes
<1>6. RowOk(t[4], 4, 4)
  BY <1>2, EndFits DEF Deeds, Homes
<1>7. \A s \in 1 .. 4 : s = 1 \/ s = 2 \/ s = 3 \/ s = 4
  OBVIOUS
<1> QED
  BY <1>1, <1>3, <1>4, <1>5, <1>6, <1>7 DEF TableOk, t

\* Sequences 21 and 22.
LEMMA OnAbsBitsOk == ASSUME NEW d, NEW leave, leave # "mark" 
    PROVE  /\ TableOk(OnAbsBits(d, leave), 4) /\ OnAbsBits(d, leave)[3].do = "halt"
           /\ OnAbsBits(d, leave)[4].when = "settled"
<1> DEFINE t == OnAbsBits(d, leave)
<1>1. DOMAIN t = 1 .. 4
  BY DEF OnAbsBits
<1>2. /\ t[1] = Row(-d, "limit", "halt", 2)
      /\ t[2] = Turn(d)
      /\ t[3] = Row(-d, leave, "halt", 4)
      /\ t[4] = End(-d, "homeAbs")
  BY DEF OnAbsBits
<1> HIDE DEF t
<1>3. RowOk(t[1], 4, 1)
  BY <1>2, RowsFit DEF Deeds, Homes
<1>4. RowOk(t[2], 4, 2)
  BY <1>2, RowsFit DEF Deeds, Homes, Turn
<1>5. RowOk(t[3], 4, 3)
  BY <1>2, RowsFit DEF Deeds, Homes
<1>6. RowOk(t[4], 4, 4)
  BY <1>2, EndFits DEF Deeds, Homes
<1>7. \A s \in 1 .. 4 : s = 1 \/ s = 2 \/ s = 3 \/ s = 4
  OBVIOUS
<1>8. t[4].when = "settled" /\ t[3].do = "halt"
  BY <1>2 DEF End, Row
<1> QED
  BY <1>1, <1>3, <1>4, <1>5, <1>6, <1>7, <1>8 DEF TableOk, t

\* Sequences 7 and 8.
LEMMA RisingOk == ASSUME NEW d PROVE TableOk(Rising(d), 2)
<1> DEFINE t == Rising(d)
<1>1. DOMAIN t = 1 .. 2
  BY DEF Rising
<1>2. /\ t[1] = Row(d, "rise", "latch1", 2)
      /\ t[2] = End(0, "home")
  BY DEF Rising
<1> HIDE DEF t
<1>3. RowOk(t[1], 2, 1)
  BY <1>2, RowsFit DEF Deeds, Homes
<1>4. RowOk(t[2], 2, 2)
  BY <1>2, EndFits DEF Deeds, Homes
<1>5. \A s \in 1 .. 2 : s = 1 \/ s = 2
  OBVIOUS
<1> QED
  BY <1>1, <1>3, <1>4, <1>5 DEF TableOk, t

\* Sequences 5 and 6.
LEMMA OnCentreOk == ASSUME NEW d PROVE TableOk(OnCentre(d), 7)
<1> DEFINE t == OnCentre(d)
<1>1. DOMAIN t = 1 .. 7
  BY DEF OnCentre
<1>2. /\ t[1] = ToLimit
      /\ t[2] = Turn(d)
      /\ t[3] = Row(-d, "cam", "latch1", 4)
      /\ t[4] = Row(-d, "cam", "halt", 5)
      /\ t[5] = Row(-d, "standing", "on", 6)
      /\ t[6] = Row(d, "cam", "latch2", 7)
      /\ t[7] = End(d, "homeBetween")
  BY DEF OnCentre
<1> HIDE DEF t
<1>3. RowOk(t[1], 7, 1)
  BY <1>2, RowsFit DEF Deeds, Homes, ToLimit
<1>4. RowOk(t[2], 7, 2)
  BY <1>2, RowsFit DEF Deeds, Homes, Turn
<1>5. RowOk(t[3], 7, 3)
  BY <1>2, RowsFit DEF Deeds, Homes
<1>6. RowOk(t[4], 7, 4)
  BY <1>2, RowsFit DEF Deeds, Homes
<1>7. RowOk(t[5], 7, 5)
  BY <1>2, RowsFit DEF Deeds, Homes
<1>8. RowOk(t[6], 7, 6)
  BY <1>2, RowsFit DEF Deeds, Homes
<1>9. RowOk(t[7], 7, 7)
  BY <1>2, EndFits DEF Deeds, Homes
<1>10. \A s \in 1 .. 7 : s = 1 \/ s = 2 \/ s = 3 \/ s = 4 \/ s = 5 \/ s = 6 \/ s = 7
  OBVIOUS
<1> QED
  BY <1>1, <1>3, <1>4, <1>5, <1>6, <1>7, <1>8, <1>9, <1>10 DEF TableOk, t

\* Sequences 9 and 10.
LEMMA RisingCentreOk == ASSUME NEW d PROVE TableOk(RisingCentre(d), 5)
<1> DEFINE t == RisingCentre(d)
<1>1. DOMAIN t = 1 .. 5
  BY DEF RisingCentre
<1>2. /\ t[1] = Row(d, "rise", "latch1", 2)
      /\ t[2] = Row(d, "fall", "halt", 3)
      /\ t[3] = Row(d, "standing", "off", 4)
      /\ t[4] = Row(-d, "rise", "latch2", 5)
      /\ t[5] = End(0, "homeBetween")
  BY DEF RisingCentre
<1> HIDE DEF t
<1>3. RowOk(t[1], 5, 1)
  BY <1>2, RowsFit DEF Deeds, Homes
<1>4. RowOk(t[2], 5, 2)
  BY <1>2, RowsFit DEF Deeds, Homes
<1>5. RowOk(t[3], 5, 3)
  BY <1>2, RowsFit DEF Deeds, Homes
<1>6. RowOk(t[4], 5, 4)
  BY <1>2, RowsFit DEF Deeds, Homes
<1>7. RowOk(t[5], 5, 5)
  BY <1>2, EndFits DEF Deeds, Homes
<1>8. \A s \in 1 .. 5 : s = 1 \/ s = 2 \/ s = 3 \/ s = 4 \/ s = 5
  OBVIOUS
<1> QED
  BY <1>1, <1>3, <1>4, <1>5, <1>6, <1>7, <1>8 DEF TableOk, t

\* Sequences 11 and 12.
LEMMA OnMarkOk == ASSUME NEW d PROVE TableOk(OnMark(d), 5)
<1> DEFINE t == OnMark(d)
<1>1. DOMAIN t = 1 .. 5
  BY DEF OnMark
<1>2. /\ t[1] = Row(0, "limit", "disarm", 2)
      /\ t[2] = Row(-d, "standing", "offArmed", 3)
      /\ t[3] = Row(-d, "leave", "watch", 4)
      /\ t[4] = Row(-d, "mark", "latchMark", 5)
      /\ t[5] = End(-d, "home")
  BY DEF OnMark
<1> HIDE DEF t
<1>3. RowOk(t[1], 5, 1)
  BY <1>2, RowsFit DEF Deeds, Homes
<1>4. RowOk(t[2], 5, 2)
  BY <1>2, RowsFit DEF Deeds, Homes
<1>5. RowOk(t[3], 5, 3)
  BY <1>2, RowsFit DEF Deeds, Homes
<1>6. RowOk(t[4], 5, 4)
  BY <1>2, RowsFit DEF Deeds, Homes
<1>7. RowOk(t[5], 5, 5)
  BY <1>2, EndFits DEF Deeds, Homes
<1>8. \A s \in 1 .. 5 : s = 1 \/ s = 2 \/ s = 3 \/ s = 4 \/ s = 5
  OBVIOUS
<1> QED
  BY <1>1, <1>3, <1>4, <1>5, <1>6, <1>7, <1>8 DEF TableOk, t

\* The state after which the break is missing, and the next one.
Fits22 == Table(22)[3].do = "halt" /\ Table(22)[4].when = "settled"

\* Every sequence has a table of 2 to 7 rows.
LEMMA TablesOk ==
    ASSUME NEW kind \in Numbers \ {15}
    PROVE  \E last \in 2 .. 7 :
               /\ TableOk(Table(kind), last)
               /\ kind = 22 => last = 4 /\ Fits22
<1>1. kind \in {1, 2} \/ kind \in {3, 4} \/ kind \in {5, 6} \/ kind \in {7, 8} \/ kind \in {9, 10}
      \/ kind \in {11, 12} \/ kind = 21 \/ kind = 22
  BY DEF Numbers
<1>2. CASE kind \in {1, 2}
  BY <1>2, OnLimitOk DEF Table, SeqHoming1, SeqHoming2
<1>3. CASE kind \in {3, 4}
  BY <1>3, OnCamOk DEF Table, SeqHoming3, SeqHoming4
<1>4. CASE kind \in {5, 6}
  BY <1>4, OnCentreOk DEF Table, SeqHoming5, SeqHoming6
<1>5. CASE kind \in {7, 8}
  BY <1>5, RisingOk DEF Table, SeqHoming7, SeqHoming8
<1>6. CASE kind \in {9, 10}
  BY <1>6, RisingCentreOk DEF Table, SeqHoming9, SeqHoming10
<1>7. CASE kind \in {11, 12}
  BY <1>7, OnMarkOk DEF Table, SeqHoming11, SeqHoming12
<1>8. CASE kind = 21
  BY <1>8, OnAbsBitsOk DEF Table, SeqHoming21
<1>9. CASE kind = 22
  BY <1>9, OnAbsBitsOk DEF Table, SeqHoming22, Fits22
<1> QED
  BY <1>1, <1>2, <1>3, <1>4, <1>5, <1>6, <1>7, <1>8, <1>9

\* The last state of a sequence.
Last(kind) == CHOOSE last \in 2 .. 7 :
    /\ TableOk(Table(kind), last)
    /\ kind = 22 => last = 4 /\ Fits22

\* The same with the number of its rows.
LEMMA RowsOk ==
    ASSUME NEW kind \in Numbers \ {15}
    PROVE  /\ Last(kind) \in 2 .. 7 /\ DOMAIN Table(kind) = 1 .. Last(kind)
           /\ \A s \in 1 .. Last(kind) : RowOk(Table(kind)[s], Last(kind), s)
           /\ \A d : RowOk(Stand(d), Last(kind), 0)
           /\ kind = 22 => Last(kind) = 4 /\ Fits22
<1>1. Last(kind) \in 2 .. 7 /\ TableOk(Table(kind), Last(kind))
      /\ (kind = 22 => Last(kind) = 4 /\ Fits22)
  BY TablesOk DEF Last
<1>2. \A d : RowOk(Stand(d), Last(kind), 0)
  BY <1>1 DEF RowOk, Stand, Row, Deeds
<1> QED
  BY <1>1, <1>2 DEF TableOk

(***************************************************************************)
(* The invariant                                                           *)
(***************************************************************************)
\* Every encoder that is to be referenced has been.
AllHomed(a) ==
    \A e \in a.refs \cap (IF a.kind = 15 THEN {a.home} ELSE Encoders) : a.enc[e].homed

\* What holds of the axis in the middle of a step as well.  n is the number of commands.
Base(a, n) ==
    /\ Shaped(a) /\ n \in Nat
    /\ a.kind \in Kinds \cup {0} /\ a.home \in Encoders /\ a.refs \subseteq Encoders
    /\ a.timeout \in Nat /\ a.source = "internal" /\ a.command \in {"pos", "home"}
    /\ a.oldPrimary = 0 /\ a.atTarget \in 0 .. (AtTargetTime + 1)
    /\ a.latches \in Nat /\ a.latches < LatchCount + n

\* A sequence runs, in whatever state.
Runs(a, n) ==
    /\ Base(a, n) /\ a.running = TRUE /\ n # 0
    /\ a.command = "home" /\ a.kind \in Kinds
    /\ a.primary \in {0, a.home} /\ a.time \in 0 .. a.timeout

\* A homing that has not seen its marks has room to count them, and one that goes on to
\* move after it has homed.
Places(a, n) ==
    /\ a.state \in States(a.kind)
    /\ a.state < 5 => a.latches + 1 < LatchCount + n
    /\ a.state >= 1000 => AllHomed(a)

\* Without a sequence the axis is controlled by its own encoder.
Rests(a, n) ==
    /\ Base(a, n) /\ a.running = FALSE
    /\ a.state = 0 /\ a.primary = 0 /\ a.time \in 0 .. a.timeout

\* The inductive invariant.
Good(a, n) == (Runs(a, n) /\ Places(a, n)) \/ Rests(a, n)

\* What neither a step of a sequence nor anything else in a cycle changes.
Kept(r, a) ==
    \A f \in {"kind", "home", "refs", "timeout", "source", "command"} : r[f] = a[f]

\* What the invariant does not speak of.
Plain == {"traj", "flags", "execute", "executeOld", "enable", "enabled", "pos", "velocity",
          "setpoint", "actual", "speed", "busy", "error", "at", "out", "offset", "onTarget",
          "now", "was", "filter", "latch", "latch1", "latch2", "post"}

\* What changes none of the fields of the invariant keeps it.
LEMMA PlainKeeps ==
    ASSUME NEW a, NEW n, NEW r, Shaped(r), Only(r, a, Plain)
    PROVE  /\ Base(a, n) => Base(r, n)
           /\ Runs(a, n) => Runs(r, n)
           /\ Places(a, n) => Places(r, n)
           /\ Rests(a, n) => Rests(r, n)
           /\ Good(a, n) => Good(r, n)
           /\ Kept(r, a) /\ (AllHomed(a) => AllHomed(r))
           /\ r.state = a.state /\ r.running = a.running
<1>1. /\ r.kind = a.kind /\ r.home = a.home /\ r.refs = a.refs /\ r.timeout = a.timeout
      /\ r.source = a.source /\ r.command = a.command /\ r.oldPrimary = a.oldPrimary
      /\ r.atTarget = a.atTarget /\ r.latches = a.latches /\ r.running = a.running
      /\ r.primary = a.primary /\ r.time = a.time /\ r.state = a.state /\ r.enc = a.enc
  BY DEF Only, AxisFields, Plain
<1>2. (AllHomed(a) => AllHomed(r))
  BY <1>1 DEF AllHomed
<1>3. Kept(r, a)
  BY <1>1 DEF Kept
<1>4. Base(a, n) => Base(r, n)
  BY <1>1 DEF Base
<1>5. Runs(a, n) => Runs(r, n)
  BY <1>1, <1>4 DEF Runs
<1>6. Places(a, n) => Places(r, n)
  BY <1>1, <1>2 DEF Places
<1>7. Rests(a, n) => Rests(r, n)
  BY <1>1, <1>4 DEF Rests
<1> QED
  BY <1>1, <1>2, <1>3, <1>4, <1>5, <1>6, <1>7 DEF Good

\* A sequence that is stopped leaves an axis that rests, and has homed what it had homed.
LEMMA StopSeqGood ==
    ASSUME NEW a, NEW n, Base(a, n)
    PROVE  LET r == StopSeq(a)
           IN  Rests(r, n) /\ Kept(r, a) /\ (AllHomed(a) => AllHomed(r)) /\ r.error = a.error
<1> DEFINE r == StopSeq(a)
<1>1. /\ Shaped(r) /\ Only(r, a, AtEnd)
      /\ r.primary = a.oldPrimary /\ r.running = FALSE /\ r.state = 0 /\ r.time = 0
  BY StopSeqFields DEF Base
<1> HIDE DEF r
<1>2. /\ r.kind = a.kind /\ r.home = a.home /\ r.refs = a.refs /\ r.timeout = a.timeout
      /\ r.source = a.source /\ r.command = a.command /\ r.oldPrimary = a.oldPrimary
      /\ r.atTarget = a.atTarget /\ r.latches = a.latches /\ r.enc = a.enc /\ r.error = a.error
  BY <1>1 DEF Only, AxisFields, AtEnd
<1>3. Rests(r, n)
  BY <1>1, <1>2 DEF Rests, Base
<1>4. (AllHomed(a) => AllHomed(r)) /\ Kept(r, a)
  BY <1>2 DEF AllHomed, Kept
<1> QED
  BY <1>2, <1>3, <1>4 DEF r

\* The same with an error.
LEMMA FailedGood ==
    ASSUME NEW a, NEW n, Base(a, n)
    PROVE  LET r == Failed(a) IN Rests(r, n) /\ Kept(r, a) /\ r.error = TRUE
<1> DEFINE r == Failed(a)
           b == StopSeq(a)
<1>1. r = [b EXCEPT !.error = TRUE]
  BY DEF Failed
<1>2. Rests(b, n) /\ Kept(b, a)
  BY StopSeqGood
<1> HIDE DEF r, b
<1>3. Shaped(r) /\ Only(r, b, Plain) /\ r.error = TRUE
  BY <1>1, <1>2 DEF Rests, Base, Shaped, Only, AxisFields, Plain
<1>4. Rests(r, n) /\ Kept(r, b)
  BY <1>2, <1>3, PlainKeeps
<1> QED
  BY <1>2, <1>3, <1>4 DEF Kept, r

(***************************************************************************)
(* The steps of a sequence                                                 *)
(***************************************************************************)
\* A sequence that has ended by itself has homed or reports an error.
Ends(a) == a.running = TRUE \/ a.error = TRUE \/ AllHomed(a)

\* What a step of a sequence leads to.
Stepped(r, a, n) == Good(r, n) /\ Kept(r, a) /\ Ends(r)

\* After the homing the states of the motion that follows are good ones.
Onward(b, s) == [b EXCEPT !.state = s]
LEMMA Onwards ==
    ASSUME NEW b, NEW n, NEW s \in {1000, 1001, 1002}, Runs(b, n), AllHomed(b)
    PROVE  Stepped(Onward(b, s), b, n) /\ Onward(b, s).state = s
<1> DEFINE p == Onward(b, s)
<1>1. Shaped(p) /\ Only(p, b, {"state"}) /\ p.state = s
  BY DEF Runs, Base, Shaped, Only, AxisFields, Onward
<1> HIDE DEF p
<1>2. /\ p.kind = b.kind /\ p.home = b.home /\ p.refs = b.refs /\ p.timeout = b.timeout
      /\ p.source = b.source /\ p.command = b.command /\ p.oldPrimary = b.oldPrimary
      /\ p.atTarget = b.atTarget /\ p.running = b.running /\ p.primary = b.primary
      /\ p.time = b.time /\ p.latches = b.latches /\ p.enc = b.enc
  BY <1>1 DEF Only, AxisFields
<1>3. Runs(p, n) /\ AllHomed(p) /\ Kept(p, b)
  BY <1>1, <1>2 DEF Runs, Base, AllHomed, Kept
<1>4. Places(p, n)
  BY <1>1, <1>3 DEF Places, States
<1> QED
  BY <1>1, <1>3, <1>4 DEF Stepped, Ends, Good, p

\* A homing that is not over yet moves on.
MovesOn(r) == r.running = TRUE => r.state = 1000

\* finalizeHomingSeq() has homed every encoder that is to be referenced.
LEMMA FinalizeGood ==
    ASSUME NEW a, NEW n, NEW to, Runs(a, n), a.kind # 15
    PROVE  Stepped(FinalizeHomingSeq(a, to), a, n) /\ MovesOn(FinalizeHomingSeq(a, to))
<1> DEFINE r == FinalizeHomingSeq(a, to)
           control == IF a.oldPrimary \in a.refs THEN to ELSE ActPos(a, a.oldPrimary)
           c == SetNewPositionCtrlDrvTrajBumpless(a, control)
           enc == [e \in Encoders |-> IF e \in a.refs THEN Referred(a, e, to) ELSE a.enc[e]]
           latch == [c.latch EXCEPT !.armed = @ /\ a.home \notin a.refs]
           z == 0
           b == [c EXCEPT !.enc = enc, !.latch = latch, !.latch1 = z, !.latch2 = z, !.latches = z]
           p == Onward(b, 1000)
<1>1. r = IF a.post THEN p ELSE StopSeq(b)
  BY DEF FinalizeHomingSeq, Onward
<1>2. Shaped(c) /\ Only(c, a, {"traj", "actual", "setpoint", "offset"})
  BY BumplessFields DEF Runs, Base
<1>3. DOMAIN enc = Encoders /\ \A e \in a.refs \cap Encoders : enc[e].homed
  BY DEF Referred
<1> HIDE DEF r, c, enc, latch, z
<1>4. Shaped(c) /\ Base(c, n) /\ Runs(c, n) /\ Kept(c, a)
  <2>1. Only(c, a, Plain)
    BY <1>2 DEF Only, Plain
  <2> QED
    BY <1>2, <2>1, PlainKeeps DEF Runs
<1>5. /\ Shaped(b) /\ Only(b, c, {"enc", "latch", "latch1", "latch2", "latches"})
      /\ b.enc = enc /\ b.latches = z
  BY <1>3, <1>4 DEF Shaped, Only, AxisFields
<1> HIDE DEF b
<1>6. /\ b.kind = c.kind /\ b.home = c.home /\ b.refs = c.refs /\ b.timeout = c.timeout
      /\ b.source = c.source /\ b.command = c.command /\ b.oldPrimary = c.oldPrimary
      /\ b.atTarget = c.atTarget /\ b.running = c.running /\ b.primary = c.primary
      /\ b.time = c.time /\ b.state = c.state
  BY <1>5 DEF Only, AxisFields
<1>7. b.kind = a.kind /\ b.refs = a.refs
  BY <1>4, <1>6 DEF Kept
<1>8. z \in Nat /\ z < LatchCount + n
  BY HomingAssumption DEF z, Runs, Base
<1>9. Base(b, n) /\ Runs(b, n)
  BY <1>4, <1>5, <1>6, <1>8 DEF Base, Runs
<1>10. AllHomed(b) /\ Kept(b, a)
  BY <1>3, <1>4, <1>5, <1>6, <1>7 DEF AllHomed, Kept
<1>11. CASE a.post
  <2>1. Stepped(p, b, n) /\ p.state = 1000
    BY <1>9, <1>10, Onwards
  <2> HIDE DEF p
  <2> QED
    BY <1>1, <1>10, <1>11, <2>1 DEF Stepped, Kept, MovesOn, r
<1>12. CASE ~a.post
  <2>1. Rests(StopSeq(b), n) /\ Kept(StopSeq(b), b) /\ (AllHomed(b) => AllHomed(StopSeq(b)))
    BY <1>9, StopSeqGood
  <2>2. Kept(StopSeq(b), a)
    BY <1>10, <2>1 DEF Kept
  <2> QED
    BY <1>1, <1>10, <1>12, <2>1, <2>2 DEF Stepped, Ends, Good, Rests, MovesOn, r
<1> QED
  BY <1>11, <1>12

\* A motion that is commanded.
LEMMA TrajExecuteFields ==
    ASSUME NEW a, Shaped(a)
    PROVE  /\ Shaped(TrajExecute(a, TRUE))
           /\ Only(TrajExecute(a, TRUE), a, {"traj", "flags", "error"})
<1> DEFINE r == TrajExecute(a, TRUE)
           traj == SetTrajExecute(a.traj, TRUE)
           flags == IF Rises(a.traj, TRUE) THEN a.flags \ {"noExecute"} ELSE a.flags
           error == a.error \/ (TRUE /\ ~a.traj.enable)
<1>1. r = [a EXCEPT !.traj = traj, !.flags = flags, !.error = error]
  BY Zenon DEF TrajExecute
<1>2. DOMAIN traj = TrajFields /\ error \in BOOLEAN
  BY ShapeOfTraj DEF Shaped
<1> HIDE DEF r, traj, flags, error
<1>3. Shaped(r) /\ Only(r, a, {"traj", "flags", "error"})
  BY <1>1, <1>2 DEF Shaped, Only, AxisFields
<1> QED
  BY <1>3 DEF r

\* A motion that is started.
LEMMA StartsFields ==
    ASSUME NEW a, NEW traj, Shaped(a), DOMAIN traj = TrajFields
    PROVE  /\ Shaped(TrajExecute([a EXCEPT !.traj = traj], TRUE))
           /\ Only(TrajExecute([a EXCEPT !.traj = traj], TRUE), a, {"traj", "flags", "error"})
<1> DEFINE b == [a EXCEPT !.traj = traj]
<1>1. Shaped(b) /\ Only(b, a, {"traj"})
  BY DEF Shaped, Only, AxisFields
<1> HIDE DEF b
<1>2. Shaped(TrajExecute(b, TRUE)) /\ Only(TrajExecute(b, TRUE), b, {"traj", "flags", "error"})
  BY <1>1, TrajExecuteFields
<1>3. Only(TrajExecute(b, TRUE), a, {"traj", "flags", "error"})
  BY <1>1, <1>2 DEF Only
<1> QED
  BY <1>2, <1>3 DEF b

\* A motion with constant velocity.
LEMMA MoveFields ==
    ASSUME NEW a, NEW vel, Shaped(a)
    PROVE  Shaped(Move(a, vel)) /\ Only(Move(a, vel), a, {"traj", "flags", "error"})
<1> DEFINE traj == [SetTargetVel(a.traj, vel) EXCEPT !.mode = "vel"]
<1>1. DOMAIN SetTargetVel(a.traj, vel) = TrajFields
  BY ShapeOfTraj DEF Shaped
<1>2. DOMAIN traj = TrajFields
  BY <1>1, ShapeOfTraj
<1>3. Move(a, vel) = TrajExecute([a EXCEPT !.traj = traj], TRUE)
  BY DEF Move
<1> HIDE DEF traj
<1> QED
  BY <1>2, <1>3, StartsFields

\* What a row that does not home may change.
Deed == {"traj", "flags", "error", "latch", "latch1", "latch2"}

\* The latches are such fields.
LEMMA LatchFields ==
    ASSUME NEW a, Shaped(a), NEW v
    PROVE  /\ Shaped([a EXCEPT !.latch = v]) /\ Only([a EXCEPT !.latch = v], a, Deed)
           /\ Shaped([a EXCEPT !.latch1 = v]) /\ Only([a EXCEPT !.latch1 = v], a, Deed)
           /\ Shaped([a EXCEPT !.latch2 = v]) /\ Only([a EXCEPT !.latch2 = v], a, Deed)
BY DEF Shaped, Only, AxisFields, Deed

\* A row that does not home.
LEMMA DeedFields ==
    ASSUME NEW a, Shaped(a), NEW d, NEW deed \in Deeds
    PROVE  Shaped(Done(a, d, deed)) /\ Only(Done(a, d, deed), a, Deed)
<1> DEFINE r == Done(a, d, deed)
<1>1. Shaped(Halt(a)) /\ Only(Halt(a), a, Deed)
  BY HaltFields DEF Only, Deed
<1>2. ASSUME NEW vel PROVE Shaped(Move(a, vel)) /\ Only(Move(a, vel), a, Deed)
  BY MoveFields DEF Only, Deed
<1>3. CASE deed = "halt"
  BY <1>1, <1>3 DEF Done
<1>4. CASE deed = "disarm"
  <2> DEFINE b == Halt(a)
             v == [b.latch EXCEPT !.armed = FALSE]
  <2>1. r = [b EXCEPT !.latch = v]
    BY <1>4 DEF Done
  <2> HIDE DEF r, b, v
  <2>2. Shaped(r) /\ Only(r, b, Deed)
    BY <1>1, <2>1, LatchFields DEF b
  <2> QED
    BY <1>1, <2>2 DEF Only, r, b
<1>5. CASE deed = "off"
  BY <1>2, <1>5 DEF Done
<1>6. CASE deed = "offArmed"
  <2> DEFINE b == Move(a, -(d * Off))
             v == [b.latch EXCEPT !.armed = TRUE]
  <2>1. r = [b EXCEPT !.latch = v]
    BY <1>6 DEF Done
  <2>2. Shaped(b) /\ Only(b, a, Deed)
    BY <1>2
  <2> HIDE DEF r, b, v
  <2>3. Shaped(r) /\ Only(r, b, Deed)
    BY <2>1, <2>2, LatchFields
  <2> QED
    BY <2>2, <2>3 DEF Only, r
<1>7. CASE deed = "on"
  BY <1>2, <1>7 DEF Done
<1>8. CASE deed = "watch"
  BY <1>8 DEF Done, Only
<1>9. CASE deed = "latch1"
  <2> DEFINE v == Here(a)
  <2>1. r = [a EXCEPT !.latch1 = v]
    BY <1>9 DEF Done
  <2> HIDE DEF r, v
  <2>2. Shaped(r) /\ Only(r, a, Deed)
    BY <2>1, LatchFields
  <2> QED
    BY <2>2 DEF r
<1>10. CASE deed = "latch2"
  <2> DEFINE b == [a EXCEPT !.latch2 = Here(a)]
  <2>1. r = Halt(b)
    BY <1>10 DEF Done
  <2>2. Shaped(b) /\ Only(b, a, Deed)
    BY LatchFields
  <2> HIDE DEF r, b
  <2>3. Shaped(r) /\ Only(r, b, Deed)
    BY <2>1, <2>2, HaltFields DEF Only, Deed
  <2> QED
    BY <2>2, <2>3 DEF Only, r
<1>11. CASE deed = "latchMark"
  <2> DEFINE v == a.latch.at + a.primary * Shift + a.enc[a.primary].offset
  <2>1. r = [a EXCEPT !.latch1 = v]
    BY <1>11 DEF Done
  <2> HIDE DEF r, v
  <2>2. Shaped(r) /\ Only(r, a, Deed)
    BY <2>1, LatchFields
  <2> QED
    BY <2>2 DEF r
<1> QED
  BY <1>3, <1>4, <1>5, <1>6, <1>7, <1>8, <1>9, <1>10, <1>11 DEF Deeds

\* A row that waits counts the marks and changes nothing else of the invariant.
LEMMA WaitingFields ==
    ASSUME NEW a, NEW n, Base(a, n), NEW event
    PROVE  LET r == Waiting(a, event)
           IN  /\ Shaped(r) /\ Only(r, a, {"traj", "flags", "error", "latches", "latch"})
               /\ r.latches = IF event = "mark" /\ a.latch.new THEN a.latches + 1 ELSE a.latches
               /\ event \in {"standing", "settled"} => r.traj.busy = a.traj.busy
<1> DEFINE r == Waiting(a, event)
<1>1. CASE event \in {"standing", "settled"}
  <2>1. r = Halt(a)
    BY <1>1 DEF Waiting
  <2>2. Shaped(r) /\ Only(r, a, {"traj", "flags", "error"}) /\ r.traj.busy = a.traj.busy
    BY <2>1, HaltFields DEF Base
  <2> HIDE DEF r
  <2> QED
    BY <1>1, <2>2 DEF Only, AxisFields, r
<1>2. CASE event = "mark"
  <2> DEFINE latches == IF a.latch.new THEN a.latches + 1 ELSE a.latches
             latch == [a.latch EXCEPT !.armed = ~a.latch.new]
  <2>1. r = [a EXCEPT !.latches = latches, !.latch = [@ EXCEPT !.armed = ~a.latch.new]]
    BY <1>2, Zenon DEF Waiting
  <2> HIDE DEF r, latches, latch
  <2>2. Shaped(r) /\ Only(r, a, {"latches", "latch"}) /\ r.latches = latches
    BY <2>1 DEF Base, Shaped, Only, AxisFields
  <2> QED
    BY <1>2, <2>2 DEF Only, latches, r
<1>3. CASE event \notin {"standing", "settled", "mark"}
  <2>1. r = a
    BY <1>3 DEF Waiting
  <2> QED
    BY <1>3, <2>1 DEF Base, Only
<1> QED
  BY <1>1, <1>2, <1>3

\* Where a step may start.
Ready(a, n) ==
    /\ Runs(a, n) /\ a.kind # 15 /\ a.state \in 0 .. Last(a.kind)
    /\ a.state < 5 => a.latches + 1 < LatchCount + n

\* The tables, for the sequences that the axis may have.
LEMMA LastOfKind ==
    ASSUME NEW kind \in Kinds, kind # 15
    PROVE  /\ Last(kind) \in 2 .. 7 /\ 1 .. Last(kind) \subseteq States(kind)
           /\ States(kind) = {1000, 1001, 1002} \cup 0 .. Last(kind)
           /\ \A s \in 1 .. Last(kind) : RowOk(Table(kind)[s], Last(kind), s)
           /\ \A d : RowOk(Stand(d), Last(kind), 0)
           /\ kind = 22 => Last(kind) = 4 /\ Fits22
<1>1. kind \in Numbers \ {15}
  BY HomingAssumption DEF Numbers
<1>2. Last(kind) \in 2 .. 7 /\ DOMAIN Table(kind) = 1 .. Last(kind)
  BY <1>1, RowsOk
<1>3. States(kind) = {0, 1000, 1001, 1002} \cup 1 .. Last(kind)
  BY <1>2 DEF States
<1>4. States(kind) = {1000, 1001, 1002} \cup 0 .. Last(kind)
  BY <1>2, <1>3
<1> QED
  BY <1>1, <1>2, <1>3, <1>4, RowsOk

\* The step that has waited goes on to a state of its table.
LEMMA GoesOn ==
    ASSUME NEW b, NEW n, Runs(b, n), b.kind # 15, NEW s \in 0 .. Last(b.kind), b.state = s,
           s < 5 => b.latches + 1 < LatchCount + n
    PROVE  Good(b, n) /\ Ends(b)
<1>1. s \in States(b.kind) /\ s < 1000
  BY LastOfKind DEF Runs
<1>2. Places(b, n)
  BY <1>1 DEF Places, Runs
<1> QED
  BY <1>2 DEF Good, Ends, Runs

\* A step that goes on stays, or goes on to a row of its table or to the motion afterwards.
Leads(r, a, row) ==
    r.running = TRUE =>
        /\ r.state \in {a.state, 1000} \cup 1 .. Last(a.kind)
        /\ r.state = 1000 => row.do \in Homes
        /\ r.state = 0 => a.state = 0 /\ (row.when = "standing" => a.traj.busy)

\* A step from a good state of a sequence ends it well or leads to a good state.
LEMMA StepGood ==
    ASSUME NEW a, NEW n, NEW d, NEW row, Ready(a, n), RowOk(row, Last(a.kind), a.state)
    PROVE  /\ Stepped(Step(a, d, row), a, n)
           /\ Leads(Step(a, d, row), a, row)
<1> DEFINE r == Step(a, d, row)
           b == Waiting(a, row.when)
           c == [b EXCEPT !.state = row.next]
<1>0. /\ Base(a, n) /\ a.kind \in Kinds /\ a.kind # 15 /\ n \in Nat /\ a.latches \in Nat
      /\ a.state \in 0 .. Last(a.kind) /\ Last(a.kind) \in 2 .. 7
  BY LastOfKind DEF Ready, Runs, Base
<1>1. /\ Shaped(b) /\ Only(b, a, {"traj", "flags", "error", "latches", "latch"})
      /\ b.latches = IF row.when = "mark" /\ a.latch.new THEN a.latches + 1 ELSE a.latches
      /\ row.when \in {"standing", "settled"} => b.traj.busy = a.traj.busy
  BY <1>0, WaitingFields
<1>2. r = IF ~Safe(a, row.safe) THEN Failed(a)
          ELSE IF Happens(a, d, row.when) THEN Done(c, d, row.do) ELSE b
  BY DEF Step
<1> HIDE DEF r, b
<1>3. /\ b.kind = a.kind /\ b.home = a.home /\ b.refs = a.refs /\ b.timeout = a.timeout
      /\ b.source = a.source /\ b.command = a.command /\ b.oldPrimary = a.oldPrimary
      /\ b.atTarget = a.atTarget /\ b.running = a.running /\ b.primary = a.primary
      /\ b.time = a.time /\ b.state = a.state
  BY <1>1 DEF Only, AxisFields
<1>4. b.latches \in Nat /\ b.latches < LatchCount + n /\ (row.when # "mark" => b.latches = a.latches)
  BY <1>0, <1>1 DEF Ready, RowOk, Base
<1>5. Runs(b, n) /\ Kept(b, a)
  BY <1>1, <1>3, <1>4 DEF Ready, Runs, Base, Kept
<1>6. /\ Shaped(c) /\ Only(c, b, {"state"}) /\ c.state = row.next
  BY <1>1 DEF Shaped, Only, AxisFields
<1> HIDE DEF c
<1>7. /\ c.kind = b.kind /\ c.home = b.home /\ c.refs = b.refs /\ c.timeout = b.timeout
      /\ c.source = b.source /\ c.command = b.command /\ c.oldPrimary = b.oldPrimary
      /\ c.atTarget = b.atTarget /\ c.running = b.running /\ c.primary = b.primary
      /\ c.time = b.time /\ c.latches = b.latches
  BY <1>6 DEF Only, AxisFields
<1>8. Runs(c, n) /\ Kept(c, a) /\ c.kind = a.kind
  BY <1>3, <1>5, <1>6, <1>7 DEF Runs, Base, Kept
<1>9. CASE ~Safe(a, row.safe)
  <2>1. r = Failed(a)
    BY <1>2, <1>9
  <2>2. Rests(r, n) /\ Kept(r, a) /\ r.error = TRUE
    BY <1>0, <2>1, FailedGood
  <2> QED
    BY <2>2 DEF Stepped, Good, Ends, Rests, Leads, r
<1>10. CASE Safe(a, row.safe) /\ Happens(a, d, row.when)
  <2>1. r = Done(c, d, row.do)
    BY <1>2, <1>10
  <2>2. CASE row.do \in Homes /\ row.next = 0
    <3> DEFINE to == Found(c, row.do, d)
               q == FinalizeHomingSeq(c, to)
    <3>1. r = q
      BY <2>1, <2>2 DEF Done, Homes
    <3> HIDE DEF to
    <3>2. c.kind # 15 /\ Runs(c, n)
      BY <1>0, <1>8
    <3>3. Stepped(q, c, n) /\ MovesOn(q)
      BY <3>2, FinalizeGood
    <3> HIDE DEF q
    <3> QED
      BY <1>8, <2>2, <3>1, <3>3 DEF Stepped, Kept, MovesOn, Leads, r
  <2>3. CASE row.do \in Deeds /\ row.next \in 1 .. Last(a.kind)
    <3>1. Shaped(r) /\ Only(r, c, Deed)
      BY <1>6, <2>1, <2>3, DeedFields
    <3>2. Only(r, c, Plain)
      BY <3>1 DEF Only, Deed, Plain
    <3>3. Runs(r, n) /\ Kept(r, c) /\ r.state = c.state
      BY <1>8, <3>1, <3>2, PlainKeeps
    <3>4. r.latches = c.latches /\ r.kind = a.kind
      BY <1>8, <3>1, <3>3 DEF Only, AxisFields, Deed, Kept
    <3>5. row.next \in 0 .. Last(r.kind) /\ (row.next < 5 => r.latches + 1 < LatchCount + n)
      BY <1>0, <1>4, <1>7, <2>3, <3>4 DEF Ready, RowOk
    <3>6. Good(r, n) /\ Ends(r)
      BY <1>0, <1>6, <3>3, <3>4, <3>5, GoesOn
    <3> QED
      BY <1>0, <1>6, <1>8, <2>3, <3>3, <3>6 DEF Stepped, Kept, Leads, r
  <2> QED
    BY <2>2, <2>3 DEF RowOk
<1>11. CASE Safe(a, row.safe) /\ ~Happens(a, d, row.when)
  <2>1. r = b
    BY <1>2, <1>11
  <2>2. a.state < 5 => b.latches + 1 < LatchCount + n
    <3>1. CASE row.when = "mark" /\ a.latch.new
      <4>1. ~(a.latches + 1 >= LatchCount)
        BY <1>11, <3>1 DEF Happens
      <4>2. LatchCount \in Nat /\ n \in Nat /\ n # 0
        BY <1>0, HomingAssumption DEF Ready, Runs
      <4> QED
        BY <1>0, <1>1, <3>1, <4>1, <4>2
    <3>2. CASE ~(row.when = "mark" /\ a.latch.new)
      BY <1>1, <3>2 DEF Ready
    <3> QED
      BY <3>1, <3>2
  <2>3. Good(b, n) /\ Ends(b)
    BY <1>0, <1>3, <1>5, <2>2, GoesOn
  <2>4. row.when = "standing" => a.traj.busy
    BY <1>11 DEF Happens
  <2> QED
    BY <1>0, <1>3, <1>5, <2>1, <2>3, <2>4 DEF Stepped, Leads, r
<1> QED
  BY <1>9, <1>10, <1>11

\* initHomingSeq() leaves the sequence where it is.
LEMMA InitHomingGood ==
    ASSUME NEW a, NEW n, Ready(a, n), a.state = 0
    PROVE  /\ Ready(InitHomingSeq(a), n) /\ InitHomingSeq(a).state = 0
           /\ Kept(InitHomingSeq(a), a) /\ InitHomingSeq(a).traj.busy = a.traj.busy
<1> DEFINE r == InitHomingSeq(a)
           enc == [a.enc EXCEPT ![a.primary] = [@ EXCEPT !.homed = FALSE]]
           traj == [a.traj EXCEPT !.mode = "vel"]
           b == [a EXCEPT !.enc = enc, !.traj = traj]
<1>1. r = Halt(b)
  BY DEF InitHomingSeq
<1>2. Shaped(a) /\ DOMAIN enc = Encoders
  BY DEF Ready, Runs, Base, Shaped
<1>3. DOMAIN traj = TrajFields /\ traj.busy = a.traj.busy
  BY <1>2, ShapeOfTraj DEF Shaped
<1> HIDE DEF r, enc, traj
<1>4. Shaped(b) /\ Only(b, a, {"enc", "traj"}) /\ b.traj.busy = a.traj.busy
  BY <1>2, <1>3 DEF Shaped, Only, AxisFields
<1> HIDE DEF b
<1>5. Shaped(r) /\ Only(r, b, {"traj", "flags", "error"}) /\ r.traj.busy = b.traj.busy
  BY <1>1, <1>4, HaltFields
<1>6. Only(r, a, {"enc", "traj", "flags", "error"})
  BY <1>4, <1>5 DEF Only
<1>7. /\ r.kind = a.kind /\ r.home = a.home /\ r.refs = a.refs /\ r.timeout = a.timeout
      /\ r.source = a.source /\ r.command = a.command /\ r.oldPrimary = a.oldPrimary
      /\ r.atTarget = a.atTarget /\ r.running = a.running /\ r.primary = a.primary
      /\ r.time = a.time /\ r.latches = a.latches /\ r.state = a.state
  BY <1>6 DEF Only, AxisFields
<1>8. Ready(r, n)
  BY <1>5, <1>7 DEF Ready, Runs, Base
<1> QED
  BY <1>4, <1>5, <1>7, <1>8 DEF Kept, r

\* A sequence that is still in its first state waits for the axis to stand.
Waits(r, a) == r.running = TRUE /\ r.state = 0 => a.kind \in 7 .. 10 /\ a.state = 0 /\ a.traj.busy

\* The first state is left with a good one.
LEMMA Left ==
    ASSUME NEW b, NEW n, Ready(b, n), b.state = 0, NEW s \in {1, 2}
    PROVE  LET r == [b EXCEPT !.state = s]
           IN  Good(r, n) /\ Ends(r) /\ Kept(r, b) /\ r.state = s
<1> DEFINE r == [b EXCEPT !.state = s]
<1>1. Shaped(b) /\ b.kind \in Kinds /\ b.kind # 15 /\ n \in Nat
  BY DEF Ready, Runs, Base
<1>2. Shaped(r) /\ Only(r, b, {"state"}) /\ r.state = s
  BY <1>1 DEF Shaped, Only, AxisFields
<1> HIDE DEF r
<1>3. /\ r.kind = b.kind /\ r.home = b.home /\ r.refs = b.refs /\ r.timeout = b.timeout
      /\ r.source = b.source /\ r.command = b.command /\ r.oldPrimary = b.oldPrimary
      /\ r.atTarget = b.atTarget /\ r.running = b.running /\ r.primary = b.primary
      /\ r.time = b.time /\ r.latches = b.latches
  BY <1>2 DEF Only, AxisFields
<1>4. Runs(r, n) /\ r.latches + 1 < LatchCount + n
  BY <1>2, <1>3 DEF Ready, Runs, Base
<1>5. s \in 0 .. Last(r.kind)
  BY <1>1, <1>3, LastOfKind
<1>6. Good(r, n) /\ Ends(r)
  BY <1>1, <1>2, <1>3, <1>4, <1>5, GoesOn
<1> QED
  BY <1>2, <1>3, <1>6 DEF Kept, r

\* The first state of a sequence.
LEMMA StartGood ==
    ASSUME NEW a, NEW n, NEW d, Ready(a, n), a.state = 0
    PROVE  Stepped(Start(a, d), a, n) /\ Waits(Start(a, d), a)
<1> DEFINE r == Start(a, d)
           b == InitHomingSeq(a)
           c == Move(b, d * Towards)
<1>1. Ready(b, n) /\ b.state = 0 /\ Kept(b, a) /\ b.traj.busy = a.traj.busy
  BY InitHomingGood
<1>2. Shaped(b) /\ b.kind = a.kind /\ a.kind \in Kinds /\ a.kind # 15
  BY <1>1 DEF Ready, Runs, Base, Kept
<1>3. r = IF a.kind \in 7..10 THEN Step(b, d, Stand(d))
          ELSE IF a.now[Side(d)] THEN [c EXCEPT !.state = 1] ELSE [b EXCEPT !.state = 2]
  BY DEF Start
<1>4. Shaped(c) /\ Only(c, b, {"traj", "flags", "error"})
  BY <1>2, MoveFields
<1> HIDE DEF r, b, c
<1>5. CASE a.kind \in 7..10
  <2>1. RowOk(Stand(d), Last(b.kind), b.state) /\ Stand(d).when = "standing"
    BY <1>1, <1>2, LastOfKind DEF Stand, Row
  <2>2. Stepped(r, b, n) /\ Leads(r, b, Stand(d))
    BY <1>1, <1>3, <1>5, <2>1, StepGood
  <2> QED
    BY <1>1, <1>5, <2>1, <2>2 DEF Stepped, Kept, Leads, Waits, r
<1>6. CASE a.kind \notin 7..10 /\ a.now[Side(d)]
  <2>1. Only(c, b, Plain)
    BY <1>4 DEF Only, Plain
  <2>2. Runs(c, n) /\ Kept(c, b) /\ c.state = 0
    BY <1>1, <1>4, <2>1, PlainKeeps DEF Ready
  <2>3. c.latches = b.latches /\ c.kind = b.kind
    BY <1>4 DEF Only, AxisFields
  <2>4. Ready(c, n)
    BY <1>1, <2>2, <2>3 DEF Ready
  <2>5. Good(r, n) /\ Ends(r) /\ Kept(r, c) /\ r.state = 1
    BY <1>3, <1>6, <2>2, <2>4, Left
  <2> QED
    BY <1>1, <2>2, <2>5 DEF Stepped, Kept, Waits, r
<1>7. CASE a.kind \notin 7..10 /\ ~a.now[Side(d)]
  <2>1. Good(r, n) /\ Ends(r) /\ Kept(r, b) /\ r.state = 2
    BY <1>1, <1>3, <1>7, Left
  <2> QED
    BY <1>1, <2>1 DEF Stepped, Kept, Waits, r
<1> QED
  BY <1>5, <1>6, <1>7

\* Sequence 15 homes at once.
LEMMA Homing15Good ==
    ASSUME NEW a, NEW n, Runs(a, n), a.kind = 15, a.primary = a.home
    PROVE  Stepped(SeqHoming15(a), a, n) /\ MovesOn(SeqHoming15(a))
<1> DEFINE r == SeqHoming15(a)
           set == SetCurrentPosSet(a.traj, HomePosition)
           traj == SetTargetPos(set, HomePosition)
           enc == [a.enc EXCEPT ![a.primary] = Referred(a, a.primary, HomePosition)]
           b == [a EXCEPT !.traj = traj, !.enc = enc, !.actual = HomePosition,
                          !.setpoint = HomePosition]
           p == Onward(b, 1000)
<1>1. r = IF a.post THEN p ELSE StopSeq(b)
  BY DEF SeqHoming15, Onward
<1>2. Shaped(a) /\ a.home \in Encoders
  BY DEF Runs, Base
<1>3. DOMAIN set = TrajFields
  BY <1>2, ShapeOfTraj DEF Shaped
<1>4. DOMAIN traj = TrajFields
  BY <1>3, ShapeOfTraj
<1>5. DOMAIN enc = Encoders /\ enc[a.home].homed
  BY <1>2 DEF Shaped, Referred
<1> HIDE DEF r, set, traj, enc
<1>6. Shaped(b) /\ Only(b, a, {"traj", "enc", "actual", "setpoint"}) /\ b.enc = enc
  BY <1>2, <1>4, <1>5 DEF Shaped, Only, AxisFields
<1> HIDE DEF b
<1>7. /\ b.kind = a.kind /\ b.home = a.home /\ b.refs = a.refs /\ b.timeout = a.timeout
      /\ b.source = a.source /\ b.command = a.command /\ b.oldPrimary = a.oldPrimary
      /\ b.atTarget = a.atTarget /\ b.running = a.running /\ b.primary = a.primary
      /\ b.time = a.time /\ b.latches = a.latches
  BY <1>6 DEF Only, AxisFields
<1>8. Runs(b, n) /\ AllHomed(b) /\ Kept(b, a)
  BY <1>5, <1>6, <1>7 DEF Runs, Base, AllHomed, Kept
<1>9. CASE a.post
  <2>1. Stepped(p, b, n) /\ p.state = 1000
    BY <1>8, Onwards
  <2> HIDE DEF p
  <2> QED
    BY <1>1, <1>8, <1>9, <2>1 DEF Stepped, Kept, MovesOn, r
<1>10. CASE ~a.post
  <2>1. Rests(StopSeq(b), n) /\ Kept(StopSeq(b), b) /\ (AllHomed(b) => AllHomed(StopSeq(b)))
    BY <1>8, StopSeqGood DEF Runs
  <2>2. Kept(StopSeq(b), a)
    BY <1>8, <2>1 DEF Kept
  <2> QED
    BY <1>1, <1>8, <1>10, <2>1, <2>2 DEF Stepped, Ends, Good, Rests, MovesOn, r
<1> QED
  BY <1>9, <1>10

\* One cycle of any sequence, the fall-through of sequence 22 included.
LEMMA SequenceGood ==
    ASSUME NEW a, NEW n, Good(a, n), a.running = TRUE, a.primary = a.home
    PROVE  Stepped(Sequence(a), a, n) /\ Waits(Sequence(a), a)
<1> DEFINE r == Sequence(a)
           d == Direction(a.kind)
           table == Table(a.kind)
           row == table[a.state]
           b == Step(a, d, row)
           c == Step(b, d, table[4])
<1>1. r = IF a.state >= 1000 THEN a
          ELSE IF a.kind = 15 THEN SeqHoming15(a)
          ELSE IF a.state = 0 THEN Start(a, d)
          ELSE IF a.kind = 22 /\ a.state = 3 /\ b.running THEN c
          ELSE b
  BY DEF Sequence
<1>2. Runs(a, n) /\ Places(a, n) /\ a.kind \in Kinds
  BY DEF Good, Rests, Runs
<1> HIDE DEF r, d, table, row, b, c
<1>3. CASE a.state >= 1000
  <2>1. r = a
    BY <1>1, <1>3
  <2>2. a.state # 0
    BY <1>3
  <2> QED
    BY <1>2, <2>1, <2>2 DEF Stepped, Ends, Kept, Waits, r
<1>4. CASE ~(a.state >= 1000) /\ a.kind = 15
  <2>1. r = SeqHoming15(a)
    BY <1>1, <1>4
  <2>2. Stepped(r, a, n) /\ MovesOn(r)
    BY <1>2, <1>4, <2>1, Homing15Good
  <2> QED
    BY <2>2 DEF MovesOn, Waits, r
<1>5. CASE ~(a.state >= 1000) /\ a.kind # 15
  <2>1. a.state \in 0 .. Last(a.kind) /\ Last(a.kind) \in 2 .. 7
    BY <1>2, <1>5, LastOfKind DEF Places
  <2>2. Ready(a, n)
    BY <1>2, <1>5, <2>1 DEF Ready, Places
  <2>3. CASE a.state = 0
    <3>1. r = Start(a, d)
      BY <1>1, <1>5, <2>3
    <3> QED
      BY <2>2, <2>3, <3>1, StartGood DEF r
  <2>4. CASE a.state # 0
    <3>1. a.state \in 1 .. Last(a.kind)
      BY <2>1, <2>4
    <3>2. RowOk(row, Last(a.kind), a.state)
      BY <1>2, <1>5, <3>1, LastOfKind DEF row, table
    <3>3. Stepped(b, a, n) /\ Leads(b, a, row)
      BY <2>2, <3>2, StepGood DEF b
    <3>4. CASE ~(a.kind = 22 /\ a.state = 3 /\ b.running)
      <4>1. r = b
        BY <1>1, <1>5, <2>4, <3>4
      <4> QED
        BY <2>4, <3>3, <4>1 DEF Leads, Waits, r
    <3>5. CASE a.kind = 22 /\ a.state = 3 /\ b.running
      <4>1. r = c
        BY <1>1, <1>5, <2>4, <3>5
      <4>2. Runs(b, n) /\ Places(b, n) /\ b.kind = 22 /\ b.running = TRUE
        BY <3>3, <3>5 DEF Stepped, Good, Rests, Kept
      <4>3. Last(22) = 4 /\ Fits22 /\ RowOk(Table(22)[4], 4, 4)
        BY <1>2, <3>5, LastOfKind
      <4>4. b.state \in 1 .. 4
        BY <3>3, <3>5, <4>2, <4>3 DEF Leads, Fits22, Homes, row, table
      <4>5. RowOk(table[4], Last(b.kind), b.state)
        BY <3>5, <4>2, <4>3, <4>4 DEF RowOk, Fits22, table
      <4>6. Ready(b, n)
        BY <4>2, <4>3, <4>4 DEF Ready, Places
      <4>7. Stepped(c, b, n) /\ Leads(c, b, table[4])
        BY <4>5, <4>6, StepGood DEF c
      <4> QED
        BY <3>3, <4>1, <4>4, <4>7 DEF Stepped, Kept, Leads, Waits, r
    <3> QED
      BY <3>4, <3>5
  <2> QED
    BY <2>3, <2>4
<1> QED
  BY <1>3, <1>4, <1>5

\* The first state is not entered anew.
Stays(r, a) == r.state = 0 => r = a \/ r.running = FALSE

\* The motion after a homing has every encoder homed.
LEMMA PostHomeGood ==
    ASSUME NEW a, NEW n, Good(a, n), Ends(a)
    PROVE  Stepped(PostHomeMove(a), a, n) /\ Stays(PostHomeMove(a), a)
<1> DEFINE r == PostHomeMove(a)
           set == [SetTargetVel(a.traj, Towards) EXCEPT !.mode = "pos"]
           traj == SetTargetPos(set, PostTarget)
           t == TrajExecute([a EXCEPT !.traj = traj], TRUE)
           h == Halt(a)
           e == StopSeq(a)
<1>1. Base(a, n) /\ Shaped(a)
  BY DEF Good, Runs, Rests, Base
<1>2. a.state \in {1000, 1001, 1002} => Runs(a, n) /\ AllHomed(a)
  BY DEF Good, Rests, Places
<1>3. Rests(e, n) /\ Kept(e, a) /\ (AllHomed(a) => AllHomed(e))
  BY <1>1, StopSeqGood
<1>4. Shaped(h) /\ Only(h, a, Plain)
  BY <1>1, HaltFields DEF Only, Plain
<1>5. Shaped(t) /\ Only(t, a, Plain)
  <2>1. DOMAIN SetTargetVel(a.traj, Towards) = TrajFields
    BY <1>1, ShapeOfTraj DEF Shaped
  <2>2. DOMAIN set = TrajFields
    BY <2>1, ShapeOfTraj
  <2>3. DOMAIN traj = TrajFields
    BY <2>2, ShapeOfTraj
  <2> HIDE DEF traj, set
  <2> QED
    BY <1>1, <2>3, StartsFields DEF Only, Plain
<1>6. CASE a.state = 1000
  <2>1. r = IF a.setpoint = PostTarget THEN e ELSE Onward(h, 1001)
    BY <1>6 DEF PostHomeMove, Onward
  <2> HIDE DEF r, h, e
  <2>2. Runs(h, n) /\ AllHomed(h) /\ Kept(h, a)
    BY <1>2, <1>4, <1>6, PlainKeeps
  <2>3. Stepped(Onward(h, 1001), h, n) /\ Onward(h, 1001).state = 1001
    BY <2>2, Onwards
  <2>4. CASE a.setpoint = PostTarget
    <3>1. r = e /\ AllHomed(e)
      BY <1>2, <1>3, <1>6, <2>1, <2>4
    <3>2. Stepped(e, a, n) /\ e.running = FALSE
      BY <1>3, <3>1 DEF Stepped, Good, Ends, Rests
    <3> QED
      BY <3>1, <3>2 DEF Stays, r
  <2>5. CASE a.setpoint # PostTarget
    <3>1. r = Onward(h, 1001) /\ r.state # 0
      BY <2>1, <2>3, <2>5
    <3>2. Stepped(r, a, n)
      BY <2>2, <2>3, <3>1 DEF Stepped, Kept
    <3> QED
      BY <3>1, <3>2 DEF Stays, r
  <2> QED
    BY <2>4, <2>5
<1>7. CASE a.state = 1001
  <2>1. r = IF a.traj.busy THEN a ELSE Onward(t, 1002)
    BY <1>7 DEF PostHomeMove, Onward
  <2> HIDE DEF r, t
  <2>2. Runs(t, n) /\ AllHomed(t) /\ Kept(t, a)
    BY <1>2, <1>5, <1>7, PlainKeeps
  <2>3. Stepped(Onward(t, 1002), t, n) /\ Onward(t, 1002).state = 1002
    BY <2>2, Onwards
  <2> QED
    BY <1>7, <2>1, <2>2, <2>3 DEF Stays, Stepped, Kept, r
<1>8. CASE a.state = 1002
  <2> DEFINE error == e.error \/ a.traj.pos # PostTarget
             f == [e EXCEPT !.error = error]
  <2>1. r = IF a.traj.busy THEN a ELSE f
    BY <1>8 DEF PostHomeMove
  <2>2. error \in BOOLEAN
    BY Zenon
  <2> HIDE DEF r, e, error
  <2>3. Shaped(f) /\ Only(f, e, Plain)
    BY <1>3, <2>2 DEF Rests, Base, Shaped, Only, AxisFields, Plain
  <2> HIDE DEF f
  <2>4. Rests(f, n) /\ (AllHomed(e) => AllHomed(f)) /\ Kept(f, e)
    BY <1>3, <2>3, PlainKeeps
  <2>5. CASE a.traj.busy
    <3>1. r = a
      BY <2>1, <2>5
    <3> QED
      BY <3>1 DEF Stays, Stepped, Kept, r
  <2>6. CASE ~a.traj.busy
    <3>1. r = f /\ AllHomed(f)
      BY <1>2, <1>3, <1>8, <2>1, <2>4, <2>6
    <3>2. Stepped(f, a, n) /\ f.running = FALSE
      BY <1>3, <2>4, <3>1 DEF Stepped, Good, Ends, Kept, Rests
    <3> QED
      BY <3>1, <3>2 DEF Stays, r
  <2> QED
    BY <2>5, <2>6
<1>9. CASE a.state < 1000
  <2>1. r = a
    BY <1>9 DEF PostHomeMove
  <2>2. Stepped(a, a, n) /\ Stays(a, a)
    BY DEF Stays, Stepped, Kept
  <2> HIDE DEF r
  <2> QED
    BY <2>1, <2>2 DEF r
<1>10. a.state < 1000 \/ a.state \in {1000, 1001, 1002}
  <2>1. CASE Rests(a, n)
    BY <2>1 DEF Rests
  <2>2. CASE Runs(a, n) /\ Places(a, n)
    BY <2>2, LastOfKind DEF Runs, Places, States
  <2> QED
    BY <2>1, <2>2 DEF Good
<1> QED
  BY <1>6, <1>7, <1>8, <1>9, <1>10

\* A homing that is over has homed, reports an error or has given up on an axis that moves.
Reports(r, a) ==
    a.running = TRUE /\ r.running = FALSE
        => \/ r.error = TRUE
           \/ AllHomed(r)
           \/ a.kind \in 7 .. 10 /\ a.state = 0 /\ a.traj.busy

\* The sequencer in one cycle, with its time out.
LEMMA ExecuteGood ==
    ASSUME NEW a, NEW n, Good(a, n)
    PROVE  Good(Execute(a), n) /\ Kept(Execute(a), a) /\ Reports(Execute(a), a)
<1> DEFINE r == Execute(a)
           busy == (a.command = "home" /\ a.running) \/ a.traj.busy
           now == Sees(a.at)
           time == IF a.running /\ a.timeout > 0 THEN a.time + 1 ELSE a.time
           b == [a EXCEPT !.busy = busy, !.was = a.now, !.now = now, !.time = time]
           c == SwitchEncodersIfNeeded(b)
           s == Sequence(c)
           p == PostHomeMove(s)
<1>1. r = IF ~a.running THEN b
          ELSE IF a.timeout > 0 /\ b.time > a.timeout THEN Failed(b)
          ELSE Sequenced(p)
  BY DEF Execute
<1>2. Base(a, n) /\ Shaped(a) /\ a.running \in BOOLEAN /\ a.time \in 0 .. a.timeout
  BY DEF Good, Runs, Rests, Base
<1> HIDE DEF r, busy, now, time, c, s, p
<1>3. Shaped(b) /\ Only(b, a, {"busy", "was", "now", "time"}) /\ b.time = time
  BY <1>2 DEF Shaped, Only, AxisFields
<1> HIDE DEF b
<1>4. /\ b.kind = a.kind /\ b.home = a.home /\ b.refs = a.refs /\ b.timeout = a.timeout
      /\ b.source = a.source /\ b.command = a.command /\ b.oldPrimary = a.oldPrimary
      /\ b.atTarget = a.atTarget /\ b.running = a.running /\ b.primary = a.primary
      /\ b.latches = a.latches /\ b.state = a.state /\ b.enc = a.enc /\ b.traj = a.traj
  BY <1>3 DEF Only, AxisFields
<1>5. Base(b, n) /\ Kept(b, a)
  BY <1>2, <1>3, <1>4 DEF Base, Kept
<1>6. CASE ~a.running
  <2>1. r = b /\ b.time = a.time
    BY <1>1, <1>3, <1>6 DEF time
  <2>2. Rests(b, n)
    BY <1>4, <1>5, <1>6, <2>1 DEF Good, Runs, Rests
  <2> QED
    BY <1>5, <1>6, <2>1, <2>2 DEF Good, Reports, r
<1>7. CASE a.running /\ a.timeout > 0 /\ b.time > a.timeout
  <2>1. r = Failed(b)
    BY <1>1, <1>7
  <2>2. Rests(r, n) /\ Kept(r, b) /\ r.error = TRUE
    BY <1>5, <2>1, FailedGood
  <2>3. Good(r, n) /\ Kept(r, a)
    BY <1>5, <2>2 DEF Good, Kept
  <2>4. Reports(r, a)
    BY <2>2 DEF Reports
  <2> QED
    BY <2>3, <2>4 DEF r
<1>8. CASE a.running /\ ~(a.timeout > 0 /\ b.time > a.timeout)
  <2>1. r = Sequenced(p)
    BY <1>1, <1>8
  <2>2. Runs(a, n) /\ Places(a, n)
    BY <1>8 DEF Good, Rests
  <2>3. b.time \in 0 .. b.timeout
    BY <1>2, <1>3, <1>4, <1>8 DEF time, Base
  <2>4. Runs(b, n) /\ Places(b, n)
    BY <1>4, <1>5, <2>2, <2>3 DEF Runs, Places, AllHomed
  <2>5. /\ Shaped(c) /\ c.primary = b.home
        /\ Only(c, b, {"traj", "actual", "setpoint", "offset", "primary", "oldPrimary"})
        /\ c.traj.busy = b.traj.busy
        /\ c.oldPrimary = IF b.home = b.primary THEN b.oldPrimary ELSE b.primary
    BY <1>3, SwitchFields DEF c
  <2>6. c.oldPrimary = 0
    BY <2>4, <2>5 DEF Runs, Base
  <2>7. /\ c.kind = b.kind /\ c.home = b.home /\ c.refs = b.refs /\ c.timeout = b.timeout
        /\ c.source = b.source /\ c.command = b.command /\ c.atTarget = b.atTarget
        /\ c.running = b.running /\ c.latches = b.latches /\ c.state = b.state
        /\ c.enc = b.enc /\ c.time = b.time
    BY <2>5 DEF Only, AxisFields
  <2>8. Runs(c, n) /\ Places(c, n) /\ Kept(c, b)
    BY <2>4, <2>5, <2>6, <2>7 DEF Runs, Base, Places, AllHomed, Kept
  <2>9. Stepped(s, c, n) /\ Waits(s, c)
    BY <2>5, <2>7, <2>8, SequenceGood DEF Good, Runs, s
  <2>10. Stepped(p, s, n) /\ Stays(p, s)
    BY <2>9, PostHomeGood DEF Stepped, p
  <2>11. Good(p, n) /\ Ends(p) /\ Kept(p, a)
    BY <1>5, <2>8, <2>9, <2>10 DEF Stepped, Kept
  <2>12. CASE p.state = 0
    <3>1. r = StopSeq(p)
      BY <2>1, <2>12 DEF Sequenced
    <3>2. Base(p, n)
      BY <2>11 DEF Good, Runs, Rests
    <3>3. Rests(r, n) /\ Kept(r, p) /\ (AllHomed(p) => AllHomed(r)) /\ r.error = p.error
      BY <3>1, <3>2, StopSeqGood
    <3>4. CASE p.running = TRUE
      <4>1. p = s
        BY <2>10, <2>12, <3>4 DEF Stays
      <4>2. a.kind \in 7 .. 10 /\ a.state = 0 /\ a.traj.busy
        BY <1>4, <2>5, <2>7, <2>9, <2>12, <3>4, <4>1 DEF Waits
      <4> QED
        BY <2>11, <3>3, <4>2 DEF Good, Reports, Kept, r
    <3>5. CASE p.running # TRUE
      <4>1. r.error = TRUE \/ AllHomed(r)
        BY <2>11, <3>3, <3>5 DEF Ends
      <4>2. Reports(r, a)
        BY <4>1 DEF Reports
      <4>3. Good(r, n) /\ Kept(r, a)
        BY <2>11, <3>3 DEF Good, Kept
      <4> QED
        BY <4>2, <4>3 DEF r
    <3> QED
      BY <3>4, <3>5
  <2>13. CASE p.state # 0
    <3>1. r = p
      BY <2>1, <2>13 DEF Sequenced
    <3>2. Reports(p, a)
      BY <2>11, <3>1 DEF Ends, Reports, Good, Runs, Rests
    <3> QED
      BY <2>11, <3>1, <3>2 DEF r
  <2> QED
    BY <2>12, <2>13
<1> QED
  BY <1>2, <1>6, <1>7, <1>8

(***************************************************************************)
(* The cycle                                                               *)
(***************************************************************************)
\* Encoders, switches and generator do not touch the sequence.
LEMMA ReadFields ==
    ASSUME NEW a, Shaped(a)
    PROVE  /\ Shaped(OwnSetpoint(Read(a))) /\ Only(OwnSetpoint(Read(a)), a, Plain)
           /\ OwnSetpoint(Read(a)).traj.busy => a.traj.busy
<1> DEFINE filter == Append(Tail(a.filter), Sees(a.out))
           speed == a.out - a.at
           latch == Latched(a, a.out)
           b == [a EXCEPT !.at = a.out, !.speed = speed, !.latch = latch, !.filter = filter]
           flags == IF NoExecute(b.traj) THEN b.flags \cup {"noExecute"} ELSE b.flags
           traj == GetNextPosSet(b.traj, Summary(flags), FALSE)
           error == b.error \/ (b.traj.execute /\ ~b.traj.enable)
           r == OwnSetpoint(b)
<1>1. b = Read(a)
  BY DEF Read
<1>2. r = [b EXCEPT !.traj = traj, !.flags = flags, !.setpoint = traj.pos, !.error = error]
  BY Zenon DEF OwnSetpoint
<1>3. error \in BOOLEAN
  BY Zenon
<1> HIDE DEF filter, speed, latch
<1>4. Shaped(b) /\ Only(b, a, Plain) /\ b.traj = a.traj
  BY DEF Shaped, Only, AxisFields, Plain
<1> HIDE DEF b, flags, error
<1>5. DOMAIN traj = TrajFields /\ (traj.busy => a.traj.busy)
  BY <1>4, NextPosSet DEF Shaped
<1> HIDE DEF r, traj
<1>6. Shaped(r) /\ Only(r, b, Plain) /\ r.traj = traj
  BY <1>2, <1>3, <1>4, <1>5 DEF Shaped, Only, AxisFields, Plain
<1>7. Only(r, a, Plain)
  BY <1>4, <1>6 DEF Only
<1> QED
  BY <1>1, <1>5, <1>6, <1>7 DEF r

\* What the rest of the cycle does with what the sequencer has left.
Same(r, a) ==
    /\ r.running = a.running /\ r.error = a.error /\ Kept(r, a)
    /\ AllHomed(a) => AllHomed(r)

\* Neither do the checks at the end of the cycle.
LEMMA RestOfCycle ==
    ASSUME NEW a, NEW n, Good(a, n), NEW moving, NEW aim, NEW out, NEW onTarget, NEW executeOld,
           NEW c, NEW r, c = CheckAtTarget(CheckLimits(a, moving), aim),
           r = [c EXCEPT !.out = out, !.onTarget = onTarget, !.executeOld = executeOld]
    PROVE  Good(r, n) /\ Same(r, a)
<1> DEFINE bwd == LimitInterlock(a.flags, "bwdLimit", ~a.now.bwd, moving /\ a.speed <= 0)
           flags == LimitInterlock(bwd, "fwdLimit", ~a.now.fwd, moving /\ a.speed >= 0)
           b == CheckLimits(a, moving)
           settled == IF ~b.onTarget \/ aim # b.setpoint THEN 0
                      ELSE IF b.atTarget <= AtTargetTime THEN b.atTarget + 1 ELSE b.atTarget
<1>1. b = [a EXCEPT !.flags = flags]
  BY DEF CheckLimits
<1>2. c = [b EXCEPT !.atTarget = settled]
  BY DEF CheckAtTarget
<1>3. Base(a, n) /\ Shaped(a)
  BY DEF Good, Runs, Rests, Base
<1> HIDE DEF bwd, flags, b
<1>4. Shaped(b) /\ Only(b, a, {"flags"})
  BY <1>1, <1>3 DEF Shaped, Only, AxisFields
<1>5. b.atTarget = a.atTarget
  BY <1>4 DEF Only, AxisFields
<1>6. settled \in 0 .. (AtTargetTime + 1)
  BY <1>3, <1>5, HomingAssumption DEF Base
<1> HIDE DEF settled
<1>7. /\ Shaped(r) /\ Only(r, a, {"flags", "atTarget", "out", "onTarget", "executeOld"})
      /\ r.atTarget = settled
  BY <1>2, <1>4 DEF Shaped, Only, AxisFields
<1>8. /\ r.kind = a.kind /\ r.home = a.home /\ r.refs = a.refs /\ r.timeout = a.timeout
      /\ r.source = a.source /\ r.command = a.command /\ r.oldPrimary = a.oldPrimary
      /\ r.running = a.running /\ r.primary = a.primary /\ r.time = a.time
      /\ r.latches = a.latches /\ r.state = a.state /\ r.enc = a.enc /\ r.error = a.error
  BY <1>7 DEF Only, AxisFields
<1>9. AllHomed(a) => AllHomed(r)
  BY <1>8 DEF AllHomed
<1>10. Base(r, n)
  BY <1>3, <1>6, <1>7, <1>8 DEF Base
<1>11. CASE Rests(a, n)
  BY <1>8, <1>9, <1>10, <1>11 DEF Good, Rests, Same, Kept
<1>12. CASE Runs(a, n) /\ Places(a, n)
  <2>1. Runs(r, n) /\ Places(r, n)
    BY <1>8, <1>9, <1>10, <1>12 DEF Runs, Places
  <2> QED
    BY <1>8, <1>9, <2>1 DEF Good, Same, Kept
<1> QED
  BY <1>11, <1>12 DEF Good

\* A whole cycle.
LEMMA CycleGood ==
    ASSUME Good(axis, given), Cycle
    PROVE  Good(axis', given) /\ Reports(axis', axis) /\ Kept(axis', axis)
<1> DEFINE Rest(c) == [c EXCEPT !.out = c.setpoint + c.offset,
                                !.onTarget = (c.setpoint = c.actual),
                                !.executeOld = GetExecute(c)]
<1>a. PICK next \in {OwnSetpoint(Read(axis))} :
         \E seen \in {[next EXCEPT !.actual = ActPos(next, next.primary),
                                   !.traj.start = next.setpoint]} :
         \E run \in {Execute(seen)} :
         \E c \in {CheckAtTarget(CheckLimits(run, Moving(axis)), Aim(axis.traj))} :
             axis' = Rest(c)
  BY DEF Cycle
<1> HIDE DEF Rest
<1>b. PICK seen \in {[next EXCEPT !.actual = ActPos(next, next.primary),
                                 !.traj.start = next.setpoint]} :
         \E run \in {Execute(seen)} :
         \E c \in {CheckAtTarget(CheckLimits(run, Moving(axis)), Aim(axis.traj))} :
             axis' = Rest(c)
  BY <1>a
<1>c. PICK run \in {Execute(seen)} :
         \E c \in {CheckAtTarget(CheckLimits(run, Moving(axis)), Aim(axis.traj))} :
             axis' = Rest(c)
  BY <1>b
<1>d. PICK c \in {CheckAtTarget(CheckLimits(run, Moving(axis)), Aim(axis.traj))} :
             axis' = Rest(c)
  BY <1>c
<1> DEFINE moving == Moving(axis)
           aim == Aim(axis.traj)
           out == c.setpoint + c.offset
           onTarget == c.setpoint = c.actual
           executeOld == GetExecute(c)
<1>e. axis' = [c EXCEPT !.out = out, !.onTarget = onTarget, !.executeOld = executeOld]
  BY <1>d, Zenon DEF Rest
<1>f. c = CheckAtTarget(CheckLimits(run, moving), aim)
  BY <1>d
<1> HIDE DEF moving, aim, out, onTarget, executeOld
<1>2. Shaped(axis)
  BY DEF Good, Runs, Rests, Base
<1>3. Shaped(next) /\ Only(next, axis, Plain) /\ (next.traj.busy => axis.traj.busy)
  BY <1>a, <1>2, ReadFields
<1> DEFINE traj == [next.traj EXCEPT !.start = next.setpoint]
           actual == ActPos(next, next.primary)
<1>4. seen = [next EXCEPT !.actual = actual, !.traj = traj]
  BY <1>b
<1> HIDE DEF actual
<1>5. DOMAIN traj = TrajFields /\ traj.busy = next.traj.busy
  BY <1>3, ShapeOfTraj DEF Shaped
<1> HIDE DEF traj
<1>6. Shaped(seen) /\ Only(seen, next, Plain) /\ seen.traj = traj
  BY <1>3, <1>4 , <1>5 DEF Shaped, Only, AxisFields, Plain
<1>7. Only(seen, axis, Plain) /\ (seen.traj.busy => axis.traj.busy)
  BY <1>3, <1>5, <1>6 DEF Only
<1>8. /\ Good(seen, given) /\ seen.state = axis.state /\ seen.running = axis.running
      /\ Kept(seen, axis)
  BY <1>6, <1>7, PlainKeeps
<1>9. Good(run, given) /\ Reports(run, seen) /\ Kept(run, seen)
  BY <1>8, <1>c, ExecuteGood
<1>10. Good(axis', given) /\ Same(axis', run)
  BY <1>9, <1>e, <1>f, RestOfCycle
<1>11. seen.kind = axis.kind
  BY <1>8 DEF Kept
<1>12. Reports(axis', axis)
  BY <1>7, <1>8, <1>9, <1>10, <1>11 DEF Reports, Same
<1>13. Kept(axis', axis)
  BY <1>8, <1>9, <1>10 DEF Same, Kept
<1> QED
  BY <1>10, <1>12, <1>13

(***************************************************************************)
(* The commands                                                            *)
(***************************************************************************)
\* What the commands of a motion leave alone as well.
Motional == {"traj", "flags", "execute", "pos", "velocity", "busy", "error"}

\* A motion that is commanded or taken back.
LEMMA TrajExecuteAny ==
    ASSUME NEW a, Shaped(a), NEW on \in BOOLEAN
    PROVE  Shaped(TrajExecute(a, on)) /\ Only(TrajExecute(a, on), a, {"traj", "flags", "error"})
<1>1. CASE on = TRUE
  BY <1>1, TrajExecuteFields
<1>2. CASE on = FALSE
  BY <1>2, HaltFields DEF Halt
<1> QED
  BY <1>1, <1>2

\* setExecute() of a motion, and that it can always be taken back.
LEMMA SetExecuteFields ==
    ASSUME NEW a, Shaped(a), a.source = "internal", NEW on \in BOOLEAN
    PROVE  /\ Shaped(SetExecute(a, on)) /\ Only(SetExecute(a, on), a, Motional)
           /\ on = FALSE => SetExecute(a, on).execute = FALSE
<1> DEFINE r == SetExecute(a, on)
           s == SeqSetExecute(a, on)
           rises == on /\ ~a.execute
           set == SetTargetVel(a.traj, a.velocity)
           moved == [set EXCEPT !.mode = a.command]
           traj == IF ~rises THEN a.traj
                   ELSE IF a.command = "pos" THEN SetTargetPos(moved, a.pos) ELSE moved
           busy == a.busy \/ rises
           refused == [a EXCEPT !.execute = TRUE, !.error = TRUE]
           b == [a EXCEPT !.execute = on, !.busy = busy, !.traj = traj]
           t == TrajExecute(b, on)
<1>1. r = IF on /\ (~a.enable \/ (~a.executeOld /\ a.busy)) THEN [a EXCEPT !.error = TRUE] ELSE s
  BY DEF SetExecute, Internal
<1>2. s = IF rises /\ a.velocity = 0 THEN refused ELSE t
  BY DEF SeqSetExecute
<1>3. DOMAIN set = TrajFields
  BY ShapeOfTraj DEF Shaped
<1> HIDE DEF set
<1>4. DOMAIN moved = TrajFields
  BY <1>3, ShapeOfTraj
<1> HIDE DEF moved
<1>5. DOMAIN traj = TrajFields
  BY <1>4, ShapeOfTraj DEF Shaped
<1>6. on = FALSE => ~rises
  OBVIOUS
<1> HIDE DEF r, s, traj, busy, rises
<1>7. Shaped(b) /\ Only(b, a, {"execute", "busy", "traj"}) /\ b.execute = on
  BY <1>5 DEF Shaped, Only, AxisFields
<1> HIDE DEF b
<1>8. Shaped(t) /\ Only(t, b, {"traj", "flags", "error"})
  BY <1>7, TrajExecuteAny
<1> HIDE DEF t
<1>9. Only(t, a, Motional) /\ t.execute = on
  BY <1>7, <1>8 DEF Only, AxisFields, Motional
<1>10. CASE on /\ (~a.enable \/ (~a.executeOld /\ a.busy))
  BY <1>1, <1>10 DEF Shaped, Only, AxisFields, Motional, r
<1>11. CASE ~(on /\ (~a.enable \/ (~a.executeOld /\ a.busy))) /\ rises /\ a.velocity = 0
  <2>1. r = refused
    BY <1>1, <1>2, <1>11
  <2>2. Shaped(r) /\ Only(r, a, Motional)
    BY <2>1 DEF Shaped, Only, AxisFields, Motional
  <2> QED
    BY <1>6, <1>11, <2>2 DEF r
<1>12. CASE ~(on /\ (~a.enable \/ (~a.executeOld /\ a.busy))) /\ ~(rises /\ a.velocity = 0)
  <2>1. r = t
    BY <1>1, <1>2, <1>12
  <2> QED
    BY <1>8, <1>9, <2>1 DEF r
<1> QED
  BY <1>10, <1>11, <1>12

\* A new velocity and a new position.
LEMMA TargetFields ==
    ASSUME NEW a, Shaped(a), NEW vel, NEW pos
    PROVE  /\ Shaped(SeqSetTargetPos(SeqSetTargetVel(a, vel), pos))
           /\ Only(SeqSetTargetPos(SeqSetTargetVel(a, vel), pos), a, Motional)
<1> DEFINE set == SetTargetVel(a.traj, vel)
           b == [a EXCEPT !.velocity = vel, !.traj = set]
           traj == IF b.busy THEN SetTargetPos(b.traj, pos) ELSE b.traj
           r == SeqSetTargetPos(b, pos)
<1>1. b = SeqSetTargetVel(a, vel)
  BY DEF SeqSetTargetVel
<1>2. r = [b EXCEPT !.pos = pos, !.traj = traj]
  BY DEF SeqSetTargetPos
<1>3. DOMAIN set = TrajFields
  BY ShapeOfTraj DEF Shaped
<1> HIDE DEF set
<1>4. Shaped(b) /\ Only(b, a, {"velocity", "traj"})
  BY <1>3 DEF Shaped, Only, AxisFields
<1> HIDE DEF b, r
<1>5. DOMAIN traj = TrajFields
  <2>1. DOMAIN b.traj = TrajFields
    BY <1>4 DEF Shaped
  <2>2. DOMAIN SetTargetPos(b.traj, pos) = TrajFields
    BY <2>1, ShapeOfTraj
  <2> QED
    BY <2>1, <2>2
<1> HIDE DEF traj
<1>6. Shaped(r) /\ Only(r, b, {"pos", "traj"})
  BY <1>2, <1>4, <1>5 DEF Shaped, Only, AxisFields
<1>7. Only(r, a, Motional)
  BY <1>4, <1>6 DEF Only, Motional
<1> QED
  BY <1>1, <1>6, <1>7 DEF r

\* The calls of a motion keep the invariant.
LEMMA MotionalKeeps ==
    ASSUME NEW a, NEW n, NEW r, Shaped(r), Only(r, a, Motional)
    PROVE  (Good(a, n) => Good(r, n)) /\ (Rests(a, n) => Rests(r, n)) /\ Kept(r, a)
<1>1. Only(r, a, Plain)
  BY DEF Only, Motional, Plain
<1> QED
  BY <1>1, PlainKeeps

\* A command takes the axis out of its sequence.
LEMMA AxisStops ==
    ASSUME NEW a, NEW n, Good(a, n)
    PROVE  /\ Rests(AxisSetExecute(a, FALSE), n)
           /\ AxisSetExecute(a, FALSE).execute = FALSE
<1> DEFINE r == AxisSetExecute(a, FALSE)
           z == 0
           b == [a EXCEPT !.execute = FALSE, !.running = FALSE, !.state = z]
<1>1. Base(a, n) /\ Shaped(a)
  BY DEF Good, Runs, Rests, Base
<1>2. CASE a.command # "home"
  <2>1. r = SetExecute(a, FALSE)
    BY <1>2 DEF AxisSetExecute
  <2>2. Shaped(r) /\ Only(r, a, Motional) /\ r.execute = FALSE
    BY <1>1, <2>1, SetExecuteFields DEF Base
  <2>3. Rests(a, n)
    BY <1>2 DEF Good, Runs
  <2> HIDE DEF r
  <2> QED
    BY <2>2, <2>3, MotionalKeeps DEF r
<1>3. CASE a.command = "home"
  <2>1. r = StopSeq(b)
    BY <1>3 DEF AxisSetExecute, SeqSetExecuteHome
  <2> HIDE DEF z
  <2>2. Shaped(b) /\ Only(b, a, {"execute", "running", "state"}) /\ b.execute = FALSE
    BY <1>1 DEF Shaped, Only, AxisFields
  <2> HIDE DEF b, r
  <2>3. /\ b.kind = a.kind /\ b.home = a.home /\ b.refs = a.refs /\ b.timeout = a.timeout
        /\ b.source = a.source /\ b.command = a.command /\ b.oldPrimary = a.oldPrimary
        /\ b.atTarget = a.atTarget /\ b.latches = a.latches
    BY <2>2 DEF Only, AxisFields
  <2>4. Base(b, n)
    BY <1>1, <2>2, <2>3 DEF Base
  <2>5. Rests(r, n)
    BY <2>1, <2>4, StopSeqGood
  <2>6. Only(r, b, AtEnd)
    BY <2>1, <2>2, StopSeqFields
  <2>7. r.execute = b.execute
    BY <2>6 DEF Only, AxisFields, AtEnd
  <2> QED
    BY <2>2, <2>5, <2>7 DEF r
<1> QED
  BY <1>2, <1>3

\* There is room for the latches of one more homing.
LEMMA RoomForMore ==
    ASSUME NEW a, NEW n, Good(a, n)
    PROVE  Good(a, n + 1)
<1>1. n \in Nat /\ LatchCount \in Nat
  BY HomingAssumption DEF Good, Runs, Rests, Base
<1>2. a.latches \in Nat
  BY DEF Good, Runs, Rests, Base
<1>3. a.latches < LatchCount + n => a.latches < LatchCount + (n + 1)
  BY <1>1, <1>2
<1>4. a.latches + 1 < LatchCount + n => a.latches + 1 < LatchCount + (n + 1)
  BY <1>1, <1>2
<1>5. Base(a, n) => Base(a, n + 1)
  BY <1>1, <1>3 DEF Base
<1>6. n + 1 # 0
  BY <1>1
<1> QED
  BY <1>4, <1>5, <1>6 DEF Good, Runs, Rests, Places

\* A homing that is commanded starts at the beginning, with an encoder of the axis in
\* control, whatever it interrupts.
LEMMA HomeGood ==
    ASSUME NEW a, NEW n, Good(a, n), NEW kind \in Kinds
    PROVE  Good(MoveHome(a, kind), n + 1)
<1> DEFINE s == AxisSetExecute(a, FALSE)
           b == [s EXCEPT !.command = "home", !.kind = kind]
           r == MoveHome(a, kind)
           q == AxisSetExecute(b, TRUE)
           e == StopSeq(b)
           z == 0
           start == [b EXCEPT !.execute = TRUE, !.running = FALSE, !.state = z]
           stop == StopSeq(start)
           started == [stop EXCEPT !.running = TRUE, !.busy = TRUE]
<1>1. r = IF a.error THEN a ELSE q
  BY DEF MoveHome
<1>2. Rests(s, n) /\ s.execute = FALSE
  BY AxisStops
<1> HIDE DEF s, r
<1>3. Shaped(s) /\ n \in Nat
  BY <1>2 DEF Rests, Base
<1>4. /\ Shaped(b) /\ Only(b, s, {"command", "kind"}) /\ b.command = "home" /\ b.kind = kind
  BY <1>3 DEF Shaped, Only, AxisFields
<1> HIDE DEF b
<1>5. /\ b.home = s.home /\ b.refs = s.refs /\ b.timeout = s.timeout
      /\ b.source = s.source /\ b.oldPrimary = s.oldPrimary
      /\ b.atTarget = s.atTarget /\ b.running = s.running /\ b.primary = s.primary
      /\ b.time = s.time /\ b.latches = s.latches /\ b.state = s.state
      /\ b.execute = s.execute
  BY <1>4 DEF Only, AxisFields
<1>6. Rests(b, n)
  BY <1>2, <1>4, <1>5 DEF Rests, Base
<1>7. q = IF ~b.executeOld /\ b.busy THEN [b EXCEPT !.error = TRUE] ELSE started
  BY <1>2, <1>4, <1>5 DEF AxisSetExecute, SeqSetExecuteHome
<1> HIDE DEF z, q
<1>8. Shaped(start) /\ Only(start, b, {"execute", "running", "state"})
  BY <1>4 DEF Shaped, Only, AxisFields
<1> HIDE DEF start
<1>9. /\ start.home = b.home /\ start.refs = b.refs /\ start.timeout = b.timeout
      /\ start.source = b.source /\ start.oldPrimary = b.oldPrimary
      /\ start.atTarget = b.atTarget /\ start.latches = b.latches
      /\ start.command = b.command /\ start.kind = b.kind
  BY <1>8 DEF Only, AxisFields
<1>10. Base(start, n)
  BY <1>6, <1>8, <1>9 DEF Rests, Base
<1>11. Rests(stop, n) /\ Kept(stop, start)
  BY <1>10, StopSeqGood
<1>12. stop.kind = kind /\ stop.command = "home"
  BY <1>4, <1>9, <1>11 DEF Kept
<1> HIDE DEF stop
<1>13. Good(started, n + 1)
  <2>1. /\ Shaped(started) /\ Only(started, stop, {"running", "busy"}) /\ started.running = TRUE
    BY <1>11 DEF Rests, Base, Shaped, Only, AxisFields
  <2> HIDE DEF started
  <2>2. /\ started.home = stop.home /\ started.refs = stop.refs
        /\ started.timeout = stop.timeout /\ started.source = stop.source
        /\ started.oldPrimary = stop.oldPrimary /\ started.atTarget = stop.atTarget
        /\ started.latches = stop.latches /\ started.command = stop.command
        /\ started.kind = stop.kind /\ started.state = stop.state
        /\ started.primary = stop.primary /\ started.time = stop.time
    BY <2>1 DEF Only, AxisFields
  <2>3. LatchCount \in Nat /\ stop.latches \in Nat /\ stop.latches < LatchCount + n
    BY <1>11, HomingAssumption DEF Rests, Base
  <2>4. stop.latches < LatchCount + (n + 1) /\ stop.latches + 1 < LatchCount + (n + 1)
    BY <1>3, <2>3
  <2>5. n + 1 \in Nat /\ n + 1 # 0
    BY <1>3
  <2>6. Base(started, n + 1)
    BY <1>11, <1>12, <2>1, <2>2, <2>4, <2>5 DEF Rests, Base
  <2>7. Runs(started, n + 1)
    BY <1>11, <1>12, <2>1, <2>2, <2>5, <2>6 DEF Rests, Runs
  <2>8. started.state = 0
    BY <1>11, <2>2 DEF Rests
  <2>9. started.latches + 1 < LatchCount + (n + 1)
    BY <2>2, <2>4
  <2>10. Places(started, n + 1)
    BY <2>8, <2>9 DEF Places, States
  <2> QED
    BY <2>7, <2>10 DEF Good
<1>14. Good([b EXCEPT !.error = TRUE], n + 1)
  <2>1. Shaped([b EXCEPT !.error = TRUE]) /\ Only([b EXCEPT !.error = TRUE], b, Motional)
    BY <1>4 DEF Shaped, Only, AxisFields, Motional
  <2>2. Good([b EXCEPT !.error = TRUE], n)
    BY <1>6, <2>1, MotionalKeeps DEF Good
  <2> QED
    BY <2>2, RoomForMore
<1>15. Good(a, n + 1)
  BY RoomForMore
<1>16. CASE a.error
  BY <1>1, <1>15, <1>16 DEF r
<1>17. CASE ~a.error /\ ~b.executeOld /\ b.busy
  BY <1>1, <1>7, <1>14, <1>17 DEF r
<1>18. CASE ~a.error /\ ~(~b.executeOld /\ b.busy)
  BY <1>1, <1>7, <1>13, <1>18 DEF r
<1> QED
  BY <1>16, <1>17, <1>18

\* A motion that is commanded, possibly in the middle of a homing.
LEMMA MoveGood ==
    ASSUME NEW a, NEW n, Good(a, n), NEW pos
    PROVE  Good(MoveAbsolutePosition(a, pos), n + 1)
<1> DEFINE s == AxisSetExecute(a, FALSE)
           b == [s EXCEPT !.command = "pos"]
           r == MoveAbsolutePosition(a, pos)
           t == SeqSetTargetPos(SeqSetTargetVel(a, Towards), pos)
           u == SeqSetTargetPos(SeqSetTargetVel(b, Towards), pos)
           v == SetExecute(u, TRUE)
<1>1. r = IF OnTheFly(a, "pos") THEN t ELSE IF a.error THEN a ELSE v
  BY DEF MoveAbsolutePosition
<1>2. Rests(s, n)
  BY AxisStops
<1>3. Good(a, n + 1) /\ Shaped(a)
  BY RoomForMore DEF Good, Runs, Rests, Base
<1>4. Good(t, n)
  BY <1>3, TargetFields, MotionalKeeps
<1>5. Good(t, n + 1)
  BY <1>4, RoomForMore
<1> HIDE DEF s, r, t
<1>6. Shaped(b) /\ Only(b, s, {"command"}) /\ b.command = "pos"
  BY <1>2 DEF Rests, Base, Shaped, Only, AxisFields
<1> HIDE DEF b
<1>7. /\ b.home = s.home /\ b.refs = s.refs /\ b.timeout = s.timeout /\ b.kind = s.kind
      /\ b.source = s.source /\ b.oldPrimary = s.oldPrimary
      /\ b.atTarget = s.atTarget /\ b.running = s.running /\ b.primary = s.primary
      /\ b.time = s.time /\ b.latches = s.latches /\ b.state = s.state
  BY <1>6 DEF Only, AxisFields
<1>8. Rests(b, n)
  BY <1>2, <1>6, <1>7 DEF Rests, Base
<1>9. Rests(u, n)
  BY <1>6, <1>8, TargetFields, MotionalKeeps
<1> HIDE DEF u
<1>10. Shaped(u) /\ u.source = "internal"
  BY <1>9 DEF Rests, Base
<1>11. Rests(v, n)
  BY <1>9, <1>10, SetExecuteFields, MotionalKeeps
<1>12. Good(v, n + 1)
  BY <1>11, RoomForMore DEF Good
<1> HIDE DEF v
<1> QED
  BY <1>1, <1>3, <1>5, <1>12 DEF r

\* A stop.
LEMMA StopGood ==
    ASSUME NEW a, NEW n, Good(a, n)
    PROVE  Good(AxisSetExecute(a, FALSE), n + 1)
<1>1. Good(AxisSetExecute(a, FALSE), n)
  BY AxisStops DEF Good
<1> QED
  BY <1>1, RoomForMore

\* A reset of the errors.
LEMMA ResetGood ==
    ASSUME NEW a, NEW n, Good(a, n), NEW r,
           r = [a EXCEPT !.error = FALSE, !.flags = {}, !.atTarget = 0]
    PROVE  Good(r, n + 1)
<1> DEFINE z == 0
<1>1. Shaped(a) /\ r = [a EXCEPT !.error = FALSE, !.flags = {}, !.atTarget = z]
  BY DEF Good, Runs, Rests, Base
<1>2. z \in 0 .. (AtTargetTime + 1)
  BY HomingAssumption
<1> HIDE DEF z
<1>3. Shaped(r) /\ Only(r, a, {"error", "flags", "atTarget"}) /\ r.atTarget = z
  BY <1>1 DEF Shaped, Only, AxisFields
<1>4. /\ r.kind = a.kind /\ r.home = a.home /\ r.refs = a.refs /\ r.timeout = a.timeout
      /\ r.source = a.source /\ r.command = a.command /\ r.oldPrimary = a.oldPrimary
      /\ r.running = a.running /\ r.primary = a.primary /\ r.time = a.time
      /\ r.latches = a.latches /\ r.state = a.state /\ r.enc = a.enc
  BY <1>3 DEF Only, AxisFields
<1>5. Base(a, n) => Base(r, n)
  BY <1>2, <1>3, <1>4 DEF Base
<1>6. AllHomed(a) => AllHomed(r)
  BY <1>4 DEF AllHomed
<1>7. Good(r, n)
  BY <1>4, <1>5, <1>6 DEF Good, Runs, Rests, Places
<1> QED
  BY <1>7, RoomForMore

(***************************************************************************)
(* The theorems                                                            *)
(***************************************************************************)
\* The inductive invariant of the specification.
IInv == Good(axis, given)

\* It holds at first.
LEMMA InitGood == Init => IInv
<1> SUFFICES ASSUME Init
             PROVE  IInv
  OBVIOUS
<1>1. PICK at \in Starts, home \in HomeEncoders, refs \in Referenced, post \in PostMoves,
           timeout \in SeqTimeouts :
        /\ home = 0 => refs = Encoders
        /\ axis = [traj |-> [Idle EXCEPT !.enable = TRUE, !.start = at, !.pos = at, !.local = at,
                                        !.target = at],
                  flags |-> {}, source |-> "internal", execute |-> FALSE, executeOld |-> FALSE,
                  enable |-> TRUE, enabled |-> TRUE, command |-> "pos", pos |-> at, velocity |-> 0,
                  setpoint |-> at, actual |-> at, speed |-> 0, busy |-> FALSE, error |-> FALSE,
                  at |-> at, out |-> at, offset |-> 0, onTarget |-> TRUE, atTarget |-> 0,
                  now |-> Sees(at), was |-> Sees(at),
                  filter |-> [i \in 1..FilterCycles |-> Sees(at)],
                  enc |-> [e \in Encoders |-> [offset |-> -(e * Shift), homed |-> FALSE]],
                  latch |-> [armed |-> FALSE, high |-> FALSE, new |-> FALSE, at |-> 0],
                  primary |-> 0, oldPrimary |-> 0, home |-> home, refs |-> refs, post |-> post,
                  timeout |-> timeout, kind |-> 0, state |-> 0, running |-> FALSE, time |-> 0,
                  latch1 |-> 0, latch2 |-> 0, latches |-> 0]
  BY DEF Init
<1>2. /\ axis.kind = 0 /\ axis.home = home /\ axis.refs = refs /\ axis.timeout = timeout
      /\ axis.source = "internal" /\ axis.command = "pos" /\ axis.oldPrimary = 0
      /\ axis.running = FALSE /\ axis.primary = 0 /\ axis.time = 0 /\ axis.atTarget = 0
      /\ axis.latches = 0 /\ axis.state = 0 /\ axis.error = FALSE
  BY <1>1
<1>3. DOMAIN axis = AxisFields
  BY <1>1 DEF AxisFields
<1>4. DOMAIN axis.traj = TrajFields
  BY <1>1 DEF TrajFields, Idle
<1>5. DOMAIN axis.enc = Encoders
  BY <1>1
<1>6. home \in Encoders /\ refs \subseteq Encoders /\ timeout \in Nat
  BY HomingAssumption DEF Encoders
<1>8. AtTargetTime \in Nat /\ LatchCount \in Nat \ {0}
  BY HomingAssumption
<1>9. 0 \in 0 .. (AtTargetTime + 1) /\ 0 < LatchCount + 0
  BY <1>8
<1>10. given = 0
  BY DEF Init
<1>7. Shaped(axis)
  BY <1>2, <1>3, <1>4, <1>5 DEF Shaped
<1> QED
  BY <1>2, <1>6, <1>7, <1>9, <1>10 DEF IInv, Good, Rests, Base

\* Every step keeps it.
LEMMA NextGood == IInv /\ [Next]_vars => IInv'
<1> SUFFICES ASSUME IInv, [Next]_vars
             PROVE  IInv'
  OBVIOUS
<1>1. CASE Cycle
  <2>1. given' = given
    BY <1>1 DEF Cycle
  <2> QED
    BY <1>1, <2>1, CycleGood DEF IInv
<1>2. CASE Home
  <2>1. PICK kind \in Kinds : axis' = MoveHome(axis, kind) /\ given' = given + 1
    BY <1>2 DEF Home, Command
  <2> QED
    BY <2>1, HomeGood DEF IInv
<1>3. CASE MoveTo
  <2>1. PICK pos \in Targets : axis' = MoveAbsolutePosition(axis, pos) /\ given' = given + 1
    BY <1>3 DEF MoveTo, Command
  <2> QED
    BY <2>1, MoveGood DEF IInv
<1>4. CASE Stop
  <2>1. axis' = AxisSetExecute(axis, FALSE) /\ given' = given + 1
    BY <1>4 DEF Stop, Command
  <2> QED
    BY <2>1, StopGood DEF IInv
<1>5. CASE Reset
  <2>1. /\ axis' = [axis EXCEPT !.error = FALSE, !.flags = {}, !.atTarget = 0]
        /\ given' = given + 1
    BY <1>5 DEF Reset, Command
  <2> QED
    BY <2>1, ResetGood DEF IInv
<1>6. CASE UNCHANGED vars
  BY <1>6 DEF IInv, vars
<1> QED
  BY <1>1, <1>2, <1>3, <1>4, <1>5, <1>6 DEF Next

\* So it always holds.
LEMMA Holds == Spec => []IInv
BY InitGood, NextGood, PTL DEF Spec

\* It implies the invariant of the run.
LEMMA GoodIsInOrder == IInv => HomingInOrder
<1> SUFFICES ASSUME IInv
             PROVE  HomingInOrder
  OBVIOUS
<1>1. Base(axis, given)
  BY DEF IInv, Good, Runs, Rests
<1>2. /\ axis.running \in BOOLEAN /\ axis.primary \in Encoders
      /\ axis.time \in 0 .. axis.timeout
  BY <1>1 DEF IInv, Good, Runs, Rests, Base, Encoders
<1>3. axis.running => axis.state \in States(axis.kind)
  BY DEF IInv, Good, Rests, Places
<1>4. axis.running \/ axis.primary = 0
  BY <1>2 DEF IInv, Good, Runs, Rests
<1>5. axis.latches \in 0 .. (LatchCount + given)
  BY <1>1, HomingAssumption DEF Base
<1>6. axis.oldPrimary \in Encoders /\ axis.error \in BOOLEAN
  BY <1>1 DEF Base, Shaped, Encoders
<1>7. axis.running => axis.state \in {0, 1000, 1001, 1002}
                                      \cup (IF axis.kind = 15 THEN {} ELSE DOMAIN Table(axis.kind))
  BY <1>3 DEF States
<1> QED
  BY <1>1, <1>2, <1>4, <1>5, <1>6, <1>7 DEF HomingInOrder, TypeOK, PrimaryControls, Base

\* Whatever interrupts a homing and whenever it is started again, it is in a state of its
\* own table with its counters in their ranges, and outside a homing the axis is
\* controlled by its primary encoder.
THEOREM HomingInOrderCorrect == Spec => []HomingInOrder
BY Holds, GoodIsInOrder, PTL

\* No step ends a homing without telling how.
LEMMA StepReports ==
    ASSUME IInv, [Next]_vars
    PROVE  [Cycles /\ axis.running /\ ~axis'.running
        => \/ axis'.error
           \/ \A e \in axis.refs \cap (IF axis.kind = 15 THEN {axis.home} ELSE Encoders) :
                 axis'.enc[e].homed
           \/ axis.kind \in 7..10 /\ axis.state = 0 /\ axis.traj.busy]_vars
<1> DEFINE homed == \A e \in axis.refs \cap (IF axis.kind = 15 THEN {axis.home} ELSE Encoders) :
                       axis'.enc[e].homed
           gaveUp == axis.kind \in 7..10 /\ axis.state = 0 /\ axis.traj.busy
<1>1. CASE UNCHANGED vars
  BY <1>1
<1>2. CASE Home \/ MoveTo \/ Stop \/ Reset
  <2>1. ~Cycles
    BY <1>2 DEF Home, MoveTo, Stop, Reset, Command, Cycles
  <2> QED
    BY <2>1
<1>3. CASE Cycle
  <2> SUFFICES ASSUME axis.running, ~axis'.running
               PROVE  axis'.error \/ homed \/ gaveUp
    OBVIOUS
  <2>1. Good(axis', given) /\ Reports(axis', axis) /\ Kept(axis', axis)
    BY <1>3, CycleGood DEF IInv
  <2>2. /\ axis'.running \in BOOLEAN /\ axis.running \in BOOLEAN
    BY <2>1 DEF IInv, Good, Runs, Rests
  <2>3. axis'.error = TRUE \/ AllHomed(axis') \/ gaveUp
    BY <2>1, <2>2 DEF Reports
  <2>4. axis'.refs = axis.refs /\ axis'.kind = axis.kind /\ axis'.home = axis.home
    BY <2>1 DEF Kept
  <2> QED
    BY <2>3, <2>4 DEF AllHomed
<1> QED
  BY <1>1, <1>2, <1>3 DEF Next

\* A homing that ends by itself has homed what it is to home or reports an error, except
\* for sequences 7 to 10 on an axis that moves.
THEOREM HomingReportsCorrect == Spec => HomingReports
BY Holds, StepReports, PTL DEF Spec, HomingReports
=============================================================================
