------------------------------ MODULE AxisProofs ------------------------------
(***************************************************************************)
(* Theorems about Axis: wherever the switches are, whatever the motions,   *)
(* ramps and velocities are, and in whatever order commands and answers of *)
(* the drive come, a stop gets slower in every cycle until it ends, the    *)
(* position for an enabled drive never jumps, and nothing gets further     *)
(* past a limit switch than one stop takes.                                *)
(*                                                                         *)
(* First what one step of the generator does (GeneratorStep and what       *)
(* follows from it), then what every command may make of the axis          *)
(* (Outcome) and every cycle (Cycled), in terms of a few fields.  With     *)
(* these the three invariants are kept: RampsInv, with which a stop that   *)
(* is blocked on both sides can only get slower, EvenInv, which says how   *)
(* the setpoint, the generator, the drive and the PLC follow each other,   *)
(* and OverrunInv, which says how far on each side the setpoint may be     *)
(* when its switch is closed, while a ramp goes on and when it has opened. *)
(***************************************************************************)
EXTENDS Axis, TLAPS

\* The interlocks and the records of the axis and of its generator.
AxisFlags == {"noExecute", "fwdLimit", "bwdLimit"}

TrajState ==
    [enable : BOOLEAN, execute : BOOLEAN, busy : BOOLEAN, mode : {"pos", "vel"},
     start : Int, pos : Int, local : Int, target : Int, vel : Int, nom : Int,
     prev : Int, dist : Int]

AxisState ==
    [traj : TrajState, flags : SUBSET AxisFlags, source : {"internal", "external"},
     execute : BOOLEAN, enable : BOOLEAN, enableOld : BOOLEAN, command : {"pos", "vel"},
     pos : Int, velocity : Int, setpoint : Int, actual : Int, speed : Int, out : Int,
     enabled : BOOLEAN, busy : BOOLEAN, executeOld : BOOLEAN, startup : BOOLEAN,
     first : BOOLEAN, ramping : BOOLEAN, error : BOOLEAN]

-----------------------------------------------------------------------------
\* What the assumptions say of the constants and of the largest velocity.
LEMMA Constants ==
    /\ ACC \in Nat \ {0} /\ DEC \in Nat \ {0} /\ Emerg \in Nat \ {0}
    /\ Speed \in Velocities /\ Speed \in Nat \ {0}
    /\ \A v \in Velocities : v <= Speed
    /\ BwdSwitch \in Int /\ FwdSwitch \in Int /\ BwdSwitch < FwdSwitch /\ Start \in Int
    /\ First \in Int /\ Last \in Int /\ Gap \in Nat /\ PlcStep \in Nat
<1>1. Speed \in Velocities /\ \A v \in Velocities : v <= Speed
  BY AxisAssumption DEF AxisAssumption, Speed
<1> QED
  BY <1>1, AxisAssumption, TrapetzAssumption DEF AxisAssumption, TrapetzAssumption

\* The bounds of the properties.
LEMMA Sizes ==
    /\ Top \in Nat \ {0} /\ Step \in Nat \ {0}
    /\ Speed <= Top /\ Top <= Step /\ 3 * DEC <= Step
    /\ \A x \in Int : Size(x) \in Nat /\ -Size(x) <= x /\ x <= Size(x)
<1>1. Top \in Nat \ {0} /\ Speed <= Top
  BY Constants DEF Top
<1>2. 3 * DEC \in Nat \ {0}
  BY Constants
<1>3. Step \in Nat \ {0} /\ Top <= Step /\ 3 * DEC <= Step
  <2> DEFINE d == 3 * DEC
  <2>1. Step = IF Top > d THEN Top ELSE d
    BY Zenon DEF Step
  <2>2. d \in Nat \ {0}
    BY <1>2
  <2> HIDE DEF d
  <2> QED BY <2>1, <2>2, <1>1 DEF d
<1> QED
  BY <1>1, <1>3 DEF Size

(***************************************************************************)
(* The generator                                                           *)
(***************************************************************************)
LEMMA TrajTypes ==
    ASSUME NEW t \in TrajState, NEW x \in Int, NEW on \in BOOLEAN
    PROVE  /\ SetTargetVel(t, x) \in TrajState
           /\ SetTargetPos(t, x) \in TrajState
           /\ SetCurrentPosSet(t, x) \in TrajState
           /\ SetTrajEnable(t, on) \in TrajState
           /\ SetTrajExecute(t, on) \in TrajState
           /\ \A v \in Int : InitStopRamp(t, x, v) \in TrajState
<1>1. SetTargetVel(t, x) \in TrajState BY DEF SetTargetVel, TrajState
<1>2. SetTargetPos(t, x) \in TrajState BY DEF SetTargetPos, TrajState
<1>3. SetCurrentPosSet(t, x) \in TrajState
  <2> DEFINE z == 0
  <2>1. z \in Int OBVIOUS
  <2>2. SetCurrentPosSet(t, x) = [t EXCEPT !.prev = z, !.local = x, !.pos = x]
    BY Zenon DEF SetCurrentPosSet
  <2> HIDE DEF z
  <2> QED BY <2>1, <2>2 DEF TrajState
<1>4. SetTrajEnable(t, on) \in TrajState
  <2> DEFINE z == 0
  <2> DEFINE b == on /\ t.busy
  <2>1. z \in Int /\ b \in BOOLEAN OBVIOUS
  <2>2. SetTrajEnable(t, on) =
            IF on /\ ~t.enable
            THEN [t EXCEPT !.enable = TRUE, !.pos = t.start, !.prev = z, !.dist = z]
            ELSE [t EXCEPT !.enable = on, !.busy = b]
    BY Zenon DEF SetTrajEnable
  <2>3. [t EXCEPT !.enable = on, !.busy = b] \in TrajState BY <2>1 DEF TrajState
  <2> HIDE DEF z, b
  <2>4. [t EXCEPT !.enable = TRUE, !.pos = t.start, !.prev = z, !.dist = z] \in TrajState
    BY <2>1 DEF TrajState
  <2> QED BY <2>2, <2>3, <2>4
<1>5. SetTrajExecute(t, on) \in TrajState BY DEF SetTrajExecute, Rises, TrajState
<1>6. ASSUME NEW v \in Int PROVE InitStopRamp(t, x, v) \in TrajState
  <2>1. Size(v) \in Int BY Sizes
  <2> QED BY <2>1 DEF InitStopRamp, TrajState
<1> QED BY <1>1, <1>2, <1>3, <1>4, <1>5, <1>6

LEMMA RampType ==
    ASSUME NEW p \in Int, NEW n \in Int
    PROVE  Ramp(p, n) \in Int /\ Ramped(p, n) \in Int
<1>1. Ramped(p, n) \in Int
  BY Constants DEF Ramped, Up, Down
<1> QED BY <1>1 DEF Ramp

LEMMA RampBound ==
    ASSUME NEW p \in Int, NEW n \in Int, Size(p) <= Step, Size(n) <= Speed
    PROVE  Size(Ramp(p, n)) <= Step
<1>1. Size(n) <= Step
  BY Sizes, Constants
<1>2. Size(Ramped(p, n)) <= Step
  <2>1. Speed + ACC - 1 <= Step /\ DEC <= Step
    BY Sizes, Constants DEF Top
  <2> QED BY <2>1, Constants, Sizes DEF Ramped, Up, Down, Size
<1> QED BY <1>1, <1>2 DEF Ramp

LEMMA RampFromStandstill ==
    ASSUME NEW n \in Int
    PROVE  Ramp(0, n) = 0 <=> n = 0
<1> DEFINE tol == IF ACC > DEC THEN DEC ELSE ACC
<1> DEFINE step == Ramped(0, n)
<1>1. tol \in Nat \ {0} BY Constants
<1>2. step = IF n > 0 THEN ACC ELSE IF n < 0 THEN -ACC ELSE 0
  BY Constants DEF Ramped, Up, Down
<1>3. Ramp(0, n) = IF 10 * Size(n - step) < tol THEN n ELSE step
  BY Zenon DEF Ramp
<1> HIDE DEF tol, step
<1>4. step = 0 <=> n = 0 BY <1>2, Constants
<1>5. n = 0 => step = 0 BY <1>4
<1> QED BY <1>1, <1>3, <1>4, <1>5 DEF Size

\* What the generator intends, and whether it may.
Intended(t) == IF t.mode = "pos" THEN MovePos(t) ELSE MoveVel(t)
Blocked(t, locks, ext) ==
    \/ ext
    \/ Intended(t).to < t.local /\ locks.bwd
    \/ Intended(t).to > t.local /\ locks.fwd

\* The step that MovePos asks for.
NomPos(t) ==
    IF Size(ToInitStop(t)) <= 2 * DEC * Size(t.prev) THEN 0
    ELSE Sign(ToInitStop(t)) * Size(t.nom)

LEMMA NomPosType ==
    ASSUME NEW t \in TrajState
    PROVE  /\ ToInitStop(t) \in Int
           /\ NomPos(t) \in {0, Size(t.nom), -Size(t.nom)}
           /\ NomPos(t) \in Int /\ Size(NomPos(t)) <= Size(t.nom)
<1>1. /\ t.prev \in Int /\ t.dist \in Int /\ t.target \in Int /\ t.local \in Int
      /\ t.nom \in Int
  BY DEF TrajState
<1>2. ToInitStop(t) \in Int
  <2> DEFINE x == t.target - t.local - t.prev - Sign(t.prev) * DEC
  <2>1. x \in Int BY <1>1, Constants DEF Sign
  <2>2. ToInitStop(t) = 2 * DEC * x - t.dist BY Zenon DEF ToInitStop
  <2> HIDE DEF x
  <2> QED BY <2>1, <2>2, <1>1, Constants
<1>3. Size(t.nom) \in Nat /\ Size(0) = 0 /\ Size(-Size(t.nom)) = Size(t.nom)
      /\ Size(Size(t.nom)) = Size(t.nom)
  BY <1>1 DEF Size
<1>4. Sign(ToInitStop(t)) \in {-1, 0, 1}
  BY <1>2 DEF Sign
<1>5. NomPos(t) \in {0, Size(t.nom), -Size(t.nom)}
  <2> DEFINE g == Sign(ToInitStop(t))
  <2> DEFINE n == Size(t.nom)
  <2>1. NomPos(t) = 0 \/ NomPos(t) = g * n
    BY Zenon DEF NomPos
  <2>2. g \in {-1, 0, 1} /\ n \in Nat BY <1>3, <1>4
  <2> HIDE DEF g, n
  <2>3. g * n \in {0, n, -n} BY <2>2
  <2> QED BY <2>1, <2>3 DEF n
<1> QED BY <1>2, <1>3, <1>5

LEMMA IntendedTypes ==
    ASSUME NEW t \in TrajState
    PROVE  /\ Intended(t).to \in Int /\ Intended(t).step \in Int /\ Intended(t).busy \in BOOLEAN
           /\ t.mode = "vel" =>
                 /\ Intended(t).step = Ramp(t.prev, t.nom)
                 /\ Intended(t).to = t.local + Intended(t).step
                 /\ Intended(t).busy
           /\ t.mode = "pos" =>
                 /\ Intended(t).step = Ramp(t.prev, NomPos(t))
                 /\ Arrives(t) => Intended(t).to = t.target /\ ~Intended(t).busy
                 /\ ~Arrives(t) => Intended(t).to = t.local + Intended(t).step /\ Intended(t).busy
<1>1. /\ t.prev \in Int /\ t.target \in Int /\ t.local \in Int /\ t.nom \in Int
      /\ t.mode \in {"pos", "vel"}
  BY DEF TrajState
<1>2. Ramp(t.prev, t.nom) \in Int /\ Ramp(t.prev, NomPos(t)) \in Int
  BY <1>1, RampType, NomPosType
<1>3. MovePos(t) = [to |-> IF Arrives(t) THEN t.target ELSE t.local + Ramp(t.prev, NomPos(t)),
                    step |-> Ramp(t.prev, NomPos(t)), busy |-> ~Arrives(t)]
  BY Zenon DEF MovePos, NomPos
<1>4. MoveVel(t) = [to |-> t.local + Ramp(t.prev, t.nom), step |-> Ramp(t.prev, t.nom),
                    busy |-> TRUE]
  BY Zenon DEF MoveVel
<1>5. t.mode = "pos" => Intended(t) = MovePos(t)
  BY DEF Intended
<1>6. t.mode = "vel" => Intended(t) = MoveVel(t)
  BY DEF Intended
<1>7. Arrives(t) \in BOOLEAN
  BY DEF Arrives
<1> DEFINE v == Ramp(t.prev, t.nom)
<1> DEFINE s == Ramp(t.prev, NomPos(t))
<1> HIDE DEF v, s
<1>8. CASE t.mode = "pos"
  <2>1. Intended(t) = [to |-> IF Arrives(t) THEN t.target ELSE t.local + s,
                       step |-> s, busy |-> ~Arrives(t)]
    BY <1>3, <1>5, <1>8 DEF s
  <2>2. Intended(t).step = s /\ Intended(t).busy = ~Arrives(t)
        /\ Intended(t).to = IF Arrives(t) THEN t.target ELSE t.local + s
    BY <2>1
  <2>3. Intended(t).busy \in BOOLEAN /\ Intended(t).to \in Int /\ Intended(t).step \in Int
    <3>1. s \in Int BY <1>2 DEF s
    <3> QED BY <2>2, <3>1, <1>1, <1>7
  <2>4. Arrives(t) => Intended(t).to = t.target /\ ~Intended(t).busy
    BY <2>2
  <2>5. ~Arrives(t) => Intended(t).to = t.local + s /\ Intended(t).busy
    BY <2>2
  <2>6. t.mode # "vel"
    BY <1>8
  <2> QED BY Zenon, <2>2, <2>3, <2>4, <2>5, <2>6 DEF s
<1>9. CASE t.mode = "vel"
  <2>1. Intended(t) = [to |-> t.local + v, step |-> v, busy |-> TRUE]
    BY <1>4, <1>6, <1>9 DEF v
  <2>2. Intended(t).step = v /\ Intended(t).busy = TRUE /\ Intended(t).to = t.local + v
    BY <2>1
  <2>3. Intended(t).busy \in BOOLEAN /\ Intended(t).to \in Int /\ Intended(t).step \in Int
    <3>1. v \in Int BY <1>2 DEF v
    <3>2. Intended(t).busy \in BOOLEAN BY <2>2
    <3>3. Intended(t).to \in Int /\ Intended(t).step \in Int BY <2>2, <3>1, <1>1
    <3> QED BY <3>2, <3>3
  <2>4. t.mode # "pos"
    BY <1>9
  <2>5. Intended(t).busy
    BY <2>2
  <2> QED BY Zenon, <2>2, <2>3, <2>4, <2>5 DEF v
<1> QED BY <1>1, <1>8, <1>9

\* How far a stop still goes, when it does not end.
Left(t, stop) == Size(t.prev) - (IF stop = "emergency" THEN Emerg ELSE DEC)
Ends(t, stop) == t.prev = 0 \/ Left(t, stop) <= 0

LEMMA GeneratorStep ==
    ASSUME NEW t \in TrajState, NEW locks, NEW ext \in BOOLEAN,
           NEW u, u = InternalTraj(t, locks, ext)
    PROVE  /\ u \in TrajState
           /\ u.enable = t.enable /\ u.execute = t.execute /\ u.mode = t.mode
           /\ u.start = t.start /\ u.vel = t.vel /\ u.nom = t.nom
           /\ u.pos = u.local /\ u.dist = u.prev * Size(u.prev)
           /\ ~Blocked(t, locks, ext) =>
                 /\ u.local = Intended(t).to /\ u.prev = Intended(t).step
                 /\ u.busy = Intended(t).busy /\ u.target = t.target
           /\ Blocked(t, locks, ext) =>
                 /\ u.prev = IF t.prev = 0 THEN Intended(t).step
                             ELSE Sign(t.prev) * Left(t, locks.stop)
                 /\ Ends(t, locks.stop) => ~u.busy /\ u.local = t.local /\ u.target = t.local
                 /\ ~Ends(t, locks.stop) =>
                       /\ u.busy /\ u.target = t.target
                       /\ u.local = t.local + Sign(t.prev) * Left(t, locks.stop)
<1> DEFINE m == Intended(t)
<1> DEFINE blocked == Blocked(t, locks, ext)
<1> DEFINE stop == MoveStop(t, m.step, locks.stop)
<1> DEFINE r == IF blocked THEN stop ELSE m
<1> DEFINE dist == r.step * Size(r.step)
<1> DEFINE target == IF blocked /\ ~r.busy THEN t.local ELSE t.target
<1> DEFINE left == Left(t, locks.stop)
<1> DEFINE ends == Ends(t, locks.stop)
<1>1. u = [t EXCEPT !.pos = r.to, !.local = r.to, !.prev = r.step, !.busy = r.busy,
                    !.target = target, !.dist = dist]
  BY Zenon DEF InternalTraj, Intended, Blocked
<1>2. stop = [to   |-> IF ends THEN t.local ELSE t.local + Sign(t.prev) * left,
              step |-> IF t.prev = 0 THEN m.step ELSE Sign(t.prev) * left,
              busy |-> ~ends]
  BY Zenon DEF MoveStop, Left, Ends
<1>3. /\ t.local \in Int /\ t.target \in Int /\ t.prev \in Int
  BY DEF TrajState
<1>4. m.to \in Int /\ m.step \in Int /\ m.busy \in BOOLEAN
  BY IntendedTypes
<1>5. blocked \in BOOLEAN /\ ends \in BOOLEAN
  BY DEF Blocked, Ends
<1>6. left \in Int /\ Sign(t.prev) \in {-1, 0, 1}
  BY <1>3, Constants, Sizes DEF Left, Sign
<1>7. Sign(t.prev) * left \in Int
  <2> DEFINE g == Sign(t.prev)
  <2>1. g \in {-1, 0, 1} /\ left \in Int BY <1>6
  <2> HIDE DEF g, left
  <2> QED BY <2>1 DEF g
<1> DEFINE go == Sign(t.prev) * left
<1> HIDE DEF go
<1>8. /\ stop.to = IF ends THEN t.local ELSE t.local + go
      /\ stop.step = IF t.prev = 0 THEN m.step ELSE go
      /\ stop.busy = ~ends
  BY <1>2 DEF go
<1> HIDE DEF m, blocked, stop, left, ends
<1>9. r.to \in Int /\ r.step \in Int /\ r.busy \in BOOLEAN
  <2>1. go \in Int BY <1>7 DEF go
  <2>2. stop.to \in Int /\ stop.step \in Int /\ stop.busy \in BOOLEAN
    BY <2>1, <1>3, <1>4, <1>5, <1>8
  <2> QED BY <2>2, <1>4, <1>5
<1>10. target \in Int /\ dist \in Int
  <2> HIDE DEF r
  <2>1. Size(r.step) \in Int BY <1>9, Sizes
  <2> QED BY <2>1, <1>9, <1>3
<1>11. /\ r = IF blocked THEN stop ELSE m
       /\ dist = r.step * Size(r.step)
       /\ target = IF blocked /\ ~r.busy THEN t.local ELSE t.target
  OBVIOUS
<1> HIDE DEF r, target, dist
<1>12. u \in TrajState
  BY <1>1, <1>9, <1>10 DEF TrajState
<1>13. /\ u.enable = t.enable /\ u.execute = t.execute /\ u.mode = t.mode
       /\ u.start = t.start /\ u.vel = t.vel /\ u.nom = t.nom
       /\ u.pos = r.to /\ u.local = r.to /\ u.prev = r.step /\ u.busy = r.busy
       /\ u.target = target /\ u.dist = dist
  BY <1>1 DEF TrajState
<1>14. u.pos = u.local /\ u.dist = u.prev * Size(u.prev)
  BY <1>11, <1>13
<1>15. ~blocked => /\ u.local = m.to /\ u.prev = m.step
                   /\ u.busy = m.busy /\ u.target = t.target
  BY <1>11, <1>13
<1>16. blocked => /\ u.prev = IF t.prev = 0 THEN m.step ELSE go
                  /\ ends => ~u.busy /\ u.local = t.local /\ u.target = t.local
                  /\ ~ends => u.busy /\ u.target = t.target /\ u.local = t.local + go
  BY <1>11, <1>13, <1>8
<1> QED BY <1>12, <1>13, <1>14, <1>15, <1>16 DEF m, blocked, ends, go, left

LEMMA FreeStep ==
    ASSUME NEW t \in TrajState, NEW locks, NEW ext \in BOOLEAN, ~Blocked(t, locks, ext),
           NEW u, u = InternalTraj(t, locks, ext)
    PROVE  /\ u.local = Intended(t).to /\ u.prev = Intended(t).step
           /\ u.busy = Intended(t).busy /\ u.target = t.target
BY GeneratorStep

LEMMA BlockedStep ==
    ASSUME NEW t \in TrajState, NEW locks, NEW ext \in BOOLEAN, Blocked(t, locks, ext),
           NEW u, u = InternalTraj(t, locks, ext)
    PROVE  /\ u.prev = IF t.prev = 0 THEN Intended(t).step
                       ELSE Sign(t.prev) * Left(t, locks.stop)
           /\ Ends(t, locks.stop) => ~u.busy /\ u.local = t.local /\ u.target = t.local
BY GeneratorStep

LEMMA BlockedAtRest ==
    ASSUME NEW t \in TrajState, t.prev = 0, NEW locks, NEW ext \in BOOLEAN, Blocked(t, locks, ext),
           NEW u, u = InternalTraj(t, locks, ext)
    PROVE  u.prev = Intended(t).step
BY BlockedStep

\* A cycle without a motion only forgets the way to a stop.
LEMMA GeneratorRests ==
    ASSUME NEW t \in TrajState, NEW locks, NEW ext, ~Moves(t),
           NEW u, u = GetNextPosSet(t, locks, ext)
    PROVE  /\ u \in TrajState /\ u = [t EXCEPT !.dist = u.dist]
           /\ u.dist = t.prev * Size(t.prev)
<1>1. t.prev \in Int BY DEF TrajState
<1> DEFINE d == t.prev * Size(t.prev)
<1>2. d \in Int
  <2>1. Size(t.prev) \in Int BY <1>1, Sizes
  <2> QED BY <2>1, <1>1
<1>3. u = [t EXCEPT !.dist = d]
  BY DEF GetNextPosSet
<1>4. d = t.prev * Size(t.prev) OBVIOUS
<1> HIDE DEF d
<1>5. u \in TrajState /\ u.dist = d
  BY <1>2, <1>3 DEF TrajState
<1> QED BY <1>3, <1>4, <1>5

\* A motion that is blocked ends or gets slower.
LEMMA BlockedSlows ==
    ASSUME NEW t \in TrajState, NEW locks, NEW ext \in BOOLEAN, Blocked(t, locks, ext),
           NEW u, u = InternalTraj(t, locks, ext), u.busy
    PROVE  t.prev # 0 /\ Size(u.prev) < Size(t.prev)
<1> DEFINE left == Left(t, locks.stop)
<1>1. t.prev \in Int BY DEF TrajState
<1>2. ~Ends(t, locks.stop) BY GeneratorStep
<1>3. t.prev # 0 /\ ~(left <= 0) BY <1>2 DEF Ends
<1>4. left \in Int /\ left < Size(t.prev) BY <1>1, Sizes, Constants DEF Left
<1>5. u.prev = Sign(t.prev) * left BY <1>3, GeneratorStep
<1> HIDE DEF left
<1>6. u.prev = left \/ u.prev = -left BY <1>1, <1>3, <1>4, <1>5 DEF Sign
<1> QED BY <1>3, <1>4, <1>6, <1>1 DEF Size

\* The way to the point where the motion slows down, from standstill.
LEMMA StandstillTarget ==
    ASSUME NEW t \in TrajState, t.prev = 0, t.mode = "pos", ~Arrives(t),
           t.nom # 0 \/ (t.target = t.local /\ t.dist = 0),
           t.dist # 0 => t.target = t.local
    PROVE  t.nom # 0 /\ Intended(t).to # t.local
<1>1. t.target \in Int /\ t.local \in Int /\ t.dist \in Int /\ t.nom \in Int
  BY DEF TrajState
<1> DEFINE x == t.target - t.local
<1>2. Sign(0) = 0 /\ Size(0) = 0 BY DEF Sign, Size
<1>3. ToInitStop(t) = 2 * DEC * x - t.dist
  <2>1. t.target - t.local - t.prev - Sign(t.prev) * DEC = x
    BY <1>1, <1>2, Constants
  <2> HIDE DEF x
  <2> QED BY <2>1 DEF ToInitStop
<1>4. x \in Int BY <1>1
<1>5. Size(t.prev) = 0 BY <1>2
<1>6. t.dist = 0 => x # 0
  <2>1. SUFFICES ASSUME t.dist = 0, x = 0 PROVE FALSE OBVIOUS
  <2>2. Size(t.dist) = 0 /\ Size(t.target - t.local) = 0 BY <2>1, <1>2
  <2>3. DEC * DEC \in Nat /\ 3 * DEC \in Nat /\ 0 <= DEC BY Constants
  <2>4. 0 <= 6 * DEC * DEC BY <2>3, Constants
  <2> QED BY <2>2, <2>3, <2>4, <1>5 DEF Arrives
<1>7. t.dist # 0 => x = 0 BY <1>1
<1>8. ToInitStop(t) # 0
  <2> HIDE DEF x
  <2>1. CASE t.dist = 0
    <3>1. x # 0 BY <2>1, <1>6
    <3>2. DEC * x # 0 BY <3>1, <1>4, Constants
    <3>3. DEC * x \in Int BY <1>4, Constants
    <3>4. 2 * DEC * x = 2 * (DEC * x) BY <1>4, Constants
    <3> DEFINE y == DEC * x
    <3> HIDE DEF y
    <3>5. y # 0 /\ y \in Int /\ 2 * DEC * x = 2 * y BY <3>2, <3>3, <3>4 DEF y
    <3> QED BY <3>5, <1>3, <2>1
  <2>2. CASE t.dist # 0
    <3>1. x = 0 BY <2>2, <1>7
    <3>2. 2 * DEC * x = 0 BY <3>1, Constants
    <3> QED BY <2>2, <3>2, <1>3, <1>1
  <2> QED BY <2>1, <2>2
<1>9. t.nom # 0 BY <1>6, <1>1
<1>10. NomPos(t) # 0
  <2> DEFINE i == ToInitStop(t)
  <2>1. i \in Int /\ i # 0 BY <1>8, NomPosType
  <2>2. 2 * DEC * Size(t.prev) = 0 BY <1>5, Constants
  <2>3. NomPos(t) = IF Size(i) <= 0 THEN 0 ELSE Sign(i) * Size(t.nom)
    BY <2>2 DEF NomPos
  <2> HIDE DEF i
  <2>4. ~(Size(i) <= 0) /\ Sign(i) \in {-1, 1} BY <2>1 DEF Size, Sign
  <2>5. Size(t.nom) \in Nat \ {0} BY <1>9, <1>1 DEF Size
  <2> QED BY <2>3, <2>4, <2>5
<1>11. Ramp(t.prev, NomPos(t)) # 0
  BY <1>10, RampFromStandstill, NomPosType
<1>12. Intended(t).to = t.local + Ramp(t.prev, NomPos(t))
  BY IntendedTypes
<1>13. Ramp(t.prev, NomPos(t)) \in Int
  <2>1. t.prev \in Int BY DEF TrajState
  <2> QED BY <2>1, RampType, NomPosType
<1> QED BY <1>1, <1>9, <1>11, <1>12, <1>13

\* What makes sure that a motion which is locked on both sides gets slower.
StopsSoon(t) ==
    /\ t.mode = "vel" => t.vel # 0
    /\ t.nom = 0 => t.mode = "pos" /\ t.target = t.local
    /\ t.dist # t.prev * Size(t.prev) => t.prev = 0 /\ t.target = t.local /\ t.nom # 0

LEMMA StandstillDist ==
    ASSUME NEW t, t.prev = 0
    PROVE  t.prev * Size(t.prev) = 0
BY DEF Size

LEMMA LockedSlows ==
    ASSUME NEW t \in TrajState, StopsSoon(t), NEW locks, locks.bwd, locks.fwd,
           NEW u, u = InternalTraj(t, locks, FALSE), u.busy
    PROVE  Size(u.prev) < Size(t.prev)
<1>1. t.prev \in Int /\ t.local \in Int /\ t.mode \in {"pos", "vel"} /\ t.nom \in Int
  BY DEF TrajState
<1>2. CASE Blocked(t, locks, FALSE)
  BY <1>2, BlockedSlows
<1>3. CASE ~Blocked(t, locks, FALSE)
  <2>1. Intended(t).to = t.local
    BY <1>3, <1>1, IntendedTypes DEF Blocked
  <2>2. u.prev = Intended(t).step /\ Intended(t).busy
    <3> DEFINE ext == FALSE
    <3>1. ext \in BOOLEAN /\ u = InternalTraj(t, locks, ext) /\ ~Blocked(t, locks, ext)
      BY <1>3
    <3> HIDE DEF ext
    <3>2. u.prev = Intended(t).step
      BY Zenon, <3>1, FreeStep
    <3>3. u.busy = Intended(t).busy
      BY Zenon, <3>1, FreeStep
    <3> QED BY Zenon, <3>2, <3>3
  <2>3. Intended(t).step = 0
    <3>1. t.local = t.local + Intended(t).step
      BY <2>1, <2>2, <1>1, IntendedTypes
    <3> QED BY <3>1, <1>1, IntendedTypes
  <2>4. t.prev # 0
    <3>1. SUFFICES ASSUME t.prev = 0 PROVE FALSE OBVIOUS
    <3>2. CASE t.mode = "vel"
      <4>1. Ramp(0, t.nom) = 0 BY <3>1, <3>2, <2>3, IntendedTypes
      <4>2. t.nom = 0 BY <4>1, <1>1, RampFromStandstill
      <4> QED BY <4>2, <3>2 DEF StopsSoon
    <3>3. CASE t.mode = "pos"
      <4>1. ~Arrives(t) BY <2>2, <3>3, IntendedTypes
      <4>2. t.dist # 0 => t.target = t.local /\ t.nom # 0
        BY <3>1, StandstillDist DEF StopsSoon
      <4>3. t.nom = 0 => t.target = t.local
        BY DEF StopsSoon
      <4> QED BY <4>1, <4>2, <4>3, <3>1, <3>3, <2>1, StandstillTarget
    <3> QED BY <3>2, <3>3, <1>1
  <2>5. u.prev = 0 BY <2>2, <2>3
  <2>6. Size(0) = 0 /\ Size(t.prev) > 0 BY <2>4, <1>1 DEF Size
  <2> QED BY <2>5, <2>6
<1> QED BY <1>2, <1>3

\* A step that is hardly more than the deceleration: the next one ends it.
Gentle(p) == Size(p) <= DEC \/ 10 * (Size(p) - DEC) < ACC

LEMMA GentleSteps ==
    ASSUME ACC <= DEC, NEW p \in Int
    PROVE  /\ Gentle(0)
           /\ Size(p) <= DEC => Gentle(Ramp(p, 0))
           /\ Gentle(p) /\ (p = 0 \/ Size(p) > DEC) => Ramp(p, 0) = 0
           /\ Gentle(Ramp(0, p))
<1>1. Gentle(0) BY Constants DEF Gentle, Size
<1> DEFINE tol == IF ACC > DEC THEN DEC ELSE ACC
<1> DEFINE step(q, n) == Ramped(q, n)
<1>2. tol = ACC BY Constants
<1>3. \A q, n : Ramp(q, n) = IF 10 * Size(n - step(q, n)) < tol THEN n ELSE step(q, n)
  BY Zenon DEF Ramp
<1> HIDE DEF tol
<1>4. step(p, 0) = IF 0 > p THEN p + DEC ELSE IF 0 < p THEN p - DEC ELSE p
  BY Constants DEF Ramped, Up, Down
<1>5. step(0, p) = IF p > 0 THEN ACC ELSE IF p < 0 THEN -ACC ELSE 0
  BY Constants DEF Ramped, Up, Down
<1>6. Ramp(p, 0) = IF 10 * Size(0 - step(p, 0)) < ACC THEN 0 ELSE step(p, 0)
  BY <1>2, <1>3
<1>7. Ramp(0, p) = IF 10 * Size(p - step(0, p)) < ACC THEN p ELSE step(0, p)
  BY <1>2, <1>3
<1> DEFINE d == step(p, 0)
<1> DEFINE e == step(0, p)
<1>8. d = (IF 0 > p THEN p + DEC ELSE IF 0 < p THEN p - DEC ELSE p)
      /\ e = (IF p > 0 THEN ACC ELSE IF p < 0 THEN -ACC ELSE 0)
      /\ Ramp(p, 0) = (IF 10 * Size(0 - d) < ACC THEN 0 ELSE d)
      /\ Ramp(0, p) = (IF 10 * Size(p - e) < ACC THEN p ELSE e)
  BY <1>4, <1>5, <1>6, <1>7
<1> HIDE DEF d, e
<1>9. Size(p) <= DEC => Gentle(Ramp(p, 0))
  BY <1>8, Constants DEF Gentle, Size
<1>10. Gentle(p) /\ (p = 0 \/ Size(p) > DEC) => Ramp(p, 0) = 0
  BY <1>8, Constants DEF Gentle, Size
<1>11. Gentle(Ramp(0, p))
  BY <1>8, Constants DEF Gentle, Size
<1> QED BY <1>1, <1>9, <1>10, <1>11

LEMMA ShortWay ==
    ASSUME NEW p \in Int, Size(p) <= DEC
    PROVE  Size(p * Size(p)) <= 6 * DEC * DEC
<1> DEFINE n == Size(p)
<1>1. n \in Nat /\ n <= DEC /\ (p = n \/ p = -n) BY Sizes DEF Size
<1> HIDE DEF n
<1>2. n * n \in Nat /\ n * n <= DEC * n /\ DEC * n <= DEC * DEC
  BY <1>1, Constants
<1> DEFINE sq == n * n
<1> DEFINE dd == DEC * DEC
<1>3. p * n = sq \/ p * n = -sq BY <1>1
<1>4. sq \in Nat /\ dd \in Nat /\ sq <= dd
  <2>1. DEC * n \in Nat /\ DEC * DEC \in Nat BY <1>1, Constants
  <2> QED BY <1>2, <2>1
<1>5. 6 * DEC * DEC = 6 * dd BY Constants
<1> HIDE DEF sq, dd
<1>6. Size(p * n) = sq BY <1>3, <1>4 DEF Size
<1> QED BY <1>4, <1>5, <1>6 DEF n

\* A generator that has never had a velocity stays at its target.
LEMMA AtRestKept ==
    ASSUME ACC <= DEC, NEW t \in TrajState, t.mode = "pos", t.target = t.local, Gentle(t.prev),
           t.dist # t.prev * Size(t.prev) => t.prev = 0,
           NEW locks, t.nom # 0 => t.prev = 0 /\ locks.bwd /\ locks.fwd,
           NEW u, u = InternalTraj(t, locks, FALSE)
    PROVE  u.target = u.local /\ Gentle(u.prev) /\ (u.busy /\ u.nom # 0 => u.prev = 0)
<1>1. t.prev \in Int /\ t.local \in Int /\ t.nom \in Int /\ t.target \in Int
  BY DEF TrajState
<1>2. Intended(t).step = Ramp(t.prev, NomPos(t)) /\ NomPos(t) \in Int
  BY IntendedTypes, NomPosType
<1>3. Arrives(t) => Intended(t).to = t.local
  BY IntendedTypes
<1> DEFINE ext == FALSE
<1>4. ext \in BOOLEAN /\ u = InternalTraj(t, locks, ext)
      /\ (Blocked(t, locks, ext) => Intended(t).to # t.local)
  <2>1. Intended(t).to \in Int BY IntendedTypes
  <2> QED BY <2>1, <1>1 DEF Blocked
<1> DEFINE blocked == Blocked(t, locks, ext)
<1>5. blocked = Blocked(t, locks, ext) OBVIOUS
<1> HIDE DEF ext, blocked
<1>6. ~blocked => u.local = Intended(t).to /\ u.prev = Intended(t).step
                  /\ u.busy = Intended(t).busy /\ u.target = t.target
  <2>1. SUFFICES ASSUME ~blocked
                 PROVE  u.local = Intended(t).to /\ u.prev = Intended(t).step
                        /\ u.busy = Intended(t).busy /\ u.target = t.target
    BY Zenon
  <2>2. ~Blocked(t, locks, ext) BY <2>1 DEF blocked
  <2> QED BY ZenonT(40), <1>4, <2>2, FreeStep
<1>7. CASE t.nom = 0
  <2>1. NomPos(t) = 0
    BY <1>7, NomPosType DEF Size
  <2>2. CASE Arrives(t)
    <3>1. Size(t.prev) <= DEC BY <2>2 DEF Arrives
    <3>2. ~blocked BY <2>2, <1>3, <1>4, <1>5
    <3>3. Gentle(Intended(t).step)
      BY <3>1, <2>1, <1>1, <1>2, GentleSteps
    <3>4. ~Intended(t).busy BY <2>2, IntendedTypes
    <3>5. u.local = t.local /\ u.target = t.target /\ u.prev = Intended(t).step
      BY <3>2, <1>6, <2>2, <1>3
    <3>6. ~u.busy BY Zenon, <3>2, <3>4, <1>6
    <3> QED BY Zenon, <3>3, <3>5, <3>6
  <2>3. CASE ~Arrives(t)
    <3>1. t.prev = 0 \/ Size(t.prev) > DEC
      <4>1. SUFFICES ASSUME t.prev # 0, ~(Size(t.prev) > DEC) PROVE FALSE
        BY Zenon
      <4>2. Size(t.prev) <= DEC BY <4>1, <1>1, Sizes, Constants
      <4>3. t.dist = t.prev * Size(t.prev) BY <4>1
      <4>4. Size(t.dist) <= 6 * DEC * DEC BY <4>2, <4>3, <1>1, ShortWay
      <4>5. Size(t.target - t.local) <= 3 * DEC BY <1>1, Constants DEF Size
      <4> QED BY <4>2, <4>4, <4>5, <2>3 DEF Arrives
    <3>2. Intended(t).step = 0
      BY <3>1, <2>1, <1>1, <1>2, GentleSteps
    <3>3. Intended(t).to = t.local
      BY <3>2, <2>3, <1>1, IntendedTypes
    <3>4. ~blocked BY <3>3, <1>4, <1>5
    <3>5. u.local = t.local /\ u.target = t.local /\ u.prev = 0
      BY <3>2, <3>3, <3>4, <1>6
    <3>6. Gentle(0) BY <1>1, GentleSteps
    <3> QED BY Zenon, <3>5, <3>6, <1>3, <2>3
  <2> QED BY <2>2, <2>3
<1>8. CASE t.nom # 0
  <2>1. t.prev = 0 /\ locks.bwd /\ locks.fwd BY <1>8
  <2>2. Gentle(Intended(t).step)
    BY <2>1, <1>2, GentleSteps
  <2>3. CASE blocked
    <3>1. Ends(t, locks.stop) BY <2>1 DEF Ends
    <3>2. u.prev = Intended(t).step /\ u.local = t.local /\ u.target = t.local /\ ~u.busy
      <4>1. Blocked(t, locks, ext) BY <2>3 DEF blocked
      <4>2. u.prev = Intended(t).step
        BY Zenon, <2>1, <4>1, <1>4, BlockedAtRest
      <4>3. ~u.busy /\ u.local = t.local /\ u.target = t.local
        BY ZenonT(40), <3>1, <4>1, <1>4, BlockedStep
      <4> QED BY <4>2, <4>3
    <3> QED BY <3>2, <2>2
  <2>4. CASE ~blocked
    <3>1. Intended(t).to = t.local
      <4>1. Intended(t).to \in Int BY IntendedTypes
      <4> QED BY <4>1, <2>1, <2>4, <1>1, <1>5 DEF Blocked
    <3>2. u.local = t.local /\ u.target = t.local /\ u.prev = Intended(t).step
          /\ u.busy = Intended(t).busy
      BY Zenon, <3>1, <2>4, <1>6
    <3>3. ~Arrives(t) => u.prev = 0
      <4>1. ~Arrives(t) => t.local = t.local + Intended(t).step
        BY <3>1, IntendedTypes
      <4>2. Intended(t).step \in Int BY IntendedTypes
      <4>3. ~Arrives(t) => Intended(t).step = 0 BY <4>1, <4>2, <1>1
      <4> QED BY <4>3, <3>2
    <3>4. Arrives(t) => ~u.busy
      <4>1. Arrives(t) => ~Intended(t).busy BY IntendedTypes
      <4> QED BY Zenon, <4>1, <3>2
    <3> QED BY Zenon, <3>2, <3>3, <3>4, <2>2
  <2> QED BY <2>3, <2>4
<1> QED BY <1>7, <1>8

(***************************************************************************)
(* The commands                                                            *)
(***************************************************************************)
\* What an execute leaves alone.
Same(a, b) ==
    /\ b.source = a.source /\ b.enable = a.enable /\ b.enableOld = a.enableOld
    /\ b.setpoint = a.setpoint /\ b.actual = a.actual /\ b.speed = a.speed /\ b.out = a.out
    /\ b.enabled = a.enabled /\ b.startup = a.startup /\ b.ramping = a.ramping
    /\ b.flags \subseteq a.flags
    /\ b.command = a.command /\ b.pos = a.pos /\ b.velocity = a.velocity

\* The trajectory of the sequencer when a motion rises.
Moved(a) == [SetTargetVel(a.traj, a.velocity) EXCEPT !.mode = a.command]
Risen(a) == IF a.command = "pos" THEN SetTargetPos(Moved(a), a.pos) ELSE Moved(a)

LEMMA RisenType ==
    ASSUME NEW a \in AxisState
    PROVE  Moved(a) \in TrajState /\ Risen(a) \in TrajState
<1>1. a.traj \in TrajState /\ a.velocity \in Int /\ a.pos \in Int /\ a.command \in {"pos", "vel"}
  BY DEF AxisState
<1>2. SetTargetVel(a.traj, a.velocity) \in TrajState BY <1>1, TrajTypes
<1> DEFINE t == SetTargetVel(a.traj, a.velocity)
<1> HIDE DEF t
<1>3. [t EXCEPT !.mode = a.command] \in TrajState BY <1>1, <1>2 DEF TrajState, t
<1>4. Moved(a) \in TrajState BY <1>3 DEF Moved, t
<1> HIDE DEF Moved
<1> QED BY <1>1, <1>4, TrajTypes DEF Risen

LEMMA TrajExecuteStep ==
    ASSUME NEW a \in AxisState, NEW on \in BOOLEAN, NEW b, b = TrajExecute(a, on)
    PROVE  /\ b \in AxisState /\ Same(a, b) /\ b.traj = SetTrajExecute(a.traj, on)
           /\ b.execute = a.execute /\ b.busy = a.busy
           /\ ~on => b.flags = a.flags
           /\ b.executeOld = a.executeOld
           /\ b.flags = a.flags \/ b.flags = a.flags \ {"noExecute"}
<1>1. a.traj \in TrajState /\ a.flags \in SUBSET AxisFlags /\ a.error \in BOOLEAN
  BY DEF AxisState
<1> DEFINE u == SetTrajExecute(a.traj, on)
<1> DEFINE flags == IF Rises(a.traj, on) THEN a.flags \ {"noExecute"} ELSE a.flags
<1> DEFINE error == a.error \/ (on /\ ~a.traj.enable)
<1>2. b = [a EXCEPT !.traj = u, !.flags = flags, !.error = error]
  BY Zenon DEF TrajExecute
<1>3. u \in TrajState /\ flags \subseteq a.flags /\ flags \in SUBSET AxisFlags /\ error \in BOOLEAN
  BY <1>1, TrajTypes
<1>4. u = SetTrajExecute(a.traj, on) OBVIOUS
<1>a. (~on => flags = a.flags) /\ (flags = a.flags \/ flags = a.flags \ {"noExecute"}) BY DEF Rises
<1> HIDE DEF u, flags, error
<1>5. b \in AxisState BY ZenonT(40), <1>2, <1>3 DEF AxisState
<1>6. b.traj = u /\ Same(a, b) /\ b.flags = flags BY <1>2, <1>3 DEF AxisState, Same
<1>7. b.execute = a.execute /\ b.busy = a.busy /\ b.executeOld = a.executeOld BY <1>2 DEF AxisState
<1> QED BY <1>4, <1>5, <1>6, <1>7, <1>a

LEMMA SameTwice ==
    ASSUME NEW a, NEW b, NEW c, Same(a, b), Same(b, c)
    PROVE  Same(a, c)
BY DEF Same

LEMMA SameSelf == ASSUME NEW a PROVE Same(a, a)
BY DEF Same

\* An execute that is taken back reaches the generator at once.
LEMMA Withdrawn ==
    ASSUME NEW a \in AxisState, NEW b, b = SetExecute(a, FALSE)
    PROVE  /\ b \in AxisState /\ Same(a, b)
           /\ ~Internal(a) => b = a
           /\ Internal(a) => /\ b.traj = SetTrajExecute(a.traj, FALSE) /\ ~b.execute
                             /\ b.busy = a.busy /\ b.flags = a.flags
                             /\ b.executeOld = a.executeOld
<1>1. CASE ~Internal(a)
  <2>1. b = a BY <1>1 DEF SetExecute
  <2> QED BY <1>1, <2>1, SameSelf
<1>2. CASE Internal(a)
  <2> DEFINE off == FALSE
  <2> DEFINE rises == off /\ ~a.execute
  <2> DEFINE busy == a.busy \/ rises
  <2>1. ~rises /\ ~off /\ off \in BOOLEAN /\ busy \in BOOLEAN OBVIOUS
  <2>2. b = IF rises /\ a.velocity = 0 THEN [a EXCEPT !.execute = TRUE, !.error = TRUE]
            ELSE TrajExecute([a EXCEPT !.execute = off, !.busy = busy,
                                       !.traj = IF ~rises THEN a.traj ELSE Risen(a)], off)
    BY Zenon, <1>2 DEF SetExecute, SeqSetExecute, Risen, Moved
  <2>3. off = FALSE OBVIOUS
  <2> HIDE DEF off, rises, busy
  <2> DEFINE m == [a EXCEPT !.execute = off, !.busy = busy, !.traj = a.traj]
  <2>4. b = TrajExecute(m, off) BY <2>1, <2>2
  <2>5. m \in AxisState /\ Same(a, m) /\ m.traj = a.traj /\ m.execute = off
        /\ m.busy = busy /\ m.flags = a.flags
    BY <2>1 DEF AxisState, Same
  <2>b. m.executeOld = a.executeOld BY <2>1 DEF AxisState
  <2> HIDE DEF m
  <2>6. b \in AxisState /\ Same(m, b) /\ b.traj = SetTrajExecute(m.traj, off)
        /\ b.execute = m.execute /\ b.busy = m.busy /\ (~off => b.flags = m.flags)
    BY ZenonT(40), <2>1, <2>4, <2>5, TrajExecuteStep
  <2>a. b.executeOld = m.executeOld
    <3> DEFINE f == m.flags
    <3> DEFINE z == b.executeOld = m.executeOld
    <3>1. m \in AxisState /\ off \in BOOLEAN /\ b = TrajExecute(m, off) BY <2>1, <2>4, <2>5
    <3>2. z BY Zenon, <3>1, TrajExecuteStep
    <3> QED BY <3>2
  <2>7. Same(a, b) BY Zenon, <2>5, <2>6, SameTwice
  <2>8. busy = a.busy
    <3>1. a.busy \in BOOLEAN BY DEF AxisState
    <3> QED BY <2>1, <3>1 DEF busy, rises
  <2> QED BY <1>2, <2>1, <2>3, <2>5, <2>6, <2>a, <2>b, <2>7, <2>8
<1> QED BY <1>1, <1>2

\* An execute that is given starts the generator, with what the sequencer has for
\* it when it rises there, too.
LEMMA Executed ==
    ASSUME NEW a \in AxisState, NEW b, b = SetExecute(a, TRUE)
    PROVE  /\ b \in AxisState /\ Same(a, b)
           /\ ~Internal(a) \/ ~a.enable => b.traj = a.traj
           /\ \/ b.traj = a.traj
              \/ b.traj = SetTrajExecute(a.traj, TRUE)
              \/ a.velocity # 0 /\ b.traj = SetTrajExecute(Risen(a), TRUE)
<1>1. CASE ~Internal(a)
  <2>1. b = a BY <1>1 DEF SetExecute
  <2> QED BY <2>1, SameSelf
<1>2. CASE Internal(a) /\ (~a.enable \/ (~a.executeOld /\ a.busy))
  <2>1. b = [a EXCEPT !.error = TRUE] BY <1>2 DEF SetExecute
  <2>2. b \in AxisState /\ Same(a, b) /\ b.traj = a.traj BY <2>1 DEF AxisState, Same
  <2> QED BY <2>2
<1>3. CASE Internal(a) /\ ~(~a.enable \/ (~a.executeOld /\ a.busy))
  <2>a. a.enable /\ Internal(a) BY <1>3
  <2> DEFINE on == TRUE
  <2> DEFINE rises == on /\ ~a.execute
  <2> DEFINE busy == a.busy \/ rises
  <2> DEFINE t == IF ~rises THEN a.traj ELSE Risen(a)
  <2> DEFINE m == [a EXCEPT !.execute = on, !.busy = busy, !.traj = t]
  <2>1. on \in BOOLEAN /\ busy \in BOOLEAN
    <3>1. a.busy \in BOOLEAN BY DEF AxisState
    <3> QED BY <3>1
  <2>2. b = IF rises /\ a.velocity = 0 THEN [a EXCEPT !.execute = TRUE, !.error = TRUE]
            ELSE TrajExecute(m, on)
    BY Zenon, <1>3 DEF SetExecute, SeqSetExecute, Risen, Moved
  <2>3. on = TRUE OBVIOUS
  <2>4. t \in TrajState /\ (t = a.traj \/ (t = Risen(a) /\ rises))
    <3>1. a.traj \in TrajState BY DEF AxisState
    <3> QED BY <3>1, RisenType
  <2> HIDE DEF on, rises, busy, t
  <2>5. m \in AxisState /\ Same(a, m) /\ m.traj = t BY <2>1, <2>4 DEF AxisState, Same
  <2> HIDE DEF m
  <2>6. CASE rises /\ a.velocity = 0
    <3>1. b = [a EXCEPT !.execute = TRUE, !.error = TRUE] BY <2>2, <2>6
    <3>2. b \in AxisState /\ Same(a, b) /\ b.traj = a.traj BY <3>1 DEF AxisState, Same
    <3> QED BY <3>2
  <2>7. CASE ~(rises /\ a.velocity = 0)
    <3>1. b = TrajExecute(m, on) BY <2>2, <2>7
    <3>2. b \in AxisState /\ Same(m, b) /\ b.traj = SetTrajExecute(t, on)
      BY Zenon, <3>1, <2>1, <2>5, TrajExecuteStep
    <3>3. Same(a, b) BY Zenon, <2>5, <3>2, SameTwice
    <3>4. b.traj = SetTrajExecute(a.traj, TRUE)
          \/ (a.velocity # 0 /\ b.traj = SetTrajExecute(Risen(a), TRUE))
      BY <3>2, <2>3, <2>4, <2>7
    <3> QED BY <3>2, <3>3, <3>4, <2>a
  <2> QED BY <2>6, <2>7
<1> QED BY <1>1, <1>2, <1>3

LEMMA TrajExecuteFields ==
    ASSUME NEW t \in TrajState, NEW on \in BOOLEAN, NEW u, u = SetTrajExecute(t, on)
    PROVE  /\ u \in TrajState
           /\ u.enable = t.enable /\ u.mode = t.mode /\ u.start = t.start /\ u.local = t.local
           /\ u.target = t.target /\ u.vel = t.vel /\ u.prev = t.prev /\ u.dist = t.dist
           /\ u.execute => on /\ t.enable
           /\ Rises(t, on) => u.pos = t.start /\ u.nom = t.vel /\ t.enable /\ ~t.execute
           /\ ~Rises(t, on) => u.pos = t.pos /\ u.nom = t.nom /\ (u.busy => t.busy)
           /\ t.busy => u.busy
<1>1. u \in TrajState BY TrajTypes
<1> DEFINE e == on /\ t.enable
<1>2. e \in BOOLEAN /\ (e => on /\ t.enable) OBVIOUS
<1>3. u = IF Rises(t, on)
          THEN [t EXCEPT !.execute = TRUE, !.pos = t.start, !.nom = t.vel, !.busy = TRUE]
          ELSE [t EXCEPT !.execute = e]
  BY Zenon DEF SetTrajExecute
<1> HIDE DEF e
<1>4. Rises(t, on) => on /\ t.enable /\ ~t.execute BY DEF Rises
<1>5. CASE Rises(t, on)
  <2>1. u = [t EXCEPT !.execute = TRUE, !.pos = t.start, !.nom = t.vel, !.busy = TRUE]
    BY <1>3, <1>5
  <2>2. /\ u.enable = t.enable /\ u.mode = t.mode /\ u.start = t.start /\ u.local = t.local
        /\ u.target = t.target /\ u.vel = t.vel /\ u.prev = t.prev /\ u.dist = t.dist
        /\ u.pos = t.start /\ u.nom = t.vel
    BY <2>1 DEF TrajState
  <2>3. u.busy BY <2>1 DEF TrajState
  <2> QED BY <1>1, <1>4, <1>5, <2>2, <2>3
<1>6. CASE ~Rises(t, on)
  <2>1. u = [t EXCEPT !.execute = e] BY <1>3, <1>6
  <2>2. /\ u.enable = t.enable /\ u.mode = t.mode /\ u.start = t.start /\ u.local = t.local
        /\ u.target = t.target /\ u.vel = t.vel /\ u.prev = t.prev /\ u.dist = t.dist
        /\ u.pos = t.pos /\ u.nom = t.nom
    BY <2>1 DEF TrajState
  <2>3. (u.busy => t.busy) /\ (t.busy => u.busy) /\ (u.execute => e) BY <2>1 DEF TrajState
  <2> QED BY <1>1, <1>2, <1>6, <2>2, <2>3
<1> QED BY <1>5, <1>6

LEMMA GeneratorKeeps ==
    ASSUME NEW t \in TrajState, NEW on \in BOOLEAN, NEW u, u = SetTrajExecute(t, on)
    PROVE  /\ u.enable = t.enable /\ u.start = t.start /\ u.local = t.local
           /\ u.vel = t.vel /\ u.prev = t.prev /\ u.dist = t.dist
BY TrajExecuteFields

LEMMA GeneratorHolds ==
    ASSUME NEW t \in TrajState, NEW on \in BOOLEAN, NEW u, u = SetTrajExecute(t, on)
    PROVE  /\ u \in TrajState /\ u.mode = t.mode /\ u.target = t.target
           /\ u.execute => on /\ t.enable
           /\ t.busy => u.busy
BY TrajExecuteFields

LEMMA GeneratorStarts ==
    ASSUME NEW t \in TrajState, NEW on \in BOOLEAN, NEW u, u = SetTrajExecute(t, on), Rises(t, on)
    PROVE  u.pos = t.start /\ u.nom = t.vel /\ t.enable /\ ~t.execute
BY TrajExecuteFields

LEMMA GeneratorGoesOn ==
    ASSUME NEW t \in TrajState, NEW on \in BOOLEAN, NEW u, u = SetTrajExecute(t, on), ~Rises(t, on)
    PROVE  u.pos = t.pos /\ u.nom = t.nom /\ (u.busy => t.busy)
BY TrajExecuteFields

LEMMA TargetFields ==
    ASSUME NEW t \in TrajState, NEW x \in Int, NEW u, u = SetTargetPos(t, x)
    PROVE  /\ u \in TrajState /\ u.local = t.pos /\ u.target = x
           /\ u.enable = t.enable /\ u.mode = t.mode /\ u.start = t.start /\ u.pos = t.pos
           /\ u.vel = t.vel /\ u.nom = t.nom /\ u.prev = t.prev /\ u.dist = t.dist
           /\ (u.busy => t.busy) /\ (u.execute => t.execute)
<1>1. u = [t EXCEPT !.target = x, !.local = t.pos] BY DEF SetTargetPos
<1> QED BY <1>1 DEF TrajState

LEMMA VelocityFields ==
    ASSUME NEW t \in TrajState, NEW x \in Int, NEW u, u = SetTargetVel(t, x)
    PROVE  /\ u \in TrajState /\ u.vel = x /\ u.nom = x
           /\ u.enable = t.enable /\ u.mode = t.mode /\ u.start = t.start /\ u.pos = t.pos
           /\ u.local = t.local /\ u.target = t.target /\ u.prev = t.prev /\ u.dist = t.dist
           /\ (u.busy => t.busy) /\ (u.execute => t.execute)
<1>1. u = [t EXCEPT !.vel = x, !.nom = x] BY DEF SetTargetVel
<1> QED BY <1>1 DEF TrajState

\* What a motion that is commanded with a velocity does to the generator of an
\* axis that is enabled, or not.
Given(t, u, vel, on) ==
    /\ u.enable = t.enable /\ u.prev = t.prev /\ u.dist = t.dist /\ u.start = t.start
    /\ u.vel = vel /\ u.nom = vel
    /\ u.pos \in {t.pos, t.start} /\ u.local \in {t.local, t.pos}
    /\ u.busy => t.busy \/ (on /\ t.enable)
    /\ u.execute => t.execute \/ on

LEMMA RisenGiven ==
    ASSUME NEW a \in AxisState, a.enable, NEW u, u = SetTrajExecute(Risen(a), TRUE)
    PROVE  Given(a.traj, u, a.velocity, a.enable)
<1> DEFINE t == a.traj
<1> DEFINE v == SetTargetVel(t, a.velocity)
<1> DEFINE m == Moved(a)
<1> DEFINE r == Risen(a)
<1>1. t \in TrajState /\ a.velocity \in Int /\ a.pos \in Int /\ a.command \in {"pos", "vel"}
  BY DEF AxisState
<1>2. m \in TrajState /\ r \in TrajState BY RisenType
<1>3. v \in TrajState /\ v.vel = a.velocity /\ v.nom = a.velocity
      /\ v.enable = t.enable /\ v.start = t.start /\ v.pos = t.pos
      /\ v.local = t.local /\ v.prev = t.prev /\ v.dist = t.dist
      /\ (v.busy => t.busy) /\ (v.execute => t.execute)
  BY <1>1, VelocityFields
<1>4. m = [v EXCEPT !.mode = a.command] BY DEF Moved
<1>5. r = IF a.command = "pos" THEN SetTargetPos(m, a.pos) ELSE m BY DEF Risen
<1>6. u = SetTrajExecute(r, TRUE) OBVIOUS
<1> HIDE DEF t, v, m, r
<1>7. m.vel = v.vel /\ m.nom = v.nom /\ m.enable = v.enable /\ m.start = v.start
      /\ m.pos = v.pos /\ m.local = v.local /\ m.prev = v.prev /\ m.dist = v.dist
      /\ (m.busy => v.busy) /\ (m.execute => v.execute)
  BY <1>3, <1>4 DEF TrajState
<1>8. r.vel = m.vel /\ r.nom = m.nom /\ r.enable = m.enable /\ r.start = m.start
      /\ r.pos = m.pos /\ r.local \in {m.local, m.pos} /\ r.prev = m.prev /\ r.dist = m.dist
      /\ (r.busy => m.busy) /\ (r.execute => m.execute)
  <2>1. CASE a.command = "pos"
    <3>1. r = SetTargetPos(m, a.pos) BY <2>1, <1>5
    <3> QED BY <3>1, <1>1, <1>2, TargetFields
  <2>2. CASE a.command # "pos"
    <3>1. r = m BY <2>2, <1>5
    <3> QED BY <3>1
  <2> QED BY <2>1, <2>2
<1> DEFINE on == TRUE
<1>9. on \in BOOLEAN /\ u = SetTrajExecute(r, on) BY <1>6
<1> HIDE DEF on
<1>10. /\ u.enable = r.enable /\ u.start = r.start /\ u.local = r.local
       /\ u.vel = r.vel /\ u.prev = r.prev /\ u.dist = r.dist
  BY ZenonT(40), <1>2, <1>9, GeneratorKeeps
<1>11. CASE Rises(r, on)
  <2>1. u.pos = r.start /\ u.nom = r.vel /\ r.enable
    BY Zenon, <1>2, <1>9, <1>11, GeneratorStarts
  <2> QED BY <2>1, <1>3, <1>7, <1>8, <1>10 DEF Given, t
<1>12. CASE ~Rises(r, on)
  <2>1. u.pos = r.pos /\ u.nom = r.nom /\ (u.busy => r.busy)
    BY Zenon, <1>2, <1>9, <1>12, GeneratorGoesOn
  <2> QED BY ZenonT(40), <2>1, <1>3, <1>7, <1>8, <1>10 DEF Given, t
<1> QED BY <1>11, <1>12

\* What a motion that is commanded leaves alone.
Kept(a, b) ==
    /\ b.source = a.source /\ b.enable = a.enable /\ b.enableOld = a.enableOld
    /\ b.setpoint = a.setpoint /\ b.actual = a.actual /\ b.speed = a.speed /\ b.out = a.out
    /\ b.enabled = a.enabled /\ b.startup = a.startup /\ b.ramping = a.ramping
    /\ b.flags \subseteq a.flags

LEMMA SameIsKept ==
    ASSUME NEW a, NEW b, Same(a, b)
    PROVE  Kept(a, b) /\ b.command = a.command /\ b.pos = a.pos /\ b.velocity = a.velocity
           /\ b.enable = a.enable
BY DEF Same, Kept

LEMMA KeptTwice ==
    ASSUME NEW a, NEW b, NEW c, Kept(a, b), Kept(b, c)
    PROVE  Kept(a, c)
BY DEF Kept

LEMMA SeqVelocity ==
    ASSUME NEW a \in AxisState, NEW vel \in Int, NEW b, b = SeqSetTargetVel(a, vel)
    PROVE  /\ b \in AxisState /\ Kept(a, b) /\ b.velocity = vel
           /\ Given(a.traj, b.traj, vel, a.enable)
<1> DEFINE u == SetTargetVel(a.traj, vel)
<1>1. a.traj \in TrajState BY DEF AxisState
<1>2. u \in TrajState BY <1>1, TrajTypes
<1>3. Given(a.traj, u, vel, a.enable) BY <1>1, VelocityFields DEF Given
<1>4. b = [a EXCEPT !.velocity = vel, !.traj = u] BY DEF SeqSetTargetVel
<1> HIDE DEF u
<1>5. b \in AxisState /\ Kept(a, b) /\ b.velocity = vel /\ b.traj = u
  BY ZenonT(40), <1>2, <1>4 DEF AxisState, Kept
<1> QED BY <1>3, <1>5

LEMMA GivenTarget ==
    ASSUME NEW t \in TrajState, NEW s \in TrajState, NEW on, NEW vel, Given(t, s, vel, on),
           s.pos = t.pos, NEW x \in Int, NEW u, u = SetTargetPos(s, x)
    PROVE  Given(t, u, vel, on)
BY TargetFields DEF Given

LEMMA SeqTarget ==
    ASSUME NEW a \in AxisState, NEW pos \in Int, NEW b, b = SeqSetTargetPos(a, pos)
    PROVE  /\ b \in AxisState /\ Kept(a, b) /\ b.velocity = a.velocity
           /\ b.traj = a.traj \/ b.traj = SetTargetPos(a.traj, pos)
<1> DEFINE u == IF a.busy THEN SetTargetPos(a.traj, pos) ELSE a.traj
<1>1. a.traj \in TrajState BY DEF AxisState
<1>2. u \in TrajState /\ (u = a.traj \/ u = SetTargetPos(a.traj, pos)) BY <1>1, TrajTypes
<1>3. b = [a EXCEPT !.pos = pos, !.traj = u] BY DEF SeqSetTargetPos
<1> HIDE DEF u
<1>5. b \in AxisState /\ Kept(a, b) /\ b.velocity = a.velocity /\ b.traj = u
  BY ZenonT(40), <1>2, <1>3 DEF AxisState, Kept
<1> QED BY <1>2, <1>5

\* A motion to a position on the fly.
LEMMA RetargetGiven ==
    ASSUME NEW a \in AxisState, NEW vel \in Int, NEW pos \in Int,
           NEW b, b = SeqSetTargetPos(SeqSetTargetVel(a, vel), pos)
    PROVE  /\ b \in AxisState /\ Kept(a, b) /\ b.velocity = vel
           /\ Given(a.traj, b.traj, vel, a.enable)
           /\ b.traj.pos = a.traj.pos
<1> DEFINE c == SeqSetTargetVel(a, vel)
<1>1. c \in AxisState /\ Kept(a, c) /\ c.velocity = vel /\ Given(a.traj, c.traj, vel, a.enable)
  BY SeqVelocity
<1>2. a.traj \in TrajState /\ c.traj \in TrajState BY <1>1 DEF AxisState
<1>3. c.traj = SetTargetVel(a.traj, vel) BY DEF SeqSetTargetVel, AxisState
<1>4. c.traj.pos = a.traj.pos BY <1>2, <1>3, VelocityFields
<1>5. b = SeqSetTargetPos(c, pos) OBVIOUS
<1> HIDE DEF c
<1>6. b \in AxisState /\ Kept(c, b) /\ b.velocity = c.velocity
  BY Zenon, <1>1, <1>5, SeqTarget
<1>7. b.traj = c.traj \/ b.traj = SetTargetPos(c.traj, pos)
  BY Zenon, <1>1, <1>5, SeqTarget
<1>8. Kept(a, b) BY Zenon, <1>1, <1>6, KeptTwice
<1>9. Given(a.traj, b.traj, vel, a.enable)
  BY <1>1, <1>2, <1>4, <1>7, GivenTarget
<1>10. b.traj.pos = a.traj.pos BY <1>2, <1>4, <1>7, TargetFields
<1> QED BY <1>1, <1>6, <1>8, <1>9, <1>10

\* A motion that rises on top of what has been given.
LEMMA GivenExecute ==
    ASSUME NEW t \in TrajState, NEW s \in TrajState, NEW on, NEW vel, Given(t, s, vel, on), on,
           NEW u, u = SetTrajExecute(s, TRUE)
    PROVE  Given(t, u, vel, on)
<1> DEFINE yes == TRUE
<1>1. yes \in BOOLEAN /\ u = SetTrajExecute(s, yes) OBVIOUS
<1> HIDE DEF yes
<1>2. /\ u.enable = s.enable /\ u.start = s.start /\ u.local = s.local
      /\ u.vel = s.vel /\ u.prev = s.prev /\ u.dist = s.dist
  BY Zenon, <1>1, GeneratorKeeps
<1>3. CASE Rises(s, yes)
  <2>1. u.pos = s.start /\ u.nom = s.vel /\ s.enable BY Zenon, <1>1, <1>3, GeneratorStarts
  <2> QED BY <1>2, <2>1 DEF Given
<1>4. CASE ~Rises(s, yes)
  <2>1. u.pos = s.pos /\ u.nom = s.nom /\ (u.busy => s.busy)
    BY Zenon, <1>1, <1>4, GeneratorGoesOn
  <2> QED BY <1>2, <2>1 DEF Given
<1> QED BY <1>3, <1>4

LEMMA GivenTwice ==
    ASSUME NEW t, NEW s, NEW u, NEW on, NEW vel,
           Given(t, s, vel, on), Given(s, u, vel, on), s.pos = t.pos
    PROVE  Given(t, u, vel, on)
BY DEF Given

\* The generator whose execute has been taken back.
Calmed(t, s) ==
    /\ s.enable = t.enable /\ s.prev = t.prev /\ s.dist = t.dist /\ s.start = t.start
    /\ s.pos = t.pos /\ s.local = t.local /\ s.target = t.target /\ s.vel = t.vel
    /\ s.nom = t.nom /\ s.mode = t.mode
    /\ (s.busy => t.busy) /\ ~s.execute

LEMMA CalmedByExecute ==
    ASSUME NEW t \in TrajState, NEW u, u = SetTrajExecute(t, FALSE)
    PROVE  u \in TrajState /\ Calmed(t, u)
<1> DEFINE no == FALSE
<1>1. no \in BOOLEAN /\ u = SetTrajExecute(t, no) /\ ~no OBVIOUS
<1> HIDE DEF no
<1>2. ~Rises(t, no) BY <1>1 DEF Rises
<1>3. u.pos = t.pos /\ u.nom = t.nom /\ (u.busy => t.busy)
  BY Zenon, <1>1, <1>2, GeneratorGoesOn
<1>4. /\ u.enable = t.enable /\ u.start = t.start /\ u.local = t.local
      /\ u.vel = t.vel /\ u.prev = t.prev /\ u.dist = t.dist
  BY Zenon, <1>1, GeneratorKeeps
<1>5. u \in TrajState /\ u.mode = t.mode /\ u.target = t.target /\ ~u.execute
  BY ZenonT(40), TrajExecuteFields
<1> QED BY <1>3, <1>4, <1>5 DEF Calmed

LEMMA CalmedGiven ==
    ASSUME NEW t, NEW s, NEW u, NEW on, NEW vel, Calmed(t, s), Given(s, u, vel, on)
    PROVE  Given(t, u, vel, on)
BY DEF Calmed, Given

\* A command withdraws the execute before it changes what is executed.
LEMMA Paused ==
    ASSUME NEW a \in AxisState, Internal(a), NEW command \in {"pos", "vel"},
           NEW b, b = [SetExecute(a, FALSE) EXCEPT !.command = command]
    PROVE  b \in AxisState /\ Kept(a, b) /\ Calmed(a.traj, b.traj)
<1> DEFINE w == SetExecute(a, FALSE)
<1>1. w \in AxisState /\ Same(a, w) /\ w.traj = SetTrajExecute(a.traj, FALSE)
  BY Withdrawn
<1>2. a.traj \in TrajState BY DEF AxisState
<1>3. Kept(a, w) BY <1>1, SameIsKept
<1>4. b = [w EXCEPT !.command = command] OBVIOUS
<1> HIDE DEF w
<1>5. b \in AxisState /\ Kept(w, b) /\ b.traj = w.traj
  BY ZenonT(40), <1>1, <1>4 DEF AxisState, Kept
<1>6. Calmed(a.traj, b.traj) BY <1>1, <1>2, <1>5, CalmedByExecute
<1>7. Kept(a, b) BY Zenon, <1>3, <1>5, KeptTwice
<1> QED BY <1>5, <1>6, <1>7

Started(a) == SetExecute(a, TRUE)
Prepared(b, c, vel, on) ==
    Kept(b, c) /\ c.velocity = vel /\ Given(b.traj, c.traj, vel, on) /\ c.traj.pos = b.traj.pos
Commanded(a, b, vel) ==
    b \in AxisState /\ Kept(a, b) /\ b.velocity = vel /\ Given(a.traj, b.traj, vel, a.enable)

\* A motion that starts when its velocity and its target have been set.
LEMMA StartGiven ==
    ASSUME NEW a \in AxisState, NEW vel \in Int, NEW b \in AxisState, Kept(a, b),
           Calmed(a.traj, b.traj), NEW c \in AxisState, Prepared(b, c, vel, a.enable)
    PROVE  Commanded(a, Started(c), vel)
<1> DEFINE d == Started(c)
<1>p. /\ Kept(b, c) /\ c.velocity = vel
      /\ Given(b.traj, c.traj, vel, a.enable) /\ c.traj.pos = b.traj.pos
  BY DEF Prepared
<1>a. d = SetExecute(c, TRUE) /\ d = Started(c) BY DEF Started
<1> HIDE DEF d
<1>1. c.traj \in TrajState /\ b.traj \in TrajState BY DEF AxisState
<1>2. Kept(a, c) BY Zenon, <1>p, KeptTwice
<1>3. d \in AxisState /\ Same(c, d)
  BY <1>a, Executed
<1>4. Kept(a, d) /\ d.velocity = vel
  BY <1>2, <1>3, <1>p, SameIsKept, KeptTwice
<1>5. c.enable = a.enable BY <1>2 DEF Kept
<1>6. Given(b.traj, d.traj, vel, a.enable)
  <2>1. CASE d.traj = c.traj BY <1>p, <2>1
  <2>2. CASE d.traj # c.traj
    <3>1. c.enable BY <1>a, <2>2, Executed
    <3>2. a.enable BY <3>1, <1>5
    <3>3. \/ d.traj = SetTrajExecute(c.traj, TRUE)
          \/ d.traj = SetTrajExecute(Risen(c), TRUE)
      BY <1>a, <2>2, Executed
    <3>4. CASE d.traj = SetTrajExecute(c.traj, TRUE)
      BY <3>4, <3>2, <1>1, <1>p, GivenExecute
    <3>5. CASE d.traj = SetTrajExecute(Risen(c), TRUE)
      <4>1. Given(c.traj, d.traj, c.velocity, c.enable)
        BY <3>1, <3>5, RisenGiven
      <4>2. Given(c.traj, d.traj, vel, a.enable)
        BY <4>1, <1>5, <1>p
      <4> QED BY Zenon, <4>2, <1>p, GivenTwice
    <3> QED BY <3>3, <3>4, <3>5
  <2> QED BY <2>1, <2>2
<1>7. Given(a.traj, d.traj, vel, a.enable)
  BY Zenon, <1>6, CalmedGiven
<1> QED BY <1>a, <1>3, <1>4, <1>7 DEF Commanded

LEMMA PositionGiven ==
    ASSUME NEW a \in AxisState, NEW pos \in Int, NEW vel \in Int,
           NEW b, b = MoveAbsolutePosition(a, pos, vel)
    PROVE  \/ b = a
           \/ Internal(a) /\ Commanded(a, b, vel)
<1> DEFINE w == [SetExecute(a, FALSE) EXCEPT !.command = "pos"]
<1>1. b = IF ~Internal(a) \/ (a.error /\ ~OnTheFly(a, "pos")) THEN a
          ELSE IF OnTheFly(a, "pos") THEN SeqSetTargetPos(SeqSetTargetVel(a, vel), pos)
          ELSE SetExecute(SeqSetTargetPos(SeqSetTargetVel(w, vel), pos), TRUE)
  BY Zenon DEF MoveAbsolutePosition
<1>2. CASE ~Internal(a) \/ (a.error /\ ~OnTheFly(a, "pos"))
  BY <1>1, <1>2
<1>3. CASE Internal(a) /\ OnTheFly(a, "pos")
  <2>1. b = SeqSetTargetPos(SeqSetTargetVel(a, vel), pos) BY <1>1, <1>3
  <2>2. b \in AxisState /\ Kept(a, b) /\ b.velocity = vel /\ Given(a.traj, b.traj, vel, a.enable)
    BY <2>1, RetargetGiven
  <2> QED BY <1>3, <2>2 DEF Commanded
<1>4. CASE Internal(a) /\ ~OnTheFly(a, "pos") /\ ~a.error
  <2> DEFINE c == SeqSetTargetPos(SeqSetTargetVel(w, vel), pos)
  <2>1. b = Started(c) BY <1>1, <1>4 DEF Started
  <2>2. w \in AxisState /\ w.enable = a.enable
    <3>1. SetExecute(a, FALSE) \in AxisState /\ Same(a, SetExecute(a, FALSE)) BY Withdrawn
    <3> QED BY <3>1 DEF AxisState, Same
  <2> DEFINE kind == "pos"
  <2>6. w = [SetExecute(a, FALSE) EXCEPT !.command = kind] OBVIOUS
  <2>7. kind \in {"pos", "vel"} OBVIOUS
  <2> HIDE DEF w, kind
  <2>4. c \in AxisState /\ Kept(w, c) /\ c.velocity = vel
        /\ Given(w.traj, c.traj, vel, a.enable) /\ c.traj.pos = w.traj.pos
    BY <2>2, RetargetGiven
  <2> HIDE DEF c
  <2>8. Commanded(a, b, vel)
    <3>1. Internal(a) BY <1>4
    <3>2. w \in AxisState /\ Kept(a, w) /\ Calmed(a.traj, w.traj)
      BY Zenon, <3>1, <2>6, <2>7, Paused
    <3>3. Prepared(w, c, vel, a.enable) BY <2>4 DEF Prepared
    <3>4. Commanded(a, Started(c), vel) BY Zenon, <3>2, <3>3, <2>4, StartGiven
    <3> QED BY Zenon, <3>4, <2>1
  <2> QED BY <1>4, <2>8
<1> QED BY <1>2, <1>3, <1>4

LEMMA VelocityGiven ==
    ASSUME NEW a \in AxisState, NEW vel \in Int, NEW b, b = MoveVelocity(a, vel)
    PROVE  \/ b = a
           \/ Internal(a) /\ Commanded(a, b, vel)
<1> DEFINE w == [SetExecute(a, FALSE) EXCEPT !.command = "vel"]
<1>1. b = IF ~Internal(a) \/ a.error THEN a
          ELSE IF OnTheFly(a, "vel") THEN SeqSetTargetVel(a, vel)
          ELSE SetExecute(SeqSetTargetVel(w, vel), TRUE)
  BY Zenon DEF MoveVelocity
<1>2. CASE ~Internal(a) \/ a.error
  BY <1>1, <1>2
<1>3. CASE Internal(a) /\ ~a.error /\ OnTheFly(a, "vel")
  <2>1. b = SeqSetTargetVel(a, vel) BY <1>1, <1>3
  <2>2. b \in AxisState /\ Kept(a, b) /\ b.velocity = vel /\ Given(a.traj, b.traj, vel, a.enable)
    BY Zenon, <2>1, SeqVelocity
  <2> QED BY <1>3, <2>2 DEF Commanded
<1>4. CASE Internal(a) /\ ~OnTheFly(a, "vel") /\ ~a.error
  <2> DEFINE c == SeqSetTargetVel(w, vel)
  <2>1. b = Started(c) BY <1>1, <1>4 DEF Started
  <2>2. w \in AxisState /\ w.enable = a.enable
    <3>1. SetExecute(a, FALSE) \in AxisState /\ Same(a, SetExecute(a, FALSE)) BY Withdrawn
    <3> QED BY <3>1 DEF AxisState, Same
  <2> DEFINE kind == "vel"
  <2>7. w = [SetExecute(a, FALSE) EXCEPT !.command = kind] OBVIOUS
  <2>8. kind \in {"pos", "vel"} OBVIOUS
  <2> HIDE DEF w, kind
  <2>4. c \in AxisState /\ Kept(w, c) /\ c.velocity = vel
        /\ Given(w.traj, c.traj, vel, a.enable)
    BY <2>2, SeqVelocity
  <2>5. c.traj.pos = w.traj.pos
    <3>1. w.traj \in TrajState BY <2>2 DEF AxisState
    <3>2. c.traj = SetTargetVel(w.traj, vel) BY <2>2 DEF SeqSetTargetVel, AxisState
    <3> QED BY <3>1, <3>2, VelocityFields
  <2> HIDE DEF c
  <2>9. Commanded(a, b, vel)
    <3>1. Internal(a) BY <1>4
    <3>2. w \in AxisState /\ Kept(a, w) /\ Calmed(a.traj, w.traj)
      BY Zenon, <3>1, <2>7, <2>8, Paused
    <3>3. Prepared(w, c, vel, a.enable) BY <2>4, <2>5 DEF Prepared
    <3>4. Commanded(a, Started(c), vel) BY Zenon, <3>2, <3>3, <2>4, StartGiven
    <3> QED BY Zenon, <3>4, <2>1
  <2> QED BY <1>4, <2>9
<1> QED BY <1>2, <1>3, <1>4

\* The trajectory of an axis that is enabled where it is.
Anchored(t, u, actual) ==
    /\ u.enable
    /\ u.pos = actual /\ u.local = actual /\ u.target = actual /\ u.start = actual
    /\ u.prev = 0 /\ (u.dist = 0 \/ (t.enable /\ u.dist = t.dist))
    /\ u.vel = t.vel /\ u.nom = t.nom /\ u.mode = t.mode
    /\ (u.busy => t.busy) /\ (u.execute => t.execute)

LEMMA AnchoredTraj ==
    ASSUME NEW t \in TrajState, NEW x \in Int,
           NEW s, s = SetTargetPos(SetCurrentPosSet([t EXCEPT !.start = x], x), x),
           NEW u, u = SetTrajEnable(s, TRUE)
    PROVE  s \in TrajState /\ u \in TrajState /\ Anchored(t, u, x)
<1> DEFINE r == [t EXCEPT !.start = x]
<1> DEFINE z == 0
<1> DEFINE c == SetCurrentPosSet(r, x)
<1>1. r \in TrajState /\ r.start = x /\ r.enable = t.enable /\ r.dist = t.dist
      /\ r.vel = t.vel /\ r.nom = t.nom /\ r.mode = t.mode
      /\ (r.busy => t.busy) /\ (r.execute => t.execute)
  BY DEF TrajState
<1>2. c = [r EXCEPT !.prev = z, !.local = x, !.pos = x] BY Zenon DEF SetCurrentPosSet
<1>3. s = SetTargetPos(c, x) BY Zenon
<1>4. z = 0 /\ z \in Int OBVIOUS
<1> HIDE DEF r, c, z
<1>5. c \in TrajState /\ c.start = x /\ c.enable = t.enable /\ c.dist = t.dist
      /\ c.vel = t.vel /\ c.nom = t.nom /\ c.mode = t.mode /\ c.pos = x /\ c.prev = z
      /\ (c.busy => t.busy) /\ (c.execute => t.execute)
  BY <1>1, <1>2, <1>4 DEF TrajState
<1>6. s \in TrajState /\ s.start = x /\ s.enable = t.enable /\ s.dist = t.dist
      /\ s.vel = t.vel /\ s.nom = t.nom /\ s.mode = t.mode /\ s.pos = x /\ s.prev = z
      /\ s.local = x /\ s.target = x
      /\ (s.busy => t.busy) /\ (s.execute => t.execute)
  BY <1>3, <1>5, TargetFields
<1> DEFINE on == TRUE
<1> DEFINE b == on /\ s.busy
<1>7. on /\ b \in BOOLEAN /\ (b => s.busy) OBVIOUS
<1>8. u = IF on /\ ~s.enable
          THEN [s EXCEPT !.enable = TRUE, !.pos = s.start, !.prev = z, !.dist = z]
          ELSE [s EXCEPT !.enable = on, !.busy = b]
  BY Zenon DEF SetTrajEnable, z
<1> HIDE DEF on, b
<1>9. CASE ~s.enable
  <2>1. u = [s EXCEPT !.enable = TRUE, !.pos = s.start, !.prev = z, !.dist = z]
    BY <1>7, <1>8, <1>9
  <2>2. u \in TrajState BY <2>1, <1>4, <1>6 DEF TrajState
  <2>3. u.pos = x /\ u.local = x /\ u.target = x /\ u.start = x /\ u.prev = z /\ u.dist = z
        /\ u.vel = t.vel /\ u.nom = t.nom /\ u.mode = t.mode
    BY <2>1, <1>6 DEF TrajState
  <2>4. u.enable /\ (u.busy => t.busy) /\ (u.execute => t.execute)
    BY <2>1, <1>6 DEF TrajState
  <2> QED BY <1>4, <1>6, <2>2, <2>3, <2>4 DEF Anchored
<1>10. CASE s.enable
  <2>1. u = [s EXCEPT !.enable = on, !.busy = b]
    BY <1>7, <1>8, <1>10
  <2>2. u \in TrajState BY <2>1, <1>7, <1>6 DEF TrajState
  <2>3. u.pos = x /\ u.local = x /\ u.target = x /\ u.start = x /\ u.prev = z /\ u.dist = t.dist
        /\ u.vel = t.vel /\ u.nom = t.nom /\ u.mode = t.mode
    BY <2>1, <1>6 DEF TrajState
  <2>4. u.enable /\ (u.busy => t.busy) /\ (u.execute => t.execute)
    BY <2>1, <1>7, <1>6 DEF TrajState
  <2>5. t.enable BY <1>10, <1>6
  <2> QED BY <1>4, <1>6, <2>2, <2>3, <2>4, <2>5 DEF Anchored
<1> QED BY <1>9, <1>10

\* An axis that is enabled.
EnabledHere(a, b) ==
    /\ b.enable /\ ~b.enableOld
    /\ b.setpoint = a.actual /\ b.actual = a.actual /\ b.speed = a.speed /\ b.out = a.out
    /\ b.source = a.source /\ b.enabled = a.enabled /\ b.startup = a.startup
    /\ b.ramping = a.ramping /\ b.flags \subseteq a.flags /\ b.velocity = a.velocity
    /\ Anchored(a.traj, b.traj, a.actual)

LEMMA EnableOn ==
    ASSUME NEW a \in AxisState, ~a.enable, NEW b, b = SetEnable(a, TRUE)
    PROVE  b \in AxisState /\ EnabledHere(a, b)
<1> DEFINE s == SetTargetPos(SetCurrentPosSet([a.traj EXCEPT !.start = a.actual], a.actual), a.actual)
<1> DEFINE u == SetTrajEnable(s, TRUE)
<1> DEFINE on == TRUE
<1> DEFINE c == Synchronised(a)
<1> DEFINE old == a.enable
<1>1. a.traj \in TrajState /\ a.actual \in Int /\ old \in BOOLEAN BY DEF AxisState
<1>2. s \in TrajState /\ u \in TrajState /\ Anchored(a.traj, u, a.actual)
  BY <1>1, AnchoredTraj
<1>3. c = [a EXCEPT !.traj = s, !.setpoint = a.actual, !.first = TRUE]
  BY DEF Synchronised
<1>4. on /\ ~old /\ on \in BOOLEAN OBVIOUS
<1>5. b = [c EXCEPT !.traj = SetTrajEnable(c.traj, on), !.enableOld = old, !.enable = on]
  <2>1. b = IF on = a.enable THEN a
            ELSE [(IF on THEN Synchronised(a) ELSE SetExecute(a, FALSE))
                    EXCEPT !.traj = SetTrajEnable(@, on), !.enableOld = a.enable, !.enable = on]
    BY Zenon DEF SetEnable
  <2>2. on # a.enable OBVIOUS
  <2>3. (IF on THEN Synchronised(a) ELSE SetExecute(a, FALSE)) = c OBVIOUS
  <2> HIDE DEF on, c
  <2> QED BY <2>1, <2>2, <2>3
<1>6. u = SetTrajEnable(s, on) OBVIOUS
<1> HIDE DEF s, u, on, c, old
<1>7. c \in AxisState /\ c.traj = s BY <1>1, <1>2, <1>3 DEF AxisState
<1>8. b = [c EXCEPT !.traj = u, !.enableOld = old, !.enable = on] BY <1>5, <1>6, <1>7
<1>9. b \in AxisState BY <1>1, <1>2, <1>4, <1>7, <1>8 DEF AxisState
<1>10. /\ b.setpoint = a.actual /\ b.actual = a.actual /\ b.speed = a.speed /\ b.out = a.out
       /\ b.source = a.source /\ b.enabled = a.enabled /\ b.startup = a.startup
       /\ b.ramping = a.ramping /\ b.flags = a.flags /\ b.velocity = a.velocity
       /\ b.traj = u
  BY ZenonT(40), <1>3, <1>7, <1>8 DEF AxisState
<1>11. b.enable /\ ~b.enableOld BY <1>4, <1>7, <1>8 DEF AxisState
<1> QED BY <1>2, <1>9, <1>10, <1>11 DEF EnabledHere

\* The generator of an axis that is disabled.
Rested(t, u, own) ==
    /\ ~u.enable /\ ~u.busy /\ (u.execute => t.execute /\ ~own)
    /\ u.pos = t.pos /\ u.local = t.local /\ u.target = t.target /\ u.start = t.start
    /\ u.prev = t.prev /\ u.dist = t.dist /\ u.vel = t.vel /\ u.nom = t.nom /\ u.mode = t.mode

Disabled(a, b) ==
    /\ ~b.enable
    /\ b.setpoint = a.setpoint /\ b.actual = a.actual /\ b.speed = a.speed /\ b.out = a.out
    /\ b.source = a.source /\ b.enabled = a.enabled /\ b.startup = a.startup
    /\ b.ramping = a.ramping /\ b.flags \subseteq a.flags /\ b.velocity = a.velocity
    /\ b.pos = a.pos

LEMMA RestedTraj ==
    ASSUME NEW t \in TrajState, NEW u, u = SetTrajEnable(t, FALSE)
    PROVE  u \in TrajState /\ Rested(t, u, FALSE)
<1> DEFINE no == FALSE
<1> DEFINE b == no /\ t.busy
<1> DEFINE z == 0
<1>1. ~no /\ ~b /\ no \in BOOLEAN /\ b \in BOOLEAN OBVIOUS
<1>2. u = IF no /\ ~t.enable
          THEN [t EXCEPT !.enable = TRUE, !.pos = t.start, !.prev = z, !.dist = z]
          ELSE [t EXCEPT !.enable = no, !.busy = b]
  BY Zenon DEF SetTrajEnable
<1> HIDE DEF no, b, z
<1>3. u = [t EXCEPT !.enable = no, !.busy = b] BY <1>1, <1>2
<1>4. u \in TrajState BY <1>1, <1>3 DEF TrajState
<1>5. /\ u.pos = t.pos /\ u.local = t.local /\ u.target = t.target /\ u.start = t.start
      /\ u.prev = t.prev /\ u.dist = t.dist /\ u.vel = t.vel /\ u.nom = t.nom /\ u.mode = t.mode
  BY <1>3 DEF TrajState
<1>6. ~u.enable /\ ~u.busy /\ (u.execute => t.execute) BY <1>1, <1>3 DEF TrajState
<1> QED BY <1>4, <1>5, <1>6 DEF Rested

LEMMA EnableOff ==
    ASSUME NEW a \in AxisState, a.enable, NEW b, b = SetEnable(a, FALSE)
    PROVE  /\ b \in AxisState /\ Disabled(a, b)
           /\ Internal(a) => Rested(a.traj, b.traj, TRUE)
           /\ ~Internal(a) => Rested(a.traj, b.traj, FALSE)
<1> DEFINE no == FALSE
<1> DEFINE c == SetExecute(a, FALSE)
<1> DEFINE old == a.enable
<1>1. a.traj \in TrajState /\ old \in BOOLEAN BY DEF AxisState
<1>2. c \in AxisState /\ Same(a, c) /\ (~Internal(a) => c = a)
      /\ (Internal(a) => c.traj = SetTrajExecute(a.traj, FALSE))
  BY Withdrawn
<1>3. ~no /\ no \in BOOLEAN OBVIOUS
<1>4. b = [c EXCEPT !.traj = SetTrajEnable(c.traj, no), !.enableOld = old, !.enable = no]
  <2>1. b = IF no = a.enable THEN a
            ELSE [(IF no THEN Synchronised(a) ELSE SetExecute(a, FALSE))
                    EXCEPT !.traj = SetTrajEnable(@, no), !.enableOld = a.enable, !.enable = no]
    BY Zenon DEF SetEnable
  <2>2. no # a.enable OBVIOUS
  <2>3. (IF no THEN Synchronised(a) ELSE SetExecute(a, FALSE)) = c OBVIOUS
  <2> HIDE DEF no, c
  <2> QED BY <2>1, <2>2, <2>3
<1> DEFINE u == SetTrajEnable(c.traj, FALSE)
<1>5. c.traj \in TrajState BY <1>2 DEF AxisState
<1>6. u \in TrajState /\ Rested(c.traj, u, FALSE) /\ u = SetTrajEnable(c.traj, no)
  BY <1>5, RestedTraj
<1> HIDE DEF u, no, c, old
<1>7. b = [c EXCEPT !.traj = u, !.enableOld = old, !.enable = no] BY <1>4, <1>6
<1>8. b \in AxisState BY ZenonT(40), <1>1, <1>2, <1>3, <1>6, <1>7 DEF AxisState
<1>9. /\ b.setpoint = c.setpoint /\ b.actual = c.actual /\ b.speed = c.speed /\ b.out = c.out
      /\ b.source = c.source /\ b.enabled = c.enabled /\ b.startup = c.startup
      /\ b.ramping = c.ramping /\ b.flags = c.flags /\ b.velocity = c.velocity
      /\ b.traj = u /\ b.pos = c.pos
  BY ZenonT(40), <1>2, <1>7 DEF AxisState
<1>10. ~b.enable BY <1>2, <1>3, <1>7 DEF AxisState
<1>11. Disabled(a, b) BY <1>2, <1>9, <1>10 DEF Disabled, Same
<1>12. ASSUME Internal(a) PROVE Rested(a.traj, b.traj, TRUE)
  <2>1. Calmed(a.traj, c.traj) BY <1>1, <1>2, <1>12, CalmedByExecute
  <2> QED BY ZenonT(40), <2>1, <1>6, <1>9 DEF Calmed, Rested
<1>13. ASSUME ~Internal(a) PROVE Rested(a.traj, b.traj, FALSE)
  BY <1>2, <1>6, <1>9, <1>13
<1> QED BY <1>8, <1>11, <1>12, <1>13

(***************************************************************************)
(* What makes every stop slow down                                         *)
(***************************************************************************)
\* The way to a stop is not that of the last step.
Stale(t) == t.dist # t.prev * Size(t.prev)

\* own tells whether the setpoint is the generator's, on whether the axis is
\* enabled and late whether it has been given a command since the last cycle.
RampsKept(t, own, on, late) ==
    /\ t.busy => t.enable
    /\ t.mode = "vel" => t.vel # 0
    /\ t.busy /\ t.nom = 0 => own /\ on /\ t.mode = "pos" /\ t.vel = 0
    /\ t.vel = 0 /\ own /\ on => t.target = t.local /\ Gentle(t.prev)
    /\ ~on \/ ~own => ~t.execute
    /\ Stale(t) => (late \/ ~own) /\ t.prev = 0 /\ t.target = t.local /\ (t.busy => t.nom # 0)
    /\ t.busy /\ t.vel = 0 /\ t.nom # 0 /\ own /\ on => t.prev = 0 /\ ~t.execute

LEMMA StaleKept ==
    ASSUME NEW t, NEW u, u.prev = t.prev, u.dist = t.dist, Stale(u)
    PROVE  Stale(t)
BY DEF Stale

LEMMA StaleNot ==
    ASSUME NEW t, t.prev = 0, t.dist = 0
    PROVE  ~Stale(t)
BY DEF Stale, Size

LEMMA RampsLate ==
    ASSUME NEW t, NEW own, NEW on, NEW late, RampsKept(t, own, on, late)
    PROVE  RampsKept(t, own, on, TRUE)
BY DEF RampsKept

LEMMA RampsCalmed ==
    ASSUME NEW t, NEW u, NEW own, NEW on, NEW late, RampsKept(t, own, on, late), Calmed(t, u)
    PROVE  RampsKept(u, own, on, late)
<1>1. Stale(u) => Stale(t) BY StaleKept DEF Calmed
<1> QED BY <1>1 DEF RampsKept, Calmed

LEMMA RampsGiven ==
    ASSUME NEW t, NEW u, NEW own, NEW on, RampsKept(t, own, on, FALSE), own,
           NEW vel, vel # 0, Given(t, u, vel, on)
    PROVE  RampsKept(u, own, on, TRUE)
<1>1. ~Stale(t) BY DEF RampsKept
<1>2. ~Stale(u) BY <1>1, StaleKept DEF Given
<1> QED BY <1>2 DEF RampsKept, Given

LEMMA RampsExecuted ==
    ASSUME NEW t \in TrajState, NEW u, NEW own, NEW on, RampsKept(t, own, on, FALSE), own, on,
           u = SetTrajExecute(t, TRUE)
    PROVE  RampsKept(u, own, on, TRUE)
<1> DEFINE yes == TRUE
<1>1. yes \in BOOLEAN /\ yes /\ u = SetTrajExecute(t, yes) OBVIOUS
<1> HIDE DEF yes
<1>2. /\ u.enable = t.enable /\ u.start = t.start /\ u.local = t.local
      /\ u.vel = t.vel /\ u.prev = t.prev /\ u.dist = t.dist
  BY Zenon, <1>1, GeneratorKeeps
<1>3. u.mode = t.mode /\ u.target = t.target /\ (u.execute => t.enable)
  BY Zenon, <1>1, GeneratorHolds
<1>4. ~Stale(u)
  <2>1. ~Stale(t) BY DEF RampsKept
  <2> QED BY <1>2, <2>1, StaleKept
<1>5. CASE Rises(t, yes)
  <2>1. u.pos = t.start /\ u.nom = t.vel /\ t.enable
    BY Zenon, <1>1, <1>5, GeneratorStarts
  <2>2. t.mode \in {"pos", "vel"} BY DEF TrajState
  <2> QED BY <1>2, <1>3, <1>4, <2>1, <2>2 DEF RampsKept
<1>6. CASE ~Rises(t, yes)
  <2>1. u.pos = t.pos /\ u.nom = t.nom /\ (u.busy => t.busy)
    BY Zenon, <1>1, <1>6, GeneratorGoesOn
  <2>2. u.execute => t.execute
    <3>1. t.enable => t.execute BY <1>1, <1>6 DEF Rises
    <3> QED BY <3>1, <1>3
  <2> QED BY <1>2, <1>3, <1>4, <2>1, <2>2 DEF RampsKept
<1> QED BY <1>5, <1>6

LEMMA RampsAnchored ==
    ASSUME NEW t, NEW u, NEW own, NEW late, RampsKept(t, own, FALSE, late),
           \E x : Anchored(t, u, x)
    PROVE  RampsKept(u, own, TRUE, TRUE)
<1>a. PICK x : Anchored(t, u, x) OBVIOUS
<1>1. Gentle(0) BY Constants DEF Gentle, Size
<1>2. Stale(u) => u.dist # 0 BY <1>a, StaleNot DEF Anchored
<1>3. u.busy => t.busy /\ t.nom # 0 BY <1>a DEF RampsKept, Anchored
<1>4. ~u.execute BY <1>a DEF RampsKept, Anchored
<1> QED BY <1>a, <1>1, <1>2, <1>3, <1>4 DEF RampsKept, Anchored

LEMMA RampsRested ==
    ASSUME NEW t, NEW u, NEW own, NEW on, NEW late, RampsKept(t, own, on, late), on,
           Rested(t, u, own)
    PROVE  RampsKept(u, own, FALSE, TRUE)
<1>1. Stale(u) => Stale(t) BY StaleKept DEF Rested
<1> QED BY <1>1 DEF RampsKept, Rested

\* The source of an axis that is disabled may change.
LEMMA RampsHandedOver ==
    ASSUME NEW t \in TrajState, NEW u, NEW own, NEW on, NEW late, RampsKept(t, own, on, late), ~on,
           NEW x \in Int, u = t \/ u = [t EXCEPT !.start = x], NEW new
    PROVE  RampsKept(u, new, on, TRUE)
<1>1. /\ u.prev = t.prev /\ u.dist = t.dist /\ u.mode = t.mode /\ u.vel = t.vel
      /\ u.nom = t.nom /\ u.target = t.target /\ u.local = t.local
  BY DEF TrajState
<1>2. (u.busy => t.busy) /\ (t.enable => u.enable) /\ (u.execute => t.execute)
  BY DEF TrajState
<1>3. Stale(u) => Stale(t) BY <1>1, StaleKept
<1> QED BY <1>1, <1>2, <1>3 DEF RampsKept

\* A cycle in which the generator moves, and one in which it stands.
Ran(t, u) ==
    /\ u \in TrajState /\ u.mode = t.mode /\ u.start = t.start /\ u.vel = t.vel
    /\ u.nom = t.nom /\ u.pos = u.local /\ ~Stale(u)
    /\ u.enable /\ (u.execute => t.execute) /\ (t.execute => u.execute)

Stood(t, u) ==
    /\ u \in TrajState /\ u.mode = t.mode /\ u.start = t.start /\ u.vel = t.vel
    /\ u.nom = t.nom /\ u.pos = t.pos /\ u.local = t.local /\ u.target = t.target
    /\ u.prev = t.prev /\ ~Stale(u)
    /\ (u.enable => t.enable) /\ (t.enable => u.enable)
    /\ (u.busy => t.busy) /\ (t.busy => u.busy)
    /\ (u.execute => t.execute) /\ (t.execute => u.execute)

LEMMA GeneratorMoves ==
    ASSUME NEW t \in TrajState, NEW locks, NEW ext \in BOOLEAN, Moves(t),
           NEW u, u = GetNextPosSet(t, locks, ext)
    PROVE  u = InternalTraj(t, locks, ext) /\ Ran(t, u)
<1>1. u = InternalTraj(t, locks, ext) BY DEF GetNextPosSet
<1>2. /\ u \in TrajState /\ u.mode = t.mode /\ u.start = t.start /\ u.vel = t.vel
      /\ u.nom = t.nom /\ u.pos = u.local
  BY <1>1, GeneratorStep
<1>3. u.dist = u.prev * Size(u.prev) BY <1>1, GeneratorStep
<1>4. u.enable /\ (u.execute => t.execute) /\ (t.execute => u.execute)
  BY <1>1, GeneratorStep DEF Moves
<1> QED BY <1>1, <1>2, <1>3, <1>4 DEF Stale, Ran

LEMMA GeneratorStands ==
    ASSUME NEW t \in TrajState, NEW locks, NEW ext, ~Moves(t),
           NEW u, u = GetNextPosSet(t, locks, ext)
    PROVE  Stood(t, u)
<1>1. u \in TrajState /\ u.dist = t.prev * Size(t.prev) BY GeneratorRests
<1> DEFINE d == u.dist
<1>2. u = [t EXCEPT !.dist = d] BY GeneratorRests
<1> HIDE DEF d
<1>3. /\ u.mode = t.mode /\ u.start = t.start /\ u.vel = t.vel
      /\ u.nom = t.nom /\ u.pos = t.pos /\ u.local = t.local /\ u.target = t.target
      /\ u.prev = t.prev
  BY <1>2 DEF TrajState
<1>4. /\ (u.enable => t.enable) /\ (t.enable => u.enable)
      /\ (u.busy => t.busy) /\ (t.busy => u.busy)
      /\ (u.execute => t.execute) /\ (t.execute => u.execute)
  BY <1>2 DEF TrajState
<1>5. ~Stale(u) BY <1>1, <1>3 DEF Stale
<1> QED BY <1>1, <1>3, <1>4, <1>5 DEF Stood

LEMMA RampsOwnCycle ==
    ASSUME ACC <= DEC, NEW t \in TrajState, NEW own, own, NEW on, NEW late,
           RampsKept(t, own, on, late),
           NEW locks, NoExecute(t) => locks.bwd /\ locks.fwd,
           NEW u, u = GetNextPosSet(t, locks, FALSE)
    PROVE  /\ u \in TrajState /\ RampsKept(u, own, on, FALSE)
           /\ u.busy => t.busy
           /\ ~t.execute /\ t.busy /\ u.busy => Size(u.prev) < Size(t.prev)
<1> DEFINE ext == FALSE
<1>1. ext \in BOOLEAN /\ u = GetNextPosSet(t, locks, ext) OBVIOUS
<1>2. CASE ~Moves(t)
  <2>1. Stood(t, u) BY Zenon, <1>1, <1>2, GeneratorStands
  <2>2. ~t.busy BY <1>2 DEF RampsKept, Moves
  <2>3. RampsKept(u, own, on, FALSE) BY <2>1, <2>2 DEF RampsKept, Stood
  <2> QED BY <2>1, <2>2, <2>3 DEF Stood
<1>3. CASE Moves(t)
  <2> HIDE DEF ext
  <2>a. u = InternalTraj(t, locks, ext) /\ Ran(t, u)
    BY Zenon, <1>1, <1>3, GeneratorMoves
  <2>1. /\ u = InternalTraj(t, locks, ext)
        /\ u \in TrajState /\ u.mode = t.mode /\ u.vel = t.vel
        /\ u.nom = t.nom /\ ~Stale(u) /\ u.enable /\ (u.execute => t.execute)
    BY <2>a DEF Ran
  <2>2. u = InternalTraj(t, locks, FALSE) BY <2>1 DEF ext
  <2>3. t.busy /\ t.mode \in {"pos", "vel"} BY <1>3 DEF Moves, TrajState
  <2>4. ~t.execute => locks.bwd /\ locks.fwd BY <1>3 DEF NoExecute
  <2>5. ASSUME t.vel = 0, on
        PROVE  u.target = u.local /\ Gentle(u.prev) /\ (u.busy /\ u.nom # 0 => u.prev = 0)
    <3>1. t.mode = "pos" /\ t.target = t.local /\ Gentle(t.prev)
      BY <2>3, <2>5 DEF RampsKept
    <3>2. t.dist # t.prev * Size(t.prev) => t.prev = 0
      BY DEF RampsKept, Stale
    <3>3. t.nom # 0 => t.prev = 0 /\ locks.bwd /\ locks.fwd
      BY <2>3, <2>4, <2>5 DEF RampsKept
    <3> QED BY <3>1, <3>2, <3>3, <2>2, AtRestKept
  <2>6. ASSUME ~t.execute, u.busy
        PROVE  Size(u.prev) < Size(t.prev)
    <3>1. StopsSoon(t)
      <4>1. t.dist # t.prev * Size(t.prev) => t.prev = 0 /\ t.target = t.local /\ t.nom # 0
        BY <2>3 DEF RampsKept, Stale
      <4>2. (t.mode = "vel" => t.vel # 0) /\ (t.nom = 0 => t.mode = "pos" /\ t.target = t.local)
        BY <2>3 DEF RampsKept
      <4> QED BY <4>1, <4>2 DEF StopsSoon
    <3> QED BY <3>1, <2>2, <2>4, <2>6, LockedSlows
  <2>7. u.busy /\ u.nom = 0 => on /\ u.mode = "pos" /\ u.vel = 0
    BY <2>1, <2>3 DEF RampsKept
  <2>8. u.busy /\ u.vel = 0 /\ u.nom # 0 /\ on => u.prev = 0 /\ ~u.execute
    BY <2>1, <2>3, <2>5 DEF RampsKept
  <2>9. (u.mode = "vel" => u.vel # 0) /\ (~on => ~u.execute)
    BY <2>1 DEF RampsKept
  <2>10. RampsKept(u, own, on, FALSE)
    BY <2>1, <2>5, <2>7, <2>8, <2>9 DEF RampsKept
  <2> QED BY <2>1, <2>3, <2>6, <2>10
<1> QED BY <1>2, <1>3

\* The stop ramp of a setpoint that comes from elsewhere.
LEMMA StopRampFields ==
    ASSUME NEW t \in TrajState, NEW x \in Int, NEW v \in Int,
           NEW s, s = InitStopRamp([t EXCEPT !.start = x], x, v)
    PROVE  /\ s \in TrajState /\ s.enable /\ s.busy /\ s.pos = x /\ s.local = x
           /\ s.prev = v /\ s.nom = Size(v) /\ s.mode = t.mode /\ s.vel = t.vel
           /\ (s.execute => t.execute) /\ s.start = x /\ s.target = t.target
<1> DEFINE r == [t EXCEPT !.start = x]
<1>1. r \in TrajState /\ r.mode = t.mode /\ r.vel = t.vel /\ (r.execute => t.execute)
      /\ r.start = x /\ r.target = t.target
  BY DEF TrajState
<1>2. s = InitStopRamp(r, x, v) OBVIOUS
<1> HIDE DEF r
<1> DEFINE n == Size(v)
<1>3. n \in Int BY Sizes
<1>4. s = [r EXCEPT !.enable = TRUE, !.busy = TRUE, !.pos = x, !.local = x, !.prev = v, !.nom = n]
  BY <1>2 DEF InitStopRamp
<1>5. n = Size(v) OBVIOUS
<1> HIDE DEF n
<1>6. s \in TrajState BY <1>1, <1>3, <1>4 DEF TrajState
<1>7. /\ s.pos = x /\ s.local = x /\ s.prev = v /\ s.nom = n
      /\ s.mode = r.mode /\ s.vel = r.vel /\ s.start = r.start /\ s.target = r.target
  BY <1>1, <1>4 DEF TrajState
<1>8. s.enable /\ s.busy /\ (s.execute => r.execute) BY <1>1, <1>4 DEF TrajState
<1> QED BY <1>1, <1>5, <1>6, <1>7, <1>8

LEMMA RampsStopRamp ==
    ASSUME NEW t \in TrajState, NEW own, ~own, NEW on, NEW late, RampsKept(t, own, on, late),
           NEW s \in TrajState,
           \/ s = t
           \/ \E x, v \in Int : s = InitStopRamp([t EXCEPT !.start = x], x, v),
           NEW locks, NEW u, u = GetNextPosSet(s, locks, TRUE)
    PROVE  /\ u \in TrajState /\ RampsKept(u, own, on, FALSE)
           /\ u.busy => s.busy /\ Size(u.prev) < Size(s.prev)
<1> DEFINE ext == TRUE
<1>1. ext \in BOOLEAN /\ u = GetNextPosSet(s, locks, ext) /\ Blocked(s, locks, ext)
  BY DEF Blocked
<1> HIDE DEF ext
<1>2. /\ s.mode = "vel" => s.vel # 0
      /\ ~s.execute
      /\ s.busy => s.enable
      /\ s.busy /\ s.nom = 0 => s.prev = 0
  <2>1. CASE s = t BY <2>1 DEF RampsKept
  <2>2. CASE s # t
    <3>1. PICK x \in Int : \E v \in Int : s = InitStopRamp([t EXCEPT !.start = x], x, v)
      BY <2>2
    <3>2. PICK v \in Int : s = InitStopRamp([t EXCEPT !.start = x], x, v)
      BY <3>1
    <3>3. s.enable /\ s.prev = v /\ s.nom = Size(v) /\ s.mode = t.mode /\ s.vel = t.vel
          /\ (s.execute => t.execute)
      BY <3>2, StopRampFields
    <3>4. Size(v) = 0 => v = 0 BY DEF Size
    <3> QED BY <3>3, <3>4 DEF RampsKept
  <2> QED BY <2>1, <2>2
<1>3. CASE ~Moves(s)
  <2>a. Stood(s, u) BY Zenon, <1>1, <1>3, GeneratorStands
  <2>1. /\ u \in TrajState /\ u.mode = s.mode /\ u.vel = s.vel
        /\ ~Stale(u) /\ (u.busy => s.busy) /\ (u.execute => s.execute)
    BY <2>a DEF Stood
  <2>2. ~s.busy BY <1>2, <1>3 DEF Moves
  <2>3. RampsKept(u, own, on, FALSE) BY <1>2, <2>1, <2>2 DEF RampsKept
  <2> QED BY <2>1, <2>2, <2>3
<1>4. CASE Moves(s)
  <2>a. u = InternalTraj(s, locks, ext) /\ Ran(s, u)
    BY Zenon, <1>1, <1>4, GeneratorMoves
  <2>1. /\ u = InternalTraj(s, locks, ext)
        /\ u \in TrajState /\ u.mode = s.mode /\ u.vel = s.vel
        /\ u.nom = s.nom /\ ~Stale(u) /\ u.enable /\ (u.execute => s.execute)
    BY <2>a DEF Ran
  <2>2. u.busy => s.prev # 0 /\ Size(u.prev) < Size(s.prev)
    BY <1>1, <2>1, BlockedSlows
  <2>3. s.busy BY <1>4 DEF Moves
  <2>4. RampsKept(u, own, on, FALSE)
    BY <1>2, <2>1, <2>2, <2>3 DEF RampsKept
  <2> QED BY <2>1, <2>2, <2>3, <2>4
<1> QED BY <1>3, <1>4

(***************************************************************************)
(* The phases of a cycle                                                   *)
(***************************************************************************)
\* What no phase changes once the axis has started up.
Steady(a, b) ==
    /\ b.source = a.source /\ b.enable = a.enable /\ b.enableOld = a.enableOld
    /\ b.velocity = a.velocity /\ b.enabled = a.enabled /\ b.startup = a.startup
    /\ b.pos = a.pos

LEMMA SteadyTwice ==
    ASSUME NEW a, NEW b, NEW c, Steady(a, b), Steady(b, c)
    PROVE  Steady(a, c)
BY DEF Steady

\* The start-up of an axis.
Woken(a, b) ==
    /\ b.setpoint = a.setpoint /\ b.actual = a.actual /\ b.speed = a.speed /\ b.out = a.out
    /\ b.source = a.source /\ b.enabled = a.enabled /\ b.ramping = a.ramping
    /\ b.flags \subseteq a.flags /\ b.velocity = a.velocity /\ ~b.startup /\ b.pos = a.pos

LEMMA WakeUp ==
    ASSUME NEW a \in AxisState, NEW b, b = PreExecute(a)
    PROVE  /\ b \in AxisState /\ Woken(a, b)
           /\ ~a.startup => b = a
           /\ \/ b.traj = a.traj /\ b.enable = a.enable /\ b.enableOld = a.enableOld
                 /\ (b.enable => ~a.startup)
              \/ a.startup /\ a.enable /\ ~b.enable /\ Internal(a) /\ Rested(a.traj, b.traj, TRUE)
              \/ a.startup /\ a.enable /\ ~b.enable /\ ~Internal(a) /\ Rested(a.traj, b.traj, FALSE)
<1> DEFINE no == FALSE
<1>1. no \in BOOLEAN /\ ~no OBVIOUS
<1>2. CASE ~a.startup
  <2>1. b = a BY <1>2 DEF PreExecute
  <2> QED BY <1>2, <2>1 DEF Woken
<1>3. CASE a.startup /\ ~a.enable
  <2>1. SetEnable(a, FALSE) = a
    <3>1. a.enable \in BOOLEAN BY DEF AxisState
    <3>2. a.enable = FALSE BY <1>3, <3>1
    <3> QED BY <3>2 DEF SetEnable
  <2>2. b = [a EXCEPT !.startup = no] BY <1>3, <2>1 DEF PreExecute
  <2> HIDE DEF no
  <2>3. b \in AxisState BY <1>1, <2>2 DEF AxisState
  <2>4. Woken(a, b) BY <1>1, <2>2 DEF AxisState, Woken
  <2>5. b.traj = a.traj /\ b.enable = a.enable /\ b.enableOld = a.enableOld
    BY <2>2 DEF AxisState
  <2> QED BY <1>3, <2>3, <2>4, <2>5
<1>4. CASE a.startup /\ a.enable
  <2> DEFINE c == SetEnable(a, FALSE)
  <2>1. c \in AxisState /\ Disabled(a, c)
        /\ (Internal(a) => Rested(a.traj, c.traj, TRUE))
        /\ (~Internal(a) => Rested(a.traj, c.traj, FALSE))
    BY <1>4, EnableOff
  <2>2. b = [c EXCEPT !.startup = no] BY <1>4 DEF PreExecute
  <2> HIDE DEF c, no
  <2>3. b \in AxisState BY <1>1, <2>1, <2>2 DEF AxisState
  <2>4. Woken(a, b) BY <1>1, <2>1, <2>2 DEF AxisState, Woken, Disabled
  <2>5. b.traj = c.traj /\ ~b.enable BY <2>1, <2>2 DEF AxisState, Disabled
  <2> QED BY <1>4, <2>1, <2>3, <2>4, <2>5
<1> QED BY <1>2, <1>3, <1>4

\* The setpoint of the generator or that of the PLC.
OwnPhase(a, b) ==
    /\ Steady(a, b)
    /\ b.actual = a.actual /\ b.speed = a.speed /\ b.out = a.out
    /\ b.traj = GetNextPosSet(a.traj, Summary(b.flags), FALSE) /\ b.setpoint = b.traj.pos
    /\ NoExecute(a.traj) => "noExecute" \in b.flags
    /\ a.flags \subseteq b.flags /\ b.flags \subseteq a.flags \cup {"noExecute"}
    /\ b.execute = a.execute

ExternalPhase(a, b) ==
    /\ Steady(a, b)
    /\ b.actual = a.actual /\ b.speed = a.speed /\ b.out = a.out /\ b.ramping = a.ramping
    /\ b.traj = a.traj /\ b.setpoint = external
    /\ b.flags \subseteq a.flags \ {"noExecute"}

LEMMA GeneratorType ==
    ASSUME NEW t \in TrajState, NEW locks, NEW ext \in BOOLEAN
    PROVE  GetNextPosSet(t, locks, ext) \in TrajState
<1> DEFINE u == GetNextPosSet(t, locks, ext)
<1>1. CASE Moves(t) BY <1>1, GeneratorMoves DEF Ran
<1>2. CASE ~Moves(t) BY <1>2, GeneratorStands DEF Stood
<1> QED BY <1>1, <1>2

LEMMA OwnNext ==
    ASSUME NEW a \in AxisState, Internal(a), NEW b, b = NextSetpoint(a)
    PROVE  b \in AxisState /\ OwnPhase(a, b)
<1> DEFINE flags == IF NoExecute(a.traj) THEN a.flags \cup {"noExecute"} ELSE a.flags
<1> DEFINE u == GetNextPosSet(a.traj, Summary(flags), FALSE)
<1> DEFINE error == a.error \/ (a.traj.execute /\ ~a.traj.enable)
<1>1. b = [a EXCEPT !.traj = u, !.flags = flags, !.setpoint = u.pos, !.error = error]
  BY Zenon DEF NextSetpoint, OwnSetpoint
<1>2. a.traj \in TrajState /\ a.flags \in SUBSET AxisFlags /\ a.error \in BOOLEAN BY DEF AxisState
<1>3. error \in BOOLEAN BY <1>2
<1>4. flags \in SUBSET AxisFlags /\ (NoExecute(a.traj) => "noExecute" \in flags)
      /\ a.flags \subseteq flags /\ flags \subseteq a.flags \cup {"noExecute"}
  BY <1>2 DEF AxisFlags
<1>5. u \in TrajState BY <1>2, GeneratorType
<1>6. u = GetNextPosSet(a.traj, Summary(flags), FALSE) OBVIOUS
<1> HIDE DEF flags, u, error
<1> DEFINE p == u.pos
<1>7. p \in Int BY <1>5 DEF TrajState
<1>8. b = [a EXCEPT !.traj = u, !.flags = flags, !.setpoint = p, !.error = error] BY <1>1
<1>9. p = u.pos OBVIOUS
<1> HIDE DEF p
<1>10. b \in AxisState BY ZenonT(40), <1>3, <1>4, <1>5, <1>7, <1>8 DEF AxisState
<1>11. /\ Steady(a, b) /\ b.actual = a.actual /\ b.speed = a.speed /\ b.out = a.out
       /\ b.traj = u /\ b.flags = flags /\ b.setpoint = p /\ b.execute = a.execute
  BY <1>8 DEF AxisState, Steady
<1> QED BY <1>4, <1>6, <1>9, <1>10, <1>11 DEF OwnPhase

LEMMA ExternalNext ==
    ASSUME NEW a \in AxisState, ~Internal(a), external \in Int, NEW b, b = NextSetpoint(a)
    PROVE  b \in AxisState /\ ExternalPhase(a, b)
<1> DEFINE flags == a.flags \ {"noExecute"}
<1>1. b = [a EXCEPT !.setpoint = external, !.flags = flags]
  BY DEF NextSetpoint
<1>2. flags \in SUBSET AxisFlags BY DEF AxisState
<1>3. flags = a.flags \ {"noExecute"} OBVIOUS
<1> HIDE DEF flags
<1>4. b \in AxisState BY <1>1, <1>2 DEF AxisState
<1>5. /\ Steady(a, b) /\ b.actual = a.actual /\ b.speed = a.speed /\ b.out = a.out
      /\ b.ramping = a.ramping /\ b.traj = a.traj /\ b.setpoint = external /\ b.flags = flags
  BY <1>1 DEF AxisState, Steady
<1> QED BY <1>3, <1>4, <1>5 DEF ExternalPhase

\* The encoder: where the drive is when it has followed.
Followed(a, b) ==
    /\ Steady(a, b)
    /\ b.actual = a.out /\ b.speed = a.out - a.actual /\ b.out = a.out
    /\ b.setpoint = a.setpoint /\ b.flags = a.flags /\ b.ramping = a.ramping
    /\ b.traj = [a.traj EXCEPT !.start = a.setpoint]
    /\ b.execute = a.execute /\ (Internal(a) => b.busy = a.traj.busy)

LEMMA FollowStep ==
    ASSUME NEW a \in AxisState, NEW b, b = Follow(a)
    PROVE  b \in AxisState /\ Followed(a, b)
<1> DEFINE s == a.out - a.actual
<1> DEFINE u == [a.traj EXCEPT !.start = a.setpoint]
<1> DEFINE busy == Internal(a) => a.traj.busy
<1>1. a.traj \in TrajState /\ a.out \in Int /\ a.actual \in Int /\ a.setpoint \in Int
  BY DEF AxisState
<1>2. busy \in BOOLEAN /\ (Internal(a) => busy = a.traj.busy)
  <2>1. a.traj.busy \in BOOLEAN BY <1>1 DEF TrajState
  <2> QED BY <2>1
<1>3. s \in Int BY <1>1
<1>4. u \in TrajState BY <1>1 DEF TrajState
<1>5. b = [a EXCEPT !.actual = a.out, !.speed = s, !.traj = u, !.busy = busy]
  <2>1. b = [a EXCEPT !.actual = a.out, !.speed = s, !.traj.start = a.setpoint, !.busy = busy]
    BY Zenon DEF Follow
  <2>2. a = [a EXCEPT !.traj = a.traj] BY DEF AxisState
  <2> HIDE DEF s, busy
  <2> QED BY <2>1, <2>2 DEF AxisState
<1>6. s = a.out - a.actual /\ u = [a.traj EXCEPT !.start = a.setpoint] OBVIOUS
<1> HIDE DEF s, u, busy
<1>7. b \in AxisState BY ZenonT(40), <1>1, <1>2, <1>3, <1>4, <1>5 DEF AxisState
<1>8. /\ Steady(a, b) /\ b.actual = a.out /\ b.speed = s /\ b.out = a.out
      /\ b.setpoint = a.setpoint /\ b.flags = a.flags /\ b.ramping = a.ramping /\ b.traj = u
      /\ b.execute = a.execute /\ b.busy = busy
  BY <1>5 DEF AxisState, Steady
<1> QED BY <1>2, <1>6, <1>7, <1>8 DEF Followed

\* The limit switches.
Checked(a, b) ==
    /\ Steady(a, b)
    /\ b.actual = a.actual /\ b.speed = a.speed /\ b.out = a.out
    /\ b.setpoint = a.setpoint /\ b.ramping = a.ramping /\ b.traj = a.traj
    /\ b.flags \subseteq a.flags \cup {"fwdLimit", "bwdLimit"}
    /\ "fwdLimit" \in b.flags =>
          a.actual >= FwdSwitch \/ ("fwdLimit" \in a.flags /\ a.speed >= 0)
    /\ "bwdLimit" \in b.flags =>
          a.actual <= BwdSwitch \/ ("bwdLimit" \in a.flags /\ a.speed <= 0)
    /\ a.actual >= FwdSwitch => "fwdLimit" \in b.flags
    /\ a.actual <= BwdSwitch => "bwdLimit" \in b.flags
    /\ b.execute = a.execute /\ b.busy = a.busy

LEMMA CheckStep ==
    ASSUME NEW a \in AxisState, NEW m \in BOOLEAN, NEW b, b = CheckLimits(a, m)
    PROVE  b \in AxisState /\ Checked(a, b)
<1> DEFINE atBwd == a.actual <= BwdSwitch
<1> DEFINE atFwd == a.actual >= FwdSwitch
<1> DEFINE goBwd == m /\ a.speed <= 0
<1> DEFINE goFwd == m /\ a.speed >= 0
<1> DEFINE bwd == LimitInterlock(a.flags, "bwdLimit", atBwd, goBwd)
<1> DEFINE flags == LimitInterlock(bwd, "fwdLimit", atFwd, goFwd)
<1>1. b = [a EXCEPT !.flags = flags] BY Zenon DEF CheckLimits
<1>2. a.flags \in SUBSET AxisFlags BY DEF AxisState
<1>3. /\ bwd = a.flags \cup {"bwdLimit"} \/ bwd = a.flags \ {"bwdLimit"}
      /\ "bwdLimit" \in bwd => atBwd \/ ("bwdLimit" \in a.flags /\ goBwd)
      /\ atBwd => "bwdLimit" \in bwd
  <2> HIDE DEF atBwd, goBwd
  <2> QED BY DEF LimitInterlock, With
<1>4. /\ flags = bwd \cup {"fwdLimit"} \/ flags = bwd \ {"fwdLimit"}
      /\ "fwdLimit" \in flags => atFwd \/ ("fwdLimit" \in bwd /\ goFwd)
      /\ atFwd => "fwdLimit" \in flags
  <2> HIDE DEF atFwd, goFwd, bwd
  <2> QED BY DEF LimitInterlock, With
<1>5. (goFwd => a.speed >= 0) /\ (goBwd => a.speed <= 0)
      /\ (atFwd => a.actual >= FwdSwitch) /\ (a.actual >= FwdSwitch => atFwd)
      /\ (atBwd => a.actual <= BwdSwitch) /\ (a.actual <= BwdSwitch => atBwd)
  OBVIOUS
<1> HIDE DEF atBwd, atFwd, goBwd, goFwd, bwd, flags
<1>6. flags \in SUBSET AxisFlags BY <1>2, <1>3, <1>4 DEF AxisFlags
<1>7. flags \subseteq a.flags \cup {"fwdLimit", "bwdLimit"} BY <1>3, <1>4
<1>8. ("fwdLimit" \in bwd => "fwdLimit" \in a.flags)
      /\ ("bwdLimit" \in flags => "bwdLimit" \in bwd) /\ ("bwdLimit" \in bwd => "bwdLimit" \in flags)
  BY <1>3, <1>4
<1>9. b \in AxisState BY <1>1, <1>6 DEF AxisState
<1>10. /\ Steady(a, b) /\ b.actual = a.actual /\ b.speed = a.speed /\ b.out = a.out
       /\ b.setpoint = a.setpoint /\ b.ramping = a.ramping /\ b.traj = a.traj /\ b.flags = flags
       /\ b.execute = a.execute /\ b.busy = a.busy
  BY <1>1, <1>6 DEF AxisState, Steady
<1> QED BY Zenon, <1>3, <1>4, <1>5, <1>7, <1>8, <1>9, <1>10 DEF Checked

\* The stop ramp that takes over from an external setpoint.
Locked(a) == ~Internal(a) /\ TrajLock(a)
StopFrom(a) ==
    IF a.ramping THEN a.traj
    ELSE InitStopRamp([a.traj EXCEPT !.start = a.actual], a.actual, a.speed)

LockPhase(a, b) ==
    /\ Steady(a, b)
    /\ b.actual = a.actual /\ b.speed = a.speed /\ b.out = a.out /\ b.flags = a.flags
    /\ b.execute = a.execute /\ b.busy = a.busy
    /\ ~Locked(a) => ~b.ramping /\ b.traj = a.traj /\ b.setpoint = a.setpoint
    /\ Locked(a) => /\ b.traj = GetNextPosSet(StopFrom(a), Summary(a.flags), TRUE)
                    /\ b.setpoint = b.traj.pos

LEMMA StopFromType ==
    ASSUME NEW a \in AxisState
    PROVE  StopFrom(a) \in TrajState
<1>1. a.traj \in TrajState /\ a.actual \in Int /\ a.speed \in Int BY DEF AxisState
<1> QED BY <1>1, StopRampFields DEF StopFrom

LEMMA LockStep ==
    ASSUME NEW a \in AxisState, NEW b, b = LockTrajectory(a)
    PROVE  b \in AxisState /\ LockPhase(a, b)
<1> DEFINE u == GetNextPosSet(StopFrom(a), Summary(a.flags), TRUE)
<1> DEFINE p == u.pos
<1> DEFINE free == ~Locked(a)
<1>1. b = IF free THEN [a EXCEPT !.ramping = FALSE]
          ELSE [a EXCEPT !.ramping = TRUE, !.traj = u, !.setpoint = p]
  <2>1. b = IF Internal(a) \/ ~TrajLock(a) THEN [a EXCEPT !.ramping = FALSE]
            ELSE [a EXCEPT !.ramping = TRUE, !.traj = u, !.setpoint = p]
    BY Zenon DEF LockTrajectory, StopFrom
  <2>2. free \in BOOLEAN /\ (free => Internal(a) \/ ~TrajLock(a))
        /\ (~free => ~(Internal(a) \/ ~TrajLock(a)))
    BY Zenon DEF Locked
  <2> HIDE DEF u, p, free
  <2> QED BY <2>1, <2>2
<1>2. u \in TrajState BY StopFromType, GeneratorType
<1>3. p \in Int /\ p = u.pos BY <1>2 DEF TrajState
<1>4. u = GetNextPosSet(StopFrom(a), Summary(a.flags), TRUE) OBVIOUS
<1>5. free => ~Locked(a) OBVIOUS
<1>6. ~free => Locked(a) OBVIOUS
<1> HIDE DEF u, p, free
<1>7. CASE free
  <2>1. b = [a EXCEPT !.ramping = FALSE] BY <1>1, <1>7
  <2>2. b \in AxisState /\ ~b.ramping BY <2>1 DEF AxisState
  <2>3. /\ Steady(a, b) /\ b.actual = a.actual /\ b.speed = a.speed /\ b.out = a.out
        /\ b.flags = a.flags /\ b.traj = a.traj /\ b.setpoint = a.setpoint
        /\ b.execute = a.execute /\ b.busy = a.busy
    BY <2>1 DEF AxisState, Steady
  <2> QED BY Zenon, <1>5, <1>7, <2>2, <2>3 DEF LockPhase
<1>8. CASE ~free
  <2>1. b = [a EXCEPT !.ramping = TRUE, !.traj = u, !.setpoint = p] BY <1>1, <1>8
  <2>2. b \in AxisState BY <2>1, <1>2, <1>3 DEF AxisState
  <2>3. /\ Steady(a, b) /\ b.actual = a.actual /\ b.speed = a.speed /\ b.out = a.out
        /\ b.flags = a.flags /\ b.traj = u /\ b.setpoint = p
        /\ b.execute = a.execute /\ b.busy = a.busy
    BY <2>1 DEF AxisState, Steady
  <2> QED BY <1>3, <1>4, <1>6, <1>8, <2>2, <2>3 DEF LockPhase
<1> QED BY <1>7, <1>8

\* The generator keeps what it has calculated.
Tempered(t, u) ==
    /\ u.enable = t.enable /\ u.prev = t.prev /\ u.dist = t.dist
    /\ u.pos = t.pos /\ u.local = t.local /\ u.target = t.target /\ u.vel = t.vel
    /\ u.nom = t.nom /\ u.mode = t.mode
    /\ (u.busy => t.busy) /\ (t.busy => u.busy) /\ (u.execute => t.execute)

\* The position for the drive.
LastPhase(a, b) ==
    /\ Steady(a, b)
    /\ b.actual = a.actual /\ b.speed = a.speed /\ b.ramping = a.ramping
    /\ b.flags \subseteq a.flags
    /\ GetEnabled(a) => b.out = a.setpoint
    /\ ~GetEnabled(a) => b.out = a.actual
    /\ Tempered(a.traj, b.traj)
    /\ a.enable => b.setpoint = a.setpoint /\ b.traj.start = a.traj.start
    /\ b.setpoint \in {a.setpoint, a.actual} /\ b.traj.start \in {a.traj.start, a.actual}
    /\ b.flags = a.flags /\ b.busy = a.busy
    /\ GetEnabled(a) => b.execute = a.execute /\ b.traj.execute = a.traj.execute
    /\ ~GetEnabled(a) /\ Internal(a) => ~b.execute /\ ~(a.execute /\ b.traj.execute)

LEMMA TemperedStart ==
    ASSUME NEW t \in TrajState, NEW x \in Int, NEW u, u = [t EXCEPT !.start = x]
    PROVE  u \in TrajState /\ Tempered(t, u)
BY DEF TrajState, Tempered

LEMMA LastStep ==
    ASSUME NEW a \in AxisState, a.enable => ~a.enableOld, NEW o,
           NEW b, b = PostExecute(Control(a, o))
    PROVE  b \in AxisState /\ LastPhase(a, b) /\ b.executeOld = GetExecute(b)
<1> DEFINE c == Control(a, o)
<1>1. c \in AxisState /\ LastPhase(a, c)
  <2> DEFINE w == IF GetExecute(a) THEN SetExecute(a, FALSE) ELSE a
  <2> DEFINE s == [w.traj EXCEPT !.start = a.actual]
  <2> DEFINE d == IF ~a.enable /\ ~a.first THEN [w EXCEPT !.setpoint = a.actual, !.traj = s] ELSE w
  <2>1. w \in AxisState /\ Steady(a, w) /\ w.actual = a.actual /\ w.speed = a.speed
        /\ w.ramping = a.ramping /\ w.flags \subseteq a.flags /\ w.setpoint = a.setpoint
        /\ w.out = a.out /\ Tempered(a.traj, w.traj) /\ w.traj.start = a.traj.start
        /\ w.flags = a.flags /\ w.busy = a.busy
        /\ (Internal(a) => ~w.execute /\ ~(a.execute /\ w.traj.execute))
    <3>1. CASE w = a
      <4>1. Internal(a) => ~a.execute
        <5>1. SUFFICES ASSUME Internal(a), a.execute PROVE FALSE OBVIOUS
        <5>2. w = SetExecute(a, FALSE) BY <5>1 DEF GetExecute
        <5> HIDE DEF w
        <5>3. ~w.execute BY <5>1, <5>2, Withdrawn
        <5> QED BY <3>1, <5>1, <5>3
      <4> HIDE DEF w
      <4> QED BY <3>1, <4>1 DEF Steady, Tempered
    <3>2. CASE w # a
      <4>1. w = SetExecute(a, FALSE) BY <3>2
      <4> HIDE DEF w
      <4>2. w \in AxisState /\ Same(a, w) /\ Internal(a) /\ w.traj = SetTrajExecute(a.traj, FALSE)
            /\ ~w.execute /\ w.busy = a.busy /\ w.flags = a.flags
        BY <4>1, <3>2, Withdrawn
      <4>3. a.traj \in TrajState BY DEF AxisState
      <4>4. Calmed(a.traj, w.traj) BY <4>2, <4>3, CalmedByExecute
      <4> DEFINE off == FALSE
      <4>5. off \in BOOLEAN /\ w.traj = SetTrajExecute(a.traj, off) /\ ~off BY <4>2
      <4> HIDE DEF off
      <4>6. (w.traj.execute => off) /\ (a.traj.busy => w.traj.busy)
        BY <4>3, <4>5, GeneratorHolds
      <4> QED BY <4>2, <4>4, <4>5, <4>6 DEF Same, Steady, Calmed, Tempered
    <3> QED BY <3>1, <3>2
  <2>2. w.traj \in TrajState /\ a.actual \in Int BY <2>1 DEF AxisState
  <2>3. c = IF GetEnabled(a) THEN [a EXCEPT !.out = a.setpoint]
            ELSE [(IF Lost(a, o)
                   THEN [SetEnable(IF ~a.enable /\ ~a.first
                                   THEN [w EXCEPT !.setpoint = a.actual, !.traj.start = a.actual]
                                   ELSE w, FALSE) EXCEPT !.error = TRUE]
                   ELSE IF ~a.enable /\ ~a.first
                   THEN [w EXCEPT !.setpoint = a.actual, !.traj.start = a.actual]
                   ELSE w) EXCEPT !.out = a.actual]
    BY Zenon DEF Control
  <2>4. ~Lost(a, o) BY DEF Lost
  <2>5. CASE GetEnabled(a)
    <3>1. c = [a EXCEPT !.out = a.setpoint] BY <2>3, <2>5
    <3>2. a.setpoint \in Int BY DEF AxisState
    <3> HIDE DEF c
    <3>3. c \in AxisState BY <3>1, <3>2 DEF AxisState
    <3>4. /\ Steady(a, c) /\ c.actual = a.actual /\ c.speed = a.speed /\ c.ramping = a.ramping
          /\ c.flags = a.flags /\ c.out = a.setpoint /\ c.traj = a.traj /\ c.setpoint = a.setpoint
          /\ c.execute = a.execute /\ c.busy = a.busy
      BY <3>1 DEF AxisState, Steady
    <3>5. Tempered(a.traj, a.traj) BY DEF Tempered
    <3> QED BY <2>5, <3>3, <3>4, <3>5 DEF LastPhase
  <2>6. CASE ~GetEnabled(a)
    <3>1. c = [d EXCEPT !.out = a.actual]
      <4>1. CASE ~a.enable /\ ~a.first
        <5>1. [w EXCEPT !.setpoint = a.actual, !.traj.start = a.actual]
              = [w EXCEPT !.setpoint = a.actual, !.traj = s]
          <6> HIDE DEF w
          <6> QED BY <2>1 DEF AxisState
        <5>2. c = [[w EXCEPT !.setpoint = a.actual, !.traj.start = a.actual] EXCEPT !.out = a.actual]
          <6> HIDE DEF w, c
          <6> QED BY <2>3, <2>4, <2>6, <4>1
        <5>3. d = [w EXCEPT !.setpoint = a.actual, !.traj = s] BY <4>1
        <5> HIDE DEF d, w, c, s
        <5> QED BY <5>1, <5>2, <5>3
      <4>2. CASE ~(~a.enable /\ ~a.first)
        <5>1. d = w BY <4>2
        <5>2. c = [w EXCEPT !.out = a.actual]
          <6> HIDE DEF w, c
          <6> QED BY <2>3, <2>4, <2>6, <4>2
        <5> HIDE DEF d, w, c
        <5> QED BY <5>1, <5>2
      <4> QED BY <4>1, <4>2
    <3>2. d \in AxisState /\ Steady(a, d) /\ d.actual = a.actual /\ d.speed = a.speed
          /\ d.ramping = a.ramping /\ d.flags \subseteq a.flags /\ Tempered(a.traj, d.traj)
          /\ (a.enable => d.setpoint = a.setpoint /\ d.traj.start = a.traj.start)
          /\ d.setpoint \in {a.setpoint, a.actual} /\ d.traj.start \in {a.traj.start, a.actual}
          /\ d.flags = a.flags /\ d.busy = a.busy
          /\ (Internal(a) => ~d.execute /\ ~(a.execute /\ d.traj.execute))
      <4>1. CASE ~a.enable /\ ~a.first
        <5>1. d = [w EXCEPT !.setpoint = a.actual, !.traj = s] BY <4>1
        <5>2. s \in TrajState /\ Tempered(w.traj, s) BY <2>2, TemperedStart
        <5>3. Tempered(a.traj, s) BY <2>1, <5>2 DEF Tempered
        <5> HIDE DEF d, w, s
        <5>4. d \in AxisState BY <2>1, <2>2, <5>1, <5>2 DEF AxisState
        <5>5. /\ Steady(w, d) /\ d.actual = w.actual /\ d.speed = w.speed
              /\ d.ramping = w.ramping /\ d.flags = w.flags /\ d.traj = s
              /\ d.setpoint = a.actual /\ d.execute = w.execute /\ d.busy = w.busy
          BY <2>1, <5>1 DEF AxisState, Steady
        <5>6. Steady(a, d) BY <2>1, <5>5, SteadyTwice
        <5>7. s.start = a.actual /\ s.execute = w.traj.execute BY <2>2 DEF s, TrajState
        <5> QED BY <2>1, <4>1, <5>3, <5>4, <5>5, <5>6, <5>7
      <4>2. CASE ~(~a.enable /\ ~a.first)
        <5>1. d = w BY <4>2
        <5> HIDE DEF d, w
        <5> QED BY <5>1, <2>1
      <4> QED BY <4>1, <4>2
    <3> HIDE DEF c, d
    <3>3. c \in AxisState BY <3>1, <3>2, <2>2 DEF AxisState
    <3>4. /\ Steady(d, c) /\ c.actual = d.actual /\ c.speed = d.speed /\ c.ramping = d.ramping
          /\ c.flags = d.flags /\ c.out = a.actual /\ c.traj = d.traj /\ c.setpoint = d.setpoint
          /\ c.execute = d.execute /\ c.busy = d.busy
      BY <3>1, <3>2 DEF AxisState, Steady
    <3>5. Steady(a, c) BY <3>2, <3>4, SteadyTwice
    <3> QED BY <2>6, <3>2, <3>3, <3>4, <3>5 DEF LastPhase
  <2> QED BY <2>5, <2>6
<1> DEFINE e == GetExecute(c)
<1>2. e \in BOOLEAN
  <2> HIDE DEF c
  <2>1. c.execute \in BOOLEAN BY <1>1 DEF AxisState
  <2> QED BY <2>1 DEF GetExecute
<1>3. b = [c EXCEPT !.executeOld = e] BY DEF PostExecute
<1> HIDE DEF c, e
<1>4. b \in AxisState BY <1>1, <1>2, <1>3 DEF AxisState
<1>5. /\ Steady(c, b) /\ b.actual = c.actual /\ b.speed = c.speed /\ b.ramping = c.ramping
      /\ b.flags = c.flags /\ b.out = c.out /\ b.traj = c.traj /\ b.setpoint = c.setpoint
      /\ b.execute = c.execute /\ b.busy = c.busy /\ b.executeOld = e
  BY <1>1, <1>2, <1>3 DEF AxisState, Steady
<1>6. Steady(a, b) BY <1>1, <1>5, SteadyTwice DEF LastPhase
<1>7. LastPhase(a, b) BY <1>1, <1>4, <1>5, <1>6 DEF LastPhase
<1>8. e = GetExecute(b) BY <1>5 DEF e, GetExecute, Internal, Steady
<1> QED BY <1>4, <1>5, <1>7, <1>8

(***************************************************************************)
(* A whole cycle                                                           *)
(***************************************************************************)
\* What the start-up makes of the axis.
Awake(a, p) ==
    /\ p \in AxisState /\ Woken(a, p)
    /\ ~a.startup => p = a
    /\ \/ p.traj = a.traj /\ p.enable = a.enable /\ p.enableOld = a.enableOld
          /\ (p.enable => ~a.startup)
       \/ a.startup /\ a.enable /\ ~p.enable /\ Internal(a) /\ Rested(a.traj, p.traj, TRUE)
       \/ a.startup /\ a.enable /\ ~p.enable /\ ~Internal(a) /\ Rested(a.traj, p.traj, FALSE)

\* How the last position and the interlocks of a cycle come about.
Finished(p, r, enabled) ==
    /\ r \in AxisState /\ Steady([p EXCEPT !.enabled = enabled], r)
    /\ r.actual = p.out
    /\ GetEnabled(r) => r.out = r.setpoint
    /\ ~GetEnabled(r) => r.out = r.actual
    /\ "fwdLimit" \in r.flags =>
          r.actual >= FwdSwitch \/ ("fwdLimit" \in p.flags /\ p.out >= p.actual)
    /\ "bwdLimit" \in r.flags =>
          r.actual <= BwdSwitch \/ ("bwdLimit" \in p.flags /\ p.out <= p.actual)
    /\ r.actual >= FwdSwitch => "fwdLimit" \in r.flags
    /\ r.actual <= BwdSwitch => "bwdLimit" \in r.flags

\* A cycle of an axis with its own setpoint: u is the next step of its generator.
OwnCycle(p, r, u, flags) ==
    /\ flags \subseteq AxisFlags /\ (NoExecute(p.traj) => "noExecute" \in flags)
    /\ u \in TrajState /\ u = GetNextPosSet(p.traj, Summary(flags), FALSE)
    /\ Tempered(u, r.traj) /\ ~r.ramping
    /\ r.enable => r.setpoint = u.pos /\ r.traj.start = u.pos
    /\ r.setpoint \in {u.pos, r.actual} /\ r.traj.start \in {u.pos, r.actual}
    /\ p.flags \subseteq flags /\ (r.traj.busy => r.busy) /\ r.executeOld = r.execute
    /\ GetEnabled(r) => r.execute = p.execute /\ r.traj.execute = u.execute
    /\ ~GetEnabled(r) => ~r.execute /\ ~(p.execute /\ r.traj.execute)

\* A cycle of an axis with an external setpoint: c is the axis before the stop ramp.
ExternalCycle(p, r, c, u) ==
    /\ c \in AxisState /\ Steady(c, r)
    /\ c.actual = p.out /\ c.speed = p.out - p.actual /\ c.setpoint = external
    /\ c.ramping = p.ramping /\ Tempered(p.traj, c.traj)
    /\ c.flags \subseteq {"fwdLimit", "bwdLimit"}
    /\ c.actual >= FwdSwitch => "fwdLimit" \in c.flags
    /\ c.actual <= BwdSwitch => "bwdLimit" \in c.flags
    /\ "fwdLimit" \in c.flags =>
          c.actual >= FwdSwitch \/ ("fwdLimit" \in p.flags /\ p.out >= p.actual)
    /\ "bwdLimit" \in c.flags =>
          c.actual <= BwdSwitch \/ ("bwdLimit" \in p.flags /\ p.out <= p.actual)
    /\ Tempered(u, r.traj)
    /\ ~Locked(c) => ~r.ramping /\ u = c.traj /\ (r.enable => r.setpoint = external)
    /\ Locked(c) => /\ u = GetNextPosSet(StopFrom(c), Summary(c.flags), TRUE)
                    /\ r.enable => r.setpoint = u.pos
    /\ ~Locked(c) => r.setpoint \in {external, r.actual}
    /\ Locked(c) => r.setpoint \in {u.pos, r.actual}
    /\ r.traj.start \in {external, r.actual} /\ c.traj.start = external

\* What the phases of the cycle make of the axis.
Phases(a, p, c, r, enabled) ==
    /\ Awake(a, p) /\ Finished(p, r, enabled)
    /\ \/ Internal(a) /\ \E flags, u : OwnCycle(p, r, u, flags)
       \/ ~Internal(a) /\ \E u : ExternalCycle(p, r, c, u)

\* The phases of the cycle, m tells whether the axis moves and o is its enabled.
Chain(a, p, n, c, l, r, enabled, m, o) ==
    /\ p = PreExecute(a)
    /\ n = NextSetpoint([p EXCEPT !.enabled = enabled])
    /\ c = CheckLimits(Follow(n), m)
    /\ l = LockTrajectory(c)
    /\ r = PostExecute(Control(l, o))

LEMMA CyclePhases ==
    ASSUME NEW a \in AxisState, a.enable => ~a.enableOld, external \in Int,
           NEW enabled \in BOOLEAN, NEW m \in BOOLEAN, NEW o,
           NEW p, NEW n, NEW c, NEW l, NEW r, Chain(a, p, n, c, l, r, enabled, m, o)
    PROVE  Phases(a, p, c, r, enabled)
<1>0. /\ p = PreExecute(a)
      /\ n = NextSetpoint([p EXCEPT !.enabled = enabled])
      /\ c = CheckLimits(Follow(n), m)
      /\ l = LockTrajectory(c)
      /\ r = PostExecute(Control(l, o))
  BY DEF Chain
<1> SUFFICES /\ Awake(a, p) /\ Finished(p, r, enabled)
             /\ \/ Internal(a) /\ \E flags, u : OwnCycle(p, r, u, flags)
                \/ ~Internal(a) /\ \E u : ExternalCycle(p, r, c, u)
  BY Zenon DEF Phases
<1> DEFINE q == [p EXCEPT !.enabled = enabled]
<1> DEFINE f == Follow(n)
<1>1. Awake(a, p) BY <1>0, WakeUp DEF Awake
<1>2. p \in AxisState /\ p.source = a.source /\ (p.enable => ~p.enableOld)
  BY <1>1 DEF Awake, Woken
<1>3. q \in AxisState /\ q.source = a.source /\ q.actual = p.actual /\ q.speed = p.speed
      /\ q.out = p.out /\ q.setpoint = p.setpoint /\ q.traj = p.traj /\ q.flags = p.flags
      /\ q.ramping = p.ramping /\ (q.enable => ~q.enableOld) /\ q.execute = p.execute
  BY <1>2 DEF AxisState
<1>4. n = NextSetpoint(q) /\ c = CheckLimits(f, m) /\ q = [p EXCEPT !.enabled = enabled]
  BY <1>0
<1>5. f = Follow(n) OBVIOUS
<1> HIDE DEF q, f
<1>6. n \in AxisState /\ Steady(q, n) /\ n.actual = q.actual /\ n.speed = q.speed /\ n.out = q.out
  <2>1. CASE Internal(q) BY <1>3, <1>4, <2>1, OwnNext DEF OwnPhase
  <2>2. CASE ~Internal(q) BY <1>3, <1>4, <2>2, ExternalNext DEF ExternalPhase
  <2> QED BY <2>1, <2>2
<1>7. f \in AxisState /\ Followed(n, f) BY <1>5, <1>6, FollowStep
<1>8. c \in AxisState /\ Checked(f, c) BY <1>4, <1>7, CheckStep
<1>9. l \in AxisState /\ LockPhase(c, l) BY <1>0, <1>8, LockStep
<1>10. Steady(q, l) /\ Steady(q, c)
  <2>1. Steady(q, f) BY <1>6, <1>7, SteadyTwice DEF Followed
  <2>2. Steady(q, c) BY <1>8, <2>1, SteadyTwice DEF Checked
  <2> QED BY <1>9, <2>2, SteadyTwice DEF LockPhase
<1>11. r \in AxisState /\ LastPhase(l, r) /\ r.executeOld = GetExecute(r)
  <2>1. l.enable => ~l.enableOld BY <1>3, <1>10 DEF Steady
  <2> QED BY <1>0, <1>9, <2>1, LastStep
<1>12. Steady(q, r) /\ Steady(l, r) /\ Steady(c, r)
  <2>1. Steady(l, r) BY <1>11 DEF LastPhase
  <2> QED BY <1>9, <1>10, <2>1, SteadyTwice DEF LockPhase
<1>13. /\ c.actual = p.out /\ c.speed = p.out - p.actual /\ c.ramping = n.ramping
       /\ c.setpoint = n.setpoint /\ c.traj = [n.traj EXCEPT !.start = n.setpoint]
       /\ c.flags \subseteq n.flags \cup {"fwdLimit", "bwdLimit"}
       /\ r.actual = c.actual /\ l.flags = c.flags /\ r.flags = c.flags /\ l.actual = c.actual
  BY <1>3, <1>6, <1>7, <1>8, <1>9, <1>11 DEF Followed, Checked, LockPhase, LastPhase
<1>14. (GetEnabled(r) => GetEnabled(l)) /\ (GetEnabled(l) => GetEnabled(r))
       /\ (GetEnabled(r) => l.enable) /\ (r.enable => l.enable)
       /\ (Internal(a) => Internal(q)) /\ (Internal(q) => Internal(a) /\ Internal(c))
       /\ (~Internal(q) => ~Internal(c))
  BY <1>3, <1>10, <1>12 DEF Steady, GetEnabled, Internal
<1>15. /\ c.actual >= FwdSwitch => "fwdLimit" \in c.flags
       /\ c.actual <= BwdSwitch => "bwdLimit" \in c.flags
       /\ "fwdLimit" \in c.flags =>
             c.actual >= FwdSwitch \/ ("fwdLimit" \in p.flags /\ c.speed >= 0)
       /\ "bwdLimit" \in c.flags =>
             c.actual <= BwdSwitch \/ ("bwdLimit" \in p.flags /\ c.speed <= 0)
  <2>1. f.flags = n.flags /\ c.actual = f.actual /\ c.speed = f.speed
    BY <1>7, <1>8 DEF Followed, Checked
  <2>2. n.flags \subseteq p.flags \cup {"noExecute"}
    <3>1. CASE Internal(q) BY <1>3, <1>4, <3>1, OwnNext DEF OwnPhase
    <3>2. CASE ~Internal(q) BY <1>3, <1>4, <3>2, ExternalNext DEF ExternalPhase
    <3> QED BY <3>1, <3>2
  <2>3. ("fwdLimit" \in f.flags => "fwdLimit" \in p.flags)
        /\ ("bwdLimit" \in f.flags => "bwdLimit" \in p.flags)
    BY <2>1, <2>2
  <2> QED BY Zenon, <1>8, <2>1, <2>3 DEF Checked
<1>16. p.out \in Int /\ p.actual \in Int /\ c.speed = p.out - p.actual BY <1>2, <1>13 DEF AxisState
<1>17. (c.speed >= 0 => p.out >= p.actual) /\ (c.speed <= 0 => p.out <= p.actual)
  BY <1>16
<1>18. Finished(p, r, enabled)
  <2>1. /\ GetEnabled(r) => r.out = l.setpoint
        /\ GetEnabled(r) => r.setpoint = l.setpoint
        /\ ~GetEnabled(r) => r.out = r.actual
    BY <1>9, <1>11, <1>13, <1>14 DEF LastPhase, LockPhase
  <2>2. ("fwdLimit" \in r.flags => "fwdLimit" \in c.flags)
        /\ ("bwdLimit" \in r.flags => "bwdLimit" \in c.flags)
    BY <1>13
  <2>3. /\ "fwdLimit" \in r.flags =>
             r.actual >= FwdSwitch \/ ("fwdLimit" \in p.flags /\ p.out >= p.actual)
        /\ "bwdLimit" \in r.flags =>
             r.actual <= BwdSwitch \/ ("bwdLimit" \in p.flags /\ p.out <= p.actual)
    BY Zenon, <1>13, <1>15, <1>17, <2>2
  <2>4. Steady([p EXCEPT !.enabled = enabled], r) /\ r.actual = p.out BY <1>4, <1>12, <1>13
  <2>5. GetEnabled(r) => r.out = r.setpoint BY <2>1
  <2>6. /\ r.actual >= FwdSwitch => "fwdLimit" \in r.flags
        /\ r.actual <= BwdSwitch => "bwdLimit" \in r.flags
    BY <1>13, <1>15
  <2> QED BY Zenon, <1>11, <2>1, <2>3, <2>4, <2>5, <2>6 DEF Finished
<1>19. CASE Internal(q)
  <2>1. OwnPhase(q, n) BY <1>3, <1>4, <1>19, OwnNext
  <2> DEFINE u == n.traj
  <2>2. u = GetNextPosSet(p.traj, Summary(n.flags), FALSE) /\ n.setpoint = u.pos
        /\ (NoExecute(p.traj) => "noExecute" \in n.flags)
    BY <1>3, <2>1 DEF OwnPhase
  <2>3. u \in TrajState /\ n.flags \subseteq AxisFlags /\ n.setpoint \in Int BY <1>6 DEF AxisState
  <2>4. Tempered(u, c.traj) /\ c.traj.start = n.setpoint
    <3>1. c.traj = [u EXCEPT !.start = n.setpoint] BY <1>13
    <3> HIDE DEF u
    <3>2. Tempered(u, c.traj) BY <2>3, <3>1, TemperedStart
    <3> QED BY <2>3, <3>1, <3>2 DEF TrajState
  <2>5. ~Locked(c) BY <1>14, <1>19 DEF Locked
  <2>6. l.traj = c.traj /\ l.setpoint = c.setpoint /\ ~l.ramping BY <1>9, <2>5 DEF LockPhase
  <2>7. Tempered(l.traj, r.traj) /\ (l.enable => r.setpoint = l.setpoint /\ r.traj.start = l.traj.start)
        /\ ~r.ramping
    BY <1>11, <2>6 DEF LastPhase
  <2>a. f.busy = u.busy /\ f.execute = p.execute
    <3>1. Internal(n) BY <1>6, <1>19 DEF Steady, Internal
    <3> QED BY <1>3, <1>7, <2>1, <3>1 DEF Followed, OwnPhase
  <2>b. l.execute = p.execute /\ l.busy = u.busy /\ r.busy = l.busy
    BY <1>8, <1>9, <1>11, <2>a DEF Checked, LockPhase, LastPhase
  <2>c. Internal(l) /\ Internal(r) BY <1>14, <1>10, <1>12, <1>19 DEF Steady, Internal
  <2>d. /\ GetEnabled(l) => r.execute = l.execute /\ r.traj.execute = l.traj.execute
        /\ ~GetEnabled(l) => ~r.execute /\ ~(l.execute /\ r.traj.execute)
        /\ r.setpoint \in {l.setpoint, l.actual} /\ r.traj.start \in {l.traj.start, l.actual}
    BY Zenon, <1>11, <2>c DEF LastPhase
  <2>e. p.flags \subseteq n.flags BY <1>3, <2>1 DEF OwnPhase
  <2>f. l.traj.execute = u.execute
    <3>1. c.traj = [u EXCEPT !.start = n.setpoint] BY <1>13
    <3> HIDE DEF u
    <3> QED BY <2>3, <2>6, <3>1 DEF TrajState
  <2> HIDE DEF u
  <2>8. Tempered(u, r.traj) BY <2>4, <2>6, <2>7 DEF Tempered
  <2>9. r.enable => r.setpoint = u.pos /\ r.traj.start = u.pos
    <3>1. n.setpoint = u.pos BY <2>2
    <3>2. c.setpoint = n.setpoint BY <1>13
    <3>3. l.setpoint = u.pos /\ l.traj.start = u.pos BY <2>4, <2>6, <3>1, <3>2
    <3> QED BY <1>14, <2>7, <3>3
  <2>g. r.setpoint \in {u.pos, r.actual} /\ r.traj.start \in {u.pos, r.actual}
    <3>1. n.setpoint = u.pos /\ c.setpoint = n.setpoint /\ l.actual = r.actual BY <1>13, <2>2
    <3>2. l.setpoint = u.pos /\ l.traj.start = u.pos BY <2>4, <2>6, <3>1
    <3> QED BY <2>d, <3>1, <3>2
  <2>h. (r.traj.busy => r.busy) /\ r.executeOld = r.execute
    <3>1. r.traj.busy => u.busy BY <2>8 DEF Tempered
    <3>2. r.executeOld = GetExecute(r) /\ r.execute \in BOOLEAN BY <1>11 DEF AxisState
    <3> QED BY <2>b, <2>c, <3>1, <3>2 DEF GetExecute
  <2>i. /\ GetEnabled(r) => r.execute = p.execute /\ r.traj.execute = u.execute
        /\ ~GetEnabled(r) => ~r.execute /\ ~(p.execute /\ r.traj.execute)
    BY <1>14, <2>b, <2>d, <2>f
  <2>10. OwnCycle(p, r, u, n.flags)
    BY Zenon, <2>2, <2>3, <2>7, <2>8, <2>9, <2>e, <2>g, <2>h, <2>i DEF OwnCycle
  <2> QED BY Zenon, <1>1, <1>14, <1>18, <1>19, <2>10
<1>20. CASE ~Internal(q)
  <2>1. ExternalPhase(q, n) BY <1>3, <1>4, <1>20, ExternalNext
  <2>2. n.traj = p.traj /\ n.setpoint = external /\ n.ramping = p.ramping
        /\ n.flags \subseteq p.flags \ {"noExecute"}
    BY <1>3, <2>1 DEF ExternalPhase
  <2>3. p.traj \in TrajState /\ p.flags \subseteq AxisFlags BY <1>2 DEF AxisState
  <2>4. Tempered(p.traj, c.traj)
    <3>1. c.traj = [p.traj EXCEPT !.start = external] BY <1>13, <2>2
    <3> QED BY <2>3, <3>1, TemperedStart
  <2>5. c.flags \subseteq {"fwdLimit", "bwdLimit"} BY <1>13, <2>2, <2>3 DEF AxisFlags
  <2>6. c.setpoint = external /\ c.ramping = p.ramping BY <1>13, <2>2
  <2>7. /\ "fwdLimit" \in c.flags =>
             c.actual >= FwdSwitch \/ ("fwdLimit" \in p.flags /\ p.out >= p.actual)
        /\ "bwdLimit" \in c.flags =>
             c.actual <= BwdSwitch \/ ("bwdLimit" \in p.flags /\ p.out <= p.actual)
    BY Zenon, <1>15, <1>17
  <2> DEFINE u == l.traj
  <2>8. Tempered(u, r.traj) /\ (l.enable => r.setpoint = l.setpoint) /\ r.ramping = l.ramping
    BY <1>11 DEF LastPhase
  <2>9. Locked(c) => u = GetNextPosSet(StopFrom(c), Summary(c.flags), TRUE) /\ l.setpoint = u.pos
    BY <1>9 DEF LockPhase
  <2>10. ~Locked(c) => ~r.ramping /\ u = c.traj /\ l.setpoint = external
    BY <1>9, <2>6, <2>8 DEF LockPhase
  <2>a. r.setpoint \in {l.setpoint, r.actual} /\ r.traj.start \in {u.start, r.actual}
    BY <1>11, <1>13 DEF LastPhase
  <2>d. c.traj.start = external
    <3>1. n.traj \in TrajState BY <1>6 DEF AxisState
    <3> QED BY <1>13, <2>2, <3>1 DEF TrajState
  <2>b. u.start \in {external, r.actual}
    <3>1. c.traj.start = external BY <2>d
    <3>2. CASE ~Locked(c) BY <2>10, <3>1, <3>2
    <3>3. CASE Locked(c)
      <4> DEFINE s == StopFrom(c)
      <4>1. c.traj \in TrajState /\ c.actual \in Int /\ c.speed \in Int BY <1>8 DEF AxisState
      <4>2. s.start \in {external, c.actual} BY <3>1, <4>1, StopRampFields DEF StopFrom
      <4>3. s \in TrajState BY <1>8, StopFromType
      <4> DEFINE ext == TRUE
      <4>4. ext \in BOOLEAN /\ u = GetNextPosSet(s, Summary(c.flags), ext) BY <2>9, <3>3
      <4> HIDE DEF s, u, ext
      <4>5. u.start = s.start
        <5>1. CASE Moves(s) BY <4>3, <4>4, <5>1, GeneratorMoves DEF Ran
        <5>2. CASE ~Moves(s) BY <4>3, <4>4, <5>2, GeneratorStands DEF Stood
        <5> QED BY <5>1, <5>2
      <4> QED BY <1>13, <4>2, <4>5
    <3> QED BY <3>2, <3>3
  <2> HIDE DEF u
  <2>c. /\ ~Locked(c) => r.setpoint \in {external, r.actual}
        /\ Locked(c) => r.setpoint \in {u.pos, r.actual}
        /\ r.traj.start \in {external, r.actual} /\ c.traj.start = external
    BY <2>9, <2>10, <2>a, <2>b, <2>d
  <2>11. Locked(c) => (r.enable => r.setpoint = u.pos) BY <1>14, <2>8, <2>9
  <2>12. ~Locked(c) => (r.enable => r.setpoint = external) BY <1>14, <2>8, <2>10
  <2>13. ExternalCycle(p, r, c, u)
    BY Zenon, <1>8, <1>12, <1>13, <1>15, <2>4, <2>5, <2>6, <2>7, <2>8, <2>9, <2>10, <2>11, <2>12,
       <2>c DEF ExternalCycle
  <2>14. ~Internal(a) BY <1>14, <1>20
  <2> QED BY Zenon, <1>1, <1>18, <2>13, <2>14
<1> QED BY <1>19, <1>20

(***************************************************************************)
(* What the commands may do                                                *)
(***************************************************************************)
HandedOver(a, b) ==
    /\ b.enable = a.enable /\ b.enableOld = a.enableOld
    /\ b.setpoint = a.setpoint /\ b.actual = a.actual /\ b.speed = a.speed /\ b.out = a.out
    /\ b.enabled = a.enabled /\ b.startup = a.startup /\ b.ramping = a.ramping
    /\ b.velocity = a.velocity /\ b.flags \subseteq a.flags
    /\ b.traj = a.traj \/ b.traj = [a.traj EXCEPT !.start = a.actual]

SwitchedOff(a, b) ==
    /\ a.enable /\ Disabled(a, b)
    /\ \/ Internal(a) /\ Rested(a.traj, b.traj, TRUE)
       \/ ~Internal(a) /\ Rested(a.traj, b.traj, FALSE)

MotionGiven(a, b) ==
    \E vel \in Int \ {0} :
        (vel = a.velocity \/ Size(vel) \in Velocities) /\ Commanded(a, b, vel)

\* Everything that a command may make of the axis.
Outcome(a, b) ==
    /\ b \in AxisState
    /\ \/ Same(a, b) /\ b.traj = a.traj
       \/ Internal(a) /\ MotionGiven(a, b)
       \/ Internal(a) /\ a.enable /\ Same(a, b) /\ b.traj = SetTrajExecute(a.traj, TRUE)
       \/ Internal(a) /\ Same(a, b) /\ Calmed(a.traj, b.traj)
       \/ ~a.enable /\ EnabledHere(a, b)
       \/ SwitchedOff(a, b)
       \/ (~a.enable \/ AllowSourceChange) /\ HandedOver(a, b)

LEMMA OutcomeSelf ==
    ASSUME NEW a \in AxisState
    PROVE  Outcome(a, a)
BY SameSelf DEF Outcome

LEMMA OutcomeGiven ==
    ASSUME NEW a \in AxisState, Internal(a), NEW vel \in Int, vel # 0,
           vel = a.velocity \/ Size(vel) \in Velocities, NEW b, Commanded(a, b, vel)
    PROVE  Outcome(a, b)
<1>1. MotionGiven(a, b) BY DEF MotionGiven
<1>2. b \in AxisState BY DEF Commanded
<1> QED BY Zenon, <1>1, <1>2 DEF Outcome

LEMMA OutcomePosition ==
    ASSUME NEW a \in AxisState, NEW pos \in Targets, NEW vel \in Velocities
    PROVE  Outcome(a, MoveAbsolutePosition(a, pos, vel))
<1> DEFINE b == MoveAbsolutePosition(a, pos, vel)
<1>1. pos \in Int /\ vel \in Int /\ vel # 0 /\ Size(vel) = vel
  BY AxisAssumption DEF AxisAssumption, Size
<1>2. b = a \/ (Internal(a) /\ Commanded(a, b, vel)) BY <1>1, PositionGiven
<1> SUFFICES Outcome(a, b) BY DEF b
<1> HIDE DEF b
<1>3. CASE b = a BY <1>3, OutcomeSelf
<1>4. CASE Internal(a) /\ Commanded(a, b, vel)
  BY <1>1, <1>4, OutcomeGiven
<1> QED BY <1>2, <1>3, <1>4

LEMMA OutcomeVelocity ==
    ASSUME NEW a \in AxisState, NEW v \in Velocities, NEW sign \in {-1, 1}
    PROVE  Outcome(a, MoveVelocity(a, sign * v))
<1> DEFINE vel == sign * v
<1>1. vel \in Int /\ vel # 0 /\ Size(vel) = v
  <2>1. v \in Nat \ {0} BY AxisAssumption DEF AxisAssumption
  <2>2. vel = v \/ vel = -v BY <2>1
  <2> HIDE DEF vel
  <2> QED BY <2>1, <2>2 DEF Size
<1> SUFFICES Outcome(a, MoveVelocity(a, vel)) BY DEF vel
<1> HIDE DEF vel
<1> DEFINE b == MoveVelocity(a, vel)
<1>2. b = a \/ (Internal(a) /\ Commanded(a, b, vel)) BY <1>1, VelocityGiven
<1> SUFFICES Outcome(a, b) BY DEF b
<1> HIDE DEF b
<1>3. CASE b = a BY <1>3, OutcomeSelf
<1>4. CASE Internal(a) /\ Commanded(a, b, vel)
  BY <1>1, <1>4, OutcomeGiven
<1> QED BY <1>2, <1>3, <1>4

LEMMA OutcomeStop ==
    ASSUME NEW a \in AxisState
    PROVE  Outcome(a, SetExecute(a, FALSE))
<1> DEFINE b == SetExecute(a, FALSE)
<1>1. b \in AxisState /\ Same(a, b) /\ (~Internal(a) => b = a)
      /\ (Internal(a) => b.traj = SetTrajExecute(a.traj, FALSE))
  BY Withdrawn
<1>2. Internal(a) => Calmed(a.traj, b.traj)
  <2>1. a.traj \in TrajState BY DEF AxisState
  <2> QED BY <1>1, <2>1, CalmedByExecute
<1> HIDE DEF b
<1>3. Outcome(a, b)
  <2>1. CASE Internal(a) BY <1>1, <1>2, <2>1 DEF Outcome
  <2>2. CASE ~Internal(a) BY <1>1, <2>2 DEF Outcome
  <2> QED BY <2>1, <2>2
<1> QED BY <1>3 DEF b

LEMMA OutcomeExecute ==
    ASSUME NEW a \in AxisState
    PROVE  Outcome(a, SetExecute(a, TRUE))
<1> DEFINE b == SetExecute(a, TRUE)
<1>1. /\ b \in AxisState /\ Same(a, b)
      /\ ~Internal(a) \/ ~a.enable => b.traj = a.traj
      /\ \/ b.traj = a.traj
         \/ b.traj = SetTrajExecute(a.traj, TRUE)
         \/ a.velocity # 0 /\ b.traj = SetTrajExecute(Risen(a), TRUE)
  BY Executed
<1> SUFFICES Outcome(a, b) BY DEF b
<1> HIDE DEF b
<1>2. CASE b.traj = a.traj BY Zenon, <1>1, <1>2 DEF Outcome
<1>3. CASE Internal(a) /\ a.enable /\ b.traj = SetTrajExecute(a.traj, TRUE)
  BY Zenon, <1>1, <1>3 DEF Outcome
<1>4. CASE Internal(a) /\ a.enable /\ a.velocity # 0 /\ b.traj = SetTrajExecute(Risen(a), TRUE)
  <2>1. Given(a.traj, b.traj, a.velocity, a.enable) BY <1>4, RisenGiven
  <2>2. Kept(a, b) /\ b.velocity = a.velocity BY <1>1, SameIsKept
  <2>3. Commanded(a, b, a.velocity) BY <1>1, <2>1, <2>2 DEF Commanded
  <2>4. a.velocity \in Int /\ a.velocity # 0 /\ Internal(a) BY <1>4 DEF AxisState
  <2> QED BY Zenon, <2>3, <2>4, OutcomeGiven
<1> QED BY Zenon, <1>1, <1>2, <1>3, <1>4

LEMMA OutcomeEnable ==
    ASSUME NEW a \in AxisState, NEW on \in BOOLEAN
    PROVE  Outcome(a, SetEnable(a, on))
<1>a. a.enable \in BOOLEAN BY DEF AxisState
<1>1. CASE on = a.enable
  <2>1. SetEnable(a, on) = a BY <1>1 DEF SetEnable
  <2> QED BY <2>1, SameSelf DEF Outcome
<1>2. CASE on = TRUE /\ a.enable = FALSE
  <2> DEFINE b == SetEnable(a, TRUE)
  <2>1. b \in AxisState /\ EnabledHere(a, b) BY <1>2, EnableOn
  <2> HIDE DEF b
  <2>2. Outcome(a, b) BY <1>2, <2>1 DEF Outcome
  <2> QED BY <1>2, <2>2 DEF b
<1>3. CASE on = FALSE /\ a.enable = TRUE
  <2> DEFINE b == SetEnable(a, FALSE)
  <2>1. b \in AxisState /\ Disabled(a, b) /\ (Internal(a) => Rested(a.traj, b.traj, TRUE))
        /\ (~Internal(a) => Rested(a.traj, b.traj, FALSE))
    BY <1>3, EnableOff
  <2> HIDE DEF b
  <2>2. SwitchedOff(a, b) BY <1>3, <2>1 DEF SwitchedOff
  <2>3. Outcome(a, b) BY Zenon, <2>1, <2>2 DEF Outcome
  <2> QED BY <1>3, <2>3 DEF b
<1> QED BY <1>a, <1>1, <1>2, <1>3

LEMMA OutcomeKill ==
    ASSUME NEW a \in AxisState
    PROVE  Outcome(a, SetEnable(SetExecute(a, FALSE), FALSE))
<1> DEFINE w == SetExecute(a, FALSE)
<1> DEFINE b == SetEnable(w, FALSE)
<1>1. w \in AxisState /\ Same(a, w) /\ (~Internal(a) => w = a)
      /\ (Internal(a) => w.traj = SetTrajExecute(a.traj, FALSE))
  BY Withdrawn
<1>2. Outcome(a, w) BY OutcomeStop
<1>3. Internal(a) => Calmed(a.traj, w.traj)
  <2>1. a.traj \in TrajState BY DEF AxisState
  <2> QED BY <1>1, <2>1, CalmedByExecute
<1> HIDE DEF w
<1>4. w.enable = a.enable /\ a.enable \in BOOLEAN /\ (Internal(w) => Internal(a))
      /\ (Internal(a) => Internal(w))
  BY <1>1 DEF Same, AxisState, Internal
<1>5. CASE a.enable = FALSE
  <2>1. b = w BY <1>4, <1>5 DEF SetEnable
  <2> QED BY <1>2, <2>1 DEF w
<1>6. CASE a.enable = TRUE
  <2>1. w.enable BY <1>4, <1>6
  <2>2. b \in AxisState /\ Disabled(w, b) /\ (Internal(w) => Rested(w.traj, b.traj, TRUE))
        /\ (~Internal(w) => Rested(w.traj, b.traj, FALSE))
    BY <1>1, <2>1, EnableOff
  <2> HIDE DEF b
  <2>3. Disabled(a, b) BY <1>1, <2>2 DEF Same, Disabled
  <2>4. Internal(a) => Rested(a.traj, b.traj, TRUE)
    BY <1>3, <1>4, <2>2 DEF Calmed, Rested
  <2>5. ~Internal(a) => Rested(a.traj, b.traj, FALSE)
    BY <1>1, <1>4, <2>2
  <2>6. SwitchedOff(a, b) BY <1>6, <2>3, <2>4, <2>5 DEF SwitchedOff
  <2>7. Outcome(a, b) BY Zenon, <2>2, <2>6 DEF Outcome
  <2> QED BY <2>7 DEF b, w
<1> QED BY <1>4, <1>5, <1>6

LEMMA OutcomeSource ==
    ASSUME NEW a \in AxisState, NEW source \in {"internal", "external"},
           source = "internal" => ~a.enable
    PROVE  Outcome(a, SetTrajDataSourceType(a, source))
<1> DEFINE b == SetTrajDataSourceType(a, source)
<1>a. a.traj \in TrajState /\ a.actual \in Int /\ a.busy \in BOOLEAN /\ a.execute \in BOOLEAN
      /\ a.flags \in SUBSET AxisFlags
  BY DEF AxisState
<1>1. CASE source = a.source
  <2>1. b = a BY <1>1 DEF SetTrajDataSourceType
  <2> HIDE DEF b
  <2>2. Outcome(a, b) BY <2>1, SameSelf DEF Outcome
  <2> QED BY <2>2 DEF b
<1>2. CASE source # a.source /\ source = "internal"
  <2> DEFINE u == [a.traj EXCEPT !.start = a.actual]
  <2> DEFINE busy == a.busy /\ a.enable
  <2> DEFINE execute == a.execute /\ a.enable
  <2>1. busy \in BOOLEAN /\ execute \in BOOLEAN OBVIOUS
  <2>2. b = [a EXCEPT !.source = source, !.traj = u, !.busy = busy, !.execute = execute]
    <3>1. b = [a EXCEPT !.source = source, !.traj.start = a.actual, !.busy = busy,
                        !.execute = execute]
      BY Zenon, <1>2 DEF SetTrajDataSourceType
    <3> HIDE DEF b, busy, execute
    <3> QED BY <3>1 DEF AxisState
  <2>3. u \in TrajState BY <1>a DEF TrajState
  <2>4. u = [a.traj EXCEPT !.start = a.actual] OBVIOUS
  <2> HIDE DEF u, busy, execute, b
  <2>5. b \in AxisState BY <2>1, <2>2, <2>3 DEF AxisState
  <2>6. b.traj = u /\ b.enable = a.enable /\ b.enableOld = a.enableOld
        /\ b.setpoint = a.setpoint /\ b.actual = a.actual /\ b.speed = a.speed /\ b.out = a.out
        /\ b.enabled = a.enabled /\ b.startup = a.startup /\ b.ramping = a.ramping
        /\ b.velocity = a.velocity /\ b.flags = a.flags
    BY <2>2 DEF AxisState
  <2>7. HandedOver(a, b) BY <2>4, <2>6 DEF HandedOver
  <2>8. ~a.enable BY <1>2
  <2>9. Outcome(a, b) BY Zenon, <2>5, <2>7, <2>8 DEF Outcome
  <2> QED BY <2>9 DEF b
<1>3. CASE source # a.source /\ source # "internal" /\ a.enable /\ ~AllowSourceChange
  <2>1. b = [a EXCEPT !.error = TRUE] BY <1>3 DEF SetTrajDataSourceType
  <2> HIDE DEF b
  <2>2. b \in AxisState /\ Same(a, b) /\ b.traj = a.traj BY <2>1 DEF AxisState, Same
  <2>3. Outcome(a, b) BY Zenon, <2>2 DEF Outcome
  <2> QED BY <2>3 DEF b
<1>4. CASE source # a.source /\ source # "internal" /\ ~(a.enable /\ ~AllowSourceChange)
  <2> DEFINE flags == a.flags \ {"noExecute"}
  <2>1. b = [a EXCEPT !.source = source, !.flags = flags, !.busy = TRUE, !.execute = TRUE]
    BY <1>4 DEF SetTrajDataSourceType
  <2>2. flags \subseteq a.flags /\ flags \in SUBSET AxisFlags BY <1>a
  <2> HIDE DEF b, flags
  <2>3. b \in AxisState BY <2>1, <2>2 DEF AxisState
  <2>4. b.traj = a.traj /\ b.enable = a.enable /\ b.enableOld = a.enableOld
        /\ b.setpoint = a.setpoint /\ b.actual = a.actual /\ b.speed = a.speed /\ b.out = a.out
        /\ b.enabled = a.enabled /\ b.startup = a.startup /\ b.ramping = a.ramping
        /\ b.velocity = a.velocity /\ b.flags = flags
    BY <2>1 DEF AxisState
  <2>5. HandedOver(a, b) BY <2>2, <2>4 DEF HandedOver
  <2>6. ~a.enable \/ AllowSourceChange BY <1>4
  <2>7. Outcome(a, b) BY Zenon, <2>3, <2>5, <2>6 DEF Outcome
  <2> QED BY <2>7 DEF b
<1> QED BY <1>1, <1>2, <1>3, <1>4

LEMMA OutcomeReset ==
    ASSUME NEW a \in AxisState
    PROVE  Outcome(a, SetReset(a))
<1> DEFINE b == SetReset(a)
<1>1. b = [a EXCEPT !.error = FALSE, !.flags = {}] BY DEF SetReset
<1> HIDE DEF b
<1>2. b \in AxisState /\ Same(a, b) /\ b.traj = a.traj BY <1>1 DEF AxisState, Same
<1>3. Outcome(a, b) BY Zenon, <1>2 DEF Outcome
<1> QED BY <1>3 DEF b

\* Every command has one of these outcomes and counts as one.
LEMMA CommandOutcome ==
    ASSUME axis \in AxisState,
           CommandPosition \/ CommandVelocity \/ Stop \/ Kill \/ Enable \/ Execute \/ Source \/ Reset
    PROVE  /\ given < Gap /\ given' = given + 1 /\ external' = external /\ counter' = counter
           /\ Outcome(axis, axis')
<1>1. CASE CommandPosition
  <2>1. PICK pos \in Targets, vel \in Velocities :
           Command("move", MoveAbsolutePosition(axis, pos, vel))
    BY <1>1 DEF CommandPosition
  <2> QED BY <2>1, OutcomePosition DEF Command
<1>2. CASE CommandVelocity
  <2>1. PICK vel \in Velocities, sign \in {-1, 1} : Command("velocity", MoveVelocity(axis, sign * vel))
    BY <1>2 DEF CommandVelocity
  <2> QED BY <2>1, OutcomeVelocity DEF Command
<1>3. CASE Stop
  <2>1. axis' = SetExecute(axis, FALSE) BY <1>3 DEF Stop, Command, StopMotion
  <2> QED BY <1>3, <2>1, OutcomeStop DEF Stop, Command
<1>4. CASE Kill
  <2>1. axis' = SetEnable(SetExecute(axis, FALSE), FALSE) BY <1>4 DEF Kill, Command, StopMotion
  <2> QED BY <1>4, <2>1, OutcomeKill DEF Kill, Command
<1>5. CASE Enable
  <2>1. PICK on \in BOOLEAN : Command("enable", SetEnable(axis, on)) BY <1>5 DEF Enable
  <2> QED BY <2>1, OutcomeEnable DEF Command
<1>6. CASE Execute
  <2>1. PICK on \in BOOLEAN : Command("execute", SetExecute(axis, on)) BY <1>6 DEF Execute
  <2>2. CASE on = TRUE BY <2>1, <2>2, OutcomeExecute DEF Command
  <2>3. CASE on = FALSE BY <2>1, <2>3, OutcomeStop DEF Command
  <2> QED BY <2>2, <2>3
<1>7. CASE Source
  <2>1. PICK source \in {"internal", "external"} :
           /\ source = "internal" => ~axis.enable
           /\ Command("source", SetTrajDataSourceType(axis, source))
    BY <1>7 DEF Source
  <2> QED BY <2>1, OutcomeSource DEF Command
<1>8. CASE Reset
  <2>1. axis' = SetReset(axis) BY <1>8 DEF Reset, Command
  <2> QED BY <1>8, <2>1, OutcomeReset DEF Reset, Command
<1> QED BY <1>1, <1>2, <1>3, <1>4, <1>5, <1>6, <1>7, <1>8

(***************************************************************************)
(* Types                                                                   *)
(***************************************************************************)
\* The types of the variables, and what SetEnable leaves in enableOld.
Sound ==
    /\ axis \in AxisState /\ external \in Int /\ given \in Nat /\ counter \in {0, 1}
    /\ axis.enable => ~axis.enableOld

\* What the cycle makes of the axis, in terms of its phases.
Cycled(enabled, p, c, flags, u) ==
    /\ enabled => axis.enable
    /\ Awake(axis, p) /\ Finished(p, axis', enabled)
    /\ \/ Internal(axis) /\ OwnCycle(p, axis', u, flags)
       \/ ~Internal(axis) /\ ExternalCycle(p, axis', c, u)

LEMMA CycleOpens ==
    ASSUME Sound, Cycle
    PROVE  \E enabled \in BOOLEAN : \E p, c, flags, u : Cycled(enabled, p, c, flags, u)
<1>1. axis \in AxisState /\ external \in Int /\ (axis.enable => ~axis.enableOld) BY DEF Sound
<1>2. PICK enabled \in BOOLEAN :
        /\ enabled => axis.enable
        /\ \E pre \in {PreExecute(axis)} :
           \E next \in {NextSetpoint([pre EXCEPT !.enabled = enabled])} :
           \E checked \in {CheckLimits(Follow(next), Moving(pre))} :
           \E locked \in {LockTrajectory(checked)} :
           \E controlled \in {Control(locked, axis.enabled)} :
               axis' = PostExecute(controlled)
  BY DEF Cycle
<1> DEFINE p == PreExecute(axis)
<1> DEFINE n == NextSetpoint([p EXCEPT !.enabled = enabled])
<1> DEFINE c == CheckLimits(Follow(n), Moving(p))
<1> DEFINE l == LockTrajectory(c)
<1>3. axis' = PostExecute(Control(l, axis.enabled)) BY <1>2
<1> DEFINE m == Moving(p)
<1>4. m \in BOOLEAN BY DEF Moving
<1>5. Chain(axis, p, n, c, l, axis', enabled, m, axis.enabled) BY Zenon, <1>3 DEF Chain
<1> HIDE DEF p, n, c, l, m
<1>9. /\ Awake(axis, p) /\ Finished(p, axis', enabled)
      /\ \/ Internal(axis) /\ \E flags, u : OwnCycle(p, axis', u, flags)
         \/ ~Internal(axis) /\ \E u : ExternalCycle(p, axis', c, u)
  <2>1. Phases(axis, p, c, axis', enabled) BY Zenon, <1>1, <1>4, <1>5, CyclePhases
  <2> QED BY Zenon, <2>1 DEF Phases
<1>10. CASE Internal(axis)
  <2>1. PICK flags, u : OwnCycle(p, axis', u, flags) BY Zenon, <1>9, <1>10
  <2>2. Cycled(enabled, p, c, flags, u) BY Zenon, <1>2, <1>9, <1>10, <2>1 DEF Cycled
  <2> QED BY Zenon, <2>2
<1>11. CASE ~Internal(axis)
  <2>1. PICK u : ExternalCycle(p, axis', c, u) BY Zenon, <1>9, <1>11
  <2>2. Cycled(enabled, p, c, {}, u) BY Zenon, <1>2, <1>9, <1>11, <2>1 DEF Cycled
  <2> QED BY Zenon, <2>2
<1> QED BY <1>10, <1>11

LEMMA CycleTypes ==
    ASSUME Sound, Cycle
    PROVE  Sound'
<1>1. PICK enabled \in BOOLEAN : \E p, c, flags, u : Cycled(enabled, p, c, flags, u)
  BY CycleOpens
<1>2. PICK p : \E c, flags, u : Cycled(enabled, p, c, flags, u) BY <1>1
<1>3. Awake(axis, p) /\ Finished(p, axis', enabled) BY <1>2 DEF Cycled
<1>4. p \in AxisState /\ (p.enable => ~p.enableOld) BY <1>3 DEF Awake, Sound
<1>5. axis' \in AxisState /\ (axis'.enable => ~axis'.enableOld)
  <2> DEFINE q == [p EXCEPT !.enabled = enabled]
  <2>1. q.enable = p.enable /\ q.enableOld = p.enableOld BY <1>4 DEF AxisState
  <2>2. Steady(q, axis') /\ axis' \in AxisState BY <1>3 DEF Finished
  <2> HIDE DEF q
  <2> QED BY <1>4, <2>1, <2>2 DEF Steady
<1>6. external' \in Int
  <2>1. external' \in PLCSetpoint(axis') BY DEF Cycle
  <2>2. axis'.actual \in Int /\ external \in Int BY <1>5 DEF AxisState, Sound
  <2>3. \A x \in (external - PlcStep)..(external + PlcStep) : x \in Int OBVIOUS
  <2> QED BY <2>1, <2>2, <2>3 DEF PLCSetpoint
<1>7. given' = 0 /\ counter' \in {0, 1} BY DEF Cycle, Sound
<1> QED BY <1>5, <1>6, <1>7 DEF Sound

LEMMA OutcomeTypes ==
    ASSUME NEW a \in AxisState, a.enable => ~a.enableOld, NEW b, Outcome(a, b)
    PROVE  b \in AxisState /\ (b.enable => ~b.enableOld)
<1>1. b \in AxisState BY DEF Outcome
<1>2. CASE Same(a, b) BY <1>1, <1>2 DEF Same
<1>3. CASE MotionGiven(a, b) BY <1>1, <1>3 DEF MotionGiven, Commanded, Kept
<1>4. CASE EnabledHere(a, b) BY <1>1, <1>4 DEF EnabledHere
<1>5. CASE SwitchedOff(a, b) BY <1>1, <1>5 DEF SwitchedOff, Disabled
<1>6. CASE HandedOver(a, b) BY <1>1, <1>6 DEF HandedOver
<1> QED BY Zenon, <1>2, <1>3, <1>4, <1>5, <1>6 DEF Outcome

LEMMA SoundInit == Init => Sound
<1> SUFFICES ASSUME Init PROVE Sound OBVIOUS
<1> DEFINE z == 0
<1>1. z \in Int /\ Start \in Int BY Constants
<1>2. Idle = [enable |-> FALSE, execute |-> FALSE, busy |-> FALSE, mode |-> "pos", start |-> z,
              pos |-> z, local |-> z, target |-> z, vel |-> z, nom |-> z, prev |-> z, dist |-> z]
  BY DEF Idle
<1>3. axis = [traj |-> Idle, flags |-> {}, source |-> "internal", execute |-> FALSE,
              enable |-> FALSE, enableOld |-> FALSE, command |-> "pos", pos |-> z,
              velocity |-> z, setpoint |-> z, actual |-> Start,
              speed |-> z, out |-> Start, enabled |-> FALSE, busy |-> FALSE, executeOld |-> FALSE,
              startup |-> TRUE, first |-> FALSE, ramping |-> FALSE, error |-> FALSE]
  BY DEF Init
<1> HIDE DEF z
<1>4. Idle \in TrajState BY <1>1, <1>2 DEF TrajState
<1>5. axis \in AxisState BY <1>1, <1>3, <1>4 DEF AxisState
<1>6. ~axis.enable BY <1>3
<1>7. external \in Int /\ given \in Nat /\ counter \in {0, 1} BY Constants DEF Init
<1> QED BY <1>5, <1>6, <1>7 DEF Sound

LEMMA SoundStep == Sound /\ [Next]_vars => Sound'
<1> SUFFICES ASSUME Sound, [Next]_vars PROVE Sound' OBVIOUS
<1>1. CASE Cycle BY <1>1, CycleTypes
<1>2. CASE CommandPosition \/ CommandVelocity \/ Stop \/ Kill \/ Enable \/ Execute \/ Source \/ Reset
  <2>1. axis \in AxisState /\ (axis.enable => ~axis.enableOld) BY DEF Sound
  <2>2. given' = given + 1 /\ external' = external /\ counter' = counter /\ Outcome(axis, axis')
    BY <1>2, <2>1, CommandOutcome
  <2>3. axis' \in AxisState /\ (axis'.enable => ~axis'.enableOld)
    BY <2>1, <2>2, OutcomeTypes
  <2> QED BY <2>2, <2>3 DEF Sound
<1>3. CASE UNCHANGED vars BY <1>3 DEF vars, Sound
<1> QED BY <1>1, <1>2, <1>3 DEF Next

\* Every variable of the axis keeps its type for all values of the constants, and an axis
\* that is enabled has been disabled before: SetEnable() keeps the opposite of the
\* command in enableOld.
THEOREM AxisTypesCorrect == Spec => []Sound
BY SoundInit, SoundStep, PTL DEF Spec

(***************************************************************************)
(* Every stop slows down                                                   *)
(***************************************************************************)
RampsInv ==
    Sound /\ RampsKept(axis.traj, Internal(axis), axis.enable, given # 0)

LEMMA RampsTempered ==
    ASSUME NEW t, NEW u, NEW own, NEW on, NEW late, RampsKept(t, own, on, late), Tempered(t, u)
    PROVE  RampsKept(u, own, on, late)
<1>1. Stale(u) => Stale(t) BY StaleKept DEF Tempered
<1> QED BY <1>1 DEF RampsKept, Tempered

LEMMA RampsElsewhere ==
    ASSUME NEW t, NEW own, ~own, NEW on, NEW late, RampsKept(t, own, on, late)
    PROVE  RampsKept(t, own, on, FALSE)
BY DEF RampsKept

LEMMA RampsOutcome ==
    ASSUME ~AllowSourceChange, NEW a \in AxisState,
           RampsKept(a.traj, Internal(a), a.enable, FALSE), NEW b, Outcome(a, b)
    PROVE  RampsKept(b.traj, Internal(b), b.enable, TRUE)
<1> DEFINE own == Internal(a)
<1>a. a.traj \in TrajState /\ a.enable \in BOOLEAN /\ a.actual \in Int /\ own \in BOOLEAN
  BY DEF AxisState, Internal
<1>b. b \in AxisState BY DEF Outcome
<1>c. b.source = a.source => (Internal(b) <=> own) BY DEF Internal
<1>d. b.enable \in BOOLEAN /\ Internal(b) \in BOOLEAN BY <1>b DEF AxisState, Internal
<1>e. RampsKept(a.traj, own, a.enable, FALSE) /\ (own <=> Internal(a)) OBVIOUS
<1> HIDE DEF own
<1>1. CASE Same(a, b) /\ b.traj = a.traj
  <2>1. RampsKept(b.traj, own, a.enable, TRUE) BY Zenon, <1>1, <1>e, RampsLate
  <2>2. b.enable = a.enable /\ (Internal(b) <=> own) BY <1>1, <1>c DEF Same
  <2> QED BY <1>d, <1>a, <2>1, <2>2
<1>2. CASE Internal(a) /\ MotionGiven(a, b)
  <2>1. PICK vel \in Int \ {0} : Commanded(a, b, vel) BY Zenon, <1>2 DEF MotionGiven
  <2>2. Given(a.traj, b.traj, vel, a.enable) /\ Kept(a, b) BY Zenon, <2>1 DEF Commanded
  <2>3. vel # 0 /\ own BY <1>2, <1>e
  <2>4. RampsKept(b.traj, own, a.enable, TRUE) BY Zenon, <2>2, <2>3, <1>e, RampsGiven
  <2>5. b.enable = a.enable /\ (Internal(b) <=> own) BY <2>2, <1>c DEF Kept
  <2> QED BY <1>d, <1>a, <2>4, <2>5
<1>3. CASE Internal(a) /\ a.enable /\ Same(a, b) /\ b.traj = SetTrajExecute(a.traj, TRUE)
  <2>1. RampsKept(b.traj, own, a.enable, TRUE) BY Zenon, <1>3, <1>a, <1>e, RampsExecuted
  <2>2. b.enable = a.enable /\ (Internal(b) <=> own) BY <1>3, <1>c DEF Same
  <2> QED BY <1>d, <1>a, <2>1, <2>2
<1>4. CASE Internal(a) /\ Same(a, b) /\ Calmed(a.traj, b.traj)
  <2>1. RampsKept(b.traj, own, a.enable, FALSE) BY Zenon, <1>4, <1>e, RampsCalmed
  <2>2. RampsKept(b.traj, own, a.enable, TRUE) BY Zenon, <2>1, RampsLate
  <2>3. b.enable = a.enable /\ (Internal(b) <=> own) BY <1>4, <1>c DEF Same
  <2> QED BY <1>d, <1>a, <2>2, <2>3
<1>5. CASE ~a.enable /\ EnabledHere(a, b)
  <2>1. Anchored(a.traj, b.traj, a.actual) BY Zenon, <1>5 DEF EnabledHere
  <2>a. RampsKept(a.traj, own, FALSE, FALSE)
    <3>1. a.enable = FALSE BY <1>5, <1>a
    <3> QED BY <3>1, <1>e
  <2>b. \E x : Anchored(a.traj, b.traj, x) BY Zenon, <2>1
  <2>2. RampsKept(b.traj, own, TRUE, TRUE) BY Zenon, <2>a, <2>b, RampsAnchored
  <2>3. b.enable = TRUE /\ (Internal(b) <=> own) BY <1>5, <1>c, <1>d DEF EnabledHere
  <2> QED BY <1>d, <1>a, <2>2, <2>3
<1>6. CASE SwitchedOff(a, b)
  <2>1. a.enable /\ b.enable = FALSE /\ (Internal(b) <=> own)
    BY <1>6, <1>c, <1>d DEF SwitchedOff, Disabled
  <2>2. Rested(a.traj, b.traj, own)
    <3>1. own = TRUE \/ own = FALSE BY <1>a
    <3> QED BY <1>6, <1>e, <3>1 DEF SwitchedOff
  <2>3. RampsKept(b.traj, own, FALSE, TRUE) BY Zenon, <2>1, <2>2, <1>e, RampsRested
  <2> QED BY <1>d, <1>a, <2>1, <2>3
<1>7. CASE (~a.enable \/ AllowSourceChange) /\ HandedOver(a, b)
  <2>1. ~a.enable /\ b.enable = a.enable BY <1>7 DEF HandedOver
  <2>2. b.traj = a.traj \/ b.traj = [a.traj EXCEPT !.start = a.actual] BY <1>7 DEF HandedOver
  <2> DEFINE new == Internal(b)
  <2>3. new = Internal(b) OBVIOUS
  <2> HIDE DEF new
  <2>4. RampsKept(b.traj, new, a.enable, TRUE)
    BY <1>a, <2>1, <2>2, <1>e, RampsHandedOver
  <2> QED BY <2>1, <2>3, <2>4
<1> QED BY Zenon, <1>1, <1>2, <1>3, <1>4, <1>5, <1>6, <1>7 DEF Outcome

\* What an axis wakes up with, in the sense of RampsKept.
LEMMA RampsAwake ==
    ASSUME NEW a \in AxisState, NEW late, RampsKept(a.traj, Internal(a), a.enable, late),
           NEW p, Awake(a, p)
    PROVE  RampsKept(p.traj, Internal(p), p.enable, TRUE)
<1> DEFINE own == Internal(a)
<1>1. p \in AxisState /\ p.source = a.source BY DEF Awake, Woken
<1>2. own \in BOOLEAN /\ (Internal(p) <=> own) /\ Internal(p) \in BOOLEAN BY <1>1 DEF Internal
<1>3. RampsKept(a.traj, own, a.enable, late) OBVIOUS
<1>4. a.enable \in BOOLEAN /\ p.enable \in BOOLEAN BY <1>1 DEF AxisState
<1>5. (own => Internal(a)) /\ (Internal(a) => own) OBVIOUS
<1> HIDE DEF own
<1>6. CASE p.traj = a.traj /\ p.enable = a.enable
  <2>1. RampsKept(a.traj, own, a.enable, TRUE) BY Zenon, <1>3, RampsLate
  <2> QED BY <1>2, <1>6, <2>1
<1>7. CASE a.enable /\ ~p.enable /\ Rested(a.traj, p.traj, own)
  <2>1. RampsKept(p.traj, own, FALSE, TRUE) BY Zenon, <1>3, <1>7, RampsRested
  <2>2. p.enable = FALSE BY <1>4, <1>7
  <2> QED BY <1>2, <2>1, <2>2
<1>8. \/ p.traj = a.traj /\ p.enable = a.enable
      \/ a.enable /\ ~p.enable /\ Rested(a.traj, p.traj, own)
  <2>1. own = TRUE \/ own = FALSE BY <1>2
  <2> QED BY <1>5, <2>1 DEF Awake
<1> QED BY <1>6, <1>7, <1>8

\* A motion that goes on after the start-up has not been changed by it.
LEMMA AwakeBusy ==
    ASSUME NEW a \in AxisState, NEW p, Awake(a, p), p.traj.busy
    PROVE  p.traj = a.traj
BY DEF Awake, Rested

LEMMA LocksNoExecute ==
    ASSUME NEW flags, "noExecute" \in flags
    PROVE  Summary(flags).bwd /\ Summary(flags).fwd
<1>1. "noExecute" \in TrajFlags BY DEF TrajFlags
<1> QED BY <1>1 DEF Summary, AnyOf

LEMMA OwnRamps ==
    ASSUME ACC <= DEC, NEW p \in AxisState, Internal(p),
           RampsKept(p.traj, Internal(p), p.enable, TRUE),
           NEW r \in AxisState, Internal(r), r.enable = p.enable,
           NEW u, NEW flags, OwnCycle(p, r, u, flags)
    PROVE  /\ RampsKept(r.traj, Internal(r), r.enable, FALSE)
           /\ r.traj.busy => p.traj.busy
           /\ ~p.traj.execute /\ p.traj.busy /\ r.traj.busy
                 => Size(r.traj.prev) < Size(p.traj.prev)
<1> DEFINE t == p.traj
<1> DEFINE own == Internal(p)
<1> DEFINE locks == Summary(flags)
<1>1. t \in TrajState BY DEF AxisState
<1>2. RampsKept(t, own, p.enable, TRUE) /\ own /\ own \in BOOLEAN BY DEF Internal
<1>3. u = GetNextPosSet(t, locks, FALSE) BY Zenon DEF OwnCycle
<1>4. NoExecute(t) => locks.bwd /\ locks.fwd
  <2>1. NoExecute(t) => "noExecute" \in flags BY Zenon DEF OwnCycle
  <2> QED BY Zenon, <2>1, LocksNoExecute
<1>5. Tempered(u, r.traj) BY Zenon DEF OwnCycle
<1>6. (Internal(r) <=> own) /\ Internal(r) \in BOOLEAN BY <1>2 DEF Internal
<1> HIDE DEF t, own, locks
<1>7. /\ RampsKept(u, own, p.enable, FALSE)
      /\ u.busy => t.busy
      /\ ~t.execute /\ t.busy /\ u.busy => Size(u.prev) < Size(t.prev)
  BY Zenon, <1>1, <1>2, <1>3, <1>4, RampsOwnCycle
<1>8. RampsKept(r.traj, own, p.enable, FALSE) BY Zenon, <1>5, <1>7, RampsTempered
<1>9. RampsKept(r.traj, Internal(r), r.enable, FALSE) BY <1>2, <1>6, <1>8
<1>10. (r.traj.busy => u.busy) /\ r.traj.prev = u.prev BY <1>5 DEF Tempered
<1> QED BY <1>7, <1>9, <1>10 DEF t

LEMMA ExternalRamps ==
    ASSUME NEW p \in AxisState, ~Internal(p), RampsKept(p.traj, Internal(p), p.enable, TRUE),
           NEW r \in AxisState, ~Internal(r), r.enable = p.enable,
           NEW c, NEW u, ExternalCycle(p, r, c, u)
    PROVE  /\ RampsKept(r.traj, Internal(r), r.enable, FALSE)
           /\ p.ramping /\ r.ramping /\ r.traj.busy
                 => p.traj.busy /\ Size(r.traj.prev) < Size(p.traj.prev)
<1> DEFINE own == Internal(p)
<1> DEFINE t == c.traj
<1> DEFINE s == StopFrom(c)
<1>1. RampsKept(p.traj, own, p.enable, TRUE) /\ ~own /\ own \in BOOLEAN BY DEF Internal
<1>2. c \in AxisState /\ c.ramping = p.ramping BY Zenon DEF ExternalCycle
<1>3. Tempered(p.traj, t) /\ Tempered(u, r.traj) BY Zenon DEF ExternalCycle
<1>4. (Internal(r) <=> own) /\ Internal(r) \in BOOLEAN BY <1>1 DEF Internal
<1>5. t \in TrajState /\ c.actual \in Int /\ c.speed \in Int BY <1>2 DEF AxisState
<1>6. s \in TrajState BY <1>2, StopFromType
<1>7. (c.ramping => s = t) /\ (~c.ramping => s = InitStopRamp([t EXCEPT !.start = c.actual], c.actual, c.speed))
  BY DEF StopFrom
<1>8. ~Locked(c) => ~r.ramping /\ u = t BY Zenon DEF ExternalCycle
<1>9. Locked(c) => u = GetNextPosSet(s, Summary(c.flags), TRUE) BY Zenon DEF ExternalCycle
<1> HIDE DEF own, t, s
<1>10. RampsKept(t, own, p.enable, TRUE) BY Zenon, <1>1, <1>3, RampsTempered
<1>11. /\ RampsKept(u, own, p.enable, FALSE)
       /\ Locked(c) => (u.busy => s.busy /\ Size(u.prev) < Size(s.prev))
  <2>1. CASE Locked(c)
    <3>1. \/ s = t
          \/ \E x, v \in Int : s = InitStopRamp([t EXCEPT !.start = x], x, v)
      BY <1>5, <1>7
    <3>2. /\ RampsKept(u, own, p.enable, FALSE)
          /\ u.busy => s.busy /\ Size(u.prev) < Size(s.prev)
      BY Zenon, <1>1, <1>5, <1>6, <1>9, <1>10, <2>1, <3>1, RampsStopRamp
    <3> QED BY <3>2
  <2>2. CASE ~Locked(c)
    <3>1. RampsKept(u, own, p.enable, FALSE) BY Zenon, <1>1, <1>8, <1>10, <2>2, RampsElsewhere
    <3> QED BY <2>2, <3>1
  <2> QED BY <2>1, <2>2
<1>12. RampsKept(r.traj, own, p.enable, FALSE) BY Zenon, <1>3, <1>11, RampsTempered
<1>13. RampsKept(r.traj, Internal(r), r.enable, FALSE) BY <1>1, <1>4, <1>12
<1>14. (r.traj.busy => u.busy) /\ r.traj.prev = u.prev
       /\ (t.busy => p.traj.busy) /\ t.prev = p.traj.prev
  BY <1>3 DEF Tempered
<1> QED BY <1>2, <1>7, <1>8, <1>11, <1>13, <1>14

LEMMA FinishedKeeps ==
    ASSUME NEW p \in AxisState, NEW enabled \in BOOLEAN, NEW r, Finished(p, r, enabled)
    PROVE  /\ r \in AxisState /\ r.source = p.source /\ r.enable = p.enable
           /\ r.enabled = enabled /\ r.startup = p.startup /\ r.velocity = p.velocity
           /\ r.pos = p.pos
           /\ r.actual = p.out
BY DEF Finished, Steady, AxisState

LEMMA RampsCycle ==
    ASSUME ACC <= DEC, RampsInv, Cycle
    PROVE  /\ RampsInv'
           /\ Stopping /\ axis.traj.busy /\ axis'.traj.busy
                 => Size(axis'.traj.prev) < Size(axis.traj.prev)
<1>1. Sound /\ axis \in AxisState /\ RampsKept(axis.traj, Internal(axis), axis.enable, given # 0)
  BY DEF RampsInv, Sound
<1>2. PICK enabled \in BOOLEAN : \E p, c, flags, u : Cycled(enabled, p, c, flags, u)
  BY <1>1, CycleOpens
<1>3. PICK p : \E c, flags, u : Cycled(enabled, p, c, flags, u) BY <1>2
<1>4. PICK c : \E flags, u : Cycled(enabled, p, c, flags, u) BY <1>3
<1>5. PICK flags : \E u : Cycled(enabled, p, c, flags, u) BY <1>4
<1>6. PICK u : Cycled(enabled, p, c, flags, u) BY <1>5
<1>7. Awake(axis, p) /\ Finished(p, axis', enabled) BY Zenon, <1>6 DEF Cycled
<1>8. p \in AxisState /\ p.source = axis.source /\ p.ramping = axis.ramping
  BY <1>7 DEF Awake, Woken
<1>9. axis' \in AxisState /\ axis'.source = p.source /\ axis'.enable = p.enable
  BY <1>7, <1>8, FinishedKeeps
<1>10. RampsKept(p.traj, Internal(p), p.enable, TRUE) BY Zenon, <1>1, <1>7, RampsAwake
<1>11. Sound' /\ given' = 0 BY <1>1, CycleTypes DEF Cycle
<1>12. p.traj.busy => p.traj = axis.traj BY Zenon, <1>1, <1>7, AwakeBusy
<1>13. (Internal(p) <=> Internal(axis)) /\ (Internal(axis') <=> Internal(p))
  BY <1>8, <1>9 DEF Internal
<1>14. CASE Internal(axis)
  <2>1. OwnCycle(p, axis', u, flags) BY Zenon, <1>6, <1>14 DEF Cycled
  <2>2. Internal(p) /\ Internal(axis') BY <1>13, <1>14
  <2>3. /\ RampsKept(axis'.traj, Internal(axis'), axis'.enable, FALSE)
        /\ axis'.traj.busy => p.traj.busy
        /\ ~p.traj.execute /\ p.traj.busy /\ axis'.traj.busy
              => Size(axis'.traj.prev) < Size(p.traj.prev)
    BY Zenon, <1>8, <1>9, <1>10, <2>1, <2>2, OwnRamps
  <2>4. ~axis'.ramping BY Zenon, <2>1 DEF OwnCycle
  <2>5. RampsInv' BY <1>11, <2>3 DEF RampsInv, Internal
  <2> QED BY <1>12, <2>3, <2>4, <2>5 DEF Stopping
<1>15. CASE ~Internal(axis)
  <2>1. ExternalCycle(p, axis', c, u) BY Zenon, <1>6, <1>15 DEF Cycled
  <2>2. ~Internal(p) /\ ~Internal(axis') BY <1>13, <1>15
  <2>3. /\ RampsKept(axis'.traj, Internal(axis'), axis'.enable, FALSE)
        /\ p.ramping /\ axis'.ramping /\ axis'.traj.busy
              => p.traj.busy /\ Size(axis'.traj.prev) < Size(p.traj.prev)
    BY Zenon, <1>8, <1>9, <1>10, <2>1, <2>2, ExternalRamps
  <2>4. RampsInv' BY <1>11, <2>3 DEF RampsInv, Internal
  <2> QED BY <1>8, <1>12, <1>15, <2>3, <2>4 DEF Stopping
<1> QED BY <1>14, <1>15

LEMMA RampsInit == Init => RampsInv
<1> SUFFICES ASSUME Init PROVE RampsInv OBVIOUS
<1>1. Sound BY SoundInit
<1>2. axis.traj = Idle /\ ~axis.enable BY DEF Init
<1>3. ~Idle.busy /\ ~Idle.execute /\ Idle.mode = "pos" /\ Idle.prev = 0 /\ Idle.dist = 0
  BY DEF Idle
<1>4. ~Stale(Idle) BY <1>3, StaleNot
<1> DEFINE t == Idle
<1> DEFINE own == Internal(axis)
<1> DEFINE on == axis.enable
<1> DEFINE late == given # 0
<1>5. ~t.busy /\ ~t.execute /\ t.mode # "vel" /\ ~Stale(t) /\ ~on BY <1>2, <1>3, <1>4
<1> HIDE DEF t, own, on, late
<1>6. RampsKept(t, own, on, late) BY <1>5 DEF RampsKept
<1> QED BY <1>1, <1>2, <1>6 DEF RampsInv, t, own, on, late

LEMMA RampsCommand ==
    ASSUME Gap <= 1, ~AllowSourceChange, RampsInv,
           CommandPosition \/ CommandVelocity \/ Stop \/ Kill \/ Enable \/ Execute \/ Source \/ Reset
    PROVE  RampsInv' /\ counter' = counter
<1>1. axis \in AxisState BY DEF RampsInv, Sound
<1>2. given < Gap /\ given' = given + 1 /\ counter' = counter /\ Outcome(axis, axis')
  BY <1>1, CommandOutcome
<1>3. given = 0 /\ given' # 0 BY <1>2, Constants DEF RampsInv, Sound
<1>4. RampsKept(axis.traj, Internal(axis), axis.enable, FALSE)
  <2>1. (given # 0) = FALSE BY <1>3
  <2> QED BY <2>1 DEF RampsInv
<1> DEFINE b == axis'
<1>5. Outcome(axis, b) BY <1>2
<1> HIDE DEF b
<1>6. RampsKept(b.traj, Internal(b), b.enable, TRUE) BY Zenon, <1>1, <1>4, <1>5, RampsOutcome
<1>7. RampsKept(axis.traj, Internal(axis), axis.enable, given # 0)'
  <2>1. (given' # 0) = TRUE BY <1>3
  <2> QED BY <1>6, <2>1 DEF b, Internal
<1>8. Sound' BY SoundStep DEF Next, RampsInv
<1> QED BY <1>2, <1>7, <1>8 DEF RampsInv

LEMMA RampsStep ==
    ASSUME Gap <= 1, ~AllowSourceChange, ACC <= DEC, RampsInv, [Next]_vars
    PROVE  /\ RampsInv'
           /\ [counter' # counter /\ Stopping /\ axis.traj.busy /\ axis'.traj.busy
                 => Size(axis'.traj.prev) < Size(axis.traj.prev)]_vars
<1>1. CASE Cycle BY <1>1, RampsCycle
<1>2. CASE CommandPosition \/ CommandVelocity \/ Stop \/ Kill \/ Enable \/ Execute \/ Source \/ Reset
  BY <1>2, RampsCommand
<1>3. CASE UNCHANGED vars BY <1>3 DEF vars, RampsInv, Sound
<1> QED BY <1>1, <1>2, <1>3 DEF Next

\* A motion that has lost its execute, and the stop ramp that replaces an external
\* setpoint, get slower in every cycle until they end, for every travel, velocity and
\* ramp with an acceleration up to the deceleration, with at most one command between
\* two cycles and a source that changes while the axis is disabled.
THEOREM StopSlowsCorrect ==
    ASSUME Gap <= 1, ~AllowSourceChange, ACC <= DEC
    PROVE  Spec => StopSlows
<1>1. Init => RampsInv BY RampsInit
<1>2. RampsInv /\ [Next]_vars => RampsInv' BY RampsStep
<1>3. RampsInv /\ [Next]_vars
        => [counter' # counter /\ Stopping /\ axis.traj.busy /\ axis'.traj.busy
              => Size(axis'.traj.prev) < Size(axis.traj.prev)]_vars
  BY RampsStep
<1> QED BY <1>1, <1>2, <1>3, PTL DEF Spec, StopSlows

(***************************************************************************)
(* The position for an enabled drive                                       *)
(***************************************************************************)
\* The sizes of steps and velocities, and when the generator may run.
Bounded(t) == Size(t.prev) <= Step /\ Size(t.vel) <= Speed /\ (t.busy => Size(t.nom) <= Speed)

\* Where the generator of an axis with its own setpoint is.
At(t, x) == t.pos = x /\ t.local = x /\ t.start = x

\* A limit switch that interlocks has been passed.
Flagged(flags, actual) ==
    /\ "fwdLimit" \in flags => actual >= FwdSwitch
    /\ "bwdLimit" \in flags => actual <= BwdSwitch

\* The external setpoint is near that of the axis, or on an interlocked side of it.
Near(x, e) == Size(e - x) <= PlcStep
Tracked(x, e) ==
    \/ Near(x, e)
    \/ x >= FwdSwitch /\ e > x
    \/ x <= BwdSwitch /\ e < x

\* late tells whether the axis has been given a command since the last cycle.
Settled(a, late) == ~late \/ a.enable

Even(a, e, late) ==
    /\ Bounded(a.traj) /\ Size(a.velocity) <= Speed
    /\ a.traj.busy => Internal(a) /\ a.enable
    /\ Internal(a) /\ a.enable => At(a.traj, a.setpoint)
    /\ GetEnabled(a) => a.out = a.setpoint
    /\ ~GetEnabled(a) /\ Settled(a, late) => a.out = a.actual
    /\ Flagged(a.flags, a.actual)
    /\ ~Internal(a) => Near(a.actual, a.out)
    /\ ~Internal(a) /\ GetEnabled(a) => Tracked(a.setpoint, e)
    /\ (Internal(a) \/ ~GetEnabled(a)) /\ Settled(a, late) => e = a.actual
    /\ ~Internal(a) /\ a.ramping /\ a.enable =>
          a.traj.pos = a.setpoint /\ (~GetEnabled(a) => a.setpoint = a.actual)

LEMMA NearSelf ==
    ASSUME NEW x \in Int
    PROVE  Near(x, x) /\ Tracked(x, x)
BY Constants DEF Near, Tracked, Size

\* What a command does to the sizes.
LEMMA BoundedGiven ==
    ASSUME NEW t, NEW u, NEW on, NEW vel, Given(t, u, vel, on), Bounded(t), Size(vel) <= Speed
    PROVE  Bounded(u)
BY DEF Given, Bounded

LEMMA BoundedSame ==
    ASSUME NEW t, NEW u, Bounded(t), u.prev = t.prev, u.vel = t.vel, u.nom = t.nom,
           u.busy => t.busy
    PROVE  Bounded(u)
BY DEF Bounded

LEMMA BoundedExecuted ==
    ASSUME NEW t \in TrajState, NEW u, u = SetTrajExecute(t, TRUE), Bounded(t)
    PROVE  Bounded(u)
<1> DEFINE yes == TRUE
<1>1. yes \in BOOLEAN /\ u = SetTrajExecute(t, yes) OBVIOUS
<1> HIDE DEF yes
<1>2. u.vel = t.vel /\ u.prev = t.prev BY Zenon, <1>1, GeneratorKeeps
<1>3. CASE Rises(t, yes)
  <2>1. u.nom = t.vel BY Zenon, <1>1, <1>3, GeneratorStarts
  <2> QED BY <1>2, <2>1 DEF Bounded
<1>4. CASE ~Rises(t, yes)
  <2>1. u.nom = t.nom /\ (u.busy => t.busy) BY Zenon, <1>1, <1>4, GeneratorGoesOn
  <2> QED BY <1>2, <2>1 DEF Bounded
<1> QED BY <1>3, <1>4

LEMMA AtGiven ==
    ASSUME NEW t, NEW u, NEW on, NEW vel, Given(t, u, vel, on), NEW x, At(t, x)
    PROVE  At(u, x)
BY DEF Given, At

LEMMA AtExecuted ==
    ASSUME NEW t \in TrajState, NEW u, u = SetTrajExecute(t, TRUE), NEW x, At(t, x)
    PROVE  At(u, x)
<1> DEFINE yes == TRUE
<1>1. yes \in BOOLEAN /\ u = SetTrajExecute(t, yes) OBVIOUS
<1> HIDE DEF yes
<1>2. u.start = t.start /\ u.local = t.local BY Zenon, <1>1, GeneratorKeeps
<1>3. CASE Rises(t, yes)
  <2>1. u.pos = t.start BY Zenon, <1>1, <1>3, GeneratorStarts
  <2> QED BY <1>2, <2>1 DEF At
<1>4. CASE ~Rises(t, yes)
  <2>1. u.pos = t.pos BY Zenon, <1>1, <1>4, GeneratorGoesOn
  <2> QED BY <1>2, <2>1 DEF At
<1> QED BY <1>3, <1>4

LEMMA SpeedBounds ==
    ASSUME NEW a \in AxisState, Size(a.velocity) <= Speed, NEW vel \in Int,
           vel = a.velocity \/ Size(vel) \in Velocities
    PROVE  Size(vel) <= Speed
BY Constants

\* A command that leaves the axis as it is, but for its generator.
LEMMA EvenKept ==
    ASSUME NEW a \in AxisState, NEW b \in AxisState, Kept(a, b), NEW e, Even(a, e, FALSE),
           Bounded(b.traj), Size(b.velocity) <= Speed,
           b.traj.busy => Internal(a) /\ a.enable,
           Internal(a) /\ a.enable => At(b.traj, a.setpoint),
           ~Internal(a) => b.traj = a.traj
    PROVE  Even(b, e, TRUE)
<1>1. (Internal(b) <=> Internal(a)) /\ (GetEnabled(b) <=> GetEnabled(a))
  BY DEF Kept, Internal, GetEnabled
<1>2. Flagged(b.flags, b.actual) BY DEF Kept, Even, Flagged
<1>3. Settled(a, FALSE) BY DEF Settled
<1>4. /\ b.setpoint = a.setpoint /\ b.actual = a.actual /\ b.out = a.out
      /\ b.ramping = a.ramping /\ b.enable = a.enable
  BY DEF Kept
<1> QED BY <1>1, <1>2, <1>3, <1>4 DEF Even

LEMMA EvenGiven ==
    ASSUME NEW a \in AxisState, NEW e, Even(a, e, FALSE), Internal(a), NEW b, MotionGiven(a, b)
    PROVE  Even(b, e, TRUE)
<1>1. PICK vel \in Int \ {0} :
        (vel = a.velocity \/ Size(vel) \in Velocities) /\ Commanded(a, b, vel)
  BY Zenon DEF MotionGiven
<1> DEFINE t == a.traj
<1> DEFINE u == b.traj
<1>2. b \in AxisState /\ Kept(a, b) /\ b.velocity = vel /\ Given(t, u, vel, a.enable)
  BY <1>1 DEF Commanded
<1>3. /\ Bounded(t) /\ Size(a.velocity) <= Speed /\ (t.busy => a.enable)
      /\ a.enable => At(t, a.setpoint)
  BY Zenon DEF Even
<1> HIDE DEF t, u
<1>4. vel \in Int OBVIOUS
<1>5. Size(vel) <= Speed BY <1>1, <1>3, <1>4, SpeedBounds
<1>6. Bounded(u) BY Zenon, <1>2, <1>3, <1>5, BoundedGiven
<1>7. a.enable => At(u, a.setpoint) BY Zenon, <1>2, <1>3, AtGiven
<1>8. u.busy => a.enable BY <1>2, <1>3 DEF Given
<1> QED BY <1>2, <1>5, <1>6, <1>7, <1>8, EvenKept DEF u

LEMMA EvenExecuted ==
    ASSUME NEW a \in AxisState, NEW e, Even(a, e, FALSE), Internal(a), a.enable,
           NEW b \in AxisState, Same(a, b), b.traj = SetTrajExecute(a.traj, TRUE)
    PROVE  Even(b, e, TRUE)
<1> DEFINE t == a.traj
<1> DEFINE u == b.traj
<1>1. t \in TrajState /\ u = SetTrajExecute(t, TRUE) BY DEF AxisState
<1>2. Bounded(t) /\ At(t, a.setpoint) /\ Size(a.velocity) <= Speed BY Zenon DEF Even
<1> HIDE DEF t, u
<1>3. Bounded(u) BY Zenon, <1>1, <1>2, BoundedExecuted
<1>4. At(u, a.setpoint) BY Zenon, <1>1, <1>2, AtExecuted
<1>5. Kept(a, b) /\ b.velocity = a.velocity BY SameIsKept
<1>6. Size(b.velocity) <= Speed BY <1>2, <1>5
<1> QED BY <1>3, <1>4, <1>5, <1>6, EvenKept DEF u

LEMMA EvenCalmed ==
    ASSUME NEW a \in AxisState, NEW e, Even(a, e, FALSE), NEW b \in AxisState, Same(a, b),
           b.traj = a.traj \/ (Internal(a) /\ Calmed(a.traj, b.traj))
    PROVE  Even(b, e, TRUE)
<1> DEFINE t == a.traj
<1> DEFINE u == b.traj
<1>1. u = t \/ (Internal(a) /\ Calmed(t, u)) OBVIOUS
<1>2. /\ Bounded(t) /\ (Internal(a) /\ a.enable => At(t, a.setpoint)) /\ Size(a.velocity) <= Speed
      /\ t.busy => Internal(a) /\ a.enable
  BY Zenon DEF Even
<1> HIDE DEF t, u
<1>3. /\ u.prev = t.prev /\ u.vel = t.vel /\ u.nom = t.nom /\ (u.busy => t.busy)
      /\ u.pos = t.pos /\ u.local = t.local /\ u.start = t.start
  BY <1>1 DEF Calmed
<1>4. Bounded(u) BY <1>2, <1>3, BoundedSame
<1>5. Internal(a) /\ a.enable => At(u, a.setpoint) BY <1>2, <1>3 DEF At
<1>6. Kept(a, b) /\ b.velocity = a.velocity BY SameIsKept
<1>7. Size(b.velocity) <= Speed BY <1>2, <1>6
<1>8. ~Internal(a) => u = t BY <1>1
<1>9. u.busy => Internal(a) /\ a.enable BY <1>2, <1>3
<1> QED BY <1>4, <1>5, <1>6, <1>7, <1>8, <1>9, EvenKept DEF u, t

LEMMA EvenEnabled ==
    ASSUME NEW a \in AxisState, NEW e, Even(a, e, FALSE), ~a.enable,
           NEW b \in AxisState, EnabledHere(a, b)
    PROVE  Even(b, e, TRUE)
<1>1. /\ b.enable /\ b.setpoint = a.actual /\ b.actual = a.actual /\ b.out = a.out
      /\ b.source = a.source /\ b.enabled = a.enabled /\ b.flags \subseteq a.flags
      /\ b.velocity = a.velocity /\ Anchored(a.traj, b.traj, a.actual)
  BY DEF EnabledHere
<1>2. /\ Bounded(a.traj) /\ Size(a.velocity) <= Speed /\ ~a.traj.busy
      /\ a.out = a.actual /\ e = a.actual /\ Flagged(a.flags, a.actual)
  BY DEF Even, GetEnabled, Settled
<1>3. a.actual \in Int BY DEF AxisState
<1>4. ~b.traj.busy BY <1>1, <1>2 DEF Anchored
<1>5. Bounded(b.traj)
  <2>1. Size(0) <= Step BY Sizes DEF Size
  <2> QED BY <1>1, <1>2, <1>4, <2>1 DEF Anchored, Bounded
<1>6. At(b.traj, b.setpoint) BY <1>1 DEF Anchored, At
<1>7. Flagged(b.flags, b.actual) BY <1>1, <1>2 DEF Flagged
<1>8. Near(b.actual, b.out) /\ Tracked(b.setpoint, e) BY <1>1, <1>2, <1>3, NearSelf
<1>9. b.traj.pos = b.setpoint BY <1>6 DEF At
<1>10. Size(b.velocity) <= Speed BY <1>1, <1>2
<1> QED BY <1>1, <1>2, <1>4, <1>5, <1>6, <1>7, <1>8, <1>9, <1>10 DEF Even

LEMMA EvenDisabled ==
    ASSUME NEW a \in AxisState, NEW e, Even(a, e, FALSE), NEW b \in AxisState, SwitchedOff(a, b)
    PROVE  Even(b, e, TRUE)
<1>1. /\ ~b.enable /\ b.actual = a.actual /\ b.out = a.out
      /\ b.source = a.source /\ b.flags \subseteq a.flags /\ b.velocity = a.velocity
  BY DEF SwitchedOff, Disabled
<1>2. \E own : Rested(a.traj, b.traj, own) BY Zenon DEF SwitchedOff
<1>3. b.traj.prev = a.traj.prev /\ b.traj.vel = a.traj.vel /\ b.traj.nom = a.traj.nom
      /\ ~b.traj.busy
  BY <1>2 DEF Rested
<1>4. /\ Bounded(a.traj) /\ Size(a.velocity) <= Speed /\ Flagged(a.flags, a.actual)
      /\ ~Internal(a) => Near(a.actual, a.out)
  BY Zenon DEF Even
<1>5. Bounded(b.traj) BY <1>3, <1>4, BoundedSame
<1>6. Flagged(b.flags, b.actual) BY <1>1, <1>4 DEF Flagged
<1>7. ~Internal(b) => Near(b.actual, b.out) BY <1>1, <1>4 DEF Internal
<1>8. ~GetEnabled(b) /\ ~Settled(b, TRUE) BY <1>1 DEF GetEnabled, Settled
<1>9. Size(b.velocity) <= Speed BY <1>1, <1>4
<1> QED BY <1>1, <1>3, <1>5, <1>6, <1>7, <1>8, <1>9 DEF Even

LEMMA EvenHandedOver ==
    ASSUME NEW a \in AxisState, NEW e, Even(a, e, FALSE), ~a.enable,
           NEW b \in AxisState, HandedOver(a, b)
    PROVE  Even(b, e, TRUE)
<1>1. /\ ~b.enable /\ b.actual = a.actual /\ b.out = a.out
      /\ b.flags \subseteq a.flags /\ b.velocity = a.velocity
      /\ b.traj = a.traj \/ b.traj = [a.traj EXCEPT !.start = a.actual]
  BY DEF HandedOver
<1>2. a.traj \in TrajState /\ a.actual \in Int BY DEF AxisState
<1>3. b.traj.prev = a.traj.prev /\ b.traj.vel = a.traj.vel /\ b.traj.nom = a.traj.nom
      /\ b.traj.busy = a.traj.busy
  BY <1>1, <1>2 DEF TrajState
<1>4. /\ Bounded(a.traj) /\ Size(a.velocity) <= Speed /\ Flagged(a.flags, a.actual)
      /\ ~a.traj.busy /\ a.out = a.actual
  BY DEF Even, GetEnabled, Settled
<1>5. Bounded(b.traj) BY <1>3, <1>4, BoundedSame
<1>6. Flagged(b.flags, b.actual) BY <1>1, <1>4 DEF Flagged
<1>7. Near(b.actual, b.out) BY <1>1, <1>2, <1>4, NearSelf
<1>8. ~GetEnabled(b) /\ ~Settled(b, TRUE) BY <1>1 DEF GetEnabled, Settled
<1>9. Size(b.velocity) <= Speed /\ ~b.traj.busy BY <1>1, <1>3, <1>4
<1> QED BY <1>1, <1>5, <1>6, <1>7, <1>8, <1>9 DEF Even

LEMMA EvenOutcome ==
    ASSUME ~AllowSourceChange, NEW a \in AxisState, NEW e, Even(a, e, FALSE),
           NEW b, Outcome(a, b)
    PROVE  Even(b, e, TRUE)
<1>0. b \in AxisState BY Zenon DEF Outcome
<1>1. CASE Same(a, b) /\ b.traj = a.traj BY Zenon, <1>0, <1>1, EvenCalmed
<1>2. CASE Internal(a) /\ MotionGiven(a, b) BY Zenon, <1>0, <1>2, EvenGiven
<1>3. CASE Internal(a) /\ a.enable /\ Same(a, b) /\ b.traj = SetTrajExecute(a.traj, TRUE)
  BY Zenon, <1>0, <1>3, EvenExecuted
<1>4. CASE Internal(a) /\ Same(a, b) /\ Calmed(a.traj, b.traj) BY Zenon, <1>0, <1>4, EvenCalmed
<1>5. CASE ~a.enable /\ EnabledHere(a, b) BY Zenon, <1>0, <1>5, EvenEnabled
<1>6. CASE SwitchedOff(a, b) BY Zenon, <1>0, <1>6, EvenDisabled
<1>7. CASE (~a.enable \/ AllowSourceChange) /\ HandedOver(a, b)
  BY Zenon, <1>0, <1>7, EvenHandedOver
<1> QED BY Zenon, <1>1, <1>2, <1>3, <1>4, <1>5, <1>6, <1>7 DEF Outcome

LEMMA BlockedGoesOn ==
    ASSUME NEW t \in TrajState, NEW locks, NEW ext \in BOOLEAN, Blocked(t, locks, ext),
           ~Ends(t, locks.stop), NEW u, u = InternalTraj(t, locks, ext)
    PROVE  u.local = t.local + Sign(t.prev) * Left(t, locks.stop)
BY GeneratorStep

Halted(t, u) == ~u.busy /\ u.local = t.local

LEMMA BlockedEnds ==
    ASSUME NEW t \in TrajState, NEW locks, NEW ext \in BOOLEAN, Blocked(t, locks, ext),
           Ends(t, locks.stop), NEW u, u = InternalTraj(t, locks, ext)
    PROVE  Halted(t, u)
BY BlockedStep DEF Halted

\* No step is larger than Step, neither the one that is intended nor that of a stop.
LEMMA IntendedBound ==
    ASSUME NEW t \in TrajState, Size(t.prev) <= Step, Size(t.nom) <= Speed
    PROVE  Size(Intended(t).step) <= Step
<1>1. t.prev \in Int /\ t.nom \in Int /\ t.mode \in {"pos", "vel"} BY DEF TrajState
<1>2. CASE t.mode = "vel"
  <2>1. Intended(t).step = Ramp(t.prev, t.nom) BY <1>2, IntendedTypes
  <2> QED BY <1>1, <2>1, RampBound
<1>3. CASE t.mode = "pos"
  <2>1. Intended(t).step = Ramp(t.prev, NomPos(t)) BY <1>3, IntendedTypes
  <2>2. NomPos(t) \in Int /\ Size(NomPos(t)) <= Size(t.nom) BY NomPosType
  <2>3. Size(NomPos(t)) <= Speed
    <3>1. Size(NomPos(t)) \in Int /\ Size(t.nom) \in Int /\ Speed \in Int
      BY <1>1, <2>2, Sizes, Constants
    <3> QED BY <3>1, <2>2
  <2> QED BY <1>1, <2>1, <2>2, <2>3, RampBound
<1> QED BY <1>1, <1>2, <1>3

LEMMA IntendedWay ==
    ASSUME NEW t \in TrajState, Size(t.prev) <= Step, Size(t.nom) <= Speed
    PROVE  Size(Intended(t).to - t.local) <= Step
<1>1. Size(Intended(t).step) <= Step BY IntendedBound
<1>2. t.local \in Int /\ t.target \in Int /\ t.mode \in {"pos", "vel"} BY DEF TrajState
<1>3. Intended(t).step \in Int BY IntendedTypes
<1>4. CASE t.mode = "vel"
  <2>1. Intended(t).to = t.local + Intended(t).step BY <1>4, IntendedTypes
  <2>2. Intended(t).to - t.local = Intended(t).step BY <1>2, <1>3, <2>1
  <2> QED BY <1>1, <2>2
<1>5. CASE t.mode = "pos" /\ Arrives(t)
  <2>1. Intended(t).to = t.target BY <1>5, IntendedTypes
  <2>2. Size(t.target - t.local) <= 3 * DEC BY <1>5 DEF Arrives
  <2>3. 3 * DEC <= Step /\ Step \in Int /\ DEC \in Int /\ Size(t.target - t.local) \in Int
    BY <1>2, Sizes, Constants
  <2> QED BY <2>1, <2>2, <2>3
<1>6. CASE t.mode = "pos" /\ ~Arrives(t)
  <2>1. Intended(t).to = t.local + Intended(t).step BY <1>6, IntendedTypes
  <2>2. Intended(t).to - t.local = Intended(t).step BY <1>2, <1>3, <2>1
  <2> QED BY <1>1, <2>2
<1> QED BY <1>2, <1>4, <1>5, <1>6

LEMMA LeftBound ==
    ASSUME NEW t \in TrajState, Size(t.prev) <= Step, NEW stop, stop # "emergency"
    PROVE  /\ Left(t, stop) \in Int
           /\ Size(Sign(t.prev) * Left(t, stop)) <= Step
<1>1. t.prev \in Int BY DEF TrajState
<1> DEFINE p == t.prev
<1>2. p \in Int /\ Size(p) \in Nat /\ Size(p) <= Step /\ DEC \in Nat /\ Step \in Nat /\ 3 * DEC <= Step
  BY <1>1, Sizes, Constants
<1>3. Left(t, stop) = Size(p) - DEC BY DEF Left
<1> HIDE DEF p
<1> DEFINE left == Left(t, stop)
<1>4. left \in Int /\ -Step <= left /\ left <= Step BY <1>2, <1>3
<1> HIDE DEF left
<1>5. Sign(p) \in {-1, 0, 1} BY DEF Sign
<1>6. CASE Sign(p) = 1
  <2>1. Sign(p) * left = left BY <1>4, <1>6
  <2> QED BY <1>2, <1>4, <2>1 DEF Size, left, p
<1>7. CASE Sign(p) = -1
  <2>1. Sign(p) * left = -left BY <1>4, <1>7
  <2> QED BY <1>2, <1>4, <2>1 DEF Size, left, p
<1>8. CASE Sign(p) = 0
  <2>1. Sign(p) * left = 0 BY <1>4, <1>8
  <2> QED BY <1>2, <1>4, <2>1 DEF Size, left, p
<1> QED BY <1>5, <1>6, <1>7, <1>8

\* A step of the generator that moves.
LEMMA MovesBound ==
    ASSUME NEW t \in TrajState, Size(t.prev) <= Step, Size(t.nom) <= Speed,
           NEW locks, locks.stop # "emergency", NEW ext \in BOOLEAN,
           NEW u, u = InternalTraj(t, locks, ext)
    PROVE  Size(u.prev) <= Step /\ Size(u.local - t.local) <= Step
<1> DEFINE stop == locks.stop
<1>1. Size(Intended(t).step) <= Step BY IntendedBound
<1>2. Size(Intended(t).to - t.local) <= Step BY IntendedWay
<1>3. Left(t, stop) \in Int /\ Size(Sign(t.prev) * Left(t, stop)) <= Step BY LeftBound
<1>4. t.local \in Int /\ t.prev \in Int BY DEF TrajState
<1>5. CASE ~Blocked(t, locks, ext)
  <2>1. u.local = Intended(t).to /\ u.prev = Intended(t).step BY <1>5, FreeStep
  <2> QED BY <1>1, <1>2, <2>1
<1>6. CASE Blocked(t, locks, ext)
  <2>1. u.prev = IF t.prev = 0 THEN Intended(t).step ELSE Sign(t.prev) * Left(t, stop)
    BY <1>6, BlockedStep
  <2>2. Size(u.prev) <= Step BY <1>1, <1>3, <2>1
  <2>3. CASE Ends(t, stop)
    <3>1. u.local = t.local BY <1>6, <2>3, BlockedStep
    <3>2. u.local - t.local = 0 BY <1>4, <3>1
    <3>3. Size(0) <= Step BY Sizes DEF Size
    <3> QED BY <2>2, <3>2, <3>3
  <2>4. CASE ~Ends(t, stop)
    <3> DEFINE way == Sign(t.prev) * Left(t, stop)
    <3>1. u.local = t.local + way BY <1>6, <2>4, BlockedGoesOn
    <3>2. way \in Int
      <4>1. Sign(t.prev) \in Int BY DEF Sign
      <4> QED BY <4>1, <1>3
    <3>3. Size(way) <= Step BY <1>3
    <3> HIDE DEF way
    <3>4. u.local - t.local = way BY <1>4, <3>1, <3>2
    <3> QED BY <2>2, <3>3, <3>4
  <2> QED BY <2>3, <2>4
<1> QED BY <1>5, <1>6

\* The interlocks of this axis do not ask for an emergency stop.
LEMMA NoEmergency ==
    ASSUME NEW flags, flags \subseteq AxisFlags
    PROVE  Summary(flags).stop # "emergency"
<1>1. ~AnyOf(flags, EmergencyFlags) BY DEF AnyOf, EmergencyFlags, AxisFlags
<1> QED BY <1>1 DEF Summary

\* A cycle of the generator of an axis with its own setpoint.
Stepped(t, u) ==
    /\ Bounded(u) /\ (u.busy => t.busy)
    /\ Size(u.local - t.local) <= Step
    /\ t.pos = t.local => u.pos = u.local

LEMMA GeneratorSmooth ==
    ASSUME NEW t \in TrajState, Bounded(t), NEW flags, flags \subseteq AxisFlags,
           NEW u, u = GetNextPosSet(t, Summary(flags), FALSE)
    PROVE  Stepped(t, u)
<1> DEFINE ext == FALSE
<1> DEFINE locks == Summary(flags)
<1>1. ext \in BOOLEAN /\ u = GetNextPosSet(t, locks, ext) OBVIOUS
<1>2. locks.stop # "emergency" BY NoEmergency
<1>3. t.local \in Int BY DEF TrajState
<1> HIDE DEF ext, locks
<1>4. CASE ~Moves(t)
  <2>1. Stood(t, u) BY Zenon, <1>1, <1>4, GeneratorStands
  <2>2. /\ u.prev = t.prev /\ u.vel = t.vel /\ u.nom = t.nom /\ (u.busy => t.busy)
        /\ u.pos = t.pos /\ u.local = t.local
    BY <2>1 DEF Stood
  <2>3. Bounded(u) BY <2>2, BoundedSame
  <2>a. u.local = t.local BY <2>2
  <2>b. \A x \in Int : x - x = 0 OBVIOUS
  <2>4. u.local - t.local = 0 BY Zenon, <1>3, <2>a, <2>b
  <2>5. Size(0) <= Step BY Sizes DEF Size
  <2>6. Size(u.local - t.local) <= Step BY <2>4, <2>5
  <2> QED BY <2>2, <2>3, <2>6 DEF Stepped
<1>5. CASE Moves(t)
  <2>1. u = InternalTraj(t, locks, ext) /\ Ran(t, u) BY Zenon, <1>1, <1>5, GeneratorMoves
  <2>2. u.vel = t.vel /\ u.nom = t.nom /\ u.pos = u.local BY <2>1 DEF Ran
  <2>3. t.busy BY <1>5 DEF Moves
  <2>4. Size(t.prev) <= Step /\ Size(t.nom) <= Speed BY <2>3 DEF Bounded
  <2>5. Size(u.prev) <= Step /\ Size(u.local - t.local) <= Step
    BY Zenon, <1>1, <1>2, <2>1, <2>4, MovesBound
  <2>6. Bounded(u) BY <2>2, <2>4, <2>5 DEF Bounded
  <2> QED BY <2>2, <2>3, <2>5, <2>6 DEF Stepped
<1> QED BY <1>4, <1>5

\* What is even survives the start-up.
Roused(a, p) ==
    /\ p \in AxisState /\ p.source = a.source /\ p.actual = a.actual /\ p.out = a.out
    /\ p.velocity = a.velocity /\ p.ramping = a.ramping /\ Bounded(p.traj)
    /\ Flagged(p.flags, p.actual)
    /\ p.traj.busy => Internal(p) /\ p.enable
    /\ p.enable => p = a

LEMMA EvenAwake ==
    ASSUME NEW a \in AxisState, NEW e, NEW late, Even(a, e, late), NEW p, Awake(a, p)
    PROVE  Roused(a, p)
<1>1. /\ p \in AxisState /\ p.source = a.source /\ p.actual = a.actual /\ p.out = a.out
      /\ p.velocity = a.velocity /\ p.ramping = a.ramping /\ p.flags \subseteq a.flags
  BY DEF Awake, Woken
<1>2. /\ Bounded(a.traj) /\ Flagged(a.flags, a.actual)
      /\ a.traj.busy => Internal(a) /\ a.enable
  BY Zenon DEF Even
<1>3. Flagged(p.flags, p.actual) BY <1>1, <1>2 DEF Flagged
<1>4. p.enable => p = a BY DEF Awake
<1>5. \/ p.traj = a.traj /\ p.enable = a.enable
      \/ \E own : Rested(a.traj, p.traj, own)
  BY Zenon DEF Awake
<1>6. /\ p.traj.prev = a.traj.prev /\ p.traj.vel = a.traj.vel /\ p.traj.nom = a.traj.nom
      /\ p.traj.busy => a.traj.busy /\ p.enable = a.enable
  BY <1>5 DEF Rested
<1>7. Bounded(p.traj) BY <1>2, <1>6, BoundedSame
<1>8. p.traj.busy => Internal(p) /\ p.enable BY <1>1, <1>2, <1>6 DEF Internal
<1> QED BY <1>1, <1>3, <1>4, <1>7, <1>8 DEF Roused

LEMMA FlaggedCycle ==
    ASSUME NEW a, NEW p, Roused(a, p), NEW r, NEW enabled, Finished(p, r, enabled)
    PROVE  Flagged(r.flags, r.actual)
<1>1. p \in AxisState /\ Flagged(p.flags, p.actual) BY DEF Roused
<1>2. p.actual \in Int /\ p.out \in Int BY <1>1 DEF AxisState
<1>3. r.actual = p.out BY DEF Finished
<1>4. "fwdLimit" \in r.flags =>
          r.actual >= FwdSwitch \/ ("fwdLimit" \in p.flags /\ p.out >= p.actual)
  BY Zenon DEF Finished
<1>5. "bwdLimit" \in r.flags =>
          r.actual <= BwdSwitch \/ ("bwdLimit" \in p.flags /\ p.out <= p.actual)
  BY Zenon DEF Finished
<1> DEFINE x == p.out
<1> DEFINE y == p.actual
<1> DEFINE pf == "fwdLimit" \in p.flags
<1> DEFINE pb == "bwdLimit" \in p.flags
<1> DEFINE rf == "fwdLimit" \in r.flags
<1> DEFINE rb == "bwdLimit" \in r.flags
<1>6. x \in Int /\ y \in Int /\ FwdSwitch \in Int /\ BwdSwitch \in Int BY <1>2, Constants
<1>7. (pf => y >= FwdSwitch) /\ (pb => y <= BwdSwitch) BY <1>1 DEF Flagged
<1>8. (rf => x >= FwdSwitch \/ (pf /\ x >= y)) /\ (rb => x <= BwdSwitch \/ (pb /\ x <= y))
  BY <1>3, <1>4, <1>5
<1> HIDE DEF x, y, pf, pb, rf, rb
<1>9. (rf => x >= FwdSwitch) /\ (rb => x <= BwdSwitch) BY <1>6, <1>7, <1>8
<1> QED BY <1>3, <1>9 DEF Flagged, x, rf, rb

\* A cycle of an axis with its own setpoint.
LEMMA EvenOwn ==
    ASSUME NEW a \in AxisState, NEW e, NEW late, Even(a, e, late), Internal(a),
           NEW p, Roused(a, p), NEW enabled \in BOOLEAN, NEW r, Finished(p, r, enabled),
           NEW u, NEW flags, OwnCycle(p, r, u, flags)
    PROVE  /\ Even(r, r.actual, FALSE)
           /\ GetEnabled(a) /\ GetEnabled(r) => Size(r.out - a.out) <= Step
<1> DEFINE t == p.traj
<1> DEFINE v == r.traj
<1>1. p \in AxisState /\ p.source = a.source /\ Bounded(t) /\ (t.busy => p.enable) /\ (p.enable => p = a)
      /\ p.velocity = a.velocity
  BY DEF Roused
<1>2. r \in AxisState /\ r.source = p.source /\ r.enable = p.enable /\ r.velocity = p.velocity
  BY <1>1, FinishedKeeps
<1>3. t \in TrajState BY <1>1 DEF AxisState
<1>4. Internal(r) BY <1>1, <1>2 DEF Internal
<1>5. u = GetNextPosSet(t, Summary(flags), FALSE) /\ flags \subseteq AxisFlags BY Zenon DEF OwnCycle
<1>6. Tempered(u, v) BY Zenon DEF OwnCycle
<1>7. r.enable => r.setpoint = u.pos /\ v.start = u.pos BY Zenon DEF OwnCycle
<1>8. (GetEnabled(r) => r.out = r.setpoint) /\ (~GetEnabled(r) => r.out = r.actual)
  BY Zenon DEF Finished
<1>9. Flagged(r.flags, r.actual) BY FlaggedCycle
<1>10. a.enable => At(a.traj, a.setpoint) BY Zenon DEF Even
<1>11. GetEnabled(a) => a.out = a.setpoint BY Zenon DEF Even
<1>12. Size(a.velocity) <= Speed BY Zenon DEF Even
<1> HIDE DEF t, v
<1>13. Stepped(t, u) BY Zenon, <1>1, <1>3, <1>5, GeneratorSmooth
<1>14. Bounded(u) /\ (u.busy => t.busy) /\ Size(u.local - t.local) <= Step
       /\ (t.pos = t.local => u.pos = u.local)
  BY <1>13 DEF Stepped
<1>15. v.pos = u.pos /\ v.local = u.local /\ v.prev = u.prev /\ v.vel = u.vel /\ v.nom = u.nom
       /\ (v.busy => u.busy)
  BY <1>6 DEF Tempered
<1>16. Bounded(v) BY <1>14, <1>15, BoundedSame
<1>17. v.busy => r.enable BY <1>1, <1>2, <1>14, <1>15
<1>18. r.enable => t = a.traj /\ a.enable BY <1>1, <1>2 DEF t
<1>19. r.enable => t.pos = a.setpoint /\ t.local = a.setpoint BY <1>10, <1>18 DEF At
<1>20. r.enable => At(v, r.setpoint) BY <1>7, <1>14, <1>15, <1>19 DEF At
<1>21. Size(r.velocity) <= Speed BY <1>1, <1>2, <1>12
<1>22. Even(r, r.actual, FALSE)
  BY <1>4, <1>8, <1>9, <1>16, <1>17, <1>20, <1>21 DEF Even, v
<1>23. ASSUME GetEnabled(a), GetEnabled(r) PROVE Size(r.out - a.out) <= Step
  <2>1. r.enable BY <1>23 DEF GetEnabled
  <2>2. a.out = t.local BY <1>11, <1>19, <1>23, <2>1
  <2>3. r.out = u.local BY <1>7, <1>8, <1>14, <1>19, <1>23, <2>1
  <2> QED BY <1>14, <2>2, <2>3
<1> QED BY <1>22, <1>23

\* The stop ramp that takes over from a PLC ends in its first cycle: the generator
\* stays where the axis is.
LEMMA StopBound ==
    ASSUME PlcStep <= DEC, NEW c \in AxisState, ~c.traj.busy, Bounded(c.traj),
           Size(c.speed) <= PlcStep, NEW flags, flags \subseteq AxisFlags,
           NEW u, u = GetNextPosSet(StopFrom(c), Summary(flags), TRUE)
    PROVE  /\ Bounded(u) /\ ~u.busy
           /\ c.ramping => u.pos = c.traj.pos
           /\ ~c.ramping => u.pos = c.actual
<1> DEFINE ext == TRUE
<1> DEFINE locks == Summary(flags)
<1> DEFINE s == StopFrom(c)
<1> DEFINE t == c.traj
<1> DEFINE v == c.speed
<1> DEFINE x == c.actual
<1>1. ext \in BOOLEAN /\ ext /\ u = GetNextPosSet(s, locks, ext) OBVIOUS
<1>2. locks.stop # "emergency" BY NoEmergency
<1>3. t \in TrajState /\ v \in Int /\ x \in Int BY DEF AxisState
<1>4. s \in TrajState BY StopFromType
<1>5. (c.ramping => s = t) /\ (~c.ramping => s = InitStopRamp([t EXCEPT !.start = x], x, v))
  BY DEF StopFrom
<1>6. Bounded(t) /\ ~t.busy /\ Size(v) <= PlcStep OBVIOUS
<1> HIDE DEF ext, locks, s, t, v, x
<1>7. CASE c.ramping
  <2>1. s = t BY <1>5, <1>7
  <2>2. ~Moves(s) BY <1>6, <2>1 DEF Moves
  <2>3. Stood(s, u) BY Zenon, <1>1, <1>4, <2>2, GeneratorStands
  <2>4. /\ u.prev = t.prev /\ u.vel = t.vel /\ u.nom = t.nom /\ (u.busy => t.busy)
        /\ u.pos = t.pos
    BY <2>1, <2>3 DEF Stood
  <2>5. Bounded(u) BY <1>6, <2>4, BoundedSame
  <2> QED BY <1>6, <1>7, <2>4, <2>5 DEF t
<1>8. CASE ~c.ramping
  <2>1. s = InitStopRamp([t EXCEPT !.start = x], x, v) BY <1>5, <1>8
  <2>2. /\ s.enable /\ s.busy /\ s.local = x /\ s.prev = v /\ s.nom = Size(v) /\ s.vel = t.vel
    BY <1>3, <2>1, StopRampFields
  <2>3. Moves(s) BY <2>2 DEF Moves
  <2>4. u = InternalTraj(s, locks, ext) /\ Ran(s, u) BY Zenon, <1>1, <1>4, <2>3, GeneratorMoves
  <2>5. u.vel = t.vel /\ u.pos = u.local BY <2>2, <2>4 DEF Ran
  <2>6. Blocked(s, locks, ext) BY <1>1 DEF Blocked
  <2>7. Ends(s, locks.stop)
    <3>1. Left(s, locks.stop) = Size(v) - DEC BY <1>2, <2>2 DEF Left
    <3>2. Size(v) \in Nat /\ DEC \in Nat /\ PlcStep \in Nat BY <1>3, Sizes, Constants
    <3>3. Left(s, locks.stop) <= 0 BY <1>6, <3>1, <3>2
    <3> QED BY <3>3 DEF Ends
  <2>a. Halted(s, u) BY Zenon, <1>1, <1>4, <2>4, <2>6, <2>7, BlockedEnds
  <2>8. ~u.busy /\ u.local = s.local BY <2>a DEF Halted
  <2>9. u.prev = IF s.prev = 0 THEN Intended(s).step ELSE Sign(s.prev) * Left(s, locks.stop)
    BY <1>1, <1>4, <2>4, <2>6, BlockedStep
  <2>10. Size(s.prev) <= Step
    <3>1. Size(v) \in Nat /\ DEC \in Nat /\ PlcStep \in Nat /\ Step \in Nat /\ 3 * DEC <= Step
      BY <1>3, Sizes, Constants
    <3>2. Size(v) <= Step BY <1>6, <3>1
    <3> QED BY <2>2, <3>2
  <2>11. Size(u.prev) <= Step
    <3>1. CASE s.prev = 0
      <4>1. Size(v) = 0 BY <2>2, <3>1 DEF Size
      <4>2. s.nom = 0 BY <2>2, <4>1
      <4>3. Size(s.nom) <= Speed BY <4>2, Constants DEF Size
      <4>4. Size(Intended(s).step) <= Step BY <1>4, <2>10, <4>3, IntendedBound
      <4> QED BY <2>9, <3>1, <4>4
    <3>2. CASE s.prev # 0
      <4>1. Size(Sign(s.prev) * Left(s, locks.stop)) <= Step BY <1>2, <1>4, <2>10, LeftBound
      <4> QED BY <2>9, <3>2, <4>1
    <3> QED BY <3>1, <3>2
  <2>12. Bounded(u) BY <1>6, <2>5, <2>8, <2>11 DEF Bounded
  <2>13. u.pos = x BY <2>2, <2>5, <2>8
  <2> QED BY <1>8, <2>8, <2>12, <2>13 DEF x
<1> QED BY <1>7, <1>8

\* When the stop ramp has control: o is where the drive is and x the setpoint.
Held(o, x, e) == (o >= FwdSwitch /\ e > x) \/ (o <= BwdSwitch /\ e < x)

LEMMA LocksOfSwitches ==
    ASSUME NEW flags, flags \subseteq {"fwdLimit", "bwdLimit"}
    PROVE  /\ Summary(flags).fwd <=> "fwdLimit" \in flags
           /\ Summary(flags).bwd <=> "bwdLimit" \in flags
<1>1. AnyOf(flags, DriveFlags \cup TrajFlags \cup FwdFlags) <=> "fwdLimit" \in flags
  BY DEF AnyOf, DriveFlags, TrajFlags, FwdFlags
<1>2. AnyOf(flags, DriveFlags \cup TrajFlags \cup BwdFlags) <=> "bwdLimit" \in flags
  BY DEF AnyOf, DriveFlags, TrajFlags, BwdFlags
<1> QED BY <1>1, <1>2 DEF Summary

LEMMA LockedMeans ==
    ASSUME NEW c, ~Internal(c), c.setpoint = external, c.flags \subseteq {"fwdLimit", "bwdLimit"},
           "fwdLimit" \in c.flags <=> c.actual >= FwdSwitch,
           "bwdLimit" \in c.flags <=> c.actual <= BwdSwitch
    PROVE  Locked(c) <=> Held(c.actual, axis.setpoint, external)
<1>1. /\ Summary(c.flags).fwd <=> "fwdLimit" \in c.flags
      /\ Summary(c.flags).bwd <=> "bwdLimit" \in c.flags
  BY LocksOfSwitches
<1> QED BY <1>1 DEF Locked, TrajLock, Held

\* Where the setpoint goes while the PLC has control: o is where the drive is, x the
\* setpoint, e that of the PLC and pos that of the stop ramp, before and after.
PlcCycle(o, x, e, y, pos, on, ramping) ==
    /\ Held(o, x, e) /\ ramping => y = pos
    /\ Held(o, x, e) /\ ~ramping => y = o
    /\ ~Held(o, x, e) => y = e
    /\ on => o = x /\ Tracked(x, e)
    /\ ~on => e = o
    /\ ramping => pos = x /\ (~on => x = o)

PlcResult(o, x, e, y, f) == Near(o, y) /\ Tracked(y, f) /\ (Held(o, x, e) => y = o)

LEMMA PlcFollowed ==
    ASSUME NEW o \in Int, NEW x \in Int, NEW e \in Int, NEW y, NEW f \in Int, NEW pos,
           NEW on, NEW ramping, PlcCycle(o, x, e, y, pos, on, ramping), Near(e, f)
    PROVE  PlcResult(o, x, e, y, f)
<1>a. /\ Held(o, x, e) /\ ramping => y = pos
      /\ Held(o, x, e) /\ ~ramping => y = o
      /\ ~Held(o, x, e) => y = e
      /\ on => o = x /\ Tracked(x, e)
      /\ ~on => e = o
      /\ ramping => pos = x /\ (~on => x = o)
  BY Zenon DEF PlcCycle
<1> SUFFICES Near(o, y) /\ Tracked(y, f) /\ (Held(o, x, e) => y = o) BY Zenon DEF PlcResult
<1>0. FwdSwitch \in Int /\ BwdSwitch \in Int /\ PlcStep \in Nat BY Constants
<1>1. CASE Held(o, x, e)
  <2>1. y = o BY <1>a, <1>1
  <2>2. Near(o, o) BY NearSelf
  <2>3. CASE on
    <3>1. (o >= FwdSwitch /\ e > o) \/ (o <= BwdSwitch /\ e < o) BY <1>a, <1>1, <2>3 DEF Held
    <3>2. Tracked(o, f) BY <1>0, <3>1 DEF Near, Tracked, Size
    <3> QED BY <2>1, <2>2, <3>2
  <2>4. CASE ~on
    <3>1. e = o BY <1>a, <2>4
    <3> QED BY <2>1, <2>2, <3>1 DEF Tracked
  <2> QED BY <2>3, <2>4
<1>2. CASE ~Held(o, x, e)
  <2>1. y = e BY <1>a, <1>2
  <2>2. Near(o, e)
    <3>1. CASE on BY <1>a, <1>0, <1>2, <3>1 DEF Tracked, Held
    <3>2. CASE ~on BY <1>a, <3>2, NearSelf
    <3> QED BY <3>1, <3>2
  <2> QED BY <1>2, <2>1, <2>2 DEF Tracked
<1> QED BY <1>1, <1>2

\* The limit switches of an axis with an external setpoint.
LEMMA SwitchesExternal ==
    ASSUME NEW a, NEW p, Roused(a, p), NEW r, NEW c, NEW u, ExternalCycle(p, r, c, u)
    PROVE  /\ "fwdLimit" \in c.flags <=> c.actual >= FwdSwitch
           /\ "bwdLimit" \in c.flags <=> c.actual <= BwdSwitch
<1>1. p \in AxisState /\ Flagged(p.flags, p.actual) BY DEF Roused
<1>2. p.actual \in Int /\ p.out \in Int BY <1>1 DEF AxisState
<1>3. /\ c.actual = p.out
      /\ c.actual >= FwdSwitch => "fwdLimit" \in c.flags
      /\ c.actual <= BwdSwitch => "bwdLimit" \in c.flags
  BY Zenon DEF ExternalCycle
<1>4. "fwdLimit" \in c.flags =>
          c.actual >= FwdSwitch \/ ("fwdLimit" \in p.flags /\ p.out >= p.actual)
  BY Zenon DEF ExternalCycle
<1>5. "bwdLimit" \in c.flags =>
          c.actual <= BwdSwitch \/ ("bwdLimit" \in p.flags /\ p.out <= p.actual)
  BY Zenon DEF ExternalCycle
<1> DEFINE x == p.out
<1> DEFINE y == p.actual
<1> DEFINE pf == "fwdLimit" \in p.flags
<1> DEFINE pb == "bwdLimit" \in p.flags
<1> DEFINE cf == "fwdLimit" \in c.flags
<1> DEFINE cb == "bwdLimit" \in c.flags
<1>6. x \in Int /\ y \in Int /\ FwdSwitch \in Int /\ BwdSwitch \in Int BY <1>2, Constants
<1>7. (pf => y >= FwdSwitch) /\ (pb => y <= BwdSwitch) BY <1>1 DEF Flagged
<1>8. (cf => x >= FwdSwitch \/ (pf /\ x >= y)) /\ (cb => x <= BwdSwitch \/ (pb /\ x <= y))
  BY <1>3, <1>4, <1>5
<1> HIDE DEF x, y, pf, pb, cf, cb
<1>9. (cf => x >= FwdSwitch) /\ (cb => x <= BwdSwitch) BY <1>6, <1>7, <1>8
<1> QED BY <1>3, <1>9 DEF x, cf, cb

\* The generator of an axis with an external setpoint.
LEMMA StopExternal ==
    ASSUME PlcStep <= DEC, NEW a \in AxisState, ~Internal(a), Near(a.actual, a.out),
           NEW p, Roused(a, p), NEW r, NEW c, NEW u, ExternalCycle(p, r, c, u)
    PROVE  /\ Bounded(r.traj) /\ ~r.traj.busy
           /\ Locked(c) /\ a.ramping => r.traj.pos = p.traj.pos /\ u.pos = p.traj.pos
           /\ Locked(c) /\ ~a.ramping => r.traj.pos = a.out /\ u.pos = a.out
<1>1. /\ p \in AxisState /\ p.source = a.source /\ p.actual = a.actual /\ p.out = a.out
      /\ p.ramping = a.ramping /\ Bounded(p.traj) /\ (p.traj.busy => Internal(p))
  BY DEF Roused
<1>2. c \in AxisState /\ c.actual = p.out /\ c.speed = p.out - p.actual /\ c.ramping = p.ramping
  BY Zenon DEF ExternalCycle
<1>3. Tempered(p.traj, c.traj) /\ Tempered(u, r.traj) BY Zenon DEF ExternalCycle
<1>4. ~Locked(c) => u = c.traj BY Zenon DEF ExternalCycle
<1> DEFINE flags == c.flags
<1>5. Locked(c) => u = GetNextPosSet(StopFrom(c), Summary(flags), TRUE) BY Zenon DEF ExternalCycle
<1>6. flags \subseteq AxisFlags
  <2>1. flags \subseteq {"fwdLimit", "bwdLimit"} BY Zenon DEF ExternalCycle
  <2> QED BY <2>1 DEF AxisFlags
<1> HIDE DEF flags
<1>7. /\ c.traj.prev = p.traj.prev /\ c.traj.vel = p.traj.vel /\ c.traj.nom = p.traj.nom
      /\ (c.traj.busy => p.traj.busy) /\ c.traj.pos = p.traj.pos
  BY <1>3 DEF Tempered
<1>8. Bounded(c.traj) BY <1>1, <1>7, BoundedSame
<1>9. ~c.traj.busy BY <1>1, <1>7 DEF Internal
<1>10. Size(c.speed) <= PlcStep BY <1>1, <1>2 DEF Near
<1>11. Locked(c) => /\ Bounded(u) /\ ~u.busy
                    /\ c.ramping => u.pos = c.traj.pos
                    /\ ~c.ramping => u.pos = c.actual
  BY <1>2, <1>5, <1>6, <1>8, <1>9, <1>10, StopBound
<1>12. Bounded(u) /\ ~u.busy BY <1>4, <1>8, <1>9, <1>11
<1>13. /\ r.traj.prev = u.prev /\ r.traj.vel = u.vel /\ r.traj.nom = u.nom
       /\ (r.traj.busy => u.busy) /\ r.traj.pos = u.pos
  BY <1>3 DEF Tempered
<1>14. Bounded(r.traj) BY <1>12, <1>13, BoundedSame
<1> QED BY <1>1, <1>2, <1>7, <1>11, <1>12, <1>13, <1>14

\* A cycle of an axis with an external setpoint, f is that of the PLC after it.
LEMMA EvenExternal ==
    ASSUME PlcStep <= DEC, axis \in AxisState, external \in Int, NEW late,
           Even(axis, external, late), ~Internal(axis),
           NEW p, Roused(axis, p), NEW enabled \in BOOLEAN, NEW r, Finished(p, r, enabled),
           NEW c, NEW u, ExternalCycle(p, r, c, u),
           NEW f \in Int, GetEnabled(r) => Near(external, f), ~GetEnabled(r) => f = r.actual
    PROVE  /\ Even(r, f, FALSE)
           /\ GetEnabled(axis) /\ GetEnabled(r) => Size(r.out - axis.out) <= PlcStep
<1> DEFINE o == axis.out
<1> DEFINE x == axis.setpoint
<1> DEFINE y == r.setpoint
<1> DEFINE on == GetEnabled(axis)
<1> DEFINE g == IF GetEnabled(r) THEN f ELSE external
<1>1. /\ p \in AxisState /\ p.source = axis.source /\ p.out = o /\ p.velocity = axis.velocity
      /\ (p.enable => p = axis)
  BY DEF Roused
<1>2. r \in AxisState /\ r.source = p.source /\ r.enable = p.enable /\ r.velocity = p.velocity
      /\ r.actual = p.out
  BY <1>1, FinishedKeeps
<1>3. ~Internal(r) /\ ~Internal(p) BY <1>1, <1>2 DEF Internal
<1>4. /\ c.actual = p.out /\ c.setpoint = external /\ c.flags \subseteq {"fwdLimit", "bwdLimit"}
      /\ Steady(c, r)
  BY Zenon DEF ExternalCycle
<1>5. /\ ~Locked(c) => ~r.ramping /\ (r.enable => y = external)
      /\ Locked(c) => (r.enable => y = u.pos)
  BY Zenon DEF ExternalCycle
<1>6. Near(axis.actual, o) /\ Size(axis.velocity) <= Speed BY Zenon DEF Even
<1>7. /\ Bounded(r.traj) /\ ~r.traj.busy
      /\ Locked(c) /\ axis.ramping => r.traj.pos = p.traj.pos /\ u.pos = p.traj.pos
      /\ Locked(c) /\ ~axis.ramping => r.traj.pos = o /\ u.pos = o
  BY <1>6, StopExternal
<1>8. ~Internal(c) BY <1>3, <1>4 DEF Steady, Internal
<1>9. Locked(c) <=> Held(o, x, external)
  <2>1. /\ "fwdLimit" \in c.flags <=> c.actual >= FwdSwitch
        /\ "bwdLimit" \in c.flags <=> c.actual <= BwdSwitch
    BY SwitchesExternal
  <2>2. Locked(c) <=> Held(c.actual, x, external) BY <1>4, <1>8, <2>1, LockedMeans
  <2>3. c.actual = o BY <1>1, <1>4
  <2> QED BY <2>2, <2>3
<1>10. (GetEnabled(r) => r.out = y) /\ (~GetEnabled(r) => r.out = r.actual)
  BY Zenon DEF Finished
<1>11. Flagged(r.flags, r.actual) BY FlaggedCycle
<1>12. o \in Int /\ x \in Int BY DEF AxisState
<1>13. /\ on => o = x /\ Tracked(x, external)
       /\ axis.enable /\ ~on => external = o
       /\ axis.enable /\ axis.ramping => axis.traj.pos = x /\ (~on => x = o)
  BY DEF Even, Settled
<1>14. Near(external, g) /\ g \in Int BY NearSelf
<1>15. GetEnabled(r) => r.enable BY DEF GetEnabled
<1>16. GetEnabled(r) => g = f OBVIOUS
<1>17. on => axis.enable BY DEF GetEnabled
<1> HIDE DEF o, x, y, on, g
<1>18. ASSUME r.enable
       PROVE  Near(o, y) /\ Tracked(y, g) /\ (Held(o, x, external) => y = o)
  <2> DEFINE pos == axis.traj.pos
  <2> DEFINE ramping == axis.ramping
  <2>1. p = axis /\ axis.enable BY <1>1, <1>2, <1>18
  <2>2. Held(o, x, external) /\ ramping => y = pos BY <1>5, <1>7, <1>9, <1>18, <2>1
  <2>3. Held(o, x, external) /\ ~ramping => y = o BY <1>5, <1>7, <1>9, <1>18
  <2>4. ~Held(o, x, external) => y = external BY <1>5, <1>9, <1>18
  <2>5. ramping => pos = x /\ (~on => x = o) BY <1>13, <2>1
  <2>6. ~on => external = o BY <1>13, <2>1
  <2>7. on => o = x /\ Tracked(x, external) BY <1>13
  <2>8. external \in Int OBVIOUS
  <2> HIDE DEF pos, ramping
  <2>9. PlcCycle(o, x, external, y, pos, on, ramping)
    BY Zenon, <2>2, <2>3, <2>4, <2>5, <2>6, <2>7 DEF PlcCycle
  <2>10. PlcResult(o, x, external, y, g) BY Zenon, <1>12, <1>14, <2>8, <2>9, PlcFollowed
  <2> QED BY Zenon, <2>10 DEF PlcResult
<1>19. r.actual = o BY <1>1, <1>2
<1>20. Near(r.actual, r.out)
  <2>1. CASE GetEnabled(r) BY <1>10, <1>15, <1>18, <1>19, <2>1
  <2>2. CASE ~GetEnabled(r) BY <1>10, <1>12, <1>19, <2>2, NearSelf
  <2> QED BY <2>1, <2>2
<1>21. GetEnabled(r) => Tracked(y, f) BY <1>15, <1>16, <1>18
<1>22. r.ramping /\ r.enable => r.traj.pos = y /\ y = r.actual
  <2> SUFFICES ASSUME r.ramping, r.enable PROVE r.traj.pos = y /\ y = r.actual OBVIOUS
  <2>1. Locked(c) BY <1>5
  <2>2. y = u.pos /\ y = o BY <1>5, <1>9, <1>18, <2>1
  <2>3. r.traj.pos = u.pos BY <1>7, <2>1
  <2> QED BY <1>19, <2>2, <2>3
<1>23. Size(r.velocity) <= Speed BY <1>1, <1>2, <1>6
<1>24. Even(r, f, FALSE)
  BY <1>3, <1>7, <1>10, <1>11, <1>20, <1>21, <1>22, <1>23 DEF Even, y
<1>25. GetEnabled(axis) /\ GetEnabled(r) => Size(r.out - axis.out) <= PlcStep
  BY <1>10, <1>15, <1>18 DEF Near, o
<1> QED BY <1>24, <1>25

EvenInv == Sound /\ Even(axis, external, given # 0)

LEMMA EvenInit == Init => EvenInv
<1> SUFFICES ASSUME Init PROVE EvenInv OBVIOUS
<1> DEFINE z == 0
<1>1. Sound BY SoundInit
<1>2. /\ axis.traj = Idle /\ ~axis.enable /\ axis.flags = {} /\ axis.velocity = z
      /\ axis.out = Start /\ axis.actual = Start /\ axis.source = "internal" /\ external = Start
  BY DEF Init
<1>3. ~Idle.busy /\ Idle.prev = z /\ Idle.vel = z BY DEF Idle
<1>4. Size(z) <= Speed /\ Size(z) <= Step BY Constants, Sizes DEF Size
<1> HIDE DEF z
<1>5. Bounded(Idle) BY <1>3, <1>4 DEF Bounded
<1>6. Flagged(axis.flags, axis.actual) BY <1>2 DEF Flagged
<1> DEFINE late == given # 0
<1> HIDE DEF late
<1>7. Even(axis, external, late)
  BY <1>2, <1>3, <1>4, <1>5, <1>6 DEF Even, Internal, GetEnabled
<1> QED BY <1>1, <1>7 DEF EvenInv, late

LEMMA EvenCommand ==
    ASSUME Gap <= 1, ~AllowSourceChange, EvenInv,
           CommandPosition \/ CommandVelocity \/ Stop \/ Kill \/ Enable \/ Execute \/ Source \/ Reset
    PROVE  EvenInv' /\ counter' = counter
<1>1. axis \in AxisState BY DEF EvenInv, Sound
<1>2. given < Gap /\ given' = given + 1 /\ counter' = counter /\ external' = external
      /\ Outcome(axis, axis')
  BY <1>1, CommandOutcome
<1>3. given = 0 /\ given' # 0 BY <1>2, Constants DEF EvenInv, Sound
<1>4. Even(axis, external, FALSE)
  <2>1. (given # 0) = FALSE BY <1>3
  <2> QED BY <2>1 DEF EvenInv
<1>5. Even(axis', external, TRUE) BY Zenon, <1>1, <1>2, <1>4, EvenOutcome
<1>6. Even(axis', external', given' # 0)
  <2>1. (given' # 0) = TRUE BY <1>3
  <2> QED BY <1>2, <1>5, <2>1
<1>7. Sound' BY SoundStep DEF Next, EvenInv
<1> QED BY <1>2, <1>6, <1>7 DEF EvenInv, Even, Internal, GetEnabled, Settled

\* Between two cycles the setpoint of the PLC follows the axis or moves by a step.
LEMMA PlcMoves ==
    ASSUME external \in Int, NEW r, NEW f, f \in PLCSetpoint(r)
    PROVE  /\ GetEnabled(r) /\ ~Internal(r) => Near(external, f)
           /\ ~GetEnabled(r) \/ Internal(r) => f = r.actual
<1>1. CASE ~GetEnabled(r) \/ Internal(r) BY <1>1 DEF PLCSetpoint
<1>2. CASE GetEnabled(r) /\ ~Internal(r)
  <2>1. f = external \/ f \in (external - PlcStep)..(external + PlcStep)
    BY <1>2 DEF PLCSetpoint
  <2>2. Near(external, external) BY NearSelf
  <2>3. CASE f = external BY <1>2, <2>2, <2>3
  <2>4. CASE f \in (external - PlcStep)..(external + PlcStep)
    <3>1. f \in Int /\ external - PlcStep <= f /\ f <= external + PlcStep /\ PlcStep \in Nat
      BY <2>4, Constants
    <3>2. Near(external, f) BY <3>1 DEF Near, Size
    <3> QED BY <1>2, <3>2
  <2> QED BY <2>1, <2>3, <2>4
<1> QED BY <1>1, <1>2

\* How far the position for an enabled drive goes in one cycle.
Way == IF Internal(axis) THEN Step ELSE PlcStep

LEMMA EvenCycle ==
    ASSUME PlcStep <= DEC, EvenInv, Cycle
    PROVE  /\ EvenInv'
           /\ GetEnabled(axis) /\ GetEnabled(axis') => Size(axis'.out - axis.out) <= Way
<1>1. Sound /\ axis \in AxisState /\ external \in Int /\ Even(axis, external, given # 0)
  BY DEF EvenInv, Sound
<1>2. PICK enabled \in BOOLEAN : \E p, c, flags, u : Cycled(enabled, p, c, flags, u)
  BY <1>1, CycleOpens
<1>3. PICK p : \E c, flags, u : Cycled(enabled, p, c, flags, u) BY <1>2
<1>4. PICK c : \E flags, u : Cycled(enabled, p, c, flags, u) BY <1>3
<1>5. PICK flags : \E u : Cycled(enabled, p, c, flags, u) BY <1>4
<1>6. PICK u : Cycled(enabled, p, c, flags, u) BY <1>5
<1> DEFINE r == axis'
<1> DEFINE f == external'
<1>7. Awake(axis, p) /\ Finished(p, r, enabled) BY Zenon, <1>6 DEF Cycled
<1>8. Roused(axis, p) BY Zenon, <1>1, <1>7, EvenAwake
<1>9. Sound' /\ given' = 0 /\ f \in PLCSetpoint(r) BY <1>1, CycleTypes DEF Cycle
<1>10. r \in AxisState /\ f \in Int BY <1>9 DEF Sound
<1>11. Internal(r) <=> Internal(axis)
  <2>1. p \in AxisState /\ p.source = axis.source BY <1>8 DEF Roused
  <2>2. r.source = p.source BY <1>7, <2>1, FinishedKeeps
  <2> QED BY <2>1, <2>2 DEF Internal
<1>12. Internal(axis) => OwnCycle(p, r, u, flags) BY Zenon, <1>6 DEF Cycled
<1>13. ~Internal(axis) => ExternalCycle(p, r, c, u) BY Zenon, <1>6 DEF Cycled
<1> HIDE DEF r, f
<1>14. /\ GetEnabled(r) /\ ~Internal(r) => Near(external, f)
       /\ ~GetEnabled(r) \/ Internal(r) => f = r.actual
  BY <1>1, <1>9, PlcMoves
<1>15. Even(r, f, FALSE) /\ (GetEnabled(axis) /\ GetEnabled(r) => Size(r.out - axis.out) <= Way)
  <2>1. CASE Internal(axis)
    <3>1. OwnCycle(p, r, u, flags) BY <1>12, <2>1
    <3>2. /\ Even(r, r.actual, FALSE)
          /\ GetEnabled(axis) /\ GetEnabled(r) => Size(r.out - axis.out) <= Step
      BY Zenon, <1>1, <1>7, <1>8, <2>1, <3>1, EvenOwn
    <3>3. f = r.actual BY <1>11, <1>14, <2>1
    <3> QED BY <2>1, <3>2, <3>3 DEF Way
  <2>2. CASE ~Internal(axis)
    <3>1. ExternalCycle(p, r, c, u) BY <1>13, <2>2
    <3>2. (GetEnabled(r) => Near(external, f)) /\ (~GetEnabled(r) => f = r.actual)
      BY <1>11, <1>14, <2>2
    <3>3. /\ Even(r, f, FALSE)
          /\ GetEnabled(axis) /\ GetEnabled(r) => Size(r.out - axis.out) <= PlcStep
      BY Zenon, <1>1, <1>7, <1>8, <1>10, <2>2, <3>1, <3>2, EvenExternal
    <3> QED BY <2>2, <3>3 DEF Way
  <2> QED BY <2>1, <2>2
<1>16. Even(axis', external', FALSE) BY <1>15 DEF r, f
<1>17. Even(axis', external', given' # 0)
  <2>1. (given' # 0) = FALSE BY <1>9
  <2> QED BY <1>16, <2>1
<1>18. EvenInv' BY <1>9, <1>17 DEF EvenInv, Even, Internal, GetEnabled, Settled
<1> QED BY <1>15, <1>18 DEF r

LEMMA EvenStep ==
    ASSUME Gap <= 1, ~AllowSourceChange, PlcStep <= DEC, EvenInv, [Next]_vars
    PROVE  /\ EvenInv'
           /\ [counter' # counter /\ GetEnabled(axis) /\ GetEnabled(axis')
                 => Size(axis'.out - axis.out) <= (IF Internal(axis) THEN Step ELSE PlcStep)]_vars
<1>1. CASE Cycle
  <2>1. EvenInv' BY <1>1, EvenCycle
  <2>2. GetEnabled(axis) /\ GetEnabled(axis') => Size(axis'.out - axis.out) <= Way
    BY <1>1, EvenCycle
  <2> QED BY <2>1, <2>2 DEF Way
<1>2. CASE CommandPosition \/ CommandVelocity \/ Stop \/ Kill \/ Enable \/ Execute \/ Source \/ Reset
  BY <1>2, EvenCommand
<1>3. CASE UNCHANGED vars
  <2>1. axis' = axis /\ external' = external /\ given' = given /\ counter' = counter
    BY <1>3 DEF vars
  <2>2. Sound' BY <1>3, SoundStep DEF EvenInv
  <2>3. Even(axis, external, given # 0)' BY <2>1 DEF EvenInv, Even, Internal, GetEnabled, Settled
  <2> QED BY <1>3, <2>2, <2>3 DEF EvenInv
<1> QED BY <1>1, <1>2, <1>3 DEF Next

\* The position for an enabled drive changes by no more than a step of a motion, and by
\* no more than a step of the PLC while the setpoint is external, for every travel,
\* velocity and ramp, when the PLC moves by no more than a stop ramp ends in one cycle,
\* with at most one command between two cycles and a source that changes while the axis
\* is disabled.
THEOREM SmoothCorrect ==
    ASSUME Gap <= 1, ~AllowSourceChange, PlcStep <= DEC
    PROVE  Spec => Smooth
<1>1. Init => EvenInv BY EvenInit
<1>2. EvenInv /\ [Next]_vars => EvenInv' BY EvenStep
<1>3. EvenInv /\ [Next]_vars
        => [counter' # counter /\ GetEnabled(axis) /\ GetEnabled(axis')
              => Size(axis'.out - axis.out) <= (IF Internal(axis) THEN Step ELSE PlcStep)]_vars
  BY EvenStep
<1> QED BY <1>1, <1>2, <1>3, PTL DEF Spec, Smooth

(***************************************************************************)
(* How far past a limit switch.  Both sides of the axis are seen alike:    *)
(* Side tells how far the setpoint is when its switch is still closed, and *)
(* after it has opened; Eases what a step of the generator does to it.     *)
(***************************************************************************)
\* However long the ramp down from the step p goes on, it does not get from x past b.
Contained(x, p, b) == \A n \in Nat : 2 * x + 2 * (n * p) - DEC * (n * (n + 1)) <= 2 * b

LEMMA ContainedHere ==
    ASSUME NEW x \in Int, NEW p \in Int, NEW b \in Int, Contained(x, p, b)
    PROVE  x <= b
<1> DEFINE n == 0
<1>1. n \in Nat /\ n * p = 0 /\ n * (n + 1) = 0 OBVIOUS
<1>2. 2 * x + 2 * (n * p) - DEC * (n * (n + 1)) <= 2 * b BY <1>1 DEF Contained
<1> HIDE DEF n
<1>3. DEC * 0 = 0 BY Constants
<1>4. 2 * x + 0 - 0 <= 2 * b BY <1>1, <1>2, <1>3
<1> QED BY <1>4

\* A step of the ramp.
LEMMA ContainedNext ==
    ASSUME NEW x \in Int, NEW p \in Int, NEW b \in Int, Contained(x, p, b)
    PROVE  Contained(x + (p - DEC), p - DEC, b)
<1> DEFINE q == p - DEC
<1>1. q \in Int /\ DEC \in Int BY Constants
<1> SUFFICES ASSUME NEW n \in Nat
             PROVE  2 * (x + q) + 2 * (n * q) - DEC * (n * (n + 1)) <= 2 * b
  BY DEF Contained
<1>2. 2 * x + 2 * ((n + 1) * p) - DEC * ((n + 1) * ((n + 1) + 1)) <= 2 * b
  <2> DEFINE k == n + 1
  <2>1. k \in Nat OBVIOUS
  <2> HIDE DEF k
  <2>2. 2 * x + 2 * (k * p) - DEC * (k * (k + 1)) <= 2 * b BY <2>1 DEF Contained
  <2> QED BY <2>2 DEF k
<1> DEFINE m == n * q
<1> DEFINE d == DEC * n
<1> DEFINE e == DEC * (n * n)
<1>3. m \in Int /\ d \in Int /\ e \in Int BY <1>1
<1>4. (n + 1) * p = m + d + q + DEC BY <1>1, Z3
<1>5. DEC * ((n + 1) * ((n + 1) + 1)) = e + 3 * d + 2 * DEC BY <1>1, Z3
<1>6. DEC * (n * (n + 1)) = e + d BY <1>1, Z3
<1> HIDE DEF m, d, e, q
<1>7. 2 * x + 2 * (m + d + q + DEC) - (e + 3 * d + 2 * DEC) <= 2 * b BY <1>2, <1>4, <1>5
<1>8. 2 * (x + q) + 2 * m - (e + d) <= 2 * b BY <1>1, <1>3, <1>7
<1> QED BY <1>6, <1>8 DEF m

LEMMA ContainedMore ==
    ASSUME NEW x \in Int, NEW p \in Int, NEW b \in Int, Contained(x, p, b),
           NEW c \in Int, b <= c
    PROVE  Contained(x, p, c)
<1> SUFFICES ASSUME NEW n \in Nat
             PROVE  2 * x + 2 * (n * p) - DEC * (n * (n + 1)) <= 2 * c
  BY DEF Contained
<1> DEFINE z == 2 * x + 2 * (n * p) - DEC * (n * (n + 1))
<1>1. z \in Int /\ z <= 2 * b BY Constants DEF Contained
<1> HIDE DEF z
<1>2. z <= 2 * c BY <1>1
<1> QED BY <1>2 DEF z

\* A step that the ramp takes back at once, and one of two.
LEMMA ContainedShort ==
    ASSUME NEW x \in Int, NEW p \in Int, NEW b \in Int
    PROVE  /\ x <= b /\ p <= DEC => Contained(x, p, b)
           /\ x + DEC <= b /\ p <= 2 * DEC => Contained(x, p, b)
<1>0. DEC \in Nat \ {0} BY Constants
<1>1. ASSUME NEW n \in Nat
      PROVE  /\ p <= DEC => 2 * (n * p) - DEC * (n * (n + 1)) <= 0
             /\ p <= 2 * DEC => 2 * (n * p) - DEC * (n * (n + 1)) <= 2 * DEC
  <2> DEFINE m == n * p
  <2> DEFINE d == n * DEC
  <2> DEFINE e == DEC * (n * n)
  <2>1. m \in Int /\ d \in Nat /\ e \in Nat BY <1>0
  <2>2. DEC * (n * (n + 1)) = e + d BY <1>0, Z3
  <2>3. p <= DEC => m <= d BY <1>0, Z3
  <2>4. p <= 2 * DEC => m <= 2 * d BY <1>0, Z3
  <2>5. d <= e
    <3>1. n <= n * n BY Z3
    <3> QED BY <1>0, <3>1, Z3
  <2>6. 3 * d <= e + 2 * DEC
    <3>1. 3 * n <= n * n + 2
      <4>1. CASE n = 0 \/ n = 1 \/ n = 2 BY <4>1
      <4>2. CASE n >= 3 
        <5>1. (n - 3) * n >= 0 BY <4>2, Z3
        <5> QED BY <5>1, Z3
      <4> QED BY <4>1, <4>2
    <3>2. DEC * (3 * n) <= DEC * (n * n + 2) BY <1>0, <3>1, Z3
    <3> QED BY <1>0, <3>2, Z3
  <2> HIDE DEF m, d, e
  <2>7. p <= DEC => 2 * m - (e + d) <= 0 BY <2>1, <2>3, <2>5
  <2>8. p <= 2 * DEC => 2 * m - (e + d) <= 2 * DEC BY <1>0, <2>1, <2>4, <2>6
  <2> QED BY <2>2, <2>7, <2>8 DEF m
<1>2. ASSUME NEW n \in Nat PROVE 2 * (n * p) - DEC * (n * (n + 1)) \in Int BY <1>0
<1>3. ASSUME x <= b, p <= DEC PROVE Contained(x, p, b)
  <2> SUFFICES ASSUME NEW n \in Nat
               PROVE  2 * x + 2 * (n * p) - DEC * (n * (n + 1)) <= 2 * b
    BY DEF Contained
  <2> DEFINE z == 2 * (n * p) - DEC * (n * (n + 1))
  <2>1. z \in Int /\ z <= 0 BY <1>1, <1>2, <1>3
  <2>2. 2 * x + 2 * (n * p) - DEC * (n * (n + 1)) = 2 * x + z BY <1>0
  <2> HIDE DEF z
  <2> QED BY <1>3, <2>1, <2>2
<1>4. ASSUME x + DEC <= b, p <= 2 * DEC PROVE Contained(x, p, b)
  <2> SUFFICES ASSUME NEW n \in Nat
               PROVE  2 * x + 2 * (n * p) - DEC * (n * (n + 1)) <= 2 * b
    BY DEF Contained
  <2> DEFINE z == 2 * (n * p) - DEC * (n * (n + 1))
  <2>1. z \in Int /\ z <= 2 * DEC BY <1>1, <1>2, <1>4
  <2>2. 2 * x + 2 * (n * p) - DEC * (n * (n + 1)) = 2 * x + z BY <1>0
  <2> HIDE DEF z
  <2> QED BY <1>0, <1>4, <2>1, <2>2
<1> QED BY <1>3, <1>4

LEMMA Halves ==
    ASSUME NEW k \in Nat
    PROVE  (k * (k + 1)) \div 2 \in Int /\ 2 * ((k * (k + 1)) \div 2) = k * (k + 1)
<1> DEFINE j == k \div 2
<1>1. j \in Nat /\ (k = 2 * j \/ k = 2 * j + 1) OBVIOUS
<1> HIDE DEF j
<1>2. PICK z \in Nat : k * (k + 1) = 2 * z
  <2>1. CASE k = 2 * j
    <3> DEFINE z == j * (2 * j + 1)
    <3>1. z \in Nat BY <1>1
    <3>2. k * (k + 1) = 2 * z BY <1>1, <2>1, Z3
    <3> QED BY <3>1, <3>2
  <2>2. CASE k = 2 * j + 1
    <3> DEFINE z == (2 * j + 1) * (j + 1)
    <3>1. z \in Nat BY <1>1
    <3>2. k * (k + 1) = 2 * z BY <1>1, <2>2, Z3
    <3> QED BY <3>1, <3>2
  <2> QED BY <1>1, <2>1, <2>2
<1> DEFINE y == k * (k + 1)
<1>3. y = 2 * z BY <1>2
<1> HIDE DEF y
<1>4. y \div 2 = z BY <1>3
<1>5. 2 * (y \div 2) = y /\ y \div 2 \in Int BY <1>3, <1>4
<1> QED BY <1>5 DEF y

\* From the largest step the ramp goes no further than RampDown.
LEMMA RampDownMost ==
    /\ Ramps \in Nat /\ RampDown \in Nat
    /\ \A n \in Nat : 2 * (n * Top) - DEC * (n * (n + 1)) <= 2 * RampDown
<1> DEFINE k == Ramps
<1> DEFINE half == (k * (k + 1)) \div 2
<1>0. DEC \in Nat \ {0} /\ Top \in Nat \ {0} BY Constants, Sizes
<1>1. k \in Nat /\ k * DEC <= Top - 1 /\ Top <= (k + 1) * DEC
  <2> DEFINE t == Top - 1
  <2>1. t \in Nat /\ k = t \div DEC BY <1>0 DEF Ramps
  <2> HIDE DEF t, k
  <2>2. k \in Nat /\ k * DEC <= t /\ t < (k + 1) * DEC BY <1>0, <2>1, Z3
  <2> QED BY <1>0, <2>2 DEF t
<1>2. half \in Int /\ 2 * half = k * (k + 1) BY <1>1, Halves
<1>3. RampDown = k * Top - DEC * half BY DEF RampDown
<1> HIDE DEF k, half
<1>4. RampDown \in Int /\ 2 * RampDown = 2 * (k * Top) - DEC * (k * (k + 1))
  <2>1. RampDown \in Int BY <1>0, <1>1, <1>2, <1>3
  <2>2. 2 * RampDown = 2 * (k * Top) - DEC * (2 * half) BY <1>0, <1>1, <1>2, <1>3, Z3
  <2> QED BY <1>2, <2>1, <2>2
<1>5. ASSUME NEW n \in Nat
      PROVE  2 * (n * Top) - DEC * (n * (n + 1)) <= 2 * (k * Top) - DEC * (k * (k + 1))
  <2> DEFINE g == 2 * Top - DEC * (k + n + 1)
  <2>1. 2 * (k * Top) - DEC * (k * (k + 1)) - (2 * (n * Top) - DEC * (n * (n + 1))) = (k - n) * g
    BY <1>0, <1>1, Z3
  <2>2. g \in Int BY <1>0, <1>1
  <2>3. (k - n) * g >= 0
    <3>1. CASE n = k BY <2>2, <3>1
    <3>2. CASE n < k
      <4>1. DEC * (k + n + 1) <= DEC * (2 * k) BY <1>0, <1>1, <3>2, Z3
      <4>2. DEC * (2 * k) = 2 * (k * DEC) BY <1>0, <1>1, Z3
      <4>3. g >= 0 BY <1>0, <1>1, <4>1, <4>2
      <4>4. k - n \in Nat BY <1>1, <3>2
      <4> HIDE DEF g
      <4> QED BY <2>2, <4>3, <4>4, Z3
    <3>3. CASE n > k
      <4>1. DEC * (k + n + 1) >= DEC * (2 * (k + 1)) BY <1>0, <1>1, <3>3, Z3
      <4>2. DEC * (2 * (k + 1)) = 2 * ((k + 1) * DEC) BY <1>0, <1>1, Z3
      <4>3. g <= 0 BY <1>0, <1>1, <4>1, <4>2
      <4>4. k - n <= 0 /\ k - n \in Int BY <1>1, <3>3
      <4> HIDE DEF g
      <4> QED BY <2>2, <4>3, <4>4, Z3
    <3> QED BY <1>1, <3>1, <3>2, <3>3
  <2> DEFINE v == 2 * (n * Top) - DEC * (n * (n + 1))
  <2> DEFINE w == 2 * (k * Top) - DEC * (k * (k + 1))
  <2> DEFINE h == (k - n) * g
  <2>4. v \in Int /\ w \in Int /\ w - v = h /\ h >= 0 BY <1>0, <1>1, <2>1, <2>3
  <2> HIDE DEF v, w, h
  <2>5. v <= w BY <2>4
  <2> QED BY <2>5 DEF v, w
<1>6. \A n \in Nat : 2 * (n * Top) - DEC * (n * (n + 1)) <= 2 * RampDown BY <1>4, <1>5
<1>7. RampDown \in Nat
  <2> DEFINE z == 0
  <2>1. z \in Nat /\ 2 * (z * Top) - DEC * (z * (z + 1)) = 0 BY <1>0
  <2>2. 2 * (z * Top) - DEC * (z * (z + 1)) <= 2 * RampDown BY <1>6, <2>1
  <2>3. 0 <= 2 * RampDown BY <2>1, <2>2
  <2> QED BY <1>4, <2>3
<1> QED BY <1>1, <1>6, <1>7 DEF k

LEMMA ContainedLong ==
    ASSUME NEW x \in Int, NEW p \in Int, NEW b \in Int, x <= b, p <= Top
    PROVE  Contained(x, p, b + RampDown)
<1>0. DEC \in Nat /\ Top \in Nat /\ RampDown \in Nat BY Constants, Sizes, RampDownMost
<1> SUFFICES ASSUME NEW n \in Nat
             PROVE  2 * x + 2 * (n * p) - DEC * (n * (n + 1)) <= 2 * (b + RampDown)
  BY DEF Contained
<1> DEFINE m == n * p
<1> DEFINE g == n * Top
<1> DEFINE e == DEC * (n * (n + 1))
<1>1. m \in Int /\ g \in Int /\ e \in Int BY <1>0
<1>2. m <= g BY <1>0, Z3
<1>3. 2 * g - e <= 2 * RampDown BY RampDownMost
<1> HIDE DEF m, g, e
<1>4. 2 * x + 2 * m - e <= 2 * (b + RampDown) BY <1>0, <1>1, <1>2, <1>3
<1> QED BY <1>4 DEF m, e

\* One side of the axis, whose switch opens at f: x is the setpoint, p its last step,
\* a where the axis is, and Rest, Coast and Most are how far x gets before the switch
\* opens, while a ramp without the drive goes on, and after it.
Rest(f)  == f - 1 + Step
Coast(f) == Rest(f) + RampDown
Most(f)  == Coast(f) + Step + DEC

Approaching(f, x) == x <= Rest(f)
Coasting(f, x, p, busy, exec) == p >= 0 /\ Contained(x, p, Coast(f)) /\ busy /\ ~exec
Resting(f, x, p, o, busy, late) == x <= Coast(f) /\ p <= DEC /\ (busy => late /\ o = x)
Beyond(f, x, p, flag, busy, late) == Contained(x, p, Most(f)) /\ (flag \/ (late /\ ~busy))

Side(f, x, p, a, o, flag, busy, exec, late) ==
    \/ /\ a < f
       /\ \/ Approaching(f, x)
          \/ Coasting(f, x, p, busy, exec)
          \/ Resting(f, x, p, o, busy, late)
    \/ a >= f /\ Beyond(f, x, p, flag, busy, late)

\* A cycle of the generator, seen from one side: from x and its last step p to y and q.
Slows(x, p, y, q, on) == p > DEC /\ q = p - DEC /\ y = x + q /\ on
Turns(x, p, y, q) == y <= x /\ (p > 0 => q <= 0)
Eases(x, p, y, q, on, lock, both) ==
    /\ y <= x + Step /\ q <= Top /\ q <= p + DEC
    /\ lock => Slows(x, p, y, q, on) \/ Turns(x, p, y, q)
    /\ both => Slows(x, p, y, q, on) \/ (Turns(x, p, y, q) /\ (on /\ p >= 0 => q >= 0))
Waits(x, p, y, q, on) == y = x /\ q = p /\ ~on

\* What a cycle brings when the drive is at o after it.
Drives(f, x, p, a, o, flag, busy, exec, y, q, on) ==
    /\ o = x \/ (o = a /\ ~exec)
    /\ busy => \E lock, both \in BOOLEAN :
                  Eases(x, p, y, q, on, lock, both) /\ (flag => lock) /\ (~exec => both)
    /\ ~busy => Waits(x, p, y, q, on)

\* After it there has been no command, and the switch is seen where it is open.
Stays(f, y, q, o, on, exec) == \A z : Side(f, y, q, o, z, o >= f, on, exec, FALSE)

LEMMA Bounds ==
    /\ DEC \in Nat \ {0} /\ ACC \in Nat \ {0} /\ Step \in Nat \ {0} /\ Top \in Nat \ {0}
    /\ RampDown \in Nat /\ Top <= Step /\ 3 * DEC <= Step /\ Speed <= Top /\ Speed \in Nat \ {0}
    /\ DEC <= Top + 1
    /\ \A f \in Int : Rest(f) \in Int /\ Coast(f) \in Int /\ Most(f) \in Int
                      /\ Rest(f) = f - 1 + Step /\ Coast(f) = Rest(f) + RampDown
                      /\ Most(f) = Coast(f) + Step + DEC
<1>1. /\ DEC \in Nat \ {0} /\ ACC \in Nat \ {0} /\ Step \in Nat \ {0} /\ Top \in Nat \ {0}
      /\ RampDown \in Nat /\ Top <= Step /\ 3 * DEC <= Step /\ Speed <= Top /\ Speed \in Nat \ {0}
  BY Constants, Sizes, RampDownMost
<1>2. DEC <= Top + 1 BY Constants DEF Top
<1>3. ASSUME NEW f \in Int
      PROVE  Rest(f) \in Int /\ Coast(f) \in Int /\ Most(f) \in Int
  BY <1>1, <1>3 DEF Rest, Coast, Most
<1> QED BY <1>1, <1>2, <1>3 DEF Rest, Coast, Most

\* Wherever the axis is, its drive may be at its setpoint for the first time.
LEMMA SideFrom ==
    ASSUME NEW f \in Int, NEW x \in Int, NEW p \in Int, NEW a \in Int, NEW o \in Int,
           NEW flag, NEW busy \in BOOLEAN, NEW exec \in BOOLEAN, NEW late,
           Side(f, x, p, a, o, flag, busy, exec, late),
           NEW y \in Int, NEW q \in Int, NEW on \in BOOLEAN, NEW exec2 \in BOOLEAN, exec2 => exec,
           Drives(f, x, p, a, o, flag, busy, exec, y, q, on), on => busy, p <= Top
    PROVE  Stays(f, y, q, o, on, exec2)
<1> DEFINE L1 == Rest(f)
<1> DEFINE L2 == Coast(f)
<1> DEFINE L3 == Most(f)
<1>0. /\ DEC \in Nat \ {0} /\ ACC \in Nat \ {0} /\ Step \in Nat \ {0} /\ Top \in Nat \ {0}
      /\ RampDown \in Nat /\ Top <= Step /\ 3 * DEC <= Step
      /\ L1 \in Int /\ L2 \in Int /\ L3 \in Int
      /\ L1 = f - 1 + Step /\ L2 = L1 + RampDown /\ L3 = L2 + Step + DEC
  BY Bounds
<1>a. o < f \/ o >= f OBVIOUS
<1> HIDE DEF L1, L2, L3
\* The three results.
<1>1. ASSUME o < f, y <= L1 PROVE Stays(f, y, q, o, on, exec2)
  BY <1>1 DEF Side, Approaching, L1, Stays
<1>2. ASSUME o < f, q >= 0, Contained(y, q, L2), on, ~exec
      PROVE Stays(f, y, q, o, on, exec2)
  BY <1>2 DEF Side, Coasting, L2, Stays
<1>3. ASSUME o < f, y <= L2, q <= DEC, ~on
      PROVE Stays(f, y, q, o, on, exec2)
  BY <1>3 DEF Side, Resting, L2, Stays
<1>4. ASSUME o >= f, Contained(y, q, L3)
      PROVE Stays(f, y, q, o, on, exec2)
  BY <1>4 DEF Side, Beyond, L3, Stays
\* The ways there.
<1>5. o = x \/ (o = a /\ ~exec) BY DEF Drives
<1>6. ~busy => y = x /\ q = p /\ ~on BY DEF Drives, Waits
<1>7. busy => /\ y <= x + Step /\ q <= Top /\ q <= p + DEC
              /\ flag => Slows(x, p, y, q, on) \/ Turns(x, p, y, q)
              /\ ~exec => Slows(x, p, y, q, on) \/ (Turns(x, p, y, q) /\ (on /\ p >= 0 => q >= 0))
  BY DEF Drives, Eases
<1>8. ASSUME NEW b \in Int, Contained(x, p, b), Slows(x, p, y, q, on) PROVE Contained(y, q, b)
  <2>1. q = p - DEC /\ y = x + (p - DEC) BY <1>8 DEF Slows
  <2> QED BY <1>8, <2>1, ContainedNext
<1>9. CASE a < f /\ x <= L1
  <2>1. CASE o < f /\ o = x
    <3>1. y <= L1 BY <1>0, <1>6, <1>7, <2>1
    <3> QED BY <1>1, <2>1, <3>1
  <2>2. CASE o < f /\ o # x
    <3>1. ~exec /\ o = a BY <1>5, <2>2
    <3>2. CASE y <= x
      <4>1. y <= L1 BY <1>0, <1>9, <3>2
      <4> QED BY <1>1, <2>2, <4>1
    <3>3. CASE ~(y <= x)
      <4>1. busy /\ Slows(x, p, y, q, on) BY <1>6, <1>7, <3>1, <3>3 DEF Turns
      <4>2. Contained(x, p, L2) BY <1>0, <1>9, ContainedLong
      <4>3. Contained(y, q, L2) BY <1>0, <1>8, <4>1, <4>2
      <4>4. q >= 0 /\ on BY <1>0, <4>1 DEF Slows
      <4> QED BY <1>2, <2>2, <3>1, <4>3, <4>4
    <3> QED BY <3>2, <3>3
  <2>3. CASE o >= f
    <3>1. y <= L1 + Step /\ q <= Top BY <1>0, <1>6, <1>7, <1>9
    <3>2. L1 + Step \in Int /\ L1 + Step + RampDown \in Int /\ L1 + Step + RampDown <= L3 BY <1>0
    <3>3. Contained(y, q, L1 + Step + RampDown) BY <3>1, <3>2, ContainedLong
    <3>4. Contained(y, q, L3) BY <1>0, <3>2, <3>3, ContainedMore
    <3> QED BY <1>4, <2>3, <3>4
  <2> QED BY <1>a, <2>1, <2>2, <2>3
<1>10. CASE a < f /\ p >= 0 /\ Contained(x, p, L2) /\ busy /\ ~exec
  <2>1. x <= L2 BY <1>0, <1>10, ContainedHere
  <2>2. CASE Slows(x, p, y, q, on)
    <3>1. Contained(y, q, L2) /\ q >= 0 /\ on BY <1>0, <1>8, <1>10, <2>2 DEF Slows
    <3>2. Contained(y, q, L3) BY <1>0, <3>1, ContainedMore
    <3> QED BY <1>a, <1>2, <1>4, <1>10, <3>1, <3>2
  <2>3. CASE ~Slows(x, p, y, q, on)
    <3>1. y <= x /\ (p > 0 => q <= 0) /\ q <= p + DEC /\ (on => q >= 0)
      BY <1>7, <1>10, <2>3 DEF Turns
    <3>2. y <= L2 /\ q <= DEC /\ L2 <= L3 BY <1>0, <1>10, <2>1, <3>1
    <3>3. Contained(y, q, L2) BY <1>0, <3>2, ContainedShort
    <3>4. Contained(y, q, L3) BY <1>0, <3>2, <3>3, ContainedMore
    <3> QED BY <1>a, <1>2, <1>3, <1>4, <1>10, <3>1, <3>2, <3>3, <3>4
  <2> QED BY <2>2, <2>3
<1>11. CASE a < f /\ x <= L2 /\ p <= DEC /\ (busy => o = x)
  <2>1. CASE ~busy
    <3>1. y = x /\ q = p /\ ~on BY <1>6, <2>1
    <3>2. Contained(y, q, L2) BY <1>0, <1>11, <3>1, ContainedShort
    <3>3. Contained(y, q, L3) BY <1>0, <3>2, ContainedMore
    <3> QED BY <1>a, <1>3, <1>4, <1>11, <3>1, <3>3
  <2>2. CASE busy /\ o < f
    <3>1. y <= L1 BY <1>0, <1>7, <1>11, <2>2
    <3> QED BY <1>1, <2>2, <3>1
  <2>3. CASE busy /\ o >= f
    <3>1. y + DEC <= L3 /\ q <= 2 * DEC BY <1>0, <1>7, <1>11, <2>3
    <3>2. Contained(y, q, L3) BY <1>0, <3>1, ContainedShort
    <3> QED BY <1>4, <2>3, <3>2
  <2> QED BY <1>a, <2>1, <2>2, <2>3
<1>12. CASE a >= f /\ Contained(x, p, L3) /\ (flag \/ ~busy)
  <2>1. x <= L3 BY <1>0, <1>12, ContainedHere
  <2>2. CASE o < f
    <3>1. o = x BY <1>5, <1>12, <2>2
    <3>2. y <= L1 BY <1>0, <1>6, <1>7, <2>2, <3>1
    <3> QED BY <1>1, <2>2, <3>2
  <2>3. CASE o >= f /\ ~busy
    <3>1. y = x /\ q = p BY <1>6, <2>3
    <3> QED BY <1>4, <1>12, <2>3, <3>1
  <2>4. CASE o >= f /\ busy /\ Slows(x, p, y, q, on)
    <3>1. Contained(y, q, L3) BY <1>0, <1>8, <1>12, <2>4
    <3> QED BY <1>4, <2>4, <3>1
  <2>5. CASE o >= f /\ busy /\ ~Slows(x, p, y, q, on)
    <3>1. y <= x /\ (p > 0 => q <= 0) /\ q <= p + DEC BY <1>7, <1>12, <2>5 DEF Turns
    <3>2. y <= L3 /\ q <= DEC BY <1>0, <2>1, <3>1
    <3>3. Contained(y, q, L3) BY <1>0, <3>2, ContainedShort
    <3> QED BY <1>4, <2>5, <3>3
  <2> QED BY <1>a, <2>2, <2>3, <2>4, <2>5
<1>13. \/ a < f /\ x <= L1
       \/ a < f /\ p >= 0 /\ Contained(x, p, L2) /\ busy /\ ~exec
       \/ a < f /\ x <= L2 /\ p <= DEC /\ (busy => o = x)
       \/ a >= f /\ Contained(x, p, L3) /\ (flag \/ ~busy)
  BY DEF Side, Approaching, Coasting, Resting, Beyond, L1, L2, L3
<1> QED BY <1>9, <1>10, <1>11, <1>12, <1>13 

\* On no side does the setpoint get beyond what one stop takes.
LEMMA SideReach ==
    ASSUME NEW f \in Int, NEW x \in Int, NEW p \in Int, NEW a \in Int, NEW o,
           NEW flag, NEW busy, NEW exec, NEW late, Side(f, x, p, a, o, flag, busy, exec, late)
    PROVE  x <= f + Brake
<1> DEFINE L1 == Rest(f)
<1> DEFINE L2 == Coast(f)
<1> DEFINE L3 == Most(f)
<1>0. /\ DEC \in Nat \ {0} /\ Step \in Nat \ {0} /\ RampDown \in Nat
      /\ L1 \in Int /\ L2 \in Int /\ L3 \in Int
      /\ L1 = f - 1 + Step /\ L2 = L1 + RampDown /\ L3 = L2 + Step + DEC
  BY Bounds
<1> HIDE DEF L1, L2, L3
<1>1. x <= L1 \/ Contained(x, p, L2) \/ x <= L2 \/ Contained(x, p, L3)
  BY DEF Side, Approaching, Coasting, Resting, Beyond, L1, L2, L3
<1>2. x <= L1 \/ x <= L2 \/ x <= L3 BY <1>0, <1>1, ContainedHere
<1>3. L1 <= L3 /\ L2 <= L3 /\ L3 = f + Brake BY <1>0 DEF Brake
<1> QED BY <1>0, <1>2, <1>3

\* A step of the generator: blocked, it slows down or ends; else it goes on or arrives.
Ended(x, p, y, q, on) ==
    /\ y = x /\ ~on
    /\ p > 0 => q = p - DEC /\ p <= DEC
    /\ p < 0 => q = p + DEC /\ -DEC <= p
    /\ p = 0 => -DEC <= q /\ q <= DEC
Freed(x, p, y, q, on, fwd, bwd) ==
    /\ fwd => y <= x
    /\ bwd => x <= y
    /\ q <= p + DEC /\ p <= q + DEC
    /\ \/ y = x + q /\ on
       \/ /\ ~on /\ y <= x + 3 * DEC /\ x <= y + 3 * DEC
          /\ y <= x /\ p > 0 => q <= 0
          /\ x <= y /\ p < 0 => 0 <= q
Course(x, p, y, q, on, fwd, bwd) ==
    /\ -Top <= q /\ q <= Top
    /\ \/ p > DEC /\ q = p - DEC /\ y = x + q /\ on
       \/ -p > DEC /\ q = p + DEC /\ y = x + q /\ on
       \/ Ended(x, p, y, q, on)
       \/ Freed(x, p, y, q, on, fwd, bwd)

LEMMA CourseEases ==
    ASSUME NEW x \in Int, NEW p \in Int, NEW y \in Int, NEW q \in Int, NEW on \in BOOLEAN,
           NEW fwd \in BOOLEAN, NEW bwd \in BOOLEAN, Course(x, p, y, q, on, fwd, bwd)
    PROVE  /\ Eases(x, p, y, q, on, fwd, fwd /\ bwd)
           /\ Eases(-x, -p, -y, -q, on, bwd, fwd /\ bwd)
<1>0. /\ DEC \in Nat \ {0} /\ Step \in Nat \ {0} /\ Top \in Nat \ {0}
      /\ Top <= Step /\ 3 * DEC <= Step
  BY Bounds
<1>1. CASE p > DEC /\ q = p - DEC /\ y = x + q /\ on
  BY <1>0, <1>1 DEF Course, Eases, Slows, Turns
<1>2. CASE -p > DEC /\ q = p + DEC /\ y = x + q /\ on
  BY <1>0, <1>2 DEF Course, Eases, Slows, Turns
<1>3. CASE Ended(x, p, y, q, on)
  BY <1>0, <1>3 DEF Course, Ended, Eases, Slows, Turns
<1>4. CASE Freed(x, p, y, q, on, fwd, bwd)
  BY <1>0, <1>4 DEF Course, Freed, Eases, Slows, Turns
<1> QED BY <1>1, <1>2, <1>3, <1>4 DEF Course

\* With an acceleration of at most ten units no step is taken for the nominal one.
LEMMA RampExact ==
    ASSUME ACC <= DEC, ACC <= 10, NEW p \in -Top..Top, NEW n \in Int, Size(n) <= Speed
    PROVE  LET q == Ramp(p, n)
           IN  /\ q \in -Top..Top /\ q <= p + DEC /\ p <= q + DEC
               /\ n <= 0 /\ p > 0 => q <= 0 \/ (q = p - DEC /\ p > DEC)
               /\ n >= 0 /\ p < 0 => q >= 0 \/ (q = p + DEC /\ -p > DEC)
<1> DEFINE q == Ramped(p, n)
<1>0. ACC \in Nat \ {0} /\ DEC \in Nat \ {0} /\ Top \in Nat \ {0} /\ Speed \in Nat
      /\ -Speed <= n /\ n <= Speed
  BY Bounds DEF Size
<1>1. Speed + ACC - 1 <= Top /\ DEC - 1 <= Top BY <1>0 DEF Top
<1>2. q \in Int BY RampType
<1>3. /\ q \in -Top..Top /\ q <= p + DEC /\ p <= q + DEC
      /\ n <= 0 /\ p > 0 => q <= 0 \/ (q = p - DEC /\ p > DEC)
      /\ n >= 0 /\ p < 0 => q >= 0 \/ (q = p + DEC /\ -p > DEC)
  BY <1>0, <1>1 DEF Ramped, Up, Down
<1>4. Ramp(p, n) = q
  <2> DEFINE tol == IF ACC > DEC THEN DEC ELSE ACC
  <2>1. tol \in Int /\ tol <= 10 BY <1>0
  <2>2. Ramp(p, n) = IF 10 * Size(n - q) < tol THEN n ELSE q BY Zenon DEF Ramp
  <2> HIDE DEF q, tol
  <2>3. 10 * Size(n - q) < tol => n = q BY <1>2, <2>1 DEF Size
  <2> QED BY <2>2, <2>3
<1> QED BY <1>3, <1>4

\* The step of an arrival goes back when the target is behind.
LEMMA ArrivalStep ==
    ASSUME ACC <= DEC, ACC <= 10, NEW t \in TrajState, t.prev \in -Top..Top,
           Size(t.nom) <= Speed, Arrives(t), t.dist = t.prev * Size(t.prev)
    PROVE  LET q == Ramp(t.prev, NomPos(t))
           IN  /\ t.target <= t.local /\ t.prev > 0 => q <= 0
               /\ t.local <= t.target /\ t.prev < 0 => 0 <= q
<1> DEFINE p == t.prev
<1> DEFINE x == t.local
<1> DEFINE z == t.target
<1> DEFINE n == NomPos(t)
<1> DEFINE i == ToInitStop(t)
<1> DEFINE d == t.dist
<1>0. DEC \in Nat \ {0} BY Bounds
<1>1. p \in Int /\ x \in Int /\ z \in Int /\ d \in Int /\ t.nom \in Int /\ Size(t.nom) \in Nat
  BY Sizes DEF TrajState
<1>2. n \in Int /\ Size(n) <= Speed
  <2>1. n \in Int /\ Size(n) <= Size(t.nom) BY NomPosType
  <2> QED BY <1>1, <2>1, Bounds, Sizes
<1>3. Size(p) <= DEC BY DEF Arrives
<1>4. i \in Int BY NomPosType
<1>5. i = 2 * DEC * (z - x - p - Sign(p) * DEC) - d BY Zenon DEF ToInitStop
<1>6. n = IF Size(i) <= 2 * DEC * Size(p) THEN 0 ELSE Sign(i) * Size(t.nom) BY Zenon DEF NomPos
<1>7. d = p * Size(p) OBVIOUS
<1> DEFINE q == Ramp(p, n)
<1>8. /\ n <= 0 /\ p > 0 => q <= 0 \/ (q = p - DEC /\ p > DEC)
      /\ n >= 0 /\ p < 0 => q >= 0 \/ (q = p + DEC /\ -p > DEC)
  BY <1>2, RampExact
<1> HIDE DEF p, x, z, n, i, d, q
<1>9. ASSUME z <= x, p > 0 PROVE q <= 0
  <2>1. d >= 0 /\ Sign(p) = 1 BY <1>1, <1>7, <1>9, Z3 DEF Size, Sign
  <2> DEFINE w == z - x - p - DEC
  <2>2. w \in Int /\ w <= 0 BY <1>0, <1>1, <1>9
  <2>3. i = 2 * DEC * w - d BY <1>0, <1>1, <1>5, <2>1
  <2> HIDE DEF w
  <2>4. 2 * DEC * w <= 0 BY <1>0, <2>2, Z3
  <2>5. i <= 0 BY <1>0, <1>1, <1>4, <2>1, <2>2, <2>3, <2>4
  <2>6. n <= 0
    <3>1. Sign(i) = 0 \/ Sign(i) = -1 BY <1>4, <2>5 DEF Sign
    <3>2. Sign(i) * Size(t.nom) <= 0 BY <1>1, <3>1
    <3> QED BY <1>6, <3>2
  <2>7. p <= DEC BY <1>1, <1>3, <1>0 DEF Size
  <2> QED BY <1>0, <1>1, <1>8, <1>9, <2>6, <2>7
<1>10. ASSUME x <= z, p < 0 PROVE 0 <= q
  <2>1. d <= 0 /\ Sign(p) = -1 BY <1>1, <1>7, <1>10, Z3 DEF Size, Sign
  <2> DEFINE w == z - x - p + DEC
  <2>2. w \in Int /\ w >= 0 BY <1>0, <1>1, <1>10
  <2>3. i = 2 * DEC * w - d BY <1>0, <1>1, <1>5, <2>1
  <2> HIDE DEF w
  <2>4. 2 * DEC * w >= 0 BY <1>0, <2>2, Z3
  <2>5. i >= 0 BY <1>0, <1>1, <1>4, <2>1, <2>2, <2>3, <2>4
  <2>6. n >= 0
    <3>1. Sign(i) = 0 \/ Sign(i) = 1 BY <1>4, <2>5 DEF Sign
    <3>2. Sign(i) * Size(t.nom) >= 0 BY <1>1, <3>1
    <3> QED BY <1>6, <3>2
  <2>7. -p <= DEC BY <1>1, <1>3, <1>0 DEF Size
  <2> QED BY <1>0, <1>1, <1>8, <1>10, <2>6, <2>7
<1> QED BY <1>9, <1>10 DEF p, x, z, n, q

\* What the generator asks for, when it may.
LEMMA IntendedCourse ==
    ASSUME ACC <= DEC, ACC <= 10, NEW t \in TrajState, t.prev \in -Top..Top,
           Size(t.nom) <= Speed, t.prev = 0 \/ ~Stale(t),
           NEW fwd \in BOOLEAN, NEW bwd \in BOOLEAN,
           ~(Intended(t).to > t.local /\ fwd), ~(Intended(t).to < t.local /\ bwd)
    PROVE  Course(t.local, t.prev, Intended(t).to, Intended(t).step, Intended(t).busy, fwd, bwd)
<1> DEFINE p == t.prev
<1> DEFINE x == t.local
<1> DEFINE y == Intended(t).to
<1> DEFINE q == Intended(t).step
<1> DEFINE on == Intended(t).busy
<1>0. DEC \in Nat \ {0} BY Bounds
<1>1. /\ p \in -Top..Top /\ p \in Int /\ x \in Int /\ y \in Int /\ q \in Int /\ on \in BOOLEAN
      /\ t.mode \in {"pos", "vel"} /\ t.target \in Int /\ t.nom \in Int
  BY IntendedTypes DEF TrajState
<1>2. ~(y > x /\ fwd) /\ ~(y < x /\ bwd) OBVIOUS
<1>3. p # 0 => t.dist = p * Size(p) BY DEF Stale
<1>4. q \in -Top..Top /\ q <= p + DEC /\ p <= q + DEC
  <2>1. CASE t.mode = "vel"
    <3>1. q = Ramp(p, t.nom) BY <2>1, IntendedTypes
    <3> QED BY <1>1, <3>1, RampExact
  <2>2. CASE t.mode = "pos"
    <3>1. q = Ramp(p, NomPos(t)) BY <2>2, IntendedTypes
    <3>2. NomPos(t) \in Int /\ Size(NomPos(t)) <= Size(t.nom) BY NomPosType
    <3>3. Size(NomPos(t)) <= Speed
      <4>0. t.nom \in Int BY <1>1
      <4>1. NomPos(t) \in Int /\ Speed \in Int BY <3>2, Bounds
      <4>2. Size(NomPos(t)) \in Int BY <4>1, Sizes
      <4>3. Size(t.nom) \in Int BY <4>0, Sizes
      <4> QED BY <3>2, <4>1, <4>2, <4>3
    <3> QED BY <1>1, <3>1, <3>2, <3>3, RampExact
  <2> QED BY <1>1, <2>1, <2>2
<1>5. CASE t.mode = "vel" \/ ~Arrives(t)
  <2>1. y = x + q /\ on BY <1>1, <1>5, IntendedTypes
  <2> HIDE DEF p, x, y, q, on
  <2>2. Freed(x, p, y, q, on, fwd, bwd) BY <1>1, <1>2, <1>4, <2>1 DEF Freed
  <2>3. Course(x, p, y, q, on, fwd, bwd) BY <1>4, <2>2 DEF Course
  <2> QED BY <2>3 DEF p, x, y, q, on
<1>6. CASE t.mode = "pos" /\ Arrives(t)
  <2>1. y = t.target /\ ~on /\ q = Ramp(p, NomPos(t)) BY <1>6, IntendedTypes
  <2>2. Size(t.target - x) <= 3 * DEC BY <1>6 DEF Arrives
  <2>3. y <= x + 3 * DEC /\ x <= y + 3 * DEC BY <1>0, <1>1, <2>1, <2>2 DEF Size
  <2>4. (y <= x /\ p > 0 => q <= 0) /\ (x <= y /\ p < 0 => 0 <= q)
    <3>1. CASE p = 0 BY <3>1
    <3>2. CASE p # 0 BY <1>3, <1>6, <2>1, <3>2, ArrivalStep
    <3> QED BY <3>1, <3>2
  <2> HIDE DEF p, x, y, q, on
  <2>5. Freed(x, p, y, q, on, fwd, bwd) BY <1>1, <1>2, <1>4, <2>1, <2>3, <2>4 DEF Freed
  <2>6. Course(x, p, y, q, on, fwd, bwd) BY <1>4, <2>5 DEF Course
  <2> QED BY <2>6 DEF p, x, y, q, on
<1> QED BY <1>1, <1>5, <1>6

\* A stop slows down or ends.
LEMMA StopCourse ==
    ASSUME ACC <= DEC, ACC <= 10, NEW t \in TrajState, t.prev \in -Top..Top,
           Size(t.nom) <= Speed, NEW locks, locks.stop # "emergency", NEW ext \in BOOLEAN,
           Blocked(t, locks, ext), NEW u, u = InternalTraj(t, locks, ext),
           NEW fwd \in BOOLEAN, NEW bwd \in BOOLEAN
    PROVE  Course(t.local, t.prev, u.local, u.prev, u.busy, fwd, bwd)
<1> DEFINE p == t.prev
<1> DEFINE x == t.local
<1> DEFINE y == u.local
<1> DEFINE q == u.prev
<1> DEFINE on == u.busy
<1> DEFINE left == Left(t, locks.stop)
<1>0. DEC \in Nat \ {0} /\ DEC <= Top + 1 /\ Top \in Nat \ {0} BY Bounds
<1>1. /\ p \in -Top..Top /\ p \in Int /\ x \in Int BY DEF TrajState
<1>2. left = Size(p) - DEC BY DEF Left
<1>3. Ends(t, locks.stop) => ~on /\ y = x BY GeneratorStep
<1>4. ~Ends(t, locks.stop) => on /\ y = x + Sign(p) * left BY GeneratorStep
<1>5. p # 0 => q = Sign(p) * left BY BlockedStep
<1>6. p = 0 => q = Intended(t).step BY BlockedStep
<1>7. Ends(t, locks.stop) <=> (p = 0 \/ left <= 0) BY DEF Ends
<1>8. CASE p = 0
  <2>1. Intended(t).step \in -Top..Top /\ Intended(t).step <= DEC /\ -DEC <= Intended(t).step
    <3>a. t.nom \in Int /\ t.mode \in {"pos", "vel"} BY DEF TrajState
    <3>b. Intended(t).step \in Int BY IntendedTypes
    <3>1. CASE t.mode = "vel"
      <4>1. Intended(t).step = Ramp(p, t.nom) BY <3>1, IntendedTypes
      <4>2. Ramp(p, t.nom) \in -Top..Top /\ Ramp(p, t.nom) <= p + DEC /\ p <= Ramp(p, t.nom) + DEC
        BY <1>1, <3>a, RampExact
      <4> QED BY <1>0, <1>8, <3>b, <4>1, <4>2
    <3>2. CASE t.mode = "pos"
      <4> DEFINE n == NomPos(t)
      <4>1. Intended(t).step = Ramp(p, n) BY <3>2, IntendedTypes
      <4>2. n \in Int /\ Size(n) <= Size(t.nom) BY NomPosType
      <4> HIDE DEF n
      <4>3. Size(n) <= Speed
        <5>1. Size(n) \in Int /\ Size(t.nom) \in Int /\ Speed \in Int
          BY SMTT(40), <3>a, <4>2, Sizes, Bounds
        <5> QED BY <4>2, <5>1
      <4>4. Ramp(p, n) \in -Top..Top /\ Ramp(p, n) <= p + DEC /\ p <= Ramp(p, n) + DEC
        BY <1>1, <4>2, <4>3, RampExact
      <4> QED BY <1>0, <1>8, <3>b, <4>1, <4>4
    <3> QED BY <3>a, <3>1, <3>2
  <2>2. y = x /\ ~on /\ q = Intended(t).step BY <1>3, <1>6, <1>7, <1>8
  <2> HIDE DEF p, x, y, q, on, left
  <2>3. Ended(x, p, y, q, on) BY <1>8, <2>1, <2>2 DEF Ended
  <2>4. Course(x, p, y, q, on, fwd, bwd) BY <1>0, <2>1, <2>2, <2>3 DEF Course
  <2> QED BY <2>4 DEF p, x, y, q, on
<1>9. CASE p > 0
  <2>1. left = p - DEC /\ Sign(p) = 1 BY <1>1, <1>2, <1>9 DEF Size, Sign
  <2> HIDE DEF p, x, y, q, on, left
  <2>2. q = p - DEC BY <1>0, <1>1, <1>5, <1>9, <2>1
  <2>3. p <= DEC => Ended(x, p, y, q, on) BY <1>0, <1>1, <1>3, <1>7, <1>9, <2>1, <2>2 DEF Ended
  <2>4. p > DEC => on /\ y = x + q BY <1>0, <1>1, <1>4, <1>7, <1>9, <2>1, <2>2
  <2>5. Course(x, p, y, q, on, fwd, bwd) BY <1>0, <1>1, <1>9, <2>2, <2>3, <2>4 DEF Course
  <2> QED BY <2>5 DEF p, x, y, q, on
<1>10. CASE p < 0
  <2>1. left = -p - DEC /\ Sign(p) = -1 BY <1>1, <1>2, <1>10 DEF Size, Sign
  <2> HIDE DEF p, x, y, q, on, left
  <2>2. q = p + DEC BY <1>0, <1>1, <1>5, <1>10, <2>1
  <2>3. -DEC <= p => Ended(x, p, y, q, on)
    BY <1>0, <1>1, <1>3, <1>7, <1>10, <2>1, <2>2 DEF Ended
  <2>4. p < -DEC => on /\ y = x + q BY <1>0, <1>1, <1>4, <1>7, <1>10, <2>1, <2>2
  <2>5. Course(x, p, y, q, on, fwd, bwd) BY <1>0, <1>1, <1>10, <2>2, <2>3, <2>4 DEF Course
  <2> QED BY <2>5 DEF p, x, y, q, on
<1> QED BY <1>1, <1>8, <1>9, <1>10

LEMMA GeneratorCourse ==
    ASSUME ACC <= DEC, ACC <= 10, NEW t \in TrajState, t.prev \in -Top..Top,
           Size(t.nom) <= Speed, t.prev = 0 \/ ~Stale(t), NEW locks, locks.stop # "emergency",
           locks.fwd \in BOOLEAN, locks.bwd \in BOOLEAN,
           NEW ext \in BOOLEAN, ~ext, NEW u, u = InternalTraj(t, locks, ext)
    PROVE  /\ Eases(t.local, t.prev, u.local, u.prev, u.busy, locks.fwd, locks.fwd /\ locks.bwd)
           /\ Eases(-t.local, -t.prev, -u.local, -u.prev, u.busy, locks.bwd,
                    locks.fwd /\ locks.bwd)
<1> DEFINE fwd == locks.fwd
<1> DEFINE bwd == locks.bwd
<1>a. u \in TrajState BY GeneratorStep
<1>2. /\ t.local \in Int /\ t.prev \in Int /\ u.local \in Int
      /\ u.prev \in Int /\ u.busy \in BOOLEAN
  BY <1>a DEF TrajState
<1>3. Course(t.local, t.prev, u.local, u.prev, u.busy, fwd, bwd)
  <2>1. CASE Blocked(t, locks, ext) BY <2>1, StopCourse
  <2>2. CASE ~Blocked(t, locks, ext)
    <3>1. u.local = Intended(t).to /\ u.prev = Intended(t).step /\ u.busy = Intended(t).busy
      BY <2>2, FreeStep
    <3>2. ~(Intended(t).to > t.local /\ fwd) /\ ~(Intended(t).to < t.local /\ bwd)
      BY <2>2 DEF Blocked
    <3>3. Course(t.local, t.prev, Intended(t).to, Intended(t).step, Intended(t).busy, fwd, bwd)
      BY <3>2, IntendedCourse
    <3> QED BY <3>1, <3>3
  <2> QED BY <2>1, <2>2
<1> DEFINE x == t.local
<1> DEFINE p == t.prev
<1> DEFINE y == u.local
<1> DEFINE q == u.prev
<1> DEFINE on == u.busy
<1>4. fwd \in BOOLEAN /\ bwd \in BOOLEAN /\ x \in Int /\ p \in Int /\ y \in Int /\ q \in Int
      /\ on \in BOOLEAN /\ Course(x, p, y, q, on, fwd, bwd)
  BY <1>2, <1>3
<1> HIDE DEF x, p, y, q, on, fwd, bwd
<1>5. Eases(x, p, y, q, on, fwd, fwd /\ bwd) /\ Eases(-x, -p, -y, -q, on, bwd, fwd /\ bwd)
  BY SMTT(40), <1>4, CourseEases
<1> QED BY <1>5 DEF x, p, y, q, on, fwd, bwd

(***************************************************************************)
(* Both sides of the axis in a cycle                                       *)
(***************************************************************************)
\* The command, the sequencer and the generator of an enabled axis agree; late tells
\* whether the axis has been given a command since the last cycle.
Gripped(a, late) ==
    Internal(a) /\ a.enable =>
        /\ a.traj.execute => a.execute /\ a.enabled
        /\ a.traj.busy /\ a.execute => a.traj.execute
        /\ a.traj.busy => late \/ a.busy
        /\ ~late => a.executeOld = a.execute

FwdSide(a, late) ==
    Side(FwdSwitch, a.setpoint, a.traj.prev, a.actual, a.out, "fwdLimit" \in a.flags,
         a.traj.busy, a.traj.execute, late)
BwdSide(a, late) ==
    Side(-BwdSwitch, -a.setpoint, -a.traj.prev, -a.actual, -a.out, "bwdLimit" \in a.flags,
         a.traj.busy, a.traj.execute, late)
Sided(a, late) == Internal(a) /\ a.enable => FwdSide(a, late) /\ BwdSide(a, late)

LEMMA SideFlag ==
    ASSUME NEW f, NEW x, NEW p, NEW a, NEW o, NEW flag, NEW busy, NEW exec, NEW late,
           Side(f, x, p, a, o, a >= f, busy, exec, late), a >= f => flag
    PROVE  Side(f, x, p, a, o, flag, busy, exec, late)
BY DEF Side, Beyond

\* The generator of an enabled axis, seen from both sides.
LEMMA OwnDrives ==
    ASSUME ACC <= DEC, ACC <= 10, NEW t \in TrajState, NEW x \in Int, At(t, x),
           NEW a \in Int, NEW o \in Int, o = x \/ (o = a /\ ~t.execute),
           Bounded(t), t.prev \in -Top..Top, t.busy => t.enable, t.prev = 0 \/ ~Stale(t),
           NEW before, NEW flags, before \subseteq flags, flags \subseteq AxisFlags,
           NoExecute(t) => "noExecute" \in flags,
           NEW u, u = GetNextPosSet(t, Summary(flags), FALSE)
    PROVE  /\ Drives(FwdSwitch, x, t.prev, a, o, "fwdLimit" \in before, t.busy, t.execute,
                     u.pos, u.prev, u.busy)
           /\ Drives(-BwdSwitch, -x, -t.prev, -a, -o, "bwdLimit" \in before, t.busy, t.execute,
                     -u.pos, -u.prev, u.busy)
           /\ u \in TrajState /\ (u.busy => t.busy) /\ u.prev \in -Top..Top
<1> DEFINE ext == FALSE
<1> DEFINE locks == Summary(flags)
<1> DEFINE p == t.prev
<1>0. /\ t.prev \in Int /\ t.local \in Int /\ t.busy \in BOOLEAN /\ t.execute \in BOOLEAN
      /\ t.local = x /\ t.pos = x /\ Top \in Nat
  BY Bounds DEF TrajState, At
<1>1. ext \in BOOLEAN /\ ~ext /\ u = GetNextPosSet(t, locks, ext) OBVIOUS
<1>2. locks.stop # "emergency" BY NoEmergency
<1>3. locks.fwd \in BOOLEAN /\ locks.bwd \in BOOLEAN BY DEF Summary, AnyOf
<1>4. ("fwdLimit" \in before => locks.fwd) /\ ("bwdLimit" \in before => locks.bwd)
  <2>1. "fwdLimit" \in FwdFlags /\ "bwdLimit" \in BwdFlags BY DEF FwdFlags, BwdFlags
  <2> QED BY <2>1 DEF Summary, AnyOf
<1>5. NoExecute(t) => locks.fwd /\ locks.bwd BY LocksNoExecute
<1>6. (o = x \/ (o = a /\ ~t.execute)) /\ (-o = -x \/ (-o = -a /\ ~t.execute)) OBVIOUS
<1> HIDE DEF ext, locks
<1>7. CASE t.busy
  <2>1. Moves(t) BY <1>7 DEF Moves
  <2>2. u = InternalTraj(t, locks, ext) /\ Ran(t, u) BY Zenon, <1>1, <2>1, GeneratorMoves
  <2>3. u.pos = u.local /\ u \in TrajState BY <2>2 DEF Ran
  <2>4. Size(t.nom) <= Speed BY <1>7 DEF Bounded
  <2> DEFINE fwd == locks.fwd
  <2> DEFINE bwd == locks.bwd
  <2> DEFINE both == fwd /\ bwd
  <2>5. /\ Eases(x, t.prev, u.pos, u.prev, u.busy, fwd, both)
        /\ Eases(-x, -t.prev, -u.pos, -u.prev, u.busy, bwd, both)
    <3>1. /\ Eases(t.local, t.prev, u.local, u.prev, u.busy, locks.fwd, locks.fwd /\ locks.bwd)
          /\ Eases(-t.local, -t.prev, -u.local, -u.prev, u.busy, locks.bwd,
                   locks.fwd /\ locks.bwd)
      BY Zenon, <1>1, <1>2, <1>3, <2>2, <2>4, GeneratorCourse
    <3> QED BY <1>0, <2>3, <3>1
  <2>6. ~t.execute => both BY <1>5, <2>1 DEF NoExecute
  <2>7. fwd \in BOOLEAN /\ bwd \in BOOLEAN /\ both \in BOOLEAN BY <1>3
  <2>8. ("fwdLimit" \in before => fwd) /\ ("bwdLimit" \in before => bwd) BY <1>4
  <2>9. u.prev \in Int BY <2>3 DEF TrajState
  <2> HIDE DEF fwd, bwd, both
  <2>10. u.prev <= Top /\ -u.prev <= Top BY Zenon, <2>5 DEF Eases
  <2>11. u.prev \in -Top..Top
    <3> DEFINE q == u.prev
    <3>1. q \in Int /\ q <= Top /\ -q <= Top /\ Top \in Nat BY <1>0, <2>9, <2>10
    <3> HIDE DEF q
    <3>2. q \in -Top..Top BY <3>1
    <3> QED BY <3>2 DEF q
  <2>12. Drives(FwdSwitch, x, t.prev, a, o, "fwdLimit" \in before, t.busy, t.execute,
                u.pos, u.prev, u.busy)
    BY <1>6, <1>7, <2>5, <2>6, <2>7, <2>8 DEF Drives
  <2>13. Drives(-BwdSwitch, -x, -t.prev, -a, -o, "bwdLimit" \in before, t.busy, t.execute,
                -u.pos, -u.prev, u.busy)
    BY <1>6, <1>7, <2>5, <2>6, <2>7, <2>8 DEF Drives
  <2> QED BY <1>7, <2>3, <2>11, <2>12, <2>13
<1>8. CASE ~t.busy
  <2>1. ~Moves(t) BY <1>8 DEF Moves
  <2>2. Stood(t, u) BY Zenon, <1>1, <2>1, GeneratorStands
  <2>3. u \in TrajState /\ u.pos = x /\ u.prev = t.prev /\ ~u.busy BY <1>0, <1>8, <2>2 DEF Stood
  <2> QED BY <1>6, <1>8, <2>3 DEF Drives, Waits
<1> QED BY <1>7, <1>8

\* A cycle of an axis that is enabled and has its own setpoint.
LEMMA SidedCycle ==
    ASSUME ACC <= DEC, ACC <= 10, NEW a \in AxisState, Internal(a), a.enable,
           NEW e, NEW late, Even(a, e, late), RampsKept(a.traj, Internal(a), a.enable, late),
           Gripped(a, late), Sided(a, late), a.traj.prev \in -Top..Top,
           NEW enabled \in BOOLEAN, NEW r, Finished(a, r, enabled), Flagged(r.flags, r.actual),
           NEW u, NEW flags, OwnCycle(a, r, u, flags)
    PROVE  /\ Gripped(r, FALSE) /\ Sided(r, FALSE) /\ u.prev \in -Top..Top
           /\ u.pos <= FwdSwitch + Brake /\ -u.pos <= -BwdSwitch + Brake
<1> DEFINE t == a.traj
<1> DEFINE x == a.setpoint
<1> DEFINE o == a.out
<1> DEFINE v == r.traj
<1>1. /\ r \in AxisState /\ r.source = a.source /\ r.enable = a.enable /\ r.actual = o
  BY FinishedKeeps
<1>2. Internal(r) /\ r.enable BY <1>1 DEF Internal
<1>3. /\ t \in TrajState /\ x \in Int /\ o \in Int /\ a.actual \in Int /\ r.out \in Int
      /\ v \in TrajState /\ r.execute \in BOOLEAN /\ a.execute \in BOOLEAN /\ t.execute \in BOOLEAN
      /\ v.execute \in BOOLEAN /\ t.busy \in BOOLEAN /\ v.busy \in BOOLEAN
  BY <1>1 DEF AxisState, TrajState
<1>4. At(t, x) /\ Bounded(t) /\ (GetEnabled(a) => o = x) /\ (~GetEnabled(a) => o = a.actual)
  BY DEF Even, Settled
<1>5. /\ t.execute => a.execute /\ a.enabled
      /\ t.busy /\ a.execute => t.execute
  BY DEF Gripped
<1>6. o = x \/ (o = a.actual /\ ~t.execute) BY <1>4, <1>5 DEF GetEnabled
<1>7. (t.busy => t.enable) /\ (t.prev = 0 \/ ~Stale(t)) BY DEF RampsKept
<1>8. /\ flags \subseteq AxisFlags /\ (NoExecute(t) => "noExecute" \in flags)
      /\ u = GetNextPosSet(t, Summary(flags), FALSE) /\ a.flags \subseteq flags
      /\ flags \subseteq AxisFlags
  BY Zenon DEF OwnCycle
<1>9. t.prev \in -Top..Top OBVIOUS
<1> DEFINE flagF == "fwdLimit" \in a.flags
<1> DEFINE flagB == "bwdLimit" \in a.flags
<1>10. /\ Drives(FwdSwitch, x, t.prev, a.actual, o, flagF, t.busy, t.execute,
                 u.pos, u.prev, u.busy)
       /\ Drives(-BwdSwitch, -x, -t.prev, -a.actual, -o, flagB, t.busy, t.execute,
                 -u.pos, -u.prev, u.busy)
       /\ u \in TrajState /\ (u.busy => t.busy) /\ u.prev \in -Top..Top
  <2> DEFINE before == a.flags
  <2> DEFINE act == a.actual
  <2>1. /\ t \in TrajState /\ x \in Int /\ At(t, x) /\ act \in Int /\ o \in Int
        /\ o = x \/ (o = act /\ ~t.execute)
        /\ Bounded(t) /\ t.prev \in -Top..Top /\ (t.busy => t.enable)
        /\ t.prev = 0 \/ ~Stale(t)
        /\ before \subseteq flags /\ flags \subseteq AxisFlags
        /\ NoExecute(t) => "noExecute" \in flags
        /\ u = GetNextPosSet(t, Summary(flags), FALSE)
    BY Zenon, <1>3, <1>4, <1>6, <1>7, <1>8, <1>9
  <2> HIDE DEF t, x, o, before, act
  <2>2. /\ Drives(FwdSwitch, x, t.prev, act, o, "fwdLimit" \in before, t.busy, t.execute,
                   u.pos, u.prev, u.busy)
        /\ Drives(-BwdSwitch, -x, -t.prev, -act, -o, "bwdLimit" \in before, t.busy, t.execute,
                   -u.pos, -u.prev, u.busy)
        /\ u \in TrajState /\ (u.busy => t.busy) /\ u.prev \in -Top..Top
    BY Zenon, <2>1, OwnDrives
  <2> QED BY Zenon, <2>2 DEF before, act
<1>11. /\ Side(FwdSwitch, x, t.prev, a.actual, o, flagF, t.busy, t.execute, late)
       /\ Side(-BwdSwitch, -x, -t.prev, -a.actual, -o, flagB, t.busy, t.execute, late)
  BY Zenon DEF Sided, FwdSide, BwdSide
<1>12. Tempered(u, v) BY Zenon DEF OwnCycle
<1>13. /\ v.prev = u.prev /\ (v.busy => u.busy) /\ (u.busy => v.busy) /\ (v.execute => u.execute)
  BY <1>12 DEF Tempered
<1>14. r.setpoint = u.pos BY <1>2 DEF OwnCycle
<1>15. (u.execute => t.execute) /\ (t.execute => u.execute)
  <2> DEFINE ext == FALSE
  <2>1. ext \in BOOLEAN /\ u = GetNextPosSet(t, Summary(flags), ext) BY <1>8
  <2> HIDE DEF ext, t
  <2>2. CASE Moves(t) BY <1>3, <2>1, <2>2, GeneratorMoves DEF Ran
  <2>3. CASE ~Moves(t) BY <1>3, <2>1, <2>3, GeneratorStands DEF Stood
  <2> QED BY <2>2, <2>3
<1>16. /\ v.busy => r.busy
       /\ r.executeOld = r.execute
       /\ GetEnabled(r) => r.execute = a.execute /\ v.execute = u.execute
       /\ ~GetEnabled(r) => ~r.execute /\ ~(a.execute /\ v.execute)
  BY DEF OwnCycle
<1> HIDE DEF t, x, o, v, flagF, flagB
<1>17. /\ u.pos \in Int /\ u.prev \in Int /\ u.busy \in BOOLEAN /\ FwdSwitch \in Int
       /\ -BwdSwitch \in Int /\ Top \in Nat /\ BwdSwitch \in Int
  BY <1>10, Constants, Bounds DEF TrajState
<1>18. t.prev \in Int /\ -t.prev \in Int /\ t.prev <= Top /\ -t.prev <= Top
  <2> DEFINE p == t.prev
  <2>1. p \in -Top..Top BY <1>9 DEF t
  <2> HIDE DEF p
  <2>2. p \in Int /\ -p \in Int /\ p <= Top /\ -p <= Top BY <1>17, <2>1
  <2> QED BY <2>2 DEF p
<1>19. (v.execute => t.execute) /\ v.busy = u.busy BY <1>3, <1>13, <1>15, <1>17
<1>20. Stays(FwdSwitch, u.pos, u.prev, o, u.busy, v.execute)
  BY <1>3, <1>10, <1>11, <1>17, <1>18, <1>19, SideFrom
<1>21. Stays(-BwdSwitch, -u.pos, -u.prev, -o, u.busy, v.execute)
  <2>1. -x \in Int /\ -a.actual \in Int /\ -o \in Int /\ -u.pos \in Int /\ -u.prev \in Int
    BY <1>3, <1>17
  <2> QED BY <2>1, <1>3, <1>10, <1>11, <1>17, <1>18, <1>19, SideFrom
<1>22. FwdSide(r, FALSE)
  <2> DEFINE flag == "fwdLimit" \in r.flags
  <2>1. Side(FwdSwitch, u.pos, u.prev, o, r.out, o >= FwdSwitch, v.busy, v.execute, FALSE)
    BY <1>19, <1>20 DEF Stays
  <2>2. o >= FwdSwitch => flag BY <1>1 DEF Finished
  <2> HIDE DEF flag
  <2>3. Side(FwdSwitch, u.pos, u.prev, o, r.out, flag, v.busy, v.execute, FALSE)
    BY <2>1, <2>2, SideFlag
  <2> QED BY <1>1, <1>13, <1>14, <2>3 DEF FwdSide, v, flag
<1>23. BwdSide(r, FALSE)
  <2> DEFINE flag == "bwdLimit" \in r.flags
  <2>1. Side(-BwdSwitch, -u.pos, -u.prev, -o, -r.out, -o >= -BwdSwitch, v.busy, v.execute, FALSE)
    BY <1>19, <1>21 DEF Stays
  <2>2. -o >= -BwdSwitch => flag
    <3>1. -o >= -BwdSwitch => o <= BwdSwitch BY <1>3, <1>17
    <3> QED BY <1>1, <3>1 DEF Finished
  <2> HIDE DEF flag
  <2>3. Side(-BwdSwitch, -u.pos, -u.prev, -o, -r.out, flag, v.busy, v.execute, FALSE)
    BY <2>1, <2>2, SideFlag
  <2> QED BY <1>1, <1>13, <1>14, <2>3 DEF BwdSide, v, flag
<1>24. Gripped(r, FALSE)
  <2>1. v.execute => r.execute /\ r.enabled BY <1>5, <1>15, <1>16, <1>19 DEF GetEnabled
  <2>2. v.busy /\ r.execute => v.execute BY <1>5, <1>10, <1>13, <1>15, <1>16
  <2> QED BY <2>1, <2>2, <1>16 DEF Gripped, v
<1>25. u.pos <= FwdSwitch + Brake
  <2>1. Side(FwdSwitch, u.pos, u.prev, o, r.out, o >= FwdSwitch, u.busy, v.execute, FALSE)
    BY <1>20 DEF Stays
  <2> QED BY <1>3, <1>17, <2>1, SideReach
<1>26. -u.pos <= -BwdSwitch + Brake
  <2>1. Side(-BwdSwitch, -u.pos, -u.prev, -o, -r.out, -o >= -BwdSwitch, u.busy, v.execute, FALSE)
    BY <1>21 DEF Stays
  <2>2. -u.pos \in Int /\ -u.prev \in Int /\ -o \in Int BY <1>3, <1>17
  <2> QED BY <1>17, <2>1, <2>2, SideReach
<1> QED BY <1>2, <1>10, <1>22, <1>23, <1>24, <1>25, <1>26 DEF Sided

(***************************************************************************)
(* What the commands leave within the travel                               *)
(***************************************************************************)
\* Where a trajectory may start and where it may be sent.
Wide == Reach \cup First..Last
Aim  == Reach \cup Targets

\* The generator and the axis are within their bounds.
Span(t) ==
    /\ t.pos \in Reach /\ t.local \in Reach /\ t.start \in Wide /\ t.target \in Aim
    /\ t.vel \in -Speed..Speed /\ t.nom \in -Step..Step /\ t.prev \in -Top..Top
    /\ t.dist \in -(Top * Top)..(Top * Top)

Within(a) ==
    /\ Span(a.traj)
    /\ a.setpoint \in Reach /\ a.actual \in Reach /\ a.out \in Reach
    /\ a.pos \in Aim /\ a.velocity \in -Speed..Speed
    /\ Internal(a) /\ a.enable => a.traj.start \in Reach

LEMMA Ranges ==
    /\ Reach \subseteq Int /\ Reach \subseteq Wide /\ Reach \subseteq Aim
    /\ Aim \subseteq Int /\ Wide \subseteq Int
    /\ -Speed..Speed \subseteq -Step..Step /\ -Speed..Speed \subseteq Int
    /\ 0 \in -Top..Top /\ 0 \in -(Top * Top)..(Top * Top) /\ 0 \in -Speed..Speed
<1>1. /\ BwdSwitch \in Int /\ FwdSwitch \in Int /\ First \in Int /\ Last \in Int
      /\ DEC \in Nat /\ Step \in Nat /\ RampDown \in Nat /\ Top \in Nat /\ Speed \in Nat
      /\ Speed <= Top /\ Top <= Step
  BY Constants, Bounds
<1>2. Brake \in Int BY <1>1 DEF Brake
<1>3. Reach \subseteq Int BY <1>1, <1>2 DEF Reach
<1>4. Targets \subseteq Int BY AxisAssumption
<1>5. First..Last \subseteq Int BY <1>1
<1>6. 0 \in -(Top * Top)..(Top * Top)
  <2> DEFINE z == Top * Top
  <2>1. z \in Nat BY <1>1
  <2> HIDE DEF z
  <2>2. 0 \in -z..z BY <2>1
  <2> QED BY <2>2 DEF z
<1>7. -Speed..Speed \subseteq -Step..Step /\ 0 \in -Top..Top /\ 0 \in -Speed..Speed
      /\ -Speed..Speed \subseteq Int
  BY <1>1
<1> QED BY <1>3, <1>4, <1>5, <1>6, <1>7 DEF Wide, Aim

LEMMA SpanTarget ==
    ASSUME NEW t \in TrajState, Span(t), NEW x \in Aim
    PROVE  SetTargetPos(t, x) \in TrajState /\ Span(SetTargetPos(t, x))
           /\ SetTargetPos(t, x).start = t.start
<1> DEFINE u == SetTargetPos(t, x)
<1>1. x \in Int BY Ranges
<1>2. /\ u \in TrajState /\ u.local = t.pos /\ u.target = x
      /\ u.start = t.start /\ u.pos = t.pos
      /\ u.vel = t.vel /\ u.nom = t.nom /\ u.prev = t.prev /\ u.dist = t.dist
  BY <1>1, TargetFields
<1> HIDE DEF u
<1>3. Span(u) BY Zenon, <1>2 DEF Span
<1> QED BY <1>2, <1>3 DEF u

LEMMA SpanVelocity ==
    ASSUME NEW t \in TrajState, Span(t), NEW x \in -Speed..Speed
    PROVE  SetTargetVel(t, x) \in TrajState /\ Span(SetTargetVel(t, x))
           /\ SetTargetVel(t, x).start = t.start
<1> DEFINE u == SetTargetVel(t, x)
<1>1. x \in Int /\ x \in -Step..Step BY Ranges
<1>2. /\ u \in TrajState /\ u.vel = x /\ u.nom = x /\ u.start = t.start /\ u.pos = t.pos
      /\ u.local = t.local /\ u.target = t.target /\ u.prev = t.prev /\ u.dist = t.dist
  BY <1>1, VelocityFields
<1> HIDE DEF u
<1>3. Span(u) BY Zenon, <1>1, <1>2 DEF Span
<1> QED BY <1>2, <1>3 DEF u

LEMMA SpanExecute ==
    ASSUME NEW t \in TrajState, Span(t), NEW on \in BOOLEAN, ~on \/ t.start \in Reach
    PROVE  SetTrajExecute(t, on) \in TrajState /\ Span(SetTrajExecute(t, on))
           /\ SetTrajExecute(t, on).start = t.start
<1> DEFINE u == SetTrajExecute(t, on)
<1>1. /\ u \in TrajState /\ u.start = t.start /\ u.local = t.local
      /\ u.target = t.target /\ u.vel = t.vel /\ u.prev = t.prev /\ u.dist = t.dist
      /\ Rises(t, on) => u.pos = t.start /\ u.nom = t.vel
      /\ ~Rises(t, on) => u.pos = t.pos /\ u.nom = t.nom
  BY TrajExecuteFields
<1>2. Rises(t, on) => on BY DEF Rises
<1> HIDE DEF u
<1>3. u.pos \in Reach BY Zenon, <1>1, <1>2 DEF Span
<1>4. t.vel \in -Step..Step BY Ranges DEF Span
<1>5. u.nom \in -Step..Step BY Zenon, <1>1, <1>4 DEF Span
<1>6. Span(u) BY Zenon, <1>1, <1>3, <1>5 DEF Span
<1> QED BY <1>1, <1>6 DEF u

LEMMA SpanEnable ==
    ASSUME NEW t \in TrajState, Span(t), NEW on \in BOOLEAN, ~on \/ t.start \in Reach
    PROVE  SetTrajEnable(t, on) \in TrajState /\ Span(SetTrajEnable(t, on))
           /\ SetTrajEnable(t, on).start = t.start
<1> DEFINE u == SetTrajEnable(t, on)
<1>1. u \in TrajState BY TrajTypes
<1>2. /\ u.start = t.start /\ u.local = t.local /\ u.target = t.target /\ u.vel = t.vel
      /\ u.nom = t.nom
  BY DEF SetTrajEnable, TrajState
<1>3. u.pos = t.pos \/ (on /\ u.pos = t.start) BY DEF SetTrajEnable, TrajState
<1>4. u.prev \in {t.prev, 0} /\ u.dist \in {t.dist, 0} BY DEF SetTrajEnable, TrajState
<1> HIDE DEF u
<1>5. u.pos \in Reach BY Zenon, <1>3 DEF Span
<1>6. u.prev \in -Top..Top /\ u.dist \in -(Top * Top)..(Top * Top)
  BY Zenon, <1>4, Ranges DEF Span
<1>7. Span(u) BY Zenon, <1>2, <1>5, <1>6 DEF Span
<1> QED BY <1>1, <1>2, <1>7 DEF u

LEMMA SpanStart ==
    ASSUME NEW t \in TrajState, Span(t), NEW x \in Wide, NEW u, u = [t EXCEPT !.start = x]
    PROVE  u \in TrajState /\ Span(u) /\ u.start = x
<1>1. x \in Int BY Ranges
<1>2. u \in TrajState /\ u.start = x BY <1>1 DEF TrajState
<1>3. /\ u.local = t.local /\ u.pos = t.pos /\ u.target = t.target /\ u.vel = t.vel
      /\ u.nom = t.nom /\ u.prev = t.prev /\ u.dist = t.dist
  BY DEF TrajState
<1>4. Span(u) BY Zenon, <1>2, <1>3 DEF Span
<1> QED BY <1>2, <1>4

LEMMA SpanCurrent ==
    ASSUME NEW t \in TrajState, Span(t), NEW x \in Reach
    PROVE  SetCurrentPosSet(t, x) \in TrajState /\ Span(SetCurrentPosSet(t, x))
           /\ SetCurrentPosSet(t, x).start = t.start
<1> DEFINE u == SetCurrentPosSet(t, x)
<1>1. x \in Int BY Ranges
<1>2. u \in TrajState BY <1>1, TrajTypes
<1>3. /\ u.local = x /\ u.pos = x /\ u.prev = 0 /\ u.start = t.start /\ u.target = t.target
      /\ u.vel = t.vel /\ u.nom = t.nom /\ u.dist = t.dist
  BY DEF SetCurrentPosSet, TrajState
<1> HIDE DEF u
<1>4. Span(u) BY Zenon, <1>3, Ranges DEF Span
<1> QED BY <1>2, <1>3, <1>4 DEF u

-----------------------------------------------------------------------------
\* A command that changes the generator and the command, and leaves the rest.
LEMMA WithinKept ==
    ASSUME NEW a, Within(a), NEW b, Span(b.traj), b.traj.start = a.traj.start,
           b.setpoint = a.setpoint, b.actual = a.actual, b.out = a.out,
           b.pos \in Aim, b.velocity \in -Speed..Speed, b.source = a.source, b.enable = a.enable
    PROVE  Within(b)
BY Zenon DEF Within, Internal

LEMMA WithinVelocity ==
    ASSUME NEW a \in AxisState, Within(a), NEW vel \in -Speed..Speed,
           NEW b, b = SeqSetTargetVel(a, vel)
    PROVE  b \in AxisState /\ Within(b) /\ b.source = a.source /\ b.enable = a.enable
<1> DEFINE u == SetTargetVel(a.traj, vel)
<1>1. a.traj \in TrajState /\ Span(a.traj) /\ vel \in Int BY Ranges DEF AxisState, Within
<1>2. u \in TrajState /\ Span(u) /\ u.start = a.traj.start BY Zenon, <1>1, SpanVelocity
<1>3. b = [a EXCEPT !.velocity = vel, !.traj = u] BY DEF SeqSetTargetVel
<1> HIDE DEF u
<1>4. /\ b \in AxisState /\ b.traj = u /\ b.velocity = vel
      /\ b.setpoint = a.setpoint /\ b.actual = a.actual /\ b.out = a.out
      /\ b.pos = a.pos /\ b.source = a.source /\ b.enable = a.enable
  BY <1>1, <1>2, <1>3 DEF AxisState
<1>5. a.pos \in Aim BY Zenon DEF Within
<1>6. Within(b) BY Zenon, <1>2, <1>4, <1>5, WithinKept
<1> QED BY <1>4, <1>6

LEMMA WithinTarget ==
    ASSUME NEW a \in AxisState, Within(a), NEW pos \in Targets,
           NEW b, b = SeqSetTargetPos(a, pos)
    PROVE  b \in AxisState /\ Within(b) /\ b.source = a.source /\ b.enable = a.enable
<1> DEFINE u == IF a.busy THEN SetTargetPos(a.traj, pos) ELSE a.traj
<1>0. pos \in Aim BY DEF Aim
<1>1. a.traj \in TrajState /\ Span(a.traj) /\ pos \in Int BY <1>0, Ranges DEF AxisState, Within
<1>2. u \in TrajState /\ Span(u) /\ u.start = a.traj.start BY <1>0, <1>1, SpanTarget
<1>3. b = [a EXCEPT !.pos = pos, !.traj = u] BY DEF SeqSetTargetPos
<1> HIDE DEF u
<1>4. /\ b \in AxisState /\ b.traj = u /\ b.velocity = a.velocity
      /\ b.setpoint = a.setpoint /\ b.actual = a.actual /\ b.out = a.out
      /\ b.pos = pos /\ b.source = a.source /\ b.enable = a.enable
  BY <1>1, <1>2, <1>3 DEF AxisState
<1>5. a.velocity \in -Speed..Speed BY Zenon DEF Within
<1>6. Within(b) BY Zenon, <1>0, <1>2, <1>4, <1>5, WithinKept
<1> QED BY <1>4, <1>6

LEMMA SpanRisen ==
    ASSUME NEW a \in AxisState, Within(a)
    PROVE  Risen(a) \in TrajState /\ Span(Risen(a)) /\ Risen(a).start = a.traj.start
<1> DEFINE s == SetTargetVel(a.traj, a.velocity)
<1> DEFINE m == [s EXCEPT !.mode = a.command]
<1>1. a.traj \in TrajState /\ Span(a.traj) /\ a.velocity \in -Speed..Speed
      /\ a.pos \in Aim /\ a.command \in {"pos", "vel"}
  BY DEF AxisState, Within
<1>2. s \in TrajState /\ Span(s) /\ s.start = a.traj.start BY Zenon, <1>1, SpanVelocity
<1>3. Moved(a) = m BY DEF Moved
<1> HIDE DEF s
<1>4. /\ m \in TrajState /\ m.start = s.start /\ m.local = s.local /\ m.pos = s.pos
      /\ m.target = s.target /\ m.vel = s.vel /\ m.nom = s.nom /\ m.prev = s.prev
      /\ m.dist = s.dist
  BY <1>1, <1>2 DEF TrajState
<1> HIDE DEF m
<1>5. Span(m) BY Zenon, <1>2, <1>4 DEF Span
<1>6. SetTargetPos(m, a.pos) \in TrajState /\ Span(SetTargetPos(m, a.pos))
      /\ SetTargetPos(m, a.pos).start = m.start
  BY Zenon, <1>1, <1>4, <1>5, SpanTarget
<1> QED BY <1>2, <1>3, <1>4, <1>5, <1>6 DEF Risen

\* An execute changes nothing of an axis that is not enabled or not its own master.
LEMMA WithinExecute ==
    ASSUME NEW a \in AxisState, Within(a), NEW on \in BOOLEAN, NEW b, b = SetExecute(a, on)
    PROVE  b \in AxisState /\ Within(b) /\ b.source = a.source /\ b.enable = a.enable
<1>1. CASE on = FALSE
  <2>1. b \in AxisState /\ Same(a, b) /\ (~Internal(a) => b = a)
        /\ (Internal(a) => b.traj = SetTrajExecute(a.traj, FALSE))
    BY <1>1, Withdrawn
  <2>2. a.traj \in TrajState BY DEF AxisState
  <2>3. Span(a.traj) /\ a.pos \in Aim /\ a.velocity \in -Speed..Speed BY Zenon DEF Within
  <2>4. Span(b.traj) /\ b.traj.start = a.traj.start BY <2>1, <2>2, <2>3, SpanExecute
  <2>5. Within(b) BY Zenon, <2>1, <2>3, <2>4, WithinKept DEF Same
  <2> QED BY <2>1, <2>5 DEF Same
<1>2. CASE on = TRUE
  <2>1. /\ b \in AxisState /\ Same(a, b)
        /\ ~Internal(a) \/ ~a.enable => b.traj = a.traj
        /\ \/ b.traj = a.traj
           \/ b.traj = SetTrajExecute(a.traj, TRUE)
           \/ a.velocity # 0 /\ b.traj = SetTrajExecute(Risen(a), TRUE)
    BY <1>2, Executed
  <2>2. a.traj \in TrajState BY DEF AxisState
  <2>3. Span(a.traj) /\ a.pos \in Aim /\ a.velocity \in -Speed..Speed BY Zenon DEF Within
  <2>4. CASE b.traj = a.traj
    <3>1. Within(b) BY Zenon, <2>1, <2>3, <2>4, WithinKept DEF Same
    <3> QED BY <2>1, <3>1 DEF Same
  <2>5. CASE Internal(a) /\ a.enable
    <3>1. a.traj.start \in Reach BY Zenon, <2>5 DEF Within
    <3> DEFINE s == Risen(a)
    <3>2. s \in TrajState /\ Span(s) /\ s.start = a.traj.start BY Zenon, SpanRisen
    <3> HIDE DEF s
    <3>3. Span(SetTrajExecute(a.traj, TRUE)) /\ SetTrajExecute(a.traj, TRUE).start = a.traj.start
      BY <2>2, <2>3, <3>1, SpanExecute
    <3>4. Span(SetTrajExecute(s, TRUE)) /\ SetTrajExecute(s, TRUE).start = a.traj.start
      BY <3>1, <3>2, SpanExecute
    <3>5. Span(b.traj) /\ b.traj.start = a.traj.start BY <2>1, <2>3, <3>3, <3>4 DEF s
    <3>6. Within(b) BY Zenon, <2>1, <2>3, <3>5, WithinKept DEF Same
    <3> QED BY <2>1, <3>6 DEF Same
  <2> QED BY <2>1, <2>4, <2>5
<1> QED BY <1>1, <1>2

LEMMA WithinEnable ==
    ASSUME NEW a \in AxisState, Within(a), NEW on \in BOOLEAN, NEW b, b = SetEnable(a, on)
    PROVE  b \in AxisState /\ Within(b)
<1>1. CASE on = a.enable
  <2>1. b = a BY <1>1 DEF SetEnable
  <2> QED BY <2>1
<1>2. CASE on = FALSE /\ a.enable
  <2> DEFINE s == SetExecute(a, FALSE)
  <2>1. s \in AxisState /\ Within(s) /\ s.source = a.source BY WithinExecute
  <2>2. b = [s EXCEPT !.traj = SetTrajEnable(s.traj, FALSE), !.enableOld = a.enable,
                      !.enable = FALSE]
    BY <1>2 DEF SetEnable
  <2> HIDE DEF s
  <2> DEFINE u == SetTrajEnable(s.traj, FALSE)
  <2>3. s.traj \in TrajState /\ Span(s.traj) /\ s.pos \in Aim /\ s.velocity \in -Speed..Speed
    BY <2>1 DEF AxisState, Within
  <2>4. u \in TrajState /\ Span(u) BY <2>3, SpanEnable
  <2>5. b = [s EXCEPT !.traj = u, !.enableOld = a.enable, !.enable = FALSE] BY <2>2
  <2> HIDE DEF u
  <2>6. a.enable \in BOOLEAN BY DEF AxisState
  <2>7. /\ b \in AxisState /\ b.traj = u /\ b.setpoint = s.setpoint /\ b.actual = s.actual
        /\ b.out = s.out /\ b.pos = s.pos /\ b.velocity = s.velocity /\ ~b.enable
    BY ZenonT(40), <2>1, <2>4, <2>5, <2>6 DEF AxisState
  <2>8. Within(b) BY Zenon, <2>1, <2>4, <2>7 DEF Within
  <2> QED BY <2>7, <2>8
<1>3. CASE on = TRUE /\ ~a.enable
  <2> DEFINE x == a.actual
  <2> DEFINE t == [a.traj EXCEPT !.start = x]
  <2> DEFINE s == SetCurrentPosSet(t, x)
  <2> DEFINE w == SetTargetPos(s, x)
  <2> DEFINE u == SetTrajEnable(w, TRUE)
  <2>1. /\ a.traj \in TrajState /\ Span(a.traj) /\ x \in Reach /\ x \in Wide /\ x \in Aim
        /\ a.out \in Reach /\ a.pos \in Aim /\ a.velocity \in -Speed..Speed /\ x \in Int
    BY Ranges DEF AxisState, Within
  <2>2. b = [a EXCEPT !.traj = u, !.setpoint = x, !.first = TRUE,
                      !.enableOld = a.enable, !.enable = TRUE]
    BY <1>3 DEF SetEnable, Synchronised, AxisState
  <2> HIDE DEF x
  <2>3. t \in TrajState /\ Span(t) /\ t.start = x BY <2>1, SpanStart
  <2> HIDE DEF t
  <2>4. s \in TrajState /\ Span(s) /\ s.start = x BY <2>1, <2>3, SpanCurrent
  <2> HIDE DEF s
  <2>5. w \in TrajState /\ Span(w) /\ w.start = x BY <2>1, <2>4, SpanTarget
  <2> HIDE DEF w
  <2>6. u \in TrajState /\ Span(u) /\ u.start = x BY <2>1, <2>5, SpanEnable
  <2> HIDE DEF u
  <2>7. a.enable \in BOOLEAN BY DEF AxisState
  <2>8. /\ b \in AxisState /\ b.traj = u /\ b.setpoint = x /\ b.actual = x
        /\ b.out = a.out /\ b.pos = a.pos /\ b.velocity = a.velocity
    BY ZenonT(40), <2>1, <2>2, <2>6, <2>7 DEF AxisState, x
  <2>9. Within(b) BY Zenon, <2>1, <2>6, <2>8 DEF Within
  <2> QED BY <2>8, <2>9
<1>4. a.enable \in BOOLEAN BY DEF AxisState
<1> QED BY <1>1, <1>2, <1>3, <1>4

LEMMA WithinSource ==
    ASSUME NEW a \in AxisState, Within(a), NEW source \in {"internal", "external"},
           source = "internal" => ~a.enable,
           NEW b, b = SetTrajDataSourceType(a, source)
    PROVE  b \in AxisState /\ Within(b)
<1>0. /\ a.traj \in TrajState /\ Span(a.traj) /\ a.actual \in Reach /\ a.setpoint \in Reach
      /\ a.out \in Reach /\ a.pos \in Aim /\ a.velocity \in -Speed..Speed
      /\ a.actual \in Wide /\ a.enable \in BOOLEAN /\ a.execute \in BOOLEAN
      /\ a.busy \in BOOLEAN
  BY Ranges DEF AxisState, Within
<1>1. CASE source = a.source
  <2>1. b = a BY <1>1 DEF SetTrajDataSourceType
  <2> QED BY <2>1
<1>2. CASE source # a.source /\ source = "internal"
  <2> DEFINE u == [a.traj EXCEPT !.start = a.actual]
  <2> DEFINE busy == a.busy /\ a.enable
  <2> DEFINE execute == a.execute /\ a.enable
  <2>1. u \in TrajState /\ Span(u) BY <1>0, SpanStart
  <2>2. b = [a EXCEPT !.source = source, !.traj = u, !.busy = busy, !.execute = execute]
    BY <1>2 DEF SetTrajDataSourceType, AxisState
  <2>3. busy \in BOOLEAN /\ execute \in BOOLEAN BY <1>0
  <2> HIDE DEF u, busy, execute
  <2>4. /\ b \in AxisState /\ b.traj = u /\ b.setpoint = a.setpoint /\ b.actual = a.actual
        /\ b.out = a.out /\ b.pos = a.pos /\ b.velocity = a.velocity /\ b.enable = a.enable
    BY ZenonT(40), <2>1, <2>2, <2>3 DEF AxisState
  <2>5. ~b.enable BY <1>2, <2>4
  <2>6. Within(b) BY Zenon, <1>0, <2>1, <2>4, <2>5 DEF Within
  <2> QED BY <2>4, <2>6
<1>3. CASE source # a.source /\ source = "external"
  <2>1. CASE a.enable /\ ~AllowSourceChange
    <3>1. b = [a EXCEPT !.error = TRUE] BY <1>3, <2>1 DEF SetTrajDataSourceType
    <3>2. /\ b \in AxisState /\ b.traj = a.traj /\ b.setpoint = a.setpoint
          /\ b.actual = a.actual /\ b.source = a.source
          /\ b.out = a.out /\ b.pos = a.pos /\ b.velocity = a.velocity /\ b.enable = a.enable
      BY <3>1 DEF AxisState
    <3>3. Within(b) BY Zenon, <1>0, <3>2, WithinKept
    <3> QED BY <3>2, <3>3
  <2>2. CASE ~(a.enable /\ ~AllowSourceChange)
    <3> DEFINE flags == a.flags \ {"noExecute"}
    <3>0. flags \in SUBSET AxisFlags BY DEF AxisState
    <3>1. b = [a EXCEPT !.source = source, !.flags = flags, !.busy = TRUE, !.execute = TRUE]
      BY <1>3, <2>2 DEF SetTrajDataSourceType, AxisState
    <3> HIDE DEF flags
    <3>2. /\ b \in AxisState /\ b.traj = a.traj /\ b.setpoint = a.setpoint
          /\ b.actual = a.actual /\ b.source = "external"
          /\ b.out = a.out /\ b.pos = a.pos /\ b.velocity = a.velocity
      BY ZenonT(40), <1>3, <3>0, <3>1 DEF AxisState
    <3>3. ~Internal(b) BY <3>2 DEF Internal
    <3>4. Within(b) BY Zenon, <1>0, <3>2, <3>3 DEF Within
    <3> QED BY <3>2, <3>4
  <2> QED BY <2>1, <2>2
<1> QED BY <1>1, <1>2, <1>3

LEMMA WithinReset ==
    ASSUME NEW a \in AxisState, Within(a), NEW b, b = SetReset(a)
    PROVE  b \in AxisState /\ Within(b)
<1>1. /\ b \in AxisState /\ b.traj = a.traj /\ b.setpoint = a.setpoint
      /\ b.actual = a.actual /\ b.source = a.source
      /\ b.out = a.out /\ b.pos = a.pos /\ b.velocity = a.velocity /\ b.enable = a.enable
  BY DEF SetReset, AxisState
<1>2. Span(a.traj) /\ a.pos \in Aim /\ a.velocity \in -Speed..Speed BY Zenon DEF Within
<1>3. Within(b) BY Zenon, <1>1, <1>2, WithinKept
<1> QED BY <1>1, <1>3

LEMMA WithinPaused ==
    ASSUME NEW a \in AxisState, Within(a), NEW command \in {"pos", "vel"},
           NEW b, b = [SetExecute(a, FALSE) EXCEPT !.command = command]
    PROVE  b \in AxisState /\ Within(b)
<1> DEFINE s == SetExecute(a, FALSE)
<1>1. s \in AxisState /\ Within(s) BY WithinExecute
<1>2. b = [s EXCEPT !.command = command] OBVIOUS
<1> HIDE DEF s
<1>3. /\ b \in AxisState /\ b.traj = s.traj /\ b.setpoint = s.setpoint
      /\ b.actual = s.actual /\ b.source = s.source
      /\ b.out = s.out /\ b.pos = s.pos /\ b.velocity = s.velocity /\ b.enable = s.enable
  BY <1>1, <1>2 DEF AxisState
<1>4. Span(s.traj) /\ s.pos \in Aim /\ s.velocity \in -Speed..Speed BY Zenon, <1>1 DEF Within
<1>5. Within(b) BY Zenon, <1>1, <1>3, <1>4, WithinKept
<1> QED BY <1>3, <1>5

LEMMA WithinPosition ==
    ASSUME NEW a \in AxisState, Within(a), NEW pos \in Targets, NEW vel \in -Speed..Speed,
           NEW b, b = MoveAbsolutePosition(a, pos, vel)
    PROVE  b \in AxisState /\ Within(b)
<1> DEFINE s == [SetExecute(a, FALSE) EXCEPT !.command = "pos"]
<1>1. s \in AxisState /\ Within(s) BY WithinPaused
<1>2. \/ b = a
      \/ b = SeqSetTargetPos(SeqSetTargetVel(a, vel), pos)
      \/ b = SetExecute(SeqSetTargetPos(SeqSetTargetVel(s, vel), pos), TRUE)
  BY Zenon DEF MoveAbsolutePosition
<1> HIDE DEF s
<1>3. ASSUME NEW c \in AxisState, Within(c)
      PROVE  /\ SeqSetTargetPos(SeqSetTargetVel(c, vel), pos) \in AxisState
             /\ Within(SeqSetTargetPos(SeqSetTargetVel(c, vel), pos))
  <2> DEFINE d == SeqSetTargetVel(c, vel)
  <2>1. d \in AxisState /\ Within(d) BY <1>3, WithinVelocity
  <2> HIDE DEF d
  <2>2. SeqSetTargetPos(d, pos) \in AxisState /\ Within(SeqSetTargetPos(d, pos))
    BY <2>1, WithinTarget
  <2> QED BY <2>2 DEF d
<1> DEFINE e == SeqSetTargetPos(SeqSetTargetVel(s, vel), pos)
<1>4. e \in AxisState /\ Within(e) BY <1>1, <1>3
<1> HIDE DEF e
<1>5. SetExecute(e, TRUE) \in AxisState /\ Within(SetExecute(e, TRUE)) BY <1>4, WithinExecute
<1> QED BY <1>2, <1>3, <1>5 DEF e

LEMMA WithinMoveVelocity ==
    ASSUME NEW a \in AxisState, Within(a), NEW vel \in -Speed..Speed,
           NEW b, b = MoveVelocity(a, vel)
    PROVE  b \in AxisState /\ Within(b)
<1> DEFINE s == [SetExecute(a, FALSE) EXCEPT !.command = "vel"]
<1>1. s \in AxisState /\ Within(s) BY WithinPaused
<1>2. \/ b = a
      \/ b = SeqSetTargetVel(a, vel)
      \/ b = SetExecute(SeqSetTargetVel(s, vel), TRUE)
  BY Zenon DEF MoveVelocity
<1> HIDE DEF s
<1>3. ASSUME NEW c \in AxisState, Within(c)
      PROVE  SeqSetTargetVel(c, vel) \in AxisState /\ Within(SeqSetTargetVel(c, vel))
  BY <1>3, WithinVelocity
<1> DEFINE e == SeqSetTargetVel(s, vel)
<1>4. e \in AxisState /\ Within(e) BY <1>1, <1>3
<1> HIDE DEF e
<1>5. SetExecute(e, TRUE) \in AxisState /\ Within(SetExecute(e, TRUE)) BY <1>4, WithinExecute
<1> QED BY <1>2, <1>3, <1>5 DEF e

LEMMA WithinCommand ==
    ASSUME axis \in AxisState, Within(axis),
           CommandPosition \/ CommandVelocity \/ Stop \/ Kill \/ Enable \/ Execute \/ Source \/ Reset
    PROVE  Within(axis')
<1>0. ASSUME NEW v \in Velocities
      PROVE  v \in -Speed..Speed /\ \A sign \in {-1, 1} : sign * v \in -Speed..Speed
  <2>1. v \in Nat /\ v <= Speed /\ Speed \in Nat BY Constants, AxisAssumption
  <2> QED BY <2>1
<1>1. CASE CommandPosition
  <2>1. PICK pos \in Targets, vel \in Velocities : axis' = MoveAbsolutePosition(axis, pos, vel)
    BY <1>1 DEF CommandPosition, Command
  <2> QED BY <1>0, <2>1, WithinPosition
<1>2. CASE CommandVelocity
  <2>1. PICK vel \in Velocities, sign \in {-1, 1} : axis' = MoveVelocity(axis, sign * vel)
    BY <1>2 DEF CommandVelocity, Command
  <2> QED BY <1>0, <2>1, WithinMoveVelocity
<1>3. CASE Stop
  <2>1. axis' = SetExecute(axis, FALSE) BY <1>3 DEF Stop, Command, StopMotion
  <2> QED BY <2>1, WithinExecute
<1>4. CASE Kill
  <2> DEFINE s == SetExecute(axis, FALSE)
  <2>1. axis' = SetEnable(s, FALSE) BY <1>4 DEF Kill, Command, StopMotion
  <2>2. s \in AxisState /\ Within(s) BY WithinExecute
  <2> HIDE DEF s
  <2> QED BY <2>1, <2>2, WithinEnable
<1>5. CASE Enable
  <2>1. PICK on \in BOOLEAN : axis' = SetEnable(axis, on) BY <1>5 DEF Enable, Command
  <2> QED BY <2>1, WithinEnable
<1>6. CASE Execute
  <2>1. PICK on \in BOOLEAN : axis' = SetExecute(axis, on) BY <1>6 DEF Execute, Command
  <2> QED BY <2>1, WithinExecute
<1>7. CASE Source
  <2>1. PICK source \in {"internal", "external"} :
           /\ source = "internal" => ~axis.enable
           /\ axis' = SetTrajDataSourceType(axis, source)
    BY <1>7 DEF Source, Command
  <2> QED BY <2>1, WithinSource
<1>8. CASE Reset
  <2>1. axis' = SetReset(axis) BY <1>8 DEF Reset, Command
  <2> QED BY <2>1, WithinReset
<1> QED BY <1>1, <1>2, <1>3, <1>4, <1>5, <1>6, <1>7, <1>8

(***************************************************************************)
(* What the commands make of a motion                                      *)
(***************************************************************************)
\* The generator of an enabled axis that has been given no command.
Firm(a) ==
    /\ a.traj.execute => a.execute /\ a.enabled
    /\ a.traj.busy /\ a.execute => a.traj.execute
    /\ a.traj.busy => a.busy /\ a.traj.enable
    /\ a.executeOld = a.execute

\* A command starts a motion only on an enabled drive, and never takes a ramp down for one.
Obeyed(a, b) ==
    /\ a.flags \ {"noExecute"} \subseteq b.flags
    /\ b.traj.execute => b.execute /\ b.enabled
    /\ b.traj.busy /\ b.execute => b.traj.execute
    /\ a.traj.busy /\ ~a.traj.execute => b.traj.busy /\ ~b.traj.execute
    /\ b.traj.busy => a.traj.busy \/ a.enabled

\* A command that leaves the motion as it is.
Alike(a, b) ==
    /\ b.execute = a.execute /\ b.busy = a.busy /\ b.executeOld = a.executeOld
    /\ b.flags = a.flags /\ b.enabled = a.enabled /\ b.source = a.source
    /\ b.enable = a.enable
    /\ b.traj.busy = a.traj.busy /\ b.traj.execute = a.traj.execute
    /\ b.traj.enable = a.traj.enable

LEMMA AlikeObeyed ==
    ASSUME NEW a \in AxisState, Firm(a), NEW b, Alike(a, b)
    PROVE  Obeyed(a, b)
BY DEF Firm, Alike, Obeyed

LEMMA AlikeTwice ==
    ASSUME NEW a, NEW b, NEW c, Alike(a, b), Alike(b, c)
    PROVE  Alike(a, c)
BY DEF Alike

LEMMA AlikeVelocity ==
    ASSUME NEW a \in AxisState, NEW vel \in Int, NEW b, b = SeqSetTargetVel(a, vel)
    PROVE  b \in AxisState /\ Alike(a, b) /\ b.velocity = vel
<1> DEFINE u == SetTargetVel(a.traj, vel)
<1>1. a.traj \in TrajState BY DEF AxisState
<1>2. u \in TrajState BY <1>1, TrajTypes
<1>3. /\ u.busy = a.traj.busy /\ u.execute = a.traj.execute /\ u.enable = a.traj.enable
  BY <1>1 DEF SetTargetVel, TrajState
<1>4. b = [a EXCEPT !.velocity = vel, !.traj = u] BY DEF SeqSetTargetVel
<1> HIDE DEF u
<1>5. /\ b \in AxisState /\ b.traj = u /\ b.velocity = vel /\ b.execute = a.execute
      /\ b.busy = a.busy /\ b.executeOld = a.executeOld /\ b.flags = a.flags
      /\ b.enabled = a.enabled /\ b.source = a.source /\ b.enable = a.enable
  BY ZenonT(40), <1>2, <1>4 DEF AxisState
<1> QED BY <1>3, <1>5 DEF Alike

LEMMA AlikeTarget ==
    ASSUME NEW a \in AxisState, NEW pos \in Int, NEW b, b = SeqSetTargetPos(a, pos)
    PROVE  b \in AxisState /\ Alike(a, b) /\ b.velocity = a.velocity
<1> DEFINE u == IF a.busy THEN SetTargetPos(a.traj, pos) ELSE a.traj
<1>1. a.traj \in TrajState BY DEF AxisState
<1>2. u \in TrajState BY <1>1, TrajTypes
<1>3. /\ u.busy = a.traj.busy /\ u.execute = a.traj.execute /\ u.enable = a.traj.enable
  BY <1>1 DEF SetTargetPos, TrajState
<1>4. b = [a EXCEPT !.pos = pos, !.traj = u] BY DEF SeqSetTargetPos
<1> HIDE DEF u
<1>5. /\ b \in AxisState /\ b.traj = u /\ b.velocity = a.velocity /\ b.execute = a.execute
      /\ b.busy = a.busy /\ b.executeOld = a.executeOld /\ b.flags = a.flags
      /\ b.enabled = a.enabled /\ b.source = a.source /\ b.enable = a.enable
  BY <1>2, <1>4 DEF AxisState
<1> QED BY <1>3, <1>5 DEF Alike

\* What an execute makes of the generator and of the command.
Starts(c, b) ==
    /\ b.enabled = c.enabled /\ c.flags \ {"noExecute"} \subseteq b.flags
    /\ \/ /\ ~c.executeOld /\ c.busy
          /\ b.execute = c.execute /\ b.traj = c.traj
       \/ /\ c.executeOld \/ ~c.busy
          /\ ~c.execute /\ c.velocity = 0
          /\ b.execute /\ b.traj = c.traj
       \/ /\ c.executeOld \/ ~c.busy
          /\ b.execute
          /\ c.traj.enable /\ ~c.traj.execute => b.traj.busy /\ b.traj.execute
          /\ ~c.traj.enable => ~b.traj.execute /\ b.traj.busy = c.traj.busy
          /\ c.traj.enable /\ c.traj.execute => b.traj.execute /\ b.traj.busy = c.traj.busy

LEMMA ExecuteStarts ==
    ASSUME NEW c \in AxisState, Internal(c), c.enable, NEW b, b = SetExecute(c, TRUE)
    PROVE  Starts(c, b)
<1>1. CASE ~c.executeOld /\ c.busy
  <2>1. b = [c EXCEPT !.error = TRUE] BY <1>1 DEF SetExecute
  <2>2. b.enabled = c.enabled /\ b.flags = c.flags /\ b.execute = c.execute /\ b.traj = c.traj
    BY <2>1 DEF AxisState
  <2> QED BY <1>1, <2>2 DEF Starts
<1>2. CASE ~(~c.executeOld /\ c.busy)
  <2> DEFINE on == TRUE
  <2> DEFINE rises == on /\ ~c.execute
  <2> DEFINE busy == c.busy \/ rises
  <2> DEFINE t == IF ~rises THEN c.traj ELSE Risen(c)
  <2> DEFINE m == [c EXCEPT !.execute = on, !.busy = busy, !.traj = t]
  <2>1. on \in BOOLEAN /\ busy \in BOOLEAN
    <3>1. c.busy \in BOOLEAN BY DEF AxisState
    <3> QED BY <3>1
  <2>2. b = IF rises /\ c.velocity = 0 THEN [c EXCEPT !.execute = TRUE, !.error = TRUE]
            ELSE TrajExecute(m, on)
    BY Zenon, <1>2 DEF SetExecute, SeqSetExecute, Risen, Moved
  <2>3. on = TRUE /\ (rises <=> ~c.execute) /\ c.execute \in BOOLEAN BY DEF AxisState
  <2>4. /\ t \in TrajState /\ c.traj \in TrajState
        /\ t.enable = c.traj.enable /\ t.execute = c.traj.execute /\ t.busy = c.traj.busy
    <3>1. c.traj \in TrajState /\ Risen(c) \in TrajState BY RisenType DEF AxisState
    <3>2. /\ Risen(c).enable = c.traj.enable /\ Risen(c).execute = c.traj.execute
          /\ Risen(c).busy = c.traj.busy
      BY <3>1 DEF Risen, Moved, SetTargetVel, SetTargetPos, TrajState
    <3> QED BY <3>1, <3>2
  <2> HIDE DEF on, rises, busy, t
  <2>5. /\ m \in AxisState /\ m.traj = t /\ m.execute = on /\ m.flags = c.flags
        /\ m.enabled = c.enabled
    BY ZenonT(40), <2>1, <2>4 DEF AxisState
  <2> HIDE DEF m
  <2>6. CASE rises /\ c.velocity = 0
    <3>1. b = [c EXCEPT !.execute = TRUE, !.error = TRUE] BY <2>2, <2>6
    <3>2. b.enabled = c.enabled /\ b.flags = c.flags /\ b.execute /\ b.traj = c.traj
      BY <3>1 DEF AxisState
    <3> QED BY <1>2, <2>3, <2>6, <3>2 DEF Starts
  <2>7. CASE ~(rises /\ c.velocity = 0)
    <3>1. b = TrajExecute(m, on) BY <2>2, <2>7
    <3>d. m \in AxisState /\ on \in BOOLEAN BY <2>1, <2>5
    <3>b. Same(m, b) /\ b.traj = SetTrajExecute(m.traj, on)
      BY Zenon, <3>1, <3>d, TrajExecuteStep
    <3>c. b.execute = m.execute BY ZenonT(40), <3>1, <3>d, TrajExecuteStep
    <3>2. Same(m, b) /\ b.traj = SetTrajExecute(m.traj, on) /\ b.execute = m.execute
      BY <3>b, <3>c
    <3>a. b.flags = m.flags \/ b.flags = m.flags \ {"noExecute"}
      BY ZenonT(40), <3>1, <3>d, TrajExecuteStep
    <3>3. b.enabled = c.enabled /\ b.execute /\ c.flags \ {"noExecute"} \subseteq b.flags
      BY <2>3, <2>5, <3>2, <3>a DEF Same
    <3> DEFINE u == SetTrajExecute(t, TRUE)
    <3>4. b.traj = u BY <2>3, <2>5, <3>2
    <3>5. /\ t.enable /\ ~t.execute => u.busy /\ u.execute
          /\ ~t.enable => ~u.execute /\ u.busy = t.busy
          /\ t.enable /\ t.execute => u.execute /\ u.busy = t.busy
      BY <2>4 DEF SetTrajExecute, Rises, TrajState
    <3> QED BY <1>2, <2>4, <3>3, <3>4, <3>5 DEF Starts
  <2> QED BY <2>6, <2>7
<1> QED BY <1>1, <1>2

LEMMA StartsObeyed ==
    ASSUME NEW c \in AxisState, c.enabled, NEW b, Starts(c, b), Firm(c)
    PROVE  Obeyed(c, b)
<1>1. c.traj.busy \in BOOLEAN /\ c.traj.execute \in BOOLEAN /\ c.traj.enable \in BOOLEAN
      /\ c.execute \in BOOLEAN /\ c.executeOld \in BOOLEAN /\ c.busy \in BOOLEAN
  BY DEF AxisState, TrajState
<1> QED BY <1>1 DEF Starts, Obeyed, Firm

\* A motion that is taken back before another one.
TakenBack(a, b) ==
    /\ ~b.execute /\ ~b.traj.execute /\ b.busy = a.busy /\ b.executeOld = a.executeOld
    /\ b.traj.busy = a.traj.busy /\ b.traj.enable = a.traj.enable
    /\ b.enabled = a.enabled /\ b.source = a.source /\ b.enable = a.enable
    /\ b.flags = a.flags

LEMMA WithdrawnMotion ==
    ASSUME NEW a \in AxisState, Internal(a), NEW b, b = SetExecute(a, FALSE)
    PROVE  b \in AxisState /\ TakenBack(a, b)
<1>1. /\ b \in AxisState /\ Same(a, b) /\ b.traj = SetTrajExecute(a.traj, FALSE) /\ ~b.execute
      /\ b.busy = a.busy /\ b.flags = a.flags /\ b.executeOld = a.executeOld
  BY Zenon, Withdrawn
<1> DEFINE t == a.traj
<1> DEFINE u == SetTrajExecute(t, FALSE)
<1>2. t \in TrajState BY DEF AxisState
<1> HIDE DEF t
<1>3. u.busy = t.busy /\ u.enable = t.enable /\ ~u.execute
  BY <1>2 DEF SetTrajExecute, Rises, TrajState
<1> QED BY <1>1, <1>3 DEF TakenBack, Same, t

LEMMA PausedMotion ==
    ASSUME NEW a \in AxisState, Internal(a), NEW command \in {"pos", "vel"},
           NEW b, b = [SetExecute(a, FALSE) EXCEPT !.command = command]
    PROVE  b \in AxisState /\ TakenBack(a, b)
<1> DEFINE s == SetExecute(a, FALSE)
<1>1. s \in AxisState /\ TakenBack(a, s) BY WithdrawnMotion
<1>2. b = [s EXCEPT !.command = command] OBVIOUS
<1> HIDE DEF s
<1>3. /\ b \in AxisState /\ b.execute = s.execute /\ b.traj = s.traj /\ b.busy = s.busy
      /\ b.executeOld = s.executeOld /\ b.enabled = s.enabled /\ b.source = s.source
      /\ b.enable = s.enable /\ b.flags = s.flags
  BY <1>1, <1>2 DEF AxisState
<1> QED BY <1>1, <1>3 DEF TakenBack

LEMMA PausedObeyed ==
    ASSUME NEW a \in AxisState, Firm(a), NEW b, TakenBack(a, b)
    PROVE  Obeyed(a, b)
BY DEF Firm, TakenBack, Obeyed

\* A motion that starts when its velocity and its target have been set.
LEMMA PausedStarts ==
    ASSUME NEW a \in AxisState, Internal(a), a.enable, a.enabled, Firm(a),
           NEW s \in AxisState, TakenBack(a, s), NEW c \in AxisState, Alike(s, c), c.velocity # 0
    PROVE  Obeyed(a, SetExecute(c, TRUE))
<1> DEFINE b == SetExecute(c, TRUE)
<1>1. Internal(c) /\ c.enable BY DEF TakenBack, Alike, Internal
<1>2. Starts(c, b) BY <1>1, ExecuteStarts
<1> HIDE DEF b
<1> DEFINE t == a.traj
<1> DEFINE v == c.traj
<1>3. /\ ~c.execute /\ ~v.execute /\ c.busy = a.busy /\ c.executeOld = a.executeOld
      /\ v.busy = t.busy /\ v.enable = t.enable /\ c.enabled = a.enabled /\ c.flags = a.flags
  BY DEF TakenBack, Alike
<1>4. /\ t.busy \in BOOLEAN /\ t.execute \in BOOLEAN /\ t.enable \in BOOLEAN
      /\ v.busy \in BOOLEAN /\ v.execute \in BOOLEAN /\ v.enable \in BOOLEAN
      /\ a.execute \in BOOLEAN /\ a.executeOld \in BOOLEAN /\ a.busy \in BOOLEAN
  BY DEF AxisState, TrajState
<1>5. /\ t.busy /\ a.execute => t.execute
      /\ t.busy => a.busy /\ t.enable
      /\ a.executeOld = a.execute
  BY DEF Firm
<1>6. b.enabled = c.enabled /\ c.flags \ {"noExecute"} \subseteq b.flags BY <1>2 DEF Starts
<1>7. \/ /\ ~c.executeOld /\ c.busy
         /\ b.execute = c.execute /\ b.traj = v
      \/ /\ c.executeOld \/ ~c.busy
         /\ b.execute
         /\ v.enable /\ ~v.execute => b.traj.busy /\ b.traj.execute
         /\ ~v.enable => ~b.traj.execute /\ b.traj.busy = v.busy
         /\ v.enable /\ v.execute => b.traj.execute /\ b.traj.busy = v.busy
  BY <1>2 DEF Starts
<1> HIDE DEF t, v
<1>8. t.busy /\ ~t.execute => ~a.executeOld /\ a.busy BY <1>4, <1>5
<1>9. /\ b.traj.execute => b.execute
      /\ b.traj.busy /\ b.execute => b.traj.execute
      /\ t.busy /\ ~t.execute => b.traj.busy /\ ~b.traj.execute
  BY <1>3, <1>4, <1>5, <1>7, <1>8
<1>10. b.enabled /\ a.flags \ {"noExecute"} \subseteq b.flags BY <1>3, <1>6
<1> QED BY Zenon, <1>9, <1>10 DEF Obeyed, t, b

LEMMA FirmFrom ==
    ASSUME NEW a, Internal(a), a.enable, Gripped(a, FALSE),
           RampsKept(a.traj, Internal(a), a.enable, FALSE)
    PROVE  Firm(a)
BY DEF Gripped, RampsKept, Firm

LEMMA ObeyedPosition ==
    ASSUME NEW a \in AxisState, Internal(a), a.enable, a.enabled, Firm(a),
           NEW pos \in Int, NEW vel \in Int \ {0}, NEW b, b = MoveAbsolutePosition(a, pos, vel)
    PROVE  Obeyed(a, b)
<1> DEFINE s == [SetExecute(a, FALSE) EXCEPT !.command = "pos"]
<1> DEFINE d == SeqSetTargetPos(SeqSetTargetVel(a, vel), pos)
<1> DEFINE e == SeqSetTargetPos(SeqSetTargetVel(s, vel), pos)
<1>1. s \in AxisState /\ TakenBack(a, s) BY PausedMotion
<1>2. b = a \/ b = d \/ b = SetExecute(e, TRUE) BY Zenon DEF MoveAbsolutePosition
<1> HIDE DEF s
<1>3. ASSUME NEW c \in AxisState, NEW g, g = SeqSetTargetPos(SeqSetTargetVel(c, vel), pos)
      PROVE  g \in AxisState /\ Alike(c, g) /\ g.velocity = vel
  <2> DEFINE h == SeqSetTargetVel(c, vel)
  <2>1. h \in AxisState /\ Alike(c, h) /\ h.velocity = vel BY AlikeVelocity
  <2>2. g = SeqSetTargetPos(h, pos) BY <1>3
  <2> HIDE DEF h
  <2>3. g \in AxisState /\ Alike(h, g) /\ g.velocity = h.velocity BY <2>1, <2>2, AlikeTarget
  <2> QED BY Zenon, <2>1, <2>3, AlikeTwice
<1>4. d \in AxisState /\ Alike(a, d) BY <1>3
<1>5. e \in AxisState /\ Alike(s, e) /\ e.velocity # 0 BY <1>1, <1>3
<1> HIDE DEF d, e
<1>6. Obeyed(a, SetExecute(e, TRUE)) BY Zenon, <1>1, <1>5, PausedStarts
<1>7. Obeyed(a, d) BY Zenon, <1>4, AlikeObeyed
<1>8. Obeyed(a, a)
  <2>1. Alike(a, a) BY DEF Alike
  <2> QED BY <2>1, AlikeObeyed
<1> QED BY <1>2, <1>6, <1>7, <1>8

LEMMA ObeyedMoveVelocity ==
    ASSUME NEW a \in AxisState, Internal(a), a.enable, a.enabled, Firm(a),
           NEW vel \in Int \ {0}, NEW b, b = MoveVelocity(a, vel)
    PROVE  Obeyed(a, b)
<1> DEFINE s == [SetExecute(a, FALSE) EXCEPT !.command = "vel"]
<1> DEFINE d == SeqSetTargetVel(a, vel)
<1> DEFINE e == SeqSetTargetVel(s, vel)
<1>1. s \in AxisState /\ TakenBack(a, s) BY PausedMotion
<1>2. b = a \/ b = d \/ b = SetExecute(e, TRUE) BY Zenon DEF MoveVelocity
<1> HIDE DEF s
<1>4. d \in AxisState /\ Alike(a, d) BY AlikeVelocity
<1>5. e \in AxisState /\ Alike(s, e) /\ e.velocity # 0 BY <1>1, AlikeVelocity
<1> HIDE DEF d, e
<1>6. Obeyed(a, SetExecute(e, TRUE)) BY Zenon, <1>1, <1>5, PausedStarts
<1>7. Obeyed(a, d) BY Zenon, <1>4, AlikeObeyed
<1>8. Obeyed(a, a)
  <2>1. Alike(a, a) BY DEF Alike
  <2> QED BY <2>1, AlikeObeyed
<1> QED BY <1>2, <1>6, <1>7, <1>8

-----------------------------------------------------------------------------
\* One side of the axis after a command.
LEMMA SideObeyed ==
    ASSUME NEW f, NEW x, NEW p, NEW a, NEW o, NEW flag, NEW busy, NEW exec,
           Side(f, x, p, a, o, flag, busy, exec, FALSE),
           NEW flag2, flag => flag2, NEW busy2, NEW exec2,
           busy /\ ~exec => busy2 /\ ~exec2, busy2 => busy \/ o = x
    PROVE  Side(f, x, p, a, o, flag2, busy2, exec2, TRUE)
<1>1. CASE a < f /\ Approaching(f, x) BY <1>1 DEF Side
<1>2. CASE a < f /\ Coasting(f, x, p, busy, exec)
  <2>1. Coasting(f, x, p, busy2, exec2) BY <1>2 DEF Coasting
  <2> QED BY <1>2, <2>1 DEF Side
<1>3. CASE a < f /\ Resting(f, x, p, o, busy, FALSE)
  <2>1. Resting(f, x, p, o, busy2, TRUE) BY <1>3 DEF Resting
  <2> QED BY <1>3, <2>1 DEF Side
<1>4. CASE a >= f /\ Beyond(f, x, p, flag, busy, FALSE)
  <2>1. Beyond(f, x, p, flag2, busy2, TRUE) BY <1>4 DEF Beyond
  <2> QED BY <1>4, <2>1 DEF Side
<1> QED BY <1>1, <1>2, <1>3, <1>4 DEF Side

LEMMA SideReset ==
    ASSUME NEW f, NEW x, NEW p, NEW a, NEW o, NEW flag, NEW busy, NEW exec,
           Side(f, x, p, a, o, flag, busy, exec, FALSE), ~busy, NEW flag2
    PROVE  Side(f, x, p, a, o, flag2, busy, exec, TRUE)
BY DEF Side, Coasting, Resting, Beyond

LEMMA SideHere ==
    ASSUME NEW f \in Int, NEW x \in Int, x <= f + Brake, NEW p \in Int, p <= DEC,
           NEW o, NEW flag, NEW exec, NEW busy, ~busy
    PROVE  Side(f, x, p, x, o, flag, busy, exec, TRUE)
<1> DEFINE L1 == Rest(f)
<1> DEFINE L3 == Most(f)
<1>0. /\ DEC \in Nat \ {0} /\ Step \in Nat \ {0} /\ RampDown \in Nat /\ L1 \in Int /\ L3 \in Int
      /\ L1 = f - 1 + Step /\ L3 = L1 + RampDown + Step + DEC
  BY Bounds
<1>1. CASE x < f
  <2>1. x <= L1 BY <1>0, <1>1
  <2> QED BY <1>1, <2>1 DEF Side, Approaching
<1>2. CASE x >= f
  <2>1. x <= L3 BY <1>0 DEF Brake
  <2>2. Contained(x, p, L3) BY <1>0, <2>1, ContainedShort
  <2> QED BY <1>2, <2>2 DEF Side, Beyond
<1>3. x < f \/ x >= f OBVIOUS
<1> QED BY Zenon, <1>1, <1>2, <1>3

-----------------------------------------------------------------------------
LEMMA SidedObeyed ==
    ASSUME NEW a \in AxisState, Internal(a), a.enable, Sided(a, FALSE),
           GetEnabled(a) => a.out = a.setpoint,
           NEW b \in AxisState, Obeyed(a, b),
           b.setpoint = a.setpoint, b.actual = a.actual, b.out = a.out,
           b.traj.prev = a.traj.prev
    PROVE  Gripped(b, TRUE) /\ Sided(b, TRUE)
<1>1. FwdSide(a, FALSE) /\ BwdSide(a, FALSE) BY DEF Sided
<1>2. ("fwdLimit" \in a.flags => "fwdLimit" \in b.flags)
      /\ ("bwdLimit" \in a.flags => "bwdLimit" \in b.flags)
  BY DEF Obeyed
<1>3. /\ a.traj.busy /\ ~a.traj.execute => b.traj.busy /\ ~b.traj.execute
      /\ b.traj.busy => a.traj.busy \/ a.enabled
  BY DEF Obeyed
<1>4. b.traj.busy => a.traj.busy \/ a.out = a.setpoint BY <1>3 DEF GetEnabled
<1>5. b.traj.busy => a.traj.busy \/ -a.out = -a.setpoint BY <1>4
<1> DEFINE x == a.setpoint
<1> DEFINE p == a.traj.prev
<1> DEFINE act == a.actual
<1> DEFINE o == a.out
<1> DEFINE busy == a.traj.busy
<1> DEFINE exec == a.traj.execute
<1> DEFINE busy2 == b.traj.busy
<1> DEFINE exec2 == b.traj.execute
<1> DEFINE fwd == "fwdLimit" \in a.flags
<1> DEFINE fwd2 == "fwdLimit" \in b.flags
<1> DEFINE bwd == "bwdLimit" \in a.flags
<1> DEFINE bwd2 == "bwdLimit" \in b.flags
<1>6. /\ Side(FwdSwitch, x, p, act, o, fwd, busy, exec, FALSE)
      /\ Side(-BwdSwitch, -x, -p, -act, -o, bwd, busy, exec, FALSE)
      /\ (fwd => fwd2) /\ (bwd => bwd2)
      /\ busy /\ ~exec => busy2 /\ ~exec2
      /\ busy2 => busy \/ o = x
      /\ busy2 => busy \/ -o = -x
  BY Zenon, <1>1, <1>2, <1>3, <1>4, <1>5 DEF FwdSide, BwdSide
<1>7. b.setpoint = x /\ b.actual = act /\ b.out = o /\ b.traj.prev = p OBVIOUS
<1> HIDE DEF x, p, act, o, busy, exec, busy2, exec2, fwd, fwd2, bwd, bwd2
<1>9. Side(FwdSwitch, x, p, act, o, fwd2, busy2, exec2, TRUE) BY <1>6, SideObeyed
<1>10. Side(-BwdSwitch, -x, -p, -act, -o, bwd2, busy2, exec2, TRUE) BY <1>6, SideObeyed
<1>11. FwdSide(b, TRUE) BY Zenon, <1>7, <1>9 DEF FwdSide, busy2, exec2, fwd2
<1>12. BwdSide(b, TRUE) BY Zenon, <1>7, <1>10 DEF BwdSide, busy2, exec2, bwd2
<1>8. Gripped(b, TRUE) BY DEF Gripped, Obeyed
<1> QED BY <1>8, <1>11, <1>12 DEF Sided

LEMMA SidedEnabled ==
    ASSUME NEW a \in AxisState, ~a.enable, a.actual \in Reach,
           NEW e, Even(a, e, FALSE), RampsKept(a.traj, Internal(a), a.enable, FALSE),
           NEW b \in AxisState, EnabledHere(a, b)
    PROVE  Gripped(b, TRUE) /\ Sided(b, TRUE)
<1>1. ~a.traj.busy BY DEF Even
<1>2. ~a.traj.execute BY DEF RampsKept
<1>3. ~b.traj.busy /\ ~b.traj.execute /\ b.traj.prev = 0 BY <1>1, <1>2 DEF EnabledHere, Anchored
<1>4. b.setpoint = a.actual /\ b.actual = a.actual BY DEF EnabledHere
<1>5. Gripped(b, TRUE) BY <1>3 DEF Gripped
<1> DEFINE x == a.actual
<1>6. x \in Int /\ x <= FwdSwitch + Brake /\ -x <= -BwdSwitch + Brake /\ -x \in Int
      /\ FwdSwitch \in Int /\ -BwdSwitch \in Int
  <2>1. /\ FwdSwitch \in Int /\ BwdSwitch \in Int /\ DEC \in Nat /\ Step \in Nat /\ RampDown \in Nat
    BY Constants, Bounds
  <2>2. Brake \in Int BY <2>1 DEF Brake
  <2>3. x \in Reach OBVIOUS
  <2> HIDE DEF x
  <2>4. x \in Int /\ BwdSwitch - Brake <= x /\ x <= FwdSwitch + Brake
    BY <2>1, <2>2, <2>3 DEF Reach
  <2> DEFINE w == Brake
  <2>5. w \in Int BY <2>2
  <2>6. BwdSwitch - w <= x /\ x <= FwdSwitch + w BY <2>4
  <2> HIDE DEF w
  <2>7. -x <= -BwdSwitch + w /\ -x \in Int /\ -BwdSwitch \in Int BY <2>1, <2>4, <2>5, <2>6
  <2> QED BY <2>1, <2>4, <2>6, <2>7 DEF w
<1> DEFINE q == b.traj.prev
<1>a. q \in Int /\ -q \in Int /\ q <= DEC /\ -q <= DEC /\ DEC \in Nat
  <2>1. q = 0 /\ DEC \in Nat BY <1>3, Constants
  <2> HIDE DEF q
  <2> QED BY <2>1
<1> HIDE DEF x, q
<1>7. Side(FwdSwitch, x, q, x, b.out, "fwdLimit" \in b.flags, b.traj.busy, b.traj.execute, TRUE)
  BY <1>3, <1>6, <1>a, SideHere
<1>8. Side(-BwdSwitch, -x, -q, -x, -b.out, "bwdLimit" \in b.flags, b.traj.busy, b.traj.execute, TRUE)
  BY <1>3, <1>6, <1>a, SideHere
<1>9. FwdSide(b, TRUE) BY <1>4, <1>7 DEF FwdSide, x, q
<1>10. BwdSide(b, TRUE) BY <1>4, <1>8 DEF BwdSide, x, q
<1> QED BY <1>5, <1>9, <1>10 DEF Sided

LEMMA EnableTakes ==
    ASSUME NEW a \in AxisState, NEW on \in BOOLEAN
    PROVE  SetEnable(a, on).enable = on
<1> DEFINE s == IF on THEN Synchronised(a) ELSE SetExecute(a, FALSE)
<1> DEFINE u == SetTrajEnable(s.traj, on)
<1>1. CASE on = a.enable
  <2>1. SetEnable(a, on) = a BY <1>1 DEF SetEnable
  <2> QED BY <1>1, <2>1
<1>2. CASE on # a.enable
  <2>1. SetEnable(a, on) = [s EXCEPT !.traj = u, !.enableOld = a.enable, !.enable = on]
    BY <1>2 DEF SetEnable
  <2>2. s \in AxisState
    <3>1. CASE on = FALSE
      <4>1. SetExecute(a, FALSE) \in AxisState BY Withdrawn
      <4> QED BY <3>1, <4>1
    <3>2. CASE on = TRUE
      <4> DEFINE x == a.actual
      <4> DEFINE t == [a.traj EXCEPT !.start = x]
      <4> DEFINE w == SetTargetPos(SetCurrentPosSet(t, x), x)
      <4>1. a.traj \in TrajState /\ x \in Int BY DEF AxisState
      <4>2. t \in TrajState BY <4>1 DEF TrajState
      <4>3. w \in TrajState BY <4>1, <4>2, TrajTypes
      <4>4. Synchronised(a) = [a EXCEPT !.traj = w, !.setpoint = x, !.first = TRUE]
        BY DEF Synchronised
      <4> HIDE DEF w, x
      <4>5. Synchronised(a) \in AxisState BY <4>1, <4>3, <4>4 DEF AxisState
      <4> QED BY <3>2, <4>5
    <3> QED BY <3>1, <3>2
  <2> HIDE DEF s, u
  <2> QED BY <2>1, <2>2 DEF AxisState
<1> QED BY <1>1, <1>2

\* After a command the axis is as after none when it leaves everything as it is.
LEMMA SidedAlike ==
    ASSUME NEW a \in AxisState, Sided(a, FALSE), Gripped(a, FALSE),
           NEW e, Even(a, e, FALSE), RampsKept(a.traj, Internal(a), a.enable, FALSE),
           NEW b \in AxisState, Alike(a, b), b.setpoint = a.setpoint, b.actual = a.actual,
           b.out = a.out, b.traj.prev = a.traj.prev
    PROVE  Gripped(b, TRUE) /\ Sided(b, TRUE)
<1>1. CASE Internal(a) /\ a.enable
  <2>1. Firm(a) BY <1>1, FirmFrom
  <2>2. Obeyed(a, b) BY <2>1, AlikeObeyed
  <2>3. GetEnabled(a) => a.out = a.setpoint BY DEF Even
  <2> QED BY <1>1, <2>2, <2>3, SidedObeyed
<1>2. CASE ~(Internal(a) /\ a.enable)
  <2>1. ~(Internal(b) /\ b.enable) BY <1>2 DEF Alike, Internal
  <2> QED BY <2>1 DEF Gripped, Sided
<1> QED BY <1>1, <1>2

LEMMA SidedElsewhere ==
    ASSUME NEW b, ~Internal(b) \/ ~b.enable
    PROVE  Gripped(b, TRUE) /\ Sided(b, TRUE)
BY DEF Gripped, Sided

\* A motion that is commanded to an enabled axis.
LEMMA SidedCommanded ==
    ASSUME NEW a \in AxisState, GetEnabled(a), Internal(a), Sided(a, FALSE),
           NEW e, Even(a, e, FALSE),
           NEW vel, NEW b, Commanded(a, b, vel), Obeyed(a, b)
    PROVE  Gripped(b, TRUE) /\ Sided(b, TRUE)
<1>1. a.enable BY DEF GetEnabled
<1>2. b \in AxisState /\ b.setpoint = a.setpoint /\ b.actual = a.actual /\ b.out = a.out
  BY DEF Commanded, Kept
<1>3. b.traj.prev = a.traj.prev BY DEF Commanded, Given
<1>4. GetEnabled(a) => a.out = a.setpoint BY DEF Even
<1> QED BY <1>1, <1>2, <1>3, <1>4, SidedObeyed

Steadied ==
    /\ RampsInv /\ EvenInv
    /\ Within(axis) /\ Gripped(axis, given # 0) /\ Sided(axis, given # 0)

\* No command moves an axis by itself, and none takes the ramp down for a motion.
LEMMA SidedWithdrawn ==
    ASSUME NEW a \in AxisState, Sided(a, FALSE), Gripped(a, FALSE),
           NEW e, Even(a, e, FALSE), RampsKept(a.traj, Internal(a), a.enable, FALSE),
           NEW b, b = SetExecute(a, FALSE)
    PROVE  b \in AxisState /\ Gripped(b, TRUE) /\ Sided(b, TRUE)
<1>1. b \in AxisState /\ Same(a, b) BY Withdrawn
<1>2. CASE Internal(a) /\ a.enable
  <2>1. TakenBack(a, b) BY <1>2, WithdrawnMotion
  <2>2. Firm(a) BY <1>2, FirmFrom
  <2>3. Obeyed(a, b) BY <2>1, <2>2, PausedObeyed
  <2>4. a.traj \in TrajState /\ b.traj = SetTrajExecute(a.traj, FALSE)
    BY <1>2, Withdrawn DEF AxisState
  <2>5. b.traj.prev = a.traj.prev BY ZenonT(40), <2>4, TrajExecuteFields
  <2>6. GetEnabled(a) => a.out = a.setpoint BY DEF Even
  <2>7. b.setpoint = a.setpoint /\ b.actual = a.actual /\ b.out = a.out BY <1>1 DEF Same
  <2> QED BY <1>1, <1>2, <2>3, <2>5, <2>6, <2>7, SidedObeyed
<1>3. CASE ~(Internal(a) /\ a.enable)
  <2>1. ~Internal(b) \/ ~b.enable BY <1>1, <1>3 DEF Same, Internal
  <2> QED BY <1>1, <2>1, SidedElsewhere
<1> QED BY <1>2, <1>3

LEMMA SidedExecuted ==
    ASSUME NEW a \in AxisState, GetEnabled(a), Sided(a, FALSE), Gripped(a, FALSE),
           NEW e, Even(a, e, FALSE), RampsKept(a.traj, Internal(a), a.enable, FALSE),
           NEW b, b = SetExecute(a, TRUE)
    PROVE  Gripped(b, TRUE) /\ Sided(b, TRUE)
<1>1. /\ b \in AxisState /\ Same(a, b)
      /\ \/ b.traj = a.traj
         \/ b.traj = SetTrajExecute(a.traj, TRUE)
         \/ b.traj = SetTrajExecute(Risen(a), TRUE)
  BY Executed
<1>2. a.enable /\ a.enabled BY DEF GetEnabled
<1>3. CASE Internal(a)
  <2>1. Firm(a) BY <1>2, <1>3, FirmFrom
  <2>2. Starts(a, b) BY <1>2, <1>3, ExecuteStarts
  <2>3. Obeyed(a, b) BY <1>2, <2>1, <2>2, StartsObeyed
  <2>4. b.traj.prev = a.traj.prev
    <3>1. a.traj \in TrajState BY DEF AxisState
    <3> DEFINE t == a.traj
    <3> DEFINE on == TRUE
    <3> DEFINE w == SetTrajExecute(t, on)
    <3>a. t \in TrajState /\ on \in BOOLEAN BY <3>1
    <3> HIDE DEF t, on
    <3>b. w.prev = t.prev BY <3>a, GeneratorKeeps
    <3>2. SetTrajExecute(a.traj, TRUE).prev = a.traj.prev BY <3>b DEF t, on
    <3> DEFINE u == SetTrajExecute(Risen(a), TRUE)
    <3>3. Given(a.traj, u, a.velocity, a.enable) BY <1>2, RisenGiven
    <3>4. u.prev = a.traj.prev BY <3>3 DEF Given
    <3> QED BY <1>1, <3>2, <3>4
  <2>5. a.out = a.setpoint BY DEF Even
  <2>6. b.setpoint = a.setpoint /\ b.actual = a.actual /\ b.out = a.out BY <1>1 DEF Same
  <2> QED BY <1>1, <1>2, <1>3, <2>3, <2>4, <2>5, <2>6, SidedObeyed
<1>4. CASE ~Internal(a)
  <2>1. ~Internal(b) BY <1>1, <1>4 DEF Same, Internal
  <2> QED BY <2>1, SidedElsewhere
<1> QED BY <1>3, <1>4

LEMMA SidedReset ==
    ASSUME NEW a \in AxisState, ~a.busy, Sided(a, FALSE), Gripped(a, FALSE),
           NEW b, b = SetReset(a)
    PROVE  Gripped(b, TRUE) /\ Sided(b, TRUE)
<1>1. /\ b.traj = a.traj /\ b.setpoint = a.setpoint /\ b.actual = a.actual /\ b.out = a.out
      /\ b.source = a.source /\ b.enable = a.enable /\ b.execute = a.execute
      /\ b.enabled = a.enabled
  BY DEF SetReset, AxisState
<1>2. CASE Internal(a) /\ a.enable
  <2>1. ~a.traj.busy BY <1>2 DEF Gripped
  <2>2. FwdSide(a, FALSE) /\ BwdSide(a, FALSE) BY <1>2 DEF Sided
  <2>3. Side(FwdSwitch, a.setpoint, a.traj.prev, a.actual, a.out, "fwdLimit" \in b.flags,
             a.traj.busy, a.traj.execute, TRUE)
    BY Zenon, <2>1, <2>2, SideReset DEF FwdSide
  <2>4. Side(-BwdSwitch, -a.setpoint, -a.traj.prev, -a.actual, -a.out, "bwdLimit" \in b.flags,
             a.traj.busy, a.traj.execute, TRUE)
    BY Zenon, <2>1, <2>2, SideReset DEF BwdSide
  <2>5. FwdSide(b, TRUE) /\ BwdSide(b, TRUE) BY Zenon, <1>1, <2>3, <2>4 DEF FwdSide, BwdSide
  <2>6. Gripped(b, TRUE) BY <1>1, <1>2, <2>1 DEF Gripped
  <2> QED BY <2>5, <2>6 DEF Sided
<1>3. CASE ~(Internal(a) /\ a.enable)
  <2>1. ~Internal(b) \/ ~b.enable BY <1>1, <1>3 DEF Internal
  <2> QED BY <2>1, SidedElsewhere
<1> QED BY <1>2, <1>3

LEMMA SidedSource ==
    ASSUME NEW a \in AxisState, Sided(a, FALSE), Gripped(a, FALSE),
           NEW e, Even(a, e, FALSE), RampsKept(a.traj, Internal(a), a.enable, FALSE),
           NEW source \in {"internal", "external"}, source = "internal" => ~a.enable,
           NEW b, b = SetTrajDataSourceType(a, source)
    PROVE  Gripped(b, TRUE) /\ Sided(b, TRUE)
<1>1. CASE source = a.source
  <2>1. b = a BY <1>1 DEF SetTrajDataSourceType
  <2>2. Alike(a, a) BY DEF Alike
  <2> QED BY <2>1, <2>2, SidedAlike
<1>2. CASE source # a.source /\ source = "internal"
  <2>1. ~b.enable BY <1>2 DEF SetTrajDataSourceType, AxisState
  <2> QED BY <2>1, SidedElsewhere
<1>3. CASE source # a.source /\ source = "external"
  <2>1. CASE a.enable /\ ~AllowSourceChange
    <3>1. b = [a EXCEPT !.error = TRUE] BY <1>3, <2>1 DEF SetTrajDataSourceType
    <3>2. /\ b \in AxisState /\ b.setpoint = a.setpoint /\ b.actual = a.actual /\ b.out = a.out
          /\ b.traj = a.traj
      BY <3>1 DEF AxisState
    <3>3. Alike(a, b) BY <3>1 DEF Alike, AxisState
    <3> QED BY <3>2, <3>3, SidedAlike
  <2>2. CASE ~(a.enable /\ ~AllowSourceChange)
    <3>1. ~Internal(b) BY <1>3, <2>2 DEF SetTrajDataSourceType, AxisState, Internal
    <3> QED BY <3>1, SidedElsewhere
  <2> QED BY <2>1, <2>2
<1> QED BY <1>1, <1>2, <1>3

LEMMA SidedSwitched ==
    ASSUME NEW a \in AxisState, Within(a), Sided(a, FALSE), Gripped(a, FALSE),
           NEW e, Even(a, e, FALSE), RampsKept(a.traj, Internal(a), a.enable, FALSE),
           NEW on \in BOOLEAN, NEW b, b = SetEnable(a, on)
    PROVE  Gripped(b, TRUE) /\ Sided(b, TRUE)
<1>1. CASE on = FALSE
  <2>1. ~b.enable BY <1>1, EnableTakes
  <2> QED BY <2>1, SidedElsewhere
<1>2. CASE on = TRUE /\ a.enable
  <2>1. b = a
    <3>1. a.enable = TRUE BY <1>2 DEF AxisState
    <3> QED BY <1>2, <3>1 DEF SetEnable
  <2>2. Alike(a, a) BY DEF Alike
  <2> QED BY <2>1, <2>2, SidedAlike
<1>3. CASE on = TRUE /\ ~a.enable
  <2>1. b \in AxisState /\ EnabledHere(a, b) BY <1>3, EnableOn
  <2>2. a.actual \in Reach BY DEF Within
  <2> QED BY <1>3, <2>1, <2>2, SidedEnabled
<1> QED BY <1>1, <1>2, <1>3

LEMMA SidedCommand ==
    ASSUME Gap <= 1, "waiting" \notin Commands, Steadied,
           CommandPosition \/ CommandVelocity \/ Stop \/ Kill \/ Enable \/ Execute \/ Source \/ Reset
    PROVE  Gripped(axis', TRUE) /\ Sided(axis', TRUE)
<1>0. given = 0
  <2>1. given < Gap BY CommandOutcome DEF Steadied, EvenInv, Sound
  <2>2. given \in Nat /\ Gap \in Nat BY Constants DEF Steadied, EvenInv, Sound
  <2> QED BY <2>1, <2>2
<1> DEFINE late == given # 0
<1>a. late = FALSE BY <1>0
<1>b. /\ axis \in AxisState /\ Within(axis)
      /\ Sided(axis, late) /\ Gripped(axis, late) /\ Even(axis, external, late)
      /\ RampsKept(axis.traj, Internal(axis), axis.enable, late)
  BY Zenon DEF Steadied, EvenInv, RampsInv, Sound
<1> HIDE DEF late
<1>c. /\ axis \in AxisState /\ Within(axis)
      /\ Sided(axis, FALSE) /\ Gripped(axis, FALSE) /\ Even(axis, external, FALSE)
      /\ RampsKept(axis.traj, Internal(axis), axis.enable, FALSE)
  BY <1>a, <1>b
<1>d. ASSUME NEW v \in Velocities
      PROVE  v \in Int \ {0} /\ \A sign \in {-1, 1} : sign * v \in Int \ {0}
  <2>1. v \in Nat \ {0} BY AxisAssumption
  <2> QED BY <2>1
<1>e. Alike(axis, axis) BY DEF Alike
<1>f. Gripped(axis, TRUE) /\ Sided(axis, TRUE) BY <1>c, <1>e, SidedAlike
<1>g. Ready => GetEnabled(axis) BY DEF Ready
<1>1. CASE CommandPosition
  <2>1. PICK pos \in Targets, vel \in Velocities :
          Ready /\ axis' = MoveAbsolutePosition(axis, pos, vel)
    BY <1>1 DEF CommandPosition, Command
  <2>2. GetEnabled(axis) /\ axis.enable /\ axis.enabled BY <1>g, <2>1 DEF GetEnabled
  <2>3. pos \in Int /\ vel \in Int \ {0} BY <1>d, AxisAssumption
  <2>4. axis' = axis \/ (Internal(axis) /\ Commanded(axis, axis', vel))
    BY <1>c, <2>1, <2>3, PositionGiven
  <2>5. CASE Internal(axis) /\ Commanded(axis, axis', vel)
    <3>1. Firm(axis) BY <1>c, <2>2, <2>5, FirmFrom
    <3>2. Obeyed(axis, axis') BY <1>c, <2>1, <2>2, <2>3, <2>5, <3>1, ObeyedPosition
    <3> QED BY <1>c, <2>2, <2>5, <3>2, SidedCommanded
  <2> QED BY <1>f, <2>4, <2>5
<1>2. CASE CommandVelocity
  <2>1. PICK vel \in Velocities, sign \in {-1, 1} :
          Ready /\ axis' = MoveVelocity(axis, sign * vel)
    BY <1>2 DEF CommandVelocity, Command
  <2>2. GetEnabled(axis) /\ axis.enable /\ axis.enabled BY <1>g, <2>1 DEF GetEnabled
  <2> DEFINE v == sign * vel
  <2>3. v \in Int \ {0} BY <1>d
  <2>a. axis' = MoveVelocity(axis, v) BY <2>1
  <2> HIDE DEF v
  <2>4. axis' = axis \/ (Internal(axis) /\ Commanded(axis, axis', v))
    BY <1>c, <2>a, <2>3, VelocityGiven
  <2>5. CASE Internal(axis) /\ Commanded(axis, axis', v)
    <3>1. Firm(axis) BY <1>c, <2>2, <2>5, FirmFrom
    <3>2. Obeyed(axis, axis') BY <1>c, <2>a, <2>2, <2>3, <2>5, <3>1, ObeyedMoveVelocity
    <3> QED BY <1>c, <2>2, <2>5, <3>2, SidedCommanded
  <2> QED BY <1>f, <2>4, <2>5
<1>3. CASE Stop
  <2>1. axis' = SetExecute(axis, FALSE) BY <1>3 DEF Stop, Command, StopMotion
  <2> QED BY <1>c, <2>1, SidedWithdrawn
<1>4. CASE Kill
  <2> DEFINE s == SetExecute(axis, FALSE)
  <2>1. axis' = SetEnable(s, FALSE) BY <1>4 DEF Kill, Command, StopMotion
  <2>2. s \in AxisState BY <1>c, Withdrawn
  <2> HIDE DEF s
  <2>3. ~axis'.enable BY <2>1, <2>2, EnableTakes
  <2> QED BY <2>3, SidedElsewhere
<1>5. CASE Enable
  <2>1. PICK on \in BOOLEAN : axis' = SetEnable(axis, on) BY <1>5 DEF Enable, Command
  <2> QED BY <1>c, <2>1, SidedSwitched
<1>6. CASE Execute
  <2>1. PICK on \in BOOLEAN : (on => Ready) /\ axis' = SetExecute(axis, on)
    BY <1>6 DEF Execute, Command
  <2>2. CASE on = TRUE
    <3>1. GetEnabled(axis) /\ axis' = SetExecute(axis, TRUE) BY <1>g, <2>1, <2>2
    <3> QED BY <1>c, <3>1, SidedExecuted
  <2>3. CASE on = FALSE BY <1>c, <2>1, <2>3, SidedWithdrawn
  <2> QED BY <2>2, <2>3
<1>7. CASE Source
  <2>1. PICK source \in {"internal", "external"} :
           /\ source = "internal" => ~axis.enable
           /\ axis' = SetTrajDataSourceType(axis, source)
    BY <1>7 DEF Source, Command
  <2> QED BY <1>c, <2>1, SidedSource
<1>8. CASE Reset
  <2>1. axis' = SetReset(axis) /\ ~axis.busy BY <1>8 DEF Reset, Command
  <2> QED BY <1>c, <2>1, SidedReset
<1> QED BY <1>1, <1>2, <1>3, <1>4, <1>5, <1>6, <1>7, <1>8

(***************************************************************************)
(* What the cycle leaves within the travel                                 *)
(***************************************************************************)
\* The target that a step of the generator leaves.
LEMMA TargetStep ==
    ASSUME NEW t \in TrajState, NEW locks, NEW ext \in BOOLEAN,
           NEW u, u = InternalTraj(t, locks, ext)
    PROVE  u.target = t.target \/ u.target = t.local
<1> DEFINE m == IF t.mode = "pos" THEN MovePos(t) ELSE MoveVel(t)
<1> DEFINE blocked == ext \/ (m.to < t.local /\ locks.bwd) \/ (m.to > t.local /\ locks.fwd)
<1> DEFINE r == IF blocked THEN MoveStop(t, m.step, locks.stop) ELSE m
<1>1. u = [t EXCEPT !.pos = r.to, !.local = r.to, !.prev = r.step, !.busy = r.busy,
                    !.target = IF blocked /\ ~r.busy THEN t.local ELSE t.target,
                    !.dist = r.step * Size(r.step)]
  BY Zenon DEF InternalTraj
<1> DEFINE dist == r.step * Size(r.step)
<1> DEFINE ends == blocked /\ ~r.busy
<1>2. u = [t EXCEPT !.pos = r.to, !.local = r.to, !.prev = r.step, !.busy = r.busy,
                    !.target = IF ends THEN t.local ELSE t.target, !.dist = dist]
  BY <1>1
<1> HIDE DEF r, ends, dist
<1> QED BY <1>2 DEF TrajState

LEMMA SquareBound ==
    ASSUME NEW p \in -Top..Top
    PROVE  p * Size(p) \in -(Top * Top)..(Top * Top)
<1> DEFINE z == p * Size(p)
<1> DEFINE m == Top * Top
<1>1. p \in Int /\ -Top <= p /\ p <= Top /\ Top \in Nat BY Sizes
<1>2. m \in Int /\ z \in Int BY <1>1 DEF Size
<1>3. p >= 0 => z = p * p BY <1>1 DEF Size
<1>4. p < 0 => z = p * (-p) BY <1>1 DEF Size
<1>5. p >= 0 => p * p <= m /\ 0 <= p * p BY <1>1, Z3
<1>6. p < 0 => p * (-p) <= 0 /\ -m <= p * (-p) BY <1>1, Z3
<1>7. 0 <= m BY <1>1, Z3
<1> HIDE DEF m
<1>8. p >= 0 \/ p < 0 BY <1>1
<1>9. -m <= z /\ z <= m
  <2>1. CASE p >= 0
    <3>1. p * p \in Int /\ p * p <= m /\ 0 <= p * p /\ z = p * p BY <1>1, <1>3, <1>5, <2>1
    <3> HIDE DEF z
    <3> QED BY <1>2, <1>7, <3>1
  <2>2. CASE p < 0
    <3>1. p * (-p) \in Int /\ p * (-p) <= 0 /\ -m <= p * (-p) /\ z = p * (-p)
      BY <1>1, <1>4, <1>6, <2>2
    <3> HIDE DEF z
    <3> QED BY <1>2, <1>7, <3>1
  <2> QED BY <1>8, <2>1, <2>2
<1> HIDE DEF z
<1>10. z \in -m..m BY <1>2, <1>9
<1> QED BY <1>10 DEF z, m

\* A step of the generator that ends within the travel.
LEMMA SpanRan ==
    ASSUME NEW t \in TrajState, Span(t), NEW u, Ran(t, u), u.pos \in Reach,
           u.prev \in -Top..Top, u.target = t.target \/ u.target = t.local
    PROVE  Span(u)
<1>1. u.start = t.start /\ u.vel = t.vel /\ u.nom = t.nom /\ u.local = u.pos BY DEF Ran
<1>2. u.dist = u.prev * Size(u.prev) BY DEF Ran, Stale
<1>3. u.dist \in -(Top * Top)..(Top * Top) BY <1>2, SquareBound
<1>4. t.local \in Aim BY Ranges DEF Span
<1>5. u.target \in Aim BY <1>4 DEF Span
<1> QED BY Zenon, <1>1, <1>3, <1>5 DEF Span

LEMMA SpanStood ==
    ASSUME NEW t \in TrajState, Span(t), NEW u, Stood(t, u)
    PROVE  Span(u)
<1>1. u.start = t.start /\ u.vel = t.vel /\ u.nom = t.nom /\ u.local = t.local
      /\ u.pos = t.pos /\ u.target = t.target /\ u.prev = t.prev
  BY DEF Stood
<1>2. u.dist = u.prev * Size(u.prev) BY DEF Stood, Stale
<1>3. u.prev \in -Top..Top BY <1>1 DEF Span
<1>4. u.dist \in -(Top * Top)..(Top * Top) BY <1>2, <1>3, SquareBound
<1> QED BY Zenon, <1>1, <1>3, <1>4 DEF Span

LEMMA SpanTempered ==
    ASSUME NEW t, Span(t), NEW u, Tempered(t, u), u.start \in Wide
    PROVE  Span(u)
BY Zenon DEF Span, Tempered

LEMMA SpanRested ==
    ASSUME NEW t, Span(t), NEW u, NEW own, Rested(t, u, own)
    PROVE  Span(u)
BY Zenon DEF Span, Rested

LEMMA SpanAwake ==
    ASSUME NEW a \in AxisState, Span(a.traj), NEW p, Awake(a, p)
    PROVE  Span(p.traj)
<1>1. CASE p.traj = a.traj BY <1>1
<1>2. CASE Rested(a.traj, p.traj, TRUE) \/ Rested(a.traj, p.traj, FALSE)
  BY <1>2, SpanRested
<1> QED BY <1>1, <1>2 DEF Awake

LEMMA ReachFrom ==
    ASSUME NEW x \in Int, x <= FwdSwitch + Brake, -x <= -BwdSwitch + Brake
    PROVE  x \in Reach
<1>1. BwdSwitch \in Int /\ FwdSwitch \in Int BY Constants
<1>2. Brake \in Int
  <2>1. DEC \in Nat /\ Step \in Nat /\ RampDown \in Nat BY Bounds
  <2> QED BY <2>1 DEF Brake
<1> QED BY <1>1, <1>2 DEF Reach

\* A cycle of an axis with its own setpoint.
LEMMA WithinOwn ==
    ASSUME ACC <= DEC, ACC <= 10, NEW a \in AxisState, Internal(a),
           NEW e, NEW late, Even(a, e, late), RampsKept(a.traj, Internal(a), a.enable, late),
           Gripped(a, late), Sided(a, late), Within(a), NEW p, Awake(a, p), Roused(a, p),
           NEW enabled \in BOOLEAN, NEW r, Finished(p, r, enabled),
           NEW u, NEW flags, OwnCycle(p, r, u, flags)
    PROVE  Gripped(r, FALSE) /\ Sided(r, FALSE) /\ Within(r)
<1>1. /\ p \in AxisState /\ p.source = a.source /\ p.out = a.out /\ p.velocity = a.velocity
      /\ (p.enable => p = a) /\ (p.traj.busy => p.enable)
  BY DEF Roused
<1>2. p.pos = a.pos BY DEF Awake, Woken
<1>3. /\ r \in AxisState /\ r.source = p.source /\ r.enable = p.enable
      /\ r.velocity = p.velocity /\ r.actual = p.out /\ r.pos = p.pos
  BY <1>1, FinishedKeeps
<1>4. /\ Span(a.traj) /\ a.out \in Reach /\ a.pos \in Aim /\ a.velocity \in -Speed..Speed
  BY Zenon DEF Within
<1> DEFINE t == p.traj
<1>5. Span(t) BY <1>4, SpanAwake
<1>6. Flagged(r.flags, r.actual) BY FlaggedCycle
<1>7. t \in TrajState BY <1>1 DEF AxisState
<1>8. u = GetNextPosSet(t, Summary(flags), FALSE) /\ u \in TrajState BY Zenon DEF OwnCycle
<1> DEFINE ext == FALSE
<1> DEFINE locks == Summary(flags)
<1>9. ext \in BOOLEAN /\ u = GetNextPosSet(t, locks, ext) BY <1>8
<1>10. r.enable => /\ Gripped(r, FALSE) /\ Sided(r, FALSE) /\ u.prev \in -Top..Top
                   /\ u.pos <= FwdSwitch + Brake /\ -u.pos <= -BwdSwitch + Brake
  <2> SUFFICES ASSUME r.enable
               PROVE  /\ Gripped(r, FALSE) /\ Sided(r, FALSE) /\ u.prev \in -Top..Top
                      /\ u.pos <= FwdSwitch + Brake /\ -u.pos <= -BwdSwitch + Brake
    OBVIOUS
  <2>1. p = a /\ a.enable BY <1>1, <1>3
  <2>2. a.traj.prev \in -Top..Top BY Zenon, <1>4 DEF Span
  <2>3. Finished(a, r, enabled) /\ OwnCycle(a, r, u, flags) BY <2>1
  <2> QED BY Zenon, <1>6, <2>1, <2>2, <2>3, SidedCycle
<1>11. ~r.enable => Gripped(r, FALSE) /\ Sided(r, FALSE) BY DEF Gripped, Sided
<1> HIDE DEF t, ext, locks
<1>12. Span(u)
  <2>1. CASE Moves(t)
    <3>1. u = InternalTraj(t, locks, ext) /\ Ran(t, u)
      BY Zenon, <1>7, <1>9, <2>1, GeneratorMoves
    <3>2. u.target = t.target \/ u.target = t.local BY Zenon, <1>7, <1>9, <3>1, TargetStep
    <3>3. r.enable BY <1>1, <1>3, <2>1 DEF Moves, t
    <3>4. u.pos \in Int BY <1>8 DEF TrajState
    <3>5. u.pos \in Reach BY <1>10, <3>3, <3>4, ReachFrom
    <3> QED BY Zenon, <1>5, <1>7, <1>10, <3>1, <3>2, <3>3, <3>5, SpanRan
  <2>2. CASE ~Moves(t)
    <3>1. Stood(t, u) BY Zenon, <1>7, <1>9, <2>2, GeneratorStands
    <3> QED BY Zenon, <1>5, <1>7, <3>1, SpanStood
  <2> QED BY <2>1, <2>2
<1>13. /\ Tempered(u, r.traj)
       /\ r.setpoint \in {u.pos, r.actual} /\ r.traj.start \in {u.pos, r.actual}
       /\ r.enable => r.traj.start = u.pos
  BY Zenon DEF OwnCycle
<1>14. (GetEnabled(r) => r.out = r.setpoint) /\ (~GetEnabled(r) => r.out = r.actual)
  BY Zenon DEF Finished
<1>15. u.pos \in Reach BY Zenon, <1>12 DEF Span
<1>16. r.actual \in Reach BY <1>1, <1>3, <1>4
<1>17. r.setpoint \in Reach /\ r.traj.start \in Reach BY <1>13, <1>15, <1>16
<1>18. r.out \in Reach BY <1>14, <1>16, <1>17
<1>19. Span(r.traj)
  <2>1. r.traj.start \in Wide BY <1>17, Ranges
  <2> QED BY Zenon, <1>12, <1>13, <2>1, SpanTempered
<1>20. r.pos \in Aim /\ r.velocity \in -Speed..Speed BY <1>1, <1>2, <1>3, <1>4
<1>21. Within(r) BY Zenon, <1>16, <1>17, <1>18, <1>19, <1>20 DEF Within
<1> QED BY <1>10, <1>11, <1>21

-----------------------------------------------------------------------------
\* A stop ramp that takes over from the PLC ends in its first cycle, where it begins.
LEMMA StopWithin ==
    ASSUME PlcStep <= DEC, NEW c \in AxisState, ~c.traj.busy, Span(c.traj), c.actual \in Reach,
           Size(c.speed) <= PlcStep, Bounded(c.traj), NEW flags, flags \subseteq AxisFlags,
           NEW u, u = GetNextPosSet(StopFrom(c), Summary(flags), TRUE)
    PROVE  Span(u)
<1> DEFINE ext == TRUE
<1> DEFINE locks == Summary(flags)
<1> DEFINE s == StopFrom(c)
<1> DEFINE t == c.traj
<1> DEFINE v == c.speed
<1> DEFINE x == c.actual
<1>0. ~c.ramping => u.pos = c.actual BY StopBound
<1>1. ext \in BOOLEAN /\ ext /\ u = GetNextPosSet(s, locks, ext) OBVIOUS
<1>2. locks.stop # "emergency" BY NoEmergency
<1>3. t \in TrajState /\ v \in Int /\ x \in Int BY DEF AxisState
<1>4. s \in TrajState BY StopFromType
<1>5. (c.ramping => s = t) /\ (~c.ramping => s = InitStopRamp([t EXCEPT !.start = x], x, v))
  BY DEF StopFrom
<1>6. Span(t) /\ ~t.busy /\ Size(v) <= PlcStep /\ x \in Reach OBVIOUS
<1>a. ~c.ramping => u.pos = x BY <1>0
<1> HIDE DEF ext, locks, s, t, v, x
<1>7. CASE c.ramping
  <2>1. s = t BY <1>5, <1>7
  <2>2. ~Moves(s) BY <1>6, <2>1 DEF Moves
  <2>3. Stood(s, u) BY Zenon, <1>1, <1>4, <2>2, GeneratorStands
  <2> QED BY Zenon, <1>3, <1>6, <2>1, <2>3, SpanStood
<1>8. CASE ~c.ramping
  <2>1. s = InitStopRamp([t EXCEPT !.start = x], x, v) BY <1>5, <1>8
  <2>2. /\ s.enable /\ s.busy /\ s.local = x /\ s.pos = x /\ s.prev = v /\ s.nom = Size(v)
        /\ s.vel = t.vel /\ s.start = x /\ s.target = t.target
    BY <1>3, <2>1, StopRampFields
  <2>3. Moves(s) BY <2>2 DEF Moves
  <2>4. u = InternalTraj(s, locks, ext) /\ Ran(s, u) BY Zenon, <1>1, <1>4, <2>3, GeneratorMoves
  <2>5. Blocked(s, locks, ext) BY <1>1 DEF Blocked
  <2>6. /\ Size(v) \in Nat /\ DEC \in Nat \ {0} /\ PlcStep \in Nat /\ Top \in Nat /\ Step \in Nat
        /\ DEC <= Top + 1 /\ 3 * DEC <= Step
    BY <1>3, Sizes, Constants, Bounds
  <2>7. u.prev = IF s.prev = 0 THEN Intended(s).step ELSE Sign(s.prev) * Left(s, locks.stop)
    BY <1>1, <1>4, <2>4, <2>5, BlockedStep
  <2>8. u.prev \in -Top..Top
    <3>1. CASE s.prev = 0
      <4>1. Size(v) = 0 BY <2>2, <3>1 DEF Size
      <4>2. s.nom = 0 /\ s.mode \in {"pos", "vel"} BY <1>4, <2>2, <4>1 DEF TrajState
      <4>3. Size(s.nom) = 0 BY <4>2 DEF Size
      <4>4. NomPos(s) = 0
        <5>1. NomPos(s) \in Int /\ Size(NomPos(s)) <= 0 BY <1>4, <4>3, NomPosType
        <5> QED BY <5>1 DEF Size
      <4> DEFINE z == 0
      <4>5. Ramp(s.prev, z) = z BY <3>1, RampFromStandstill
      <4>6. Intended(s).step = z BY <1>4, <4>2, <4>4, <4>5, IntendedTypes
      <4>7. u.prev = z BY <2>7, <3>1, <4>6
      <4>8. z \in -Top..Top BY Ranges
      <4> QED BY <4>7, <4>8
    <3>2. CASE s.prev # 0
      <4> DEFINE l == Left(s, locks.stop)
      <4> DEFINE g == Sign(s.prev)
      <4>1. l = Size(v) - DEC BY <1>2, <2>2 DEF Left
      <4>2. Size(v) >= 1 BY <1>3, <2>2, <3>2 DEF Size
      <4>3. g \in {-1, 1} BY <1>3, <2>2, <3>2 DEF Sign
      <4>4. u.prev = g * l BY <2>7, <3>2
      <4>5. l \in Int /\ l <= 0 /\ -l <= Top BY <1>6, <2>6, <4>1, <4>2
      <4> HIDE DEF l, g
      <4>6. l \in -Top..Top /\ -l \in -Top..Top BY <2>6, <4>5
      <4>a. 1 * l = l /\ (-1) * l = -l BY <4>5
      <4>7. CASE g = 1
        <5>1. u.prev = 1 * l BY <4>4, <4>7
        <5> QED BY <4>6, <4>a, <5>1
      <4>8. CASE g = -1
        <5>1. u.prev = (-1) * l BY <4>4, <4>8
        <5> QED BY <4>6, <4>a, <5>1
      <4> QED BY <4>3, <4>7, <4>8
    <3> QED BY <3>1, <3>2
  <2>9. u.start = x /\ u.vel = t.vel /\ u.nom = Size(v) /\ u.local = u.pos
        /\ u.dist = u.prev * Size(u.prev) /\ u.pos = x
    BY <1>8, <1>a, <2>2, <2>4 DEF Ran, Stale
  <2>10. u.nom \in -Step..Step
    <3> DEFINE w == Size(v)
    <3>1. w \in Nat /\ w <= PlcStep /\ u.nom = w BY <1>6, <2>6, <2>9
    <3> HIDE DEF w
    <3>2. w \in -Step..Step BY <2>6, <3>1
    <3> QED BY <3>1, <3>2
  <2>11. u.dist \in -(Top * Top)..(Top * Top) BY <2>8, <2>9, SquareBound
  <2>12. u.target = t.target \/ u.target = x
    <3>1. u.target = s.target \/ u.target = s.local BY Zenon, <1>1, <1>4, <2>4, TargetStep
    <3> QED BY <2>2, <3>1
  <2>13. u.target \in Aim
    <3>1. x \in Aim BY <1>6, Ranges
    <3>2. t.target \in Aim BY Zenon, <1>6 DEF Span
    <3> QED BY <2>12, <3>1, <3>2
  <2>14. u.start \in Wide BY <1>6, <2>9, Ranges
  <2>15. t.vel \in -Speed..Speed BY Zenon, <1>6 DEF Span
  <2> QED BY Zenon, <1>6, <2>8, <2>9, <2>10, <2>11, <2>13, <2>14, <2>15 DEF Span
<1> QED BY <1>7, <1>8

\* Where the PLC may have its setpoint.
Nearby(a, e) == e \in Wide /\ (e \in Reach \/ Held(a.out, a.setpoint, e))

\* A cycle of an axis with an external setpoint.
LEMMA WithinExternal ==
    ASSUME PlcStep <= DEC, axis \in AxisState, NEW late, Even(axis, external, late),
           ~Internal(axis), Within(axis), Nearby(axis, external),
           NEW p, Awake(axis, p), Roused(axis, p), NEW enabled \in BOOLEAN,
           NEW r, Finished(p, r, enabled), NEW c, NEW u, ExternalCycle(p, r, c, u)
    PROVE  Gripped(r, FALSE) /\ Sided(r, FALSE) /\ Within(r)
<1> DEFINE a == axis
<1>1. /\ p \in AxisState /\ p.source = a.source /\ p.out = a.out /\ p.actual = a.actual
      /\ p.velocity = a.velocity /\ p.ramping = a.ramping
      /\ (p.traj.busy => Internal(p)) /\ Bounded(p.traj)
  BY DEF Roused
<1>2. p.pos = a.pos BY DEF Awake, Woken
<1>3. /\ r \in AxisState /\ r.source = p.source /\ r.enable = p.enable
      /\ r.velocity = p.velocity /\ r.actual = p.out /\ r.pos = p.pos
  BY <1>1, FinishedKeeps
<1>4. ~Internal(r) /\ ~Internal(p) BY <1>1, <1>3 DEF Internal
<1>5. /\ Span(a.traj) /\ a.out \in Reach /\ a.pos \in Aim /\ a.velocity \in -Speed..Speed
  BY Zenon DEF Within
<1>6. Span(p.traj) BY <1>5, SpanAwake
<1>7. /\ c \in AxisState /\ c.actual = p.out /\ c.speed = p.out - p.actual
      /\ c.setpoint = external /\ c.flags \subseteq {"fwdLimit", "bwdLimit"}
      /\ Steady(c, r) /\ Tempered(p.traj, c.traj) /\ Tempered(u, r.traj)
      /\ c.ramping = p.ramping
  BY Zenon DEF ExternalCycle
<1>8. ~Internal(c) BY <1>4, <1>7 DEF Steady, Internal
<1>9. Locked(c) <=> Held(a.out, a.setpoint, external)
  <2>1. /\ "fwdLimit" \in c.flags <=> c.actual >= FwdSwitch
        /\ "bwdLimit" \in c.flags <=> c.actual <= BwdSwitch
    BY SwitchesExternal
  <2>2. Locked(c) <=> Held(c.actual, a.setpoint, external) BY <1>7, <1>8, <2>1, LockedMeans
  <2>3. c.actual = a.out BY <1>1, <1>7
  <2> QED BY <2>2, <2>3
<1>10. external \in Wide /\ (~Locked(c) => external \in Reach) BY <1>9 DEF Nearby
<1>11. Near(a.actual, a.out) BY Zenon DEF Even
<1>13. ~Locked(c) => u = c.traj BY Zenon DEF ExternalCycle
<1>14. Locked(c) => u = GetNextPosSet(StopFrom(c), Summary(c.flags), TRUE) BY Zenon DEF ExternalCycle
<1>15. /\ ~Locked(c) => r.setpoint \in {external, r.actual}
       /\ Locked(c) => r.setpoint \in {u.pos, r.actual}
       /\ r.traj.start \in {external, r.actual}
  BY Zenon DEF ExternalCycle
<1>16. r.actual \in Reach /\ r.actual = a.out BY <1>1, <1>3, <1>5
<1>17. r.traj.start \in Wide BY <1>10, <1>15, <1>16, Ranges
<1> HIDE DEF a
<1>18. Span(r.traj) /\ (Locked(c) => u.pos \in Reach)
  <2>1. CASE ~Locked(c)
    <3>1. Tempered(p.traj, r.traj) BY <1>7, <1>13, <2>1 DEF Tempered
    <3> QED BY Zenon, <1>6, <1>17, <2>1, <3>1, SpanTempered
  <2>2. CASE Locked(c)
    <3> DEFINE t == [c.traj EXCEPT !.start = c.actual]
    <3>1. ~c.traj.busy /\ Bounded(c.traj)
      <4>1. /\ c.traj.prev = p.traj.prev /\ c.traj.vel = p.traj.vel /\ c.traj.nom = p.traj.nom
            /\ (c.traj.busy => p.traj.busy)
        BY <1>7 DEF Tempered
      <4> QED BY <1>1, <1>4, <4>1, BoundedSame
    <3>2. c.actual \in Reach BY <1>7, <1>16, <1>3
    <3>3. Size(c.speed) <= PlcStep BY <1>1, <1>7, <1>11 DEF Near
    <3>4. Span(c.traj)
      <4>1. c.traj.start = external BY Zenon DEF ExternalCycle
      <4>2. c.traj.start \in Wide BY <1>10, <4>1
      <4> QED BY Zenon, <1>6, <1>7, <4>2, SpanTempered
    <3> DEFINE flags == c.flags
    <3>5. flags \subseteq AxisFlags BY <1>7 DEF AxisFlags
    <3>6. u = GetNextPosSet(StopFrom(c), Summary(flags), TRUE) BY <1>14, <2>2
    <3> HIDE DEF flags
    <3>7. Span(u) BY Zenon, <1>7, <3>1, <3>2, <3>3, <3>4, <3>5, <3>6, StopWithin
    <3>8. Span(r.traj) BY Zenon, <1>7, <1>17, <3>7, SpanTempered
    <3> QED BY Zenon, <3>7, <3>8 DEF Span
  <2> QED BY <2>1, <2>2
<1>19. r.setpoint \in Reach BY <1>10, <1>15, <1>16, <1>18
<1>20. (GetEnabled(r) => r.out = r.setpoint) /\ (~GetEnabled(r) => r.out = r.actual)
  BY Zenon DEF Finished
<1>21. r.out \in Reach BY <1>16, <1>19, <1>20
<1>22. r.pos \in Aim /\ r.velocity \in -Speed..Speed BY <1>1, <1>2, <1>3, <1>5
<1>23. Within(r) BY Zenon, <1>4, <1>16, <1>18, <1>19, <1>21, <1>22 DEF Within
<1>24. Gripped(r, FALSE) /\ Sided(r, FALSE) BY <1>4 DEF Gripped, Sided
<1> QED BY <1>23, <1>24

\* The setpoint of the PLC after a cycle.
LEMMA NearbyNext ==
    ASSUME PlcStep <= DEC, NEW r \in AxisState, Within(r), external \in Wide,
           NEW f, f \in PLCSetpoint(r), Even(r, f, FALSE)
    PROVE  Nearby(r, f)
<1>1. r.actual \in Reach /\ r.setpoint \in Reach BY Zenon DEF Within
<1>2. CASE ~GetEnabled(r) \/ Internal(r)
  <2>1. f = r.actual BY <1>2 DEF PLCSetpoint
  <2> QED BY <1>1, <2>1, Ranges DEF Nearby
<1>3. CASE GetEnabled(r) /\ ~Internal(r)
  <2>1. f = external \/ f \in First..Last BY <1>3 DEF PLCSetpoint
  <2>2. f \in Wide BY <2>1 DEF Wide
  <2>3. r.out = r.setpoint /\ Tracked(r.setpoint, f) BY <1>3 DEF Even
  <2> DEFINE x == r.setpoint
  <2>4. x \in Int /\ f \in Int BY <1>1, <2>2, Ranges
  <2>5. CASE Near(x, f)
    <3>1. /\ BwdSwitch \in Int /\ FwdSwitch \in Int /\ PlcStep \in Nat /\ DEC \in Nat \ {0}
          /\ Step \in Nat /\ RampDown \in Nat /\ 3 * DEC <= Step
      BY Constants, Bounds
    <3> DEFINE b == Brake
    <3>2. b \in Nat /\ DEC <= b BY <3>1 DEF Brake
    <3>3. BwdSwitch - b <= x /\ x <= FwdSwitch + b BY <1>1, <3>1, <3>2 DEF Reach
    <3>4. f - x <= DEC /\ x - f <= DEC BY <2>4, <2>5, <3>1 DEF Near, Size
    <3> HIDE DEF x, b
    <3>5. CASE x >= FwdSwitch /\ f > x BY <2>2, <2>3, <3>5 DEF Nearby, Held, x
    <3>6. CASE x <= BwdSwitch /\ f < x BY <2>2, <2>3, <3>6 DEF Nearby, Held, x
    <3>7. CASE ~(x >= FwdSwitch /\ f > x) /\ ~(x <= BwdSwitch /\ f < x)
      <4>1. BwdSwitch - b <= f /\ f <= FwdSwitch + b BY <2>4, <3>1, <3>2, <3>3, <3>4, <3>7
      <4>2. f \in (BwdSwitch - b)..(FwdSwitch + b) BY <2>4, <3>1, <3>2, <4>1
      <4> QED BY <2>2, <4>2 DEF Nearby, Reach, b
    <3> QED BY <3>5, <3>6, <3>7
  <2>6. CASE ~Near(x, f) BY <2>2, <2>3, <2>6 DEF Tracked, Nearby, Held
  <2> QED BY <2>5, <2>6
<1> QED BY <1>2, <1>3

\* A command leaves it where it is.
LEMMA NearbyCommand ==
    ASSUME NEW a \in AxisState, Within(a), NEW e, Nearby(a, e), Even(a, e, FALSE),
           NEW b, Outcome(a, b)
    PROVE  Nearby(b, e)
<1>1. CASE b.setpoint = a.setpoint /\ b.out = a.out BY <1>1 DEF Nearby
<1>2. CASE ~a.enable /\ EnabledHere(a, b)
  <2>1. e = a.actual BY <1>2 DEF Even, GetEnabled, Settled
  <2>2. a.actual \in Reach BY Zenon DEF Within
  <2> QED BY <2>1, <2>2, Ranges DEF Nearby
<1>3. CASE SwitchedOff(a, b)
  <2>1. b.setpoint = a.setpoint /\ b.out = a.out BY Zenon, <1>3 DEF SwitchedOff, Disabled
  <2> QED BY <1>1, <2>1
<1>4. CASE HandedOver(a, b)
  <2>1. b.setpoint = a.setpoint /\ b.out = a.out BY Zenon, <1>4 DEF HandedOver
  <2> QED BY <1>1, <2>1
<1>5. CASE Same(a, b)
  <2>1. b.setpoint = a.setpoint /\ b.out = a.out BY Zenon, <1>5 DEF Same
  <2> QED BY <1>1, <2>1
<1>6. CASE MotionGiven(a, b)
  <2>1. b.setpoint = a.setpoint /\ b.out = a.out BY Zenon, <1>6 DEF MotionGiven, Commanded, Kept
  <2> QED BY <1>1, <2>1
<1> QED BY <1>2, <1>3, <1>4, <1>5, <1>6 DEF Outcome

-----------------------------------------------------------------------------
\* The inductive invariant of the travel.
OverrunInv ==
    /\ Steadied
    /\ Nearby(axis, external)
    /\ order \subseteq Targets /\ given <= Gap

LEMMA OverrunInit ==
    ASSUME {0, Start} \subseteq Reach, Init
    PROVE  OverrunInv
<1>1. RampsInv /\ EvenInv BY RampsInit, EvenInit
<1> DEFINE z == 0
<1>2. /\ axis.traj = Idle /\ ~axis.enable /\ axis.velocity = z /\ axis.pos = z
      /\ axis.out = Start /\ axis.actual = Start /\ axis.setpoint = z /\ external = Start
      /\ order = {} /\ given = 0
  BY DEF Init
<1>3. /\ Idle.pos = z /\ Idle.local = z /\ Idle.start = z /\ Idle.target = z /\ Idle.vel = z
      /\ Idle.nom = z /\ Idle.prev = z /\ Idle.dist = z
  BY DEF Idle
<1>4. /\ z \in Reach /\ Start \in Reach /\ z \in Wide /\ z \in Aim /\ z \in -Speed..Speed
      /\ z \in -Step..Step /\ z \in -Top..Top /\ z \in -(Top * Top)..(Top * Top)
      /\ Start \in Wide
  BY Ranges
<1> HIDE DEF z
<1>5. Span(Idle) BY Zenon, <1>3, <1>4 DEF Span
<1>6. Within(axis) BY Zenon, <1>2, <1>4, <1>5 DEF Within
<1>7. Nearby(axis, external) BY <1>2, <1>4 DEF Nearby
<1> DEFINE late == given # 0
<1> HIDE DEF late
<1>8. Gripped(axis, late) /\ Sided(axis, late) BY <1>2 DEF Gripped, Sided
<1>9. given <= Gap BY <1>2, Constants
<1> QED BY <1>1, <1>2, <1>6, <1>7, <1>8, <1>9 DEF OverrunInv, Steadied, late

LEMMA OverrunCommand ==
    ASSUME Gap <= 1, ~AllowSourceChange, "waiting" \notin Commands, OverrunInv,
           CommandPosition \/ CommandVelocity \/ Stop \/ Kill \/ Enable \/ Execute \/ Source \/ Reset
    PROVE  OverrunInv'
<1>1. RampsInv /\ EvenInv /\ Within(axis) /\ axis \in AxisState /\ Steadied
  BY DEF OverrunInv, Steadied, EvenInv, Sound
<1>2. /\ given < Gap /\ given' = given + 1 /\ external' = external
      /\ Outcome(axis, axis')
  BY <1>1, CommandOutcome
<1>3. given = 0 /\ given' # 0 /\ given' <= Gap BY <1>1, <1>2, Constants DEF EvenInv, Sound
<1>4. Even(axis, external, FALSE)
  <2>1. (given # 0) = FALSE BY <1>3
  <2> QED BY <1>1, <2>1 DEF EvenInv
<1>5. RampsInv' /\ EvenInv' BY <1>1, RampsCommand, EvenCommand
<1>6. Within(axis') BY <1>1, WithinCommand
<1>7. Gripped(axis', TRUE) /\ Sided(axis', TRUE) BY <1>1, SidedCommand
<1>8. Nearby(axis, external) BY DEF OverrunInv
<1>9. Nearby(axis', external) BY Zenon, <1>1, <1>2, <1>4, <1>8, NearbyCommand
<1>10. order' \subseteq Targets
  <2>1. order \subseteq Targets BY DEF OverrunInv
  <2>2. CASE CommandPosition
    <3>1. \E pos \in Targets : order' = IF Accepted THEN {pos} ELSE {}
      BY <2>2 DEF CommandPosition
    <3> QED BY <3>1
  <2>3. CASE CommandVelocity \/ Stop \/ Kill \/ Enable \/ Execute \/ Source
    BY <2>3 DEF CommandVelocity, Stop, Kill, Enable, Execute, Source
  <2>4. CASE Reset BY <2>1, <2>4 DEF Reset
  <2> QED BY <2>2, <2>3, <2>4
<1> DEFINE r == axis'
<1>11. Gripped(r, given' # 0) /\ Sided(r, given' # 0) /\ Nearby(r, external') /\ Within(r)
  <2>1. (given' # 0) = TRUE BY <1>3
  <2> QED BY <1>2, <1>6, <1>7, <1>9, <2>1
<1>12. (Gripped(axis, given # 0) /\ Sided(axis, given # 0) /\ Within(axis))'
  BY <1>11 DEF Gripped, Sided, FwdSide, BwdSide, Within, Internal
<1>13. Steadied' BY <1>5, <1>12 DEF Steadied
<1>14. Nearby(axis, external)' BY <1>11 DEF Nearby, Held
<1> QED BY <1>3, <1>10, <1>13, <1>14 DEF OverrunInv

LEMMA OverrunCycle ==
    ASSUME PlcStep <= DEC, ACC <= DEC, ACC <= 10, OverrunInv, Cycle
    PROVE  OverrunInv'
<1> DEFINE late == given # 0
<1>1. /\ RampsInv /\ EvenInv /\ Within(axis) /\ axis \in AxisState /\ external \in Int
      /\ Even(axis, external, late) /\ Sound /\ Nearby(axis, external)
      /\ RampsKept(axis.traj, Internal(axis), axis.enable, late)
      /\ Gripped(axis, late) /\ Sided(axis, late)
  BY Zenon DEF OverrunInv, Steadied, EvenInv, RampsInv, Sound
<1> HIDE DEF late
<1>2. PICK enabled \in BOOLEAN : \E p, c, flags, u : Cycled(enabled, p, c, flags, u)
  BY <1>1, CycleOpens
<1>3. PICK p : \E c, flags, u : Cycled(enabled, p, c, flags, u) BY <1>2
<1>4. PICK c : \E flags, u : Cycled(enabled, p, c, flags, u) BY <1>3
<1>5. PICK flags : \E u : Cycled(enabled, p, c, flags, u) BY <1>4
<1>6. PICK u : Cycled(enabled, p, c, flags, u) BY <1>5
<1> DEFINE r == axis'
<1> DEFINE f == external'
<1>7. Awake(axis, p) /\ Finished(p, r, enabled) BY Zenon, <1>6 DEF Cycled
<1>8. Roused(axis, p) BY Zenon, <1>1, <1>7, EvenAwake
<1>9. RampsInv' /\ EvenInv' BY <1>1, RampsCycle, EvenCycle
<1>10. given' = 0 /\ f \in PLCSetpoint(r) BY DEF Cycle
<1>11. (given' # 0) = FALSE BY <1>10
<1>12. r \in AxisState /\ f \in Int BY <1>9 DEF EvenInv, Sound
<1>13. Even(r, f, FALSE)
  <2>1. Even(r, f, given' # 0) BY <1>9 DEF EvenInv, Even, Internal, GetEnabled, Settled
  <2> QED BY <1>11, <2>1
<1>14. Internal(axis) => OwnCycle(p, r, u, flags) BY Zenon, <1>6 DEF Cycled
<1>15. ~Internal(axis) => ExternalCycle(p, r, c, u) BY Zenon, <1>6 DEF Cycled
<1>16. external \in Wide BY <1>1 DEF Nearby
<1>17. order' \subseteq Targets
  <2>1. order \subseteq Targets BY DEF OverrunInv
  <2>2. order' \subseteq order BY DEF Cycle
  <2> QED BY <2>1, <2>2
<1> HIDE DEF r, f
<1>18. Gripped(r, FALSE) /\ Sided(r, FALSE) /\ Within(r)
  <2>1. CASE Internal(axis)
    <3>1. OwnCycle(p, r, u, flags) BY <1>14, <2>1
    <3> QED BY Zenon, <1>1, <1>7, <1>8, <2>1, <3>1, WithinOwn
  <2>2. CASE ~Internal(axis)
    <3>1. ExternalCycle(p, r, c, u) BY <1>15, <2>2
    <3> QED BY Zenon, <1>1, <1>7, <1>8, <2>2, <3>1, WithinExternal
  <2> QED BY <2>1, <2>2
<1>19. Nearby(r, f) BY Zenon, <1>10, <1>12, <1>13, <1>16, <1>18, NearbyNext
<1>20. Gripped(r, given' # 0) /\ Sided(r, given' # 0) BY <1>11, <1>18
<1>21. (Gripped(axis, given # 0) /\ Sided(axis, given # 0) /\ Within(axis))'
  BY <1>18, <1>20 DEF Gripped, Sided, FwdSide, BwdSide, Within, Internal, r
<1>22. Steadied' BY <1>9, <1>21 DEF Steadied
<1>23. Nearby(axis, external)' BY <1>19 DEF Nearby, Held, r, f
<1>24. given' <= Gap BY <1>10, Constants
<1> QED BY <1>17, <1>22, <1>23, <1>24 DEF OverrunInv

LEMMA OverrunStep ==
    ASSUME Gap <= 1, ~AllowSourceChange, ACC <= DEC, ACC <= 10, PlcStep <= DEC,
           "waiting" \notin Commands, OverrunInv, [Next]_vars
    PROVE  OverrunInv'
<1>1. CASE Cycle BY <1>1, OverrunCycle
<1>2. CASE CommandPosition \/ CommandVelocity \/ Stop \/ Kill \/ Enable \/ Execute \/ Source \/ Reset
  BY <1>2, OverrunCommand
<1>3. CASE UNCHANGED vars
  <2>1. axis' = axis /\ external' = external /\ given' = given /\ order' = order
    BY <1>3 DEF vars
  <2>2. RampsInv' /\ EvenInv'
    <3>1. RampsInv /\ EvenInv BY DEF OverrunInv, Steadied
    <3> QED BY <1>3, <3>1, RampsStep, EvenStep
  <2>3. (Gripped(axis, given # 0) /\ Sided(axis, given # 0) /\ Within(axis))'
    BY <2>1 DEF OverrunInv, Steadied, Gripped, Sided, FwdSide, BwdSide, Within, Internal
  <2>4. Nearby(axis, external)' BY <2>1 DEF OverrunInv, Nearby, Held
  <2>5. order' \subseteq Targets /\ given' <= Gap BY <2>1 DEF OverrunInv
  <2> QED BY <2>2, <2>3, <2>4, <2>5 DEF OverrunInv, Steadied
<1> QED BY <1>1, <1>2, <1>3 DEF Next

LEMMA OverrunBounds == OverrunInv => OverrunBounded
<1> SUFFICES ASSUME OverrunInv PROVE OverrunBounded OBVIOUS
<1> DEFINE t == axis.traj
<1>1. axis \in AxisState /\ Within(axis) /\ given \in Nat /\ counter \in {0, 1}
  BY DEF OverrunInv, Steadied, EvenInv, Sound
<1>2. /\ Span(t) /\ axis.setpoint \in Reach /\ axis.actual \in Reach /\ axis.out \in Reach
  BY Zenon, <1>1 DEF Within
<1>3. t \in TrajState /\ axis.flags \subseteq AxisFlags BY <1>1 DEF AxisState
<1>4. /\ t.pos \in Reach /\ t.local \in Reach /\ t.start \in Reach \cup First..Last
      /\ t.target \in Reach \cup Targets /\ t.vel \in -Speed..Speed /\ t.nom \in -Step..Step
      /\ t.prev \in -Top..Top /\ t.dist \in -(Top * Top)..(Top * Top)
  BY Zenon, <1>2 DEF Span, Wide, Aim
<1>5. external \in Reach \cup First..Last BY DEF OverrunInv, Nearby, Wide
<1>6. given \in 0..Gap /\ counter \in 0..1 /\ order \subseteq Targets
  BY <1>1, Constants DEF OverrunInv
<1> HIDE DEF t
<1>7. t \in [enable : BOOLEAN, execute : BOOLEAN, busy : BOOLEAN, mode : {"pos", "vel"},
             start : Reach \cup First..Last, pos : Reach, local : Reach,
             target : Reach \cup Targets, vel : -Speed..Speed, nom : -Step..Step,
             prev : -Top..Top, dist : -(Top * Top)..(Top * Top)]
  BY <1>3, <1>4 DEF TrajState
<1>8. TypeOK BY <1>2, <1>3, <1>5, <1>6, <1>7 DEF TypeOK, t, AxisFlags
<1> QED BY <1>2, <1>8 DEF OverrunBounded

\* However often a motion is commanded, and whatever target is put under a running ramp,
\* the setpoint and every position of the generator stay within one stop of the limit
\* switches, and steps and velocities within those of one motion: for every travel,
\* velocity and ramp with an acceleration that is no larger than the deceleration and so
\* small that the tolerance of the ramp does not count, a PLC that moves by no more than
\* a stop ramp ends in one cycle, at most one command between two cycles, a client that
\* waits for the drive, and a start within the travel.
THEOREM OverrunBoundedCorrect ==
    ASSUME Gap <= 1, ~AllowSourceChange, ACC <= DEC, ACC <= 10, PlcStep <= DEC,
           "waiting" \notin Commands, {0, Start} \subseteq Reach
    PROVE  Spec => []OverrunBounded
<1>1. Init => OverrunInv BY OverrunInit
<1>2. OverrunInv /\ [Next]_vars => OverrunInv' BY OverrunStep
<1>3. OverrunInv => OverrunBounded BY OverrunBounds
<1> QED BY <1>1, <1>2, <1>3, PTL DEF Spec
=============================================================================
