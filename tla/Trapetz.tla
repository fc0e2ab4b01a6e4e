------------------------------ MODULE Trapetz ------------------------------
(***************************************************************************)
(* The trapezoidal trajectory generator of an axis                         *)
(* (motion/ecmcTrajectoryTrapetz.cpp on motion/ecmcTrajectoryBase.cpp).    *)
(* Positions are integers and the sample time is one cycle, so that a      *)
(* velocity is the step of one cycle.  There is no modulo range.           *)
(***************************************************************************)
EXTENDS Integers

CONSTANTS ACC, DEC, Emerg      \* stepACC_, stepDEC_ and stepDECEmerg_

ASSUME TrapetzAssumption == {ACC, DEC, Emerg} \subseteq Nat \ {0}

Size(x) == IF x < 0 THEN -x ELSE x
Sign(x) == IF x < 0 THEN -1 ELSE IF x > 0 THEN 1 ELSE 0

\* pos is the setpoint of the base class and local the one of the generator,
\* prev the step of the last cycle and dist the distance to stop, as a multiple
\* of 1 / (2 * DEC).  vel is the target velocity and nom what is made of it.
Idle == [enable |-> FALSE, execute |-> FALSE, busy |-> FALSE, mode |-> "pos", start |-> 0,
         pos |-> 0, local |-> 0, target |-> 0, vel |-> 0, nom |-> 0, prev |-> 0, dist |-> 0]

SetTargetVel(t, vel) == [t EXCEPT !.vel = vel, !.nom = vel]
SetTargetPos(t, pos) == [t EXCEPT !.target = pos, !.local = t.pos]
SetCurrentPosSet(t, pos) == [t EXCEPT !.prev = 0, !.local = pos, !.pos = pos]

SetTrajEnable(t, on) ==
    IF on /\ ~t.enable THEN [t EXCEPT !.enable = TRUE, !.pos = t.start, !.prev = 0, !.dist = 0]
    ELSE [t EXCEPT !.enable = on, !.busy = on /\ t.busy]

\* Execute starts a motion only when it rises.
Rises(t, on) == on /\ t.enable /\ ~t.execute
SetTrajExecute(t, on) ==
    IF Rises(t, on) THEN [t EXCEPT !.execute = TRUE, !.pos = t.start, !.nom = t.vel, !.busy = TRUE]
    ELSE [t EXCEPT !.execute = on /\ t.enable]

\* Mutant: the generator's own setpoint is forgotten.
InitStopRampStale(t, pos, vel) ==
    [t EXCEPT !.enable = TRUE, !.busy = TRUE, !.pos = pos, !.prev = vel, !.nom = Size(vel)]

\* The generator takes over from a setpoint that was not its own.
InitStopRamp(t, pos, vel) ==
    [t EXCEPT !.enable = TRUE, !.busy = TRUE, !.pos = pos, !.local = pos, !.prev = vel,
              !.nom = Size(vel)]

-----------------------------------------------------------------------------
(* One cycle: from the last step to the next one.                          *)

\* Away from zero with the acceleration, towards zero with the deceleration.
Up(prev)   == prev + (IF prev < 0 THEN DEC ELSE ACC)
Down(prev) == prev - (IF prev > 0 THEN DEC ELSE ACC)

Ramped(prev, nom) == IF nom > prev THEN Up(prev) ELSE IF nom < prev THEN Down(prev) ELSE prev

\* A step that is nearly the nominal one is the nominal one.
Ramp(prev, nom) ==
    LET step == Ramped(prev, nom)
        tol  == IF ACC > DEC THEN DEC ELSE ACC
    IN  IF 10 * Size(nom - step) < tol THEN nom ELSE step

MoveVel(t) == [to |-> t.local + Ramp(t.prev, t.nom), step |-> Ramp(t.prev, t.nom), busy |-> TRUE]

\* What remains to the point where the motion has to slow down.
ToInitStop(t) ==
    2 * DEC * (t.target - t.local - t.prev - Sign(t.prev) * DEC) - t.dist

Arrives(t) ==
    /\ Size(t.prev) <= DEC
    /\ Size(t.dist) <= 6 * DEC * DEC
    /\ Size(t.target - t.local) <= 3 * DEC

MovePos(t) ==
    LET nom  == IF Size(ToInitStop(t)) <= 2 * DEC * Size(t.prev) THEN 0
                ELSE Sign(ToInitStop(t)) * Size(t.nom)
        step == Ramp(t.prev, nom)
    IN  [to |-> IF Arrives(t) THEN t.target ELSE t.local + step, step |-> step,
         busy |-> ~Arrives(t)]

\* A stop ends where it is; from standstill the step of MoveVel is kept.
MoveStop(t, step, stop) ==
    LET left == Size(t.prev) - (IF stop = "emergency" THEN Emerg ELSE DEC)
        ends == t.prev = 0 \/ left <= 0
    IN  [to   |-> IF ends THEN t.local ELSE t.local + Sign(t.prev) * left,
         step |-> IF t.prev = 0 THEN step ELSE Sign(t.prev) * left,
         busy |-> ~ends]

\* locks is the summary of the interlocks.  A motion towards an interlocked
\* side stops, and every motion when the setpoint comes from elsewhere.
InternalTraj(t, locks, external) ==
    LET m       == IF t.mode = "pos" THEN MovePos(t) ELSE MoveVel(t)
        blocked == \/ external
                   \/ m.to < t.local /\ locks.bwd
                   \/ m.to > t.local /\ locks.fwd
        r       == IF blocked THEN MoveStop(t, m.step, locks.stop) ELSE m
    IN  [t EXCEPT !.pos = r.to, !.local = r.to, !.prev = r.step, !.busy = r.busy,
                  !.target = IF blocked /\ ~r.busy THEN t.local ELSE t.target,
                  !.dist = r.step * Size(r.step)]

Moves(t) == t.busy /\ t.enable
GetNextPosSet(t, locks, external) ==
    IF Moves(t) THEN InternalTraj(t, locks, external)
    ELSE [t EXCEPT !.dist = t.prev * Size(t.prev)]
=============================================================================
