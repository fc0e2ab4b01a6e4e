------------------------------- MODULE Motion -------------------------------
(***************************************************************************)
(* What the modules of the axis share: how its commands reach the          *)
(* sequencer and the trajectory generator, and what the interlocks of      *)
(* execute and of the limit switches make of them.  The axis is a record:  *)
(* source, execute, enable, command, pos and velocity are its command,     *)
(* traj is its generator and flags are its interlocks.                     *)
(***************************************************************************)
EXTENDS Trapetz, Interlocks

Internal(a) == a.source = "internal"
GetExecute(a) == Internal(a) => a.execute
GetEnabled(a) == a.enabled /\ a.enable

\* A motion that starts clears the interlock of the missing execute.
TrajExecute(a, on) ==
    [a EXCEPT !.traj = SetTrajExecute(a.traj, on),
              !.flags = IF Rises(a.traj, on) THEN @ \ {"noExecute"} ELSE @,
              !.error = @ \/ (on /\ ~a.traj.enable)]

\* The command keeps its execute when the motion is refused.
SeqSetExecute(a, on) ==
    LET rises == on /\ ~a.execute
        moved == [SetTargetVel(a.traj, a.velocity) EXCEPT !.mode = a.command]
        traj  == IF ~rises THEN a.traj
                 ELSE IF a.command = "pos" THEN SetTargetPos(moved, a.pos) ELSE moved
    IN  IF rises /\ a.velocity = 0 THEN [a EXCEPT !.execute = TRUE, !.error = TRUE]
        ELSE TrajExecute([a EXCEPT !.execute = on, !.busy = @ \/ rises, !.traj = traj], on)

SetExecute(a, on) ==
    IF ~Internal(a) THEN a
    ELSE IF on /\ (~a.enable \/ (~a.executeOld /\ a.busy)) THEN [a EXCEPT !.error = TRUE]
    ELSE SeqSetExecute(a, on)

SeqSetTargetVel(a, vel) == [a EXCEPT !.velocity = vel, !.traj = SetTargetVel(@, vel)]
\* Mutant: nothing on the fly.
SeqSetTargetPosLater(a, pos) == [a EXCEPT !.pos = pos]

SeqSetTargetPos(a, pos) ==
    [a EXCEPT !.pos = pos, !.traj = IF a.busy THEN SetTargetPos(@, pos) ELSE @]

\* On the fly when such a motion is on its way.
OnTheFly(a, command) == GetExecute(a) /\ a.command = command /\ a.busy

-----------------------------------------------------------------------------
(* The interlocks of one cycle.                                            *)

\* Mutant: only a motion with constant velocity is stopped.
NoExecuteVel(t) == Moves(t) /\ ~t.execute /\ t.mode = "vel"

\* A motion without execute is interlocked.
NoExecute(t) == Moves(t) /\ ~t.execute

\* The generator's own setpoint.
OwnSetpoint(a) ==
    LET flags == IF NoExecute(a.traj) THEN a.flags \cup {"noExecute"} ELSE a.flags
        traj  == GetNextPosSet(a.traj, Summary(flags), FALSE)
    IN  [a EXCEPT !.traj = traj, !.flags = flags, !.setpoint = traj.pos,
                  !.error = @ \/ (a.traj.execute /\ ~a.traj.enable)]

\* Mutant: the two directions are swapped.
LimitInterlockSwapped(flags, flag, open, towards) ==
    With(flags, flag, ~towards /\ (open \/ flag \in flags))

\* The switch opens at its position.  The interlock is latched until the axis
\* stands or moves away.
LimitInterlock(flags, flag, open, towards) ==
    With(flags, flag, open \/ (flag \in flags /\ towards))
=============================================================================
