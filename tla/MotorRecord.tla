----------------------------- MODULE MotorRecord -----------------------------
(***************************************************************************)
(* The motor record's driver of one axis (motor/ecmcMotorRecordAxis.cpp).  *)
(* Its calls exclude each other (the lock of its asyn port); what they do  *)
(* to the axis they do under the realtime mutex, one call at a time, while *)
(* the shell, which holds neither, may come between.  The status is copied *)
(* after the mutex was given back, so a cycle may fall into the copy.      *)
(***************************************************************************)
EXTENDS Integers, FiniteSets

CONSTANTS Kinds,      \* the motions: "abs" (and relative), "vel", "home"
          Options,    \* what the driver can be created with
          Tries,      \* the number of times that enableAmplifier() looks
          MaxActs     \* bound: calls of the record, and what the shell, the PLC and
                      \* the hardware do

VARIABLES axis,       \* the axis, as its commands and its cycle leave it
          status,     \* the status that postExecute() writes at the end of a cycle
          drvlocal,   \* the driver's own memory
          record,     \* the parameters that the motor record reads
          call,       \* the call that holds the port, and how far it is
          since       \* what is still to come of the record's last motion; the bounds

motorVars == <<axis, status, drvlocal, record, call, since>>

Idle == [op |-> "none", at |-> "end", on |-> FALSE, left |-> 0]

\* The word of the status, and the rest of it.
Word(a) == [enable |-> a.enable, enabled |-> a.enable /\ a.enabled, busy |-> a.busy,
            atTarget |-> a.atTarget, homed |-> a.homed]
Rest(a) == [error |-> a.error, command |-> a.command]

Zero == [enable |-> FALSE, enabled |-> FALSE, busy |-> FALSE, atTarget |-> FALSE, homed |-> FALSE]
ZeroRest == [error |-> "none", command |-> "none"]

\* The memory is cleared and all is dirty, so that the first poll tells everything.
MotorInit ==
    /\ \E homed \in BOOLEAN :
         axis = [internal |-> TRUE, block |-> FALSE, enable |-> FALSE, enabled |-> FALSE,
                 execute |-> FALSE, executeOld |-> FALSE, busy |-> FALSE, command |-> "abs",
                 atTarget |-> TRUE, homed |-> homed, error |-> "none",
                 limits |-> FALSE, started |-> FALSE]
    /\ status = [word |-> Word(axis), rest |-> Rest(axis)]
    /\ \E options \in Options :
         drvlocal = [exists |-> FALSE, word |-> Zero, rest |-> ZeroRest, fresh |-> FALSE,
                     seen |-> "lost", errorOld |-> "none", warning |-> FALSE, cmdError |-> FALSE,
                     window |-> FALSE, active |-> "none", activeOld |-> "none", warningOld |-> FALSE,
                     options |-> options]
    /\ record = [done |-> TRUE, problem |-> FALSE, red |-> FALSE, errId |-> "none",
                 limits |-> FALSE, config |-> FALSE]
    /\ call = Idle
    /\ since = [busy |-> FALSE, target |-> FALSE, cycle |-> TRUE, early |-> FALSE,
                told |-> "none", error |-> "none", acts |-> 0]

(***************************************************************************)
(* The axis                                                                *)
(***************************************************************************)
\* setExecute() of an axis: only one that follows its own generator starts a motion;
\* the position can be set without power.
Executed(a, on, powerless) ==
    IF ~a.internal THEN a
    ELSE IF ~on THEN [a EXCEPT !.execute = FALSE]
    ELSE IF ~a.enable /\ ~powerless THEN [a EXCEPT !.error = "refused"]
    ELSE IF ~a.executeOld /\ a.busy THEN [a EXCEPT !.error = "refused"]
    ELSE [a EXCEPT !.execute = TRUE, !.busy = TRUE]

Halted(a) == Executed(a, FALSE, FALSE)

\* A motion of the kind under way takes the new target; only moveVelocity() looks
\* at the error before that.
OnTheFly(a, kind) ==
    /\ kind # "home" /\ a.command = kind /\ a.execute /\ a.busy
    /\ kind = "vel" => a.error = "none"

Refused(a, kind) == ~a.internal \/ (a.error # "none" /\ ~OnTheFly(a, kind))

Moved(a, kind) ==
    IF Refused(a, kind) \/ OnTheFly(a, kind) THEN a
    ELSE Executed([Halted(a) EXCEPT !.command = kind], TRUE, FALSE)

\* Switching off takes the execute away.
Switched(a, on) == [(IF on THEN a ELSE Halted(a)) EXCEPT !.enable = on]

\* A cycle ends a motion or does not; the drive follows its command when it can;
\* an axis that is not enabled is at its target.
Cycle ==
    /\ call.at # "mutex" /\ axis.started
    /\ \E over, on, settled, homed \in BOOLEAN :
         LET enabled == axis.enable /\ (axis.enabled \/ on)
             busy == ~axis.internal \/ (axis.busy /\ axis.enable /\ ~over)
             a == [axis EXCEPT !.busy = busy, !.enabled = enabled,
                     !.atTarget = ~enabled \/ (~busy /\ (settled \/ (@ /\ ~axis.busy))),
                     !.homed = IF axis.command = "home" /\ axis.busy THEN homed ELSE @,
                     !.executeOld = axis.execute]
         IN  /\ axis' = a
             /\ status' = [word |-> Word(a), rest |-> Rest(a)]
             /\ since' = [since EXCEPT !.busy = @ /\ busy, !.cycle = TRUE,
                                       !.target = @ /\ ~a.atTarget]
    /\ UNCHANGED <<drvlocal, record, call>>

Counted == since.acts < MaxActs /\ since' = [since EXCEPT !.acts = @ + 1]

\* The shell, a client, the PLC or the hardware.
Elsewhere ==
    /\ Counted
    /\ axis' \in {[axis EXCEPT !.block = ~@], [axis EXCEPT !.internal = ~@],
                  [axis EXCEPT !.error = "other"], Switched(axis, FALSE),
                  Halted(axis), [axis EXCEPT !.enabled = FALSE]}
    /\ axis' # axis
    /\ UNCHANGED <<status, drvlocal, record, call>>

SetRealTimeStarted ==
    /\ ~axis.started
    /\ axis' = [axis EXCEPT !.started = TRUE]
    /\ UNCHANGED <<status, drvlocal, record, call, since>>

(***************************************************************************)
(* Calls: the port is taken, and given back at "end"                       *)
(***************************************************************************)
Free == drvlocal.exists /\ call.at = "end"
Calling(op, at, on) == [op |-> op, at |-> at, on |-> on, left |-> Tries]
Warned(warning) == drvlocal' = [drvlocal EXCEPT !.warning = warning]

\* A velocity of 0 is a warning and no motion.
MoveNot(kind) ==
    /\ Free /\ Counted /\ kind # "home"
    /\ Warned(TRUE)
    /\ UNCHANGED <<axis, status, record, call>>

MoveBlocked ==
    /\ Free /\ Counted /\ axis.block
    /\ Warned(FALSE)
    /\ UNCHANGED <<axis, status, record, call>>

\* The mutex is taken and the block looked at,
Move(kind) ==
    /\ Free /\ Counted /\ ~axis.block
    /\ call' = Calling(kind, "mutex", TRUE)
    /\ Warned(FALSE)
    /\ UNCHANGED <<axis, status, record>>

\* and the axis is moved under the mutex.
MoveAxis ==
    /\ call.at = "mutex"
    /\ axis' = Moved(axis, call.op)
    /\ LET ok == ~Refused(axis, call.op) /\ (OnTheFly(axis, call.op) \/ axis'.error = "none")
       IN  since' = IF ok THEN [since EXCEPT !.busy = TRUE, !.target = TRUE, !.cycle = FALSE]
                       ELSE since
    /\ call' = Idle
    /\ UNCHANGED <<status, drvlocal, record>>

\* Neither a stop, a reset nor a new position is kept from an axis that is blocked.
Stop ==
    /\ Free /\ Counted
    /\ Warned(FALSE)
    /\ axis' = Halted(axis)
    /\ UNCHANGED <<status, record, call>>

SetPosition ==
    /\ Free /\ Counted
    /\ axis' = IF axis.error # "none" THEN axis
               ELSE Executed([Halted(axis) EXCEPT !.command = "home"], TRUE, TRUE)
    /\ Warned(FALSE)
    /\ UNCHANGED <<status, record, call>>

ResetAxis ==
    /\ Free /\ Counted
    /\ call' = Calling("reset", "poll", FALSE)
    /\ drvlocal' = [drvlocal EXCEPT !.warning = FALSE, !.cmdError = FALSE]
    /\ axis' = [axis EXCEPT !.error = "none"]
    /\ UNCHANGED <<status, record>>

\* The limits of the record are the axis's when both are on.
SetSoftLimit ==
    /\ Free /\ Counted
    /\ call' = Calling("limit", "limits", FALSE)
    /\ axis' = [axis EXCEPT !.limits = ~@]
    /\ UNCHANGED <<status, drvlocal, record>>

ReadBackSoftLimits ==
    /\ call.at = "limits"
    /\ record' = [record EXCEPT !.limits = axis.limits]
    /\ call' = Idle
    /\ UNCHANGED <<axis, status, drvlocal, since>>

(***************************************************************************)
(* Enabling                                                                *)
(***************************************************************************)
\* The status of the last poll decides whether there is anything to do.
Already(on) == drvlocal.word.enable = on /\ drvlocal.word.enabled = on

SetClosedLoop(on) ==
    /\ Free /\ Counted /\ "cnen" \in drvlocal.options
    /\ call' = IF Already(on) THEN Idle ELSE Calling("enable", "enable", on)
    /\ UNCHANGED <<axis, status, drvlocal, record>>

SetEnable ==
    /\ call.at = "enable"
    /\ axis' = IF axis.block THEN axis ELSE Switched(axis, call.on)
    /\ call' = IF axis.block THEN Idle ELSE [call EXCEPT !.at = "sleep"]
    /\ UNCHANGED <<status, drvlocal, record, since>>

\* Nothing is copied before the realtime thread runs.
CopyWord(d) == IF axis.started THEN [d EXCEPT !.word = status.word, !.fresh = since.cycle] ELSE d
CopyRest(d) == IF axis.started THEN [d EXCEPT !.rest = status.rest] ELSE d

Reached(w) == /\ w.enabled = call.on \/ "auto" \in drvlocal.options
              /\ w.enable = call.on
              /\ ~w.busy

\* What went wrong stays until the next reset.
LookAtEnabled ==
    /\ call.at = "sleep"
    /\ LET d == CopyRest(CopyWord(drvlocal))
           last == ~Reached(d.word) /\ call.left = 1
       IN  /\ drvlocal' = [d EXCEPT !.cmdError = @ \/ last]
           /\ call' = IF last THEN Idle
                      ELSE IF Reached(d.word) THEN [call EXCEPT !.at = "poll"]
                      ELSE [call EXCEPT !.left = @ - 1]
    /\ UNCHANGED <<axis, status, record, since>>

(***************************************************************************)
(* Polls                                                                   *)
(***************************************************************************)
Poll ==
    /\ Free
    /\ call' = Calling("poll", "poll", FALSE)
    /\ UNCHANGED <<axis, status, drvlocal, record, since>>

ReadStatus ==
    /\ call.at = "poll"
    /\ drvlocal' = CopyWord(drvlocal)
    /\ call' = [call EXCEPT !.at = "copy"]
    /\ UNCHANGED <<axis, status, record, since>>

\* Mutant: the copy says all.
NotReadyCopied(d) == d.word.busy \/ ~d.word.atTarget
\* Mutant: at target does not count.
NotReadyAway(d) == axis.busy

\* The axis itself is asked whether it is busy; the rest is the copy.
NotReady(d) == axis.busy \/ ~d.word.atTarget

EeAxisError(d) ==
    IF d.rest.error # "none" THEN "axis"
    ELSE IF d.cmdError THEN "command"
    ELSE IF ~d.word.homed /\ d.active # "home" THEN "not homed"
    ELSE IF d.window THEN "window"
    ELSE "none"

\* Mutant: the kind of the error is what counts.
ChangedKind(d) == EeAxisError(d) # d.seen \/ d.warning # d.warningOld \/ d.active # d.activeOld

\* What the record is told, when it changes.
Changed(d) == \/ EeAxisError(d) # d.seen
              \/ d.warning # d.warningOld
              \/ d.rest.error # d.errorOld
              \/ d.active # d.activeOld

Told(r, d) ==
    IF ~Changed(d) THEN r
    ELSE [r EXCEPT !.problem = EeAxisError(d) # "none", !.red = EeAxisError(d) = "axis",
                   !.errId = d.rest.error]

Kept(d) ==
    IF ~Changed(d) THEN d
    ELSE [d EXCEPT !.seen = EeAxisError(d), !.warningOld = d.warning,
                   !.errorOld = d.rest.error, !.activeOld = d.active]

PollEnds ==
    /\ call.at = "copy"
    /\ LET c == CopyRest(drvlocal)
           d == [c EXCEPT !.active = IF NotReady(c) THEN c.rest.command ELSE "none"]
       IN  /\ drvlocal' = Kept(d)
           /\ record' = Told([record EXCEPT !.done = ~NotReady(d)], d)
           /\ since' = [since EXCEPT !.told = EeAxisError(d), !.error = d.rest.error,
                          !.early = ~NotReady(d) /\ (@ \/ since.busy \/ (d.fresh /\ since.target))]
    /\ call' = IF call.op = "create" THEN [call EXCEPT !.at = "config"] ELSE Idle
    /\ UNCHANGED <<axis, status>>

(***************************************************************************)
(* The driver is created; what it reads of the configuration it reads only *)
(* then, and not at all when the axis cannot be enabled or has no scale.   *)
(***************************************************************************)
CreateAxis ==
    /\ ~drvlocal.exists /\ call.at = "end"
    /\ drvlocal' = [drvlocal EXCEPT !.exists = TRUE]
    /\ call' = Calling("create", IF "create" \in drvlocal.options THEN "enable" ELSE "config", TRUE)
    /\ UNCHANGED <<axis, status, record, since>>

ReadBackAllConfig ==
    /\ call.at = "config"
    /\ \E scaled \in BOOLEAN :
         IF scaled THEN /\ drvlocal' = [drvlocal EXCEPT !.window = "window" \in drvlocal.options]
                        /\ record' = [record EXCEPT !.config = TRUE]
                        /\ call' = [call EXCEPT !.at = "limits"]
         ELSE call' = Idle /\ UNCHANGED <<drvlocal, record>>
    /\ UNCHANGED <<axis, status, since>>

MotorNext ==
    \/ SetRealTimeStarted \/ Cycle \/ Elsewhere
    \/ CreateAxis \/ ReadBackAllConfig \/ ReadBackSoftLimits \/ SetSoftLimit
    \/ \E kind \in Kinds : MoveNot(kind) \/ Move(kind)
    \/ MoveBlocked \/ MoveAxis \/ Stop \/ SetPosition \/ ResetAxis
    \/ \E on \in BOOLEAN : SetClosedLoop(on)
    \/ SetEnable \/ LookAtEnabled
    \/ Poll \/ ReadStatus \/ PollEnds

MotorSpec == MotorInit /\ [][MotorNext]_motorVars

(***************************************************************************)
(* Properties                                                              *)
(***************************************************************************)
\* No poll tells the record that the axis is done while the motion that the record
\* has asked for goes on, although the copy of the status may be older than the
\* motion; and when the copy is not, the axis has been at its target since.
DoneIsDone == ~since.early

\* The parameters that are only written when something has changed never fall
\* behind: they tell what the last poll found, one error after another.
ErrorsAreTold ==
    /\ record.problem = (since.told # "none")
    /\ record.red = (since.told = "axis")
    /\ record.errId = since.error
=============================================================================
