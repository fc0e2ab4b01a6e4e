----------------------------- MODULE EpicsProofs -----------------------------
(***************************************************************************)
(* Proofs about the two parts of MCServices that EPICS sees, the motor     *)
(* record and the parameters, for every value of the constants: each has   *)
(* its lemmas and its inductive invariant, and at the end the module that  *)
(* runs them inherits what they keep.                                      *)
(***************************************************************************)
EXTENDS MCServices, SequenceTheorems, WellFoundedInduction, TLAPS

(***************************************************************************)
(* The motor record                                                        *)
(***************************************************************************)
AxisErrors == {"none", "refused", "other"}
MotorAxes ==
    [internal: BOOLEAN, block: BOOLEAN, enable: BOOLEAN, enabled: BOOLEAN, execute: BOOLEAN,
     executeOld: BOOLEAN, busy: BOOLEAN, command: MotorKinds \cup {"abs", "home"},
     atTarget: BOOLEAN, homed: BOOLEAN, error: AxisErrors, limits: BOOLEAN, started: BOOLEAN]
StatusWords == [enable: BOOLEAN, enabled: BOOLEAN, busy: BOOLEAN, atTarget: BOOLEAN, homed: BOOLEAN]
StatusRests == [error: AxisErrors, command: MotorKinds \cup {"abs", "home", "none"}]
AxisStatus == [word: StatusWords, rest: StatusRests]
DriverErrors == {"axis", "command", "not homed", "window", "none"}
Drivers ==
    [exists: BOOLEAN, word: StatusWords, rest: StatusRests, fresh: BOOLEAN,
     seen: DriverErrors \cup {"lost"}, errorOld: AxisErrors, warning: BOOLEAN, cmdError: BOOLEAN,
     window: BOOLEAN, active: MotorKinds \cup {"abs", "home", "none"},
     activeOld: MotorKinds \cup {"abs", "home", "none"}, warningOld: BOOLEAN, options: Options]
MotorRecords == [done: BOOLEAN, problem: BOOLEAN, red: BOOLEAN, errId: AxisErrors, limits: BOOLEAN,
                 config: BOOLEAN]
MotorPasts == [busy: BOOLEAN, target: BOOLEAN, cycle: BOOLEAN, early: BOOLEAN, told: DriverErrors,
               error: AxisErrors, acts: Int]

\* A motion that the record has asked for is on its way in the axis.
AskedIsBusy(axis, since) == since.busy => axis.busy

\* A status that is younger than this motion does not say that it has ended, and nor
\* does a copy that is being looked at.
StatusIsTrue(status, since) == since.cycle /\ since.target => ~status.word.atTarget
CopyIsTrue(axis, drv, call, since) ==
    /\ call.at = "copy" /\ drv.fresh /\ since.target => ~drv.word.atTarget
    /\ ~axis.started => ~drv.fresh

\* The driver remembers what it has told.
ToldIsSeen(drv, since) ==
    drv.seen # "lost" => drv.seen = since.told /\ drv.errorOld = since.error

\* A call has its fields, and only moves wait with the mutex.
CallTyped(call) ==
    /\ {"at", "on"} \subseteq DOMAIN call /\ call.on \in BOOLEAN
    /\ call.at = "mutex" => call.op \in MotorKinds

MotorTyped ==
    /\ CallTyped(s5)
    /\ s1 \in MotorAxes /\ s2 \in AxisStatus /\ s3 \in Drivers /\ s4 \in MotorRecords
    /\ s6 \in MotorPasts
MotorTold == Motor!ErrorsAreTold /\ Motor!DoneIsDone
RecordInv ==
    /\ MotorTyped
    /\ AskedIsBusy(s1, s6) /\ StatusIsTrue(s2, s6) /\ CopyIsTrue(s1, s3, s5, s6)
    /\ ToldIsSeen(s3, s6)
    /\ MotorTold

LEMMA CallingTyped ==
    ASSUME NEW op, NEW at, NEW on \in BOOLEAN, at = "mutex" => op \in MotorKinds
    PROVE  CallTyped(Motor!Calling(op, at, on)) /\ Motor!Calling(op, at, on).at = at
BY DEF CallTyped, Motor!Calling

LEMMA IdleTyped == CallTyped(Motor!Idle) /\ Motor!Idle.at = "end"
BY DEF CallTyped, Motor!Idle

LEMMA RecordInit == ASSUME Motor!MotorInit PROVE RecordInv
<1>1. PICK homed \in BOOLEAN :
        s1 = [internal |-> TRUE, block |-> FALSE, enable |-> FALSE, enabled |-> FALSE,
              execute |-> FALSE, executeOld |-> FALSE, busy |-> FALSE, command |-> "abs",
              atTarget |-> TRUE, homed |-> homed, error |-> "none",
              limits |-> FALSE, started |-> FALSE]
  BY DEF Motor!MotorInit
<1>2. PICK options \in Options :
        s3 = [exists |-> FALSE, word |-> Motor!Zero, rest |-> Motor!ZeroRest, fresh |-> FALSE,
              seen |-> "lost", errorOld |-> "none", warning |-> FALSE, cmdError |-> FALSE,
              window |-> FALSE, active |-> "none", activeOld |-> "none", warningOld |-> FALSE,
              options |-> options]
  BY DEF Motor!MotorInit
<1>3. s1 \in MotorAxes
  BY <1>1 DEF MotorAxes, AxisErrors
<1>4. s2 = [word |-> Motor!Word(s1), rest |-> Motor!Rest(s1)]
  BY DEF Motor!MotorInit
<1>5. s2 \in AxisStatus
  BY <1>3, <1>4 DEF MotorAxes, AxisStatus, StatusWords, StatusRests, Motor!Word, Motor!Rest
<1>6. s3 \in Drivers
  BY <1>2 DEF Drivers, StatusWords, StatusRests, DriverErrors, AxisErrors, Motor!Zero, Motor!ZeroRest
<1>7. /\ s4 = [done |-> TRUE, problem |-> FALSE, red |-> FALSE, errId |-> "none",
               limits |-> FALSE, config |-> FALSE]
      /\ s6 = [busy |-> FALSE, target |-> FALSE, cycle |-> TRUE, early |-> FALSE,
               told |-> "none", error |-> "none", acts |-> 0]
  BY DEF Motor!MotorInit
<1>8. s4 \in MotorRecords /\ s6 \in MotorPasts
  BY <1>7 DEF MotorRecords, MotorPasts, AxisErrors, DriverErrors
<1>11. CallTyped(s5)
  BY DEF Motor!MotorInit, Motor!Idle, CallTyped
<1>9. s3.seen = "lost" /\ s3.fresh = FALSE /\ s6.target = FALSE /\ s6.busy = FALSE
  BY <1>2, <1>7
<1>10. MotorTold
  BY <1>7 DEF MotorTold, Motor!ErrorsAreTold, Motor!DoneIsDone
<1> QED
  BY <1>3, <1>5, <1>6, <1>8, <1>9, <1>10, <1>11
  DEF RecordInv, MotorTyped, AskedIsBusy, StatusIsTrue, CopyIsTrue, ToldIsSeen

\* What commands make of the axis: a motion that is on its way stays so.
Goes(a, b) == b \in MotorAxes /\ (a.busy => b.busy) /\ b.started = a.started

LEMMA ExecutedGoes ==
    ASSUME NEW a \in MotorAxes, NEW on \in BOOLEAN, NEW powerless \in BOOLEAN
    PROVE  Goes(a, Motor!Executed(a, on, powerless))
<1>1. Goes(a, a)
  BY DEF Goes
<1>2. Goes(a, [a EXCEPT !.execute = FALSE])
  BY DEF Goes, MotorAxes
<1>3. Goes(a, [a EXCEPT !.error = "refused"])
  BY DEF Goes, MotorAxes, AxisErrors
<1>4. Goes(a, [a EXCEPT !.execute = TRUE, !.busy = TRUE])
  BY DEF Goes, MotorAxes
<1> QED
  BY <1>1, <1>2, <1>3, <1>4 DEF Motor!Executed

LEMMA HaltedGoes ==
    ASSUME NEW a \in MotorAxes PROVE Goes(a, Motor!Halted(a))
BY ExecutedGoes DEF Motor!Halted

LEMMA MovedGoes ==
    ASSUME NEW a \in MotorAxes, NEW kind \in MotorKinds \cup {"home"}
    PROVE  /\ Goes(a, Motor!Moved(a, kind))
           /\ /\ ~Motor!Refused(a, kind)
              /\ Motor!OnTheFly(a, kind) \/ Motor!Moved(a, kind).error = "none"
              => Motor!Moved(a, kind).busy
<1> DEFINE h == [Motor!Halted(a) EXCEPT !.command = kind]
<1>1. h \in MotorAxes /\ Goes(a, h)
  BY HaltedGoes DEF Goes, MotorAxes
<1>2. Goes(h, Motor!Executed(h, TRUE, FALSE))
  BY <1>1, ExecutedGoes
<1> DEFINE m == Motor!Executed(h, TRUE, FALSE)
<1>3. CASE Motor!Refused(a, kind) \/ Motor!OnTheFly(a, kind)
  <2>1. Motor!Moved(a, kind) = a
    BY <1>3 DEF Motor!Moved
  <2> QED
    BY <2>1, <1>3 DEF Goes, Motor!OnTheFly, Motor!Refused, MotorAxes
<1>4. CASE ~Motor!Refused(a, kind) /\ ~Motor!OnTheFly(a, kind)
  <2>1. Motor!Moved(a, kind) = m
    BY <1>4 DEF Motor!Moved
  <2>2. h.internal = a.internal /\ a.internal = TRUE
    BY <1>4 DEF Motor!Refused, Motor!Halted, Motor!Executed, MotorAxes
  <2>3. m.error = "none" => m.busy
    <3> HIDE DEF h
    <3> QED
      BY <1>1, <2>2 DEF Motor!Executed, MotorAxes
  <2>4. Goes(a, m)
    <3> HIDE DEF h
    <3> QED
      BY <1>1, <1>2 DEF Goes, MotorAxes
  <2> QED
    BY <2>1, <2>3, <2>4, <1>4
<1> QED
  BY <1>3, <1>4

\* A cycle is not always given at once: the status may be older.
LEMMA RecordCycleKeeps == ASSUME RecordInv, Motor!Cycle PROVE RecordInv'
<1>1. PICK over, on, settled, homed \in BOOLEAN :
        LET enabled == s1.enable /\ (s1.enabled \/ on)
            busy == ~s1.internal \/ (s1.busy /\ s1.enable /\ ~over)
            a == [s1 EXCEPT !.busy = busy, !.enabled = enabled,
                    !.atTarget = ~enabled \/ (~busy /\ (settled \/ (@ /\ ~s1.busy))),
                    !.homed = IF s1.command = "home" /\ s1.busy THEN homed ELSE @,
                    !.executeOld = s1.execute]
        IN  /\ s1' = a
            /\ s2' = [word |-> Motor!Word(a), rest |-> Motor!Rest(a)]
            /\ s6' = [s6 EXCEPT !.busy = @ /\ busy, !.cycle = TRUE,
                                !.target = @ /\ ~a.atTarget]
  BY Zenon DEF Motor!Cycle
<1> DEFINE enabled == s1.enable /\ (s1.enabled \/ on)
           busy == ~s1.internal \/ (s1.busy /\ s1.enable /\ ~over)
           target == ~enabled \/ (~busy /\ (settled \/ (s1.atTarget /\ ~s1.busy)))
           homes == IF s1.command = "home" /\ s1.busy THEN homed ELSE s1.homed
<1>2. /\ s1 \in MotorAxes /\ s6 \in MotorPasts /\ UNCHANGED <<s3, s4, s5>>
  BY DEF RecordInv, MotorTyped, Motor!Cycle
<1>3. {enabled, busy, target, homes} \subseteq BOOLEAN
  BY <1>2 DEF MotorAxes
<1>4. /\ s1' = [s1 EXCEPT !.busy = busy, !.enabled = enabled, !.atTarget = target,
                          !.homed = homes, !.executeOld = s1.execute]
      /\ s2' = [word |-> Motor!Word(s1'), rest |-> Motor!Rest(s1')]
      /\ s6' = [s6 EXCEPT !.busy = @ /\ busy, !.cycle = TRUE, !.target = @ /\ ~s1'.atTarget]
  BY <1>1, <1>2 DEF MotorAxes
<1> HIDE DEF enabled, busy, target, homes
<1>5. /\ s1' \in MotorAxes /\ s1'.busy = busy /\ s1'.atTarget = target
      /\ s1'.started = s1.started
  BY <1>2, <1>3, <1>4 DEF MotorAxes
<1>6. s2' \in AxisStatus /\ s2'.word.atTarget = s1'.atTarget
  BY <1>4, <1>5 DEF MotorAxes, AxisStatus, StatusWords, StatusRests, Motor!Word, Motor!Rest
<1>7. /\ s6' \in MotorPasts /\ (s6'.busy => busy) /\ (s6'.target => ~s1'.atTarget)
      /\ (s6'.target => s6.target) /\ s6'.told = s6.told /\ s6'.error = s6.error
      /\ s6'.early = s6.early
  <2> DEFINE goes == s6.busy /\ busy
             short == s6.target /\ ~s1'.atTarget
  <2>1. goes \in BOOLEAN /\ short \in BOOLEAN
    OBVIOUS
  <2>2. s6' = [s6 EXCEPT !.busy = goes, !.cycle = TRUE, !.target = short]
    BY <1>2, <1>4 DEF MotorPasts
  <2>3. (goes => busy) /\ (short => ~s1'.atTarget) /\ (short => s6.target)
    BY <1>3 DEF goes, short
  <2> HIDE DEF goes, short
  <2> QED
    BY <1>2, <2>1, <2>2, <2>3 DEF MotorPasts
<1> QED
  BY <1>2, <1>5, <1>6, <1>7
  DEF RecordInv, MotorTyped, CallTyped, AskedIsBusy, StatusIsTrue, CopyIsTrue, ToldIsSeen, MotorTold,
      Motor!ErrorsAreTold, Motor!DoneIsDone

\* Most steps leave the copy, what the record was told and the past of its motion.
MotorOther ==
    /\ s1' \in MotorAxes /\ (s1.busy => s1'.busy) /\ (s1.started => s1'.started)
    /\ s2' = s2
    /\ s3' \in Drivers
    /\ \A f \in {"word", "fresh", "seen", "errorOld"} : s3'[f] = s3[f]
    /\ s4' \in MotorRecords
    /\ \A f \in {"problem", "red", "errId"} : s4'[f] = s4[f]
    /\ s5' = s5 \/ (CallTyped(s5') /\ s5'.at # "copy")
    /\ s6' = s6 \/ s6' = [s6 EXCEPT !.acts = @ + 1]

LEMMA OtherKeeps == ASSUME RecordInv, MotorOther PROVE RecordInv'
<1>1. /\ s6' \in MotorPasts
      /\ \A f \in {"busy", "target", "cycle", "early", "told", "error"} : s6'[f] = s6[f]
  BY DEF RecordInv, MotorTyped, MotorPasts, MotorOther
<1>2. MotorTyped'
  BY <1>1 DEF RecordInv, MotorTyped, MotorOther, CallTyped
<1>3. /\ s6'.busy = s6.busy /\ s6'.target = s6.target /\ s6'.cycle = s6.cycle
      /\ s6'.early = s6.early /\ s6'.told = s6.told /\ s6'.error = s6.error
      /\ s3'.word = s3.word /\ s3'.fresh = s3.fresh /\ s3'.seen = s3.seen
      /\ s3'.errorOld = s3.errorOld
      /\ s4'.problem = s4.problem /\ s4'.red = s4.red /\ s4'.errId = s4.errId
  BY <1>1 DEF MotorOther
<1> QED
  BY <1>2, <1>3
  DEF RecordInv, AskedIsBusy, StatusIsTrue, CopyIsTrue, ToldIsSeen, MotorTold, MotorOther,
      Motor!ErrorsAreTold, Motor!DoneIsDone

LEMMA MoveAxisKeeps ==
    ASSUME RecordInv, Motor!MoveAxis PROVE RecordInv'
<1> DEFINE ok == /\ ~Motor!Refused(s1, s5.op)
                 /\ Motor!OnTheFly(s1, s5.op) \/ s1'.error = "none"
<1>1. /\ s1' = Motor!Moved(s1, s5.op) /\ UNCHANGED <<s2, s3, s4>> /\ s5' = Motor!Idle
      /\ s6' = IF ok THEN [s6 EXCEPT !.busy = TRUE, !.target = TRUE, !.cycle = FALSE] ELSE s6
  BY DEF Motor!MoveAxis
<1>2. Goes(s1, s1') /\ (ok => s1'.busy)
  <2>1. s5.op \in MotorKinds
    BY DEF Motor!MoveAxis, RecordInv, MotorTyped, CallTyped
  <2> QED
    BY <1>1, <2>1, MovedGoes DEF RecordInv, MotorTyped
<1> HIDE DEF ok
<1>3. s5'.at = "end" /\ CallTyped(s5')
  BY <1>1 DEF Motor!Idle, CallTyped
<1>4. /\ s6' \in MotorPasts /\ s6'.told = s6.told /\ s6'.error = s6.error /\ s6'.early = s6.early
      /\ s6'.busy => s6.busy \/ ok
      /\ s6'.cycle /\ s6'.target => s6.cycle /\ s6.target
  BY <1>1 DEF MotorPasts, RecordInv, MotorTyped
<1> QED
  BY <1>1, <1>2, <1>3, <1>4
  DEF RecordInv, MotorTyped, AskedIsBusy, StatusIsTrue, CopyIsTrue, ToldIsSeen, MotorTold, Goes,
      Motor!ErrorsAreTold, Motor!DoneIsDone

LEMMA ReadStatusKeeps == ASSUME RecordInv, Motor!ReadStatus PROVE RecordInv'
<1>1. /\ s3' = Motor!CopyWord(s3) /\ s5' = [s5 EXCEPT !.at = "copy"]
      /\ UNCHANGED <<s1, s2, s4, s6>>
  BY DEF Motor!ReadStatus
<1>2. s3 \in Drivers /\ s2.word \in StatusWords /\ s6.cycle \in BOOLEAN /\ CallTyped(s5)
  BY DEF RecordInv, MotorTyped, AxisStatus, MotorPasts
<1>3. /\ s3' \in Drivers /\ s3'.seen = s3.seen /\ s3'.errorOld = s3.errorOld
      /\ IF s1.started THEN s3'.word = s2.word /\ s3'.fresh = s6.cycle ELSE s3' = s3
  BY <1>1, <1>2 DEF Motor!CopyWord, Drivers
<1>4. CallTyped(s5') /\ s5'.at = "copy"
  BY <1>1, <1>2 DEF CallTyped
<1> QED
  BY <1>1, <1>3, <1>4
  DEF RecordInv, MotorTyped, AskedIsBusy, StatusIsTrue, CopyIsTrue, ToldIsSeen, MotorTold,
      Motor!ErrorsAreTold, Motor!DoneIsDone

LEMMA LookAtEnabledKeeps == ASSUME RecordInv, Motor!LookAtEnabled PROVE RecordInv'
<1> DEFINE d == Motor!CopyRest(Motor!CopyWord(s3))
<1>1. PICK last \in BOOLEAN :
        /\ s3' = [d EXCEPT !.cmdError = @ \/ last]
        /\ s5' = Motor!Idle \/ s5' = [s5 EXCEPT !.at = "poll"] \/ s5' = [s5 EXCEPT !.left = @ - 1]
        /\ UNCHANGED <<s1, s2, s4, s6>> /\ s5.at = "sleep"
  BY DEF Motor!LookAtEnabled
<1>2. /\ s3 \in Drivers /\ s2.word \in StatusWords /\ s2.rest \in StatusRests
      /\ s6.cycle \in BOOLEAN /\ CallTyped(s5)
  BY DEF RecordInv, MotorTyped, AxisStatus, MotorPasts
<1>3. /\ Motor!CopyWord(s3) \in Drivers /\ Motor!CopyWord(s3).seen = s3.seen
      /\ Motor!CopyWord(s3).errorOld = s3.errorOld
      /\ (~s1.started => Motor!CopyWord(s3).fresh = s3.fresh)
  BY <1>2 DEF Motor!CopyWord, Drivers
<1>4. /\ d \in Drivers /\ d.seen = s3.seen /\ d.errorOld = s3.errorOld
      /\ (~s1.started => d.fresh = s3.fresh)
  BY <1>2, <1>3 DEF Motor!CopyRest, Drivers
<1> HIDE DEF d
<1>5. /\ s3' \in Drivers /\ s3'.seen = s3.seen /\ s3'.errorOld = s3.errorOld
      /\ (~s1.started => s3'.fresh = s3.fresh)
  BY <1>1, <1>4 DEF Drivers
<1>6. CallTyped(s5') /\ s5'.at # "copy"
  <2>1. CallTyped([s5 EXCEPT !.at = "poll"]) /\ [s5 EXCEPT !.at = "poll"].at = "poll"
    BY <1>2 DEF CallTyped
  <2>2. CallTyped([s5 EXCEPT !.left = @ - 1]) /\ [s5 EXCEPT !.left = @ - 1].at = "sleep"
    BY <1>1, <1>2 DEF CallTyped
  <2> QED
    BY <1>1, <2>1, <2>2, IdleTyped
<1> QED
  BY <1>1, <1>5, <1>6
  DEF RecordInv, MotorTyped, AskedIsBusy, StatusIsTrue, CopyIsTrue, ToldIsSeen, MotorTold,
      Motor!ErrorsAreTold, Motor!DoneIsDone

\* The end of a poll tells the record; a copy that is fresh and the axis itself are asked
\* whether the motion has ended.
LEMMA PollEndsKeeps == ASSUME RecordInv, Motor!PollEnds PROVE RecordInv'
<1> DEFINE c == Motor!CopyRest(s3)
           d == [c EXCEPT !.active = IF Motor!NotReady(c) THEN c.rest.command ELSE "none"]
<1>1. /\ s3' = Motor!Kept(d)
      /\ s4' = Motor!Told([s4 EXCEPT !.done = ~Motor!NotReady(d)], d)
      /\ s6' = [s6 EXCEPT !.told = Motor!EeAxisError(d), !.error = d.rest.error,
                   !.early = ~Motor!NotReady(d) /\ (@ \/ s6.busy \/ (d.fresh /\ s6.target))]
      /\ s5' = [s5 EXCEPT !.at = "config"] \/ s5' = Motor!Idle
      /\ UNCHANGED <<s1, s2>> /\ s5.at = "copy"
  BY DEF Motor!PollEnds
<1>2. /\ s1 \in MotorAxes /\ s3 \in Drivers /\ s2.rest \in StatusRests /\ s4 \in MotorRecords
      /\ s6 \in MotorPasts /\ CallTyped(s5)
  BY DEF RecordInv, MotorTyped, AxisStatus
<1>3. /\ c \in Drivers /\ c.rest \in StatusRests
      /\ \A f \in {"word", "fresh", "seen", "errorOld"} : c[f] = s3[f]
  BY <1>2 DEF Motor!CopyRest, Drivers
<1> HIDE DEF c
<1>4. c.rest.command \in MotorKinds \cup {"abs", "home", "none"}
  BY <1>3 DEF StatusRests
<1>5. /\ d \in Drivers
      /\ d.word = s3.word /\ d.fresh = s3.fresh /\ d.seen = s3.seen /\ d.errorOld = s3.errorOld
  BY <1>3, <1>4 DEF Drivers
<1> HIDE DEF d
<1> DEFINE e == Motor!EeAxisError(d)
           done == ~Motor!NotReady(d)
           early == ~Motor!NotReady(d) /\ (s6.early \/ s6.busy \/ (d.fresh /\ s6.target))
<1>6. e \in DriverErrors /\ d.rest.error \in AxisErrors /\ d.rest.error \in AxisErrors
  BY <1>5 DEF Motor!EeAxisError, DriverErrors, Drivers, StatusRests
<1>7. ~early
  <2>1. s6.early = FALSE
    BY <1>2 DEF RecordInv, MotorTold, Motor!DoneIsDone, MotorPasts
  <2>2. s6.busy => s1.busy
    BY DEF RecordInv, AskedIsBusy
  <2>3. s3.fresh /\ s6.target => ~s3.word.atTarget
    BY <1>1 DEF RecordInv, CopyIsTrue
  <2> QED
    BY <2>1, <2>2, <2>3, <1>5 DEF Motor!NotReady
<1>8. /\ s6' = [s6 EXCEPT !.told = e, !.error = d.rest.error, !.early = FALSE]
  <2>1. early = FALSE
    BY <1>7
  <2> QED
    BY <1>1, <1>2, <2>1 DEF MotorPasts
<1>9. /\ s6' \in MotorPasts /\ s6'.told = e /\ s6'.error = d.rest.error /\ ~s6'.early
      /\ s6'.busy = s6.busy /\ s6'.target = s6.target /\ s6'.cycle = s6.cycle
  <2> HIDE DEF e
  <2> QED
    BY <1>2, <1>6, <1>8 DEF MotorPasts
<1>10. done \in BOOLEAN
  BY <1>2, <1>5 DEF Motor!NotReady, MotorAxes, Drivers, StatusWords
<1> DEFINE r == [s4 EXCEPT !.done = done]
<1>11. /\ r \in MotorRecords /\ r.problem = s4.problem /\ r.red = s4.red /\ r.errId = s4.errId
  <2> HIDE DEF done
  <2> QED
    BY <1>2, <1>10 DEF MotorRecords
<1>12. CallTyped(s5') /\ s5'.at # "copy"
  <2>1. CallTyped([s5 EXCEPT !.at = "config"]) /\ [s5 EXCEPT !.at = "config"].at = "config"
    BY <1>2 DEF CallTyped
  <2> QED
    BY <1>1, <2>1, IdleTyped
<1>13. s4' = Motor!Told(r, d)
  BY <1>1
<1> HIDE DEF r, e, done, early
<1>14. CASE Motor!Changed(d)
  <2>1. /\ s3' \in Drivers /\ s3'.seen = e /\ s3'.errorOld = d.rest.error /\ s3'.fresh = d.fresh
    BY <1>1, <1>5, <1>6, <1>14 DEF Motor!Kept, Drivers, e
  <2>2. /\ s4' \in MotorRecords /\ s4'.problem = (e # "none") /\ s4'.red = (e = "axis")
        /\ s4'.errId = d.rest.error
    BY <1>6, <1>11, <1>13, <1>14 DEF Motor!Told, MotorRecords, e
  <2> QED
    BY <1>1, <1>5, <1>9, <1>12, <2>1, <2>2
    DEF RecordInv, MotorTyped, AskedIsBusy, StatusIsTrue, CopyIsTrue, ToldIsSeen, MotorTold,
        Motor!ErrorsAreTold, Motor!DoneIsDone
<1>15. CASE ~Motor!Changed(d)
  <2>1. e = s3.seen /\ d.rest.error = s3.errorOld /\ s3.seen # "lost"
    BY <1>5, <1>6, <1>15 DEF Motor!Changed, e, DriverErrors
  <2>2. s6.told = e /\ s6.error = d.rest.error
    BY <2>1 DEF RecordInv, ToldIsSeen
  <2>3. s3' = d /\ s4' = r
    BY <1>1, <1>13, <1>15 DEF Motor!Kept, Motor!Told
  <2> QED
    BY <1>1, <1>5, <1>9, <1>11, <1>12, <2>1, <2>2, <2>3
    DEF RecordInv, MotorTyped, AskedIsBusy, StatusIsTrue, CopyIsTrue, ToldIsSeen, MotorTold,
        Motor!ErrorsAreTold, Motor!DoneIsDone
<1> QED
  BY <1>14, <1>15

\* The calls that begin and the rest of what happens to the axis.
LEMMA SwitchedGoes ==
    ASSUME NEW a \in MotorAxes, NEW on \in BOOLEAN PROVE Goes(a, Motor!Switched(a, on))
<1>1. Goes(a, a) /\ Goes(a, Motor!Halted(a))
  BY HaltedGoes DEF Goes
<1> QED
  BY <1>1 DEF Goes, Motor!Switched, MotorAxes

LEMMA ElsewhereGoes ==
    ASSUME s1 \in MotorAxes, Motor!Elsewhere PROVE Goes(s1, s1')
<1>1. s1' \in {[s1 EXCEPT !.block = ~@], [s1 EXCEPT !.internal = ~@],
                [s1 EXCEPT !.error = "other"], Motor!Switched(s1, FALSE),
                Motor!Halted(s1), [s1 EXCEPT !.enabled = FALSE]}
  BY DEF Motor!Elsewhere
<1>2. /\ Goes(s1, [s1 EXCEPT !.block = ~@]) /\ Goes(s1, [s1 EXCEPT !.internal = ~@])
      /\ Goes(s1, [s1 EXCEPT !.error = "other"]) /\ Goes(s1, [s1 EXCEPT !.enabled = FALSE])
  BY DEF Goes, MotorAxes, AxisErrors
<1> QED
  BY <1>1, <1>2, SwitchedGoes, HaltedGoes

LEMMA SetPositionGoes ==
    ASSUME NEW a \in MotorAxes
    PROVE  Goes(a, IF a.error # "none" THEN a
                   ELSE Motor!Executed([Motor!Halted(a) EXCEPT !.command = "home"], TRUE, TRUE))
<1> DEFINE h == [Motor!Halted(a) EXCEPT !.command = "home"]
<1>1. Goes(a, a) /\ Goes(a, Motor!Halted(a))
  BY HaltedGoes DEF Goes
<1>2. Goes(a, h)
  BY <1>1 DEF Goes, MotorAxes
<1>3. Goes(h, Motor!Executed(h, TRUE, TRUE))
  BY <1>2, ExecutedGoes DEF Goes
<1> HIDE DEF h
<1>4. Goes(a, Motor!Executed(h, TRUE, TRUE))
  BY <1>2, <1>3 DEF Goes
<1> QED
  BY <1>1, <1>4 DEF h

LEMMA RecordStep == ASSUME RecordInv, Motor!MotorNext PROVE RecordInv'
<1>1. /\ s1 \in MotorAxes /\ s3 \in Drivers /\ s4 \in MotorRecords /\ CallTyped(s5)
  BY DEF RecordInv, MotorTyped
<1>2. Goes(s1, s1)
  BY <1>1 DEF Goes
<1>3. CASE Motor!SetRealTimeStarted
  <2>1. MotorOther
    BY <1>1, <1>3 DEF Motor!SetRealTimeStarted, MotorOther, MotorAxes
  <2> QED
    BY <2>1, OtherKeeps
<1>4. CASE Motor!Elsewhere
  <2>1. MotorOther
    BY <1>1, <1>4, ElsewhereGoes DEF Motor!Elsewhere, Motor!Counted, MotorOther, Goes
  <2> QED
    BY <2>1, OtherKeeps
<1>5. CASE Motor!CreateAxis
  <2>1. s3' \in Drivers /\ \A f \in {"word", "fresh", "seen", "errorOld"} : s3'[f] = s3[f]
    BY <1>1, <1>5 DEF Motor!CreateAxis, Drivers
  <2>2. CallTyped(s5') /\ s5'.at # "copy"
    BY <1>5, CallingTyped DEF Motor!CreateAxis
  <2>3. MotorOther
    BY <1>1, <1>2, <1>5, <2>1, <2>2 DEF Motor!CreateAxis, MotorOther, Goes
  <2> QED
    BY <2>3, OtherKeeps
<1>6. CASE Motor!ReadBackAllConfig
  <2>1. /\ s3' \in Drivers /\ \A f \in {"word", "fresh", "seen", "errorOld"} : s3'[f] = s3[f]
        /\ s4' \in MotorRecords /\ \A f \in {"problem", "red", "errId"} : s4'[f] = s4[f]
    <3>1. CASE UNCHANGED <<s3, s4>>
      BY <1>1, <3>1
    <3>2. CASE /\ s3' = [s3 EXCEPT !.window = "window" \in s3.options]
               /\ s4' = [s4 EXCEPT !.config = TRUE]
      <4>1. /\ s3' \in Drivers
            /\ \A f \in {"word", "fresh", "seen", "errorOld"} : s3'[f] = s3[f]
        <5> DEFINE w == "window" \in s3.options
        <5>1. w \in BOOLEAN /\ s3' = [s3 EXCEPT !.window = w]
          BY <3>2
        <5> HIDE DEF w
        <5> QED
          BY <1>1, <5>1 DEF Drivers
      <4> QED
        BY <1>1, <3>2, <4>1 DEF MotorRecords
    <3> QED
      BY <1>6, <3>1, <3>2 DEF Motor!ReadBackAllConfig
  <2>2. CallTyped(s5') /\ s5'.at # "copy"
    BY <1>1, <1>6, IdleTyped DEF Motor!ReadBackAllConfig, CallTyped
  <2>3. MotorOther
    BY <1>1, <1>2, <1>6, <2>1, <2>2 DEF Motor!ReadBackAllConfig, MotorOther, Goes
  <2> QED
    BY <2>3, OtherKeeps
<1>7. CASE Motor!ReadBackSoftLimits
  <2>1. /\ s4' \in MotorRecords /\ \A f \in {"problem", "red", "errId"} : s4'[f] = s4[f]
    BY <1>1, <1>7 DEF Motor!ReadBackSoftLimits, MotorRecords, MotorAxes
  <2>2. MotorOther
    BY <1>1, <1>2, <1>7, <2>1, IdleTyped DEF Motor!ReadBackSoftLimits, MotorOther, Goes
  <2> QED
    BY <2>2, OtherKeeps
<1>8. CASE Motor!SetSoftLimit
  <2>1. Goes(s1, s1')
    BY <1>1, <1>8 DEF Motor!SetSoftLimit, Goes, MotorAxes
  <2>2. CallTyped(s5') /\ s5'.at # "copy"
    <3>1. s5' = Motor!Calling("limit", "limits", FALSE)
      BY <1>8 DEF Motor!SetSoftLimit
    <3> QED
      BY <3>1 DEF CallTyped, Motor!Calling
  <2>3. MotorOther
    BY <1>1, <1>8, <2>1, <2>2 DEF Motor!SetSoftLimit, Motor!Counted, MotorOther, Goes
  <2> QED
    BY <2>3, OtherKeeps
<1>9. ASSUME NEW w \in BOOLEAN, Motor!Warned(w)
      PROVE  s3' \in Drivers /\ \A f \in {"word", "fresh", "seen", "errorOld"} : s3'[f] = s3[f]
  BY <1>1, <1>9 DEF Motor!Warned, Drivers
<1>10. ASSUME NEW kind \in MotorKinds, Motor!MoveNot(kind) PROVE RecordInv'
  <2>1. MotorOther
    BY <1>1, <1>2, <1>9, <1>10 DEF Motor!MoveNot, Motor!Counted, MotorOther, Goes
  <2> QED
    BY <2>1, OtherKeeps
<1>11. ASSUME NEW kind \in MotorKinds, Motor!Move(kind) PROVE RecordInv'
  <2>1. CallTyped(s5') /\ s5'.at # "copy"
    <3>1. s5' = Motor!Calling(kind, "mutex", TRUE)
      BY <1>11 DEF Motor!Move
    <3> QED
      BY <3>1 DEF CallTyped, Motor!Calling
  <2>2. MotorOther
    BY <1>1, <1>2, <1>9, <1>11, <2>1 DEF Motor!Move, Motor!Counted, MotorOther, Goes
  <2> QED
    BY <2>2, OtherKeeps
<1>12. CASE Motor!MoveBlocked
  <2>1. MotorOther
    BY <1>1, <1>2, <1>9, <1>12 DEF Motor!MoveBlocked, Motor!Counted, MotorOther, Goes
  <2> QED
    BY <2>1, OtherKeeps
<1>13. CASE Motor!Stop
  <2>1. MotorOther
    BY <1>1, <1>9, <1>13, HaltedGoes DEF Motor!Stop, Motor!Counted, MotorOther, Goes
  <2> QED
    BY <2>1, OtherKeeps
<1>14. CASE Motor!SetPosition
  <2>1. Goes(s1, s1')
    BY <1>1, <1>14, SetPositionGoes DEF Motor!SetPosition
  <2>2. MotorOther
    BY <1>1, <1>9, <1>14, <2>1 DEF Motor!SetPosition, Motor!Counted, MotorOther, Goes
  <2> QED
    BY <2>2, OtherKeeps
<1>15. CASE Motor!ResetAxis
  <2>1. s3' \in Drivers /\ \A f \in {"word", "fresh", "seen", "errorOld"} : s3'[f] = s3[f]
    BY <1>1, <1>15 DEF Motor!ResetAxis, Drivers
  <2>2. CallTyped(s5') /\ s5'.at # "copy"
    <3>1. s5' = Motor!Calling("reset", "poll", FALSE)
      BY <1>15 DEF Motor!ResetAxis
    <3> QED
      BY <3>1 DEF CallTyped, Motor!Calling
  <2>3. Goes(s1, s1')
    BY <1>1, <1>15 DEF Motor!ResetAxis, Goes, MotorAxes, AxisErrors
  <2>4. MotorOther
    BY <1>1, <1>15, <2>1, <2>2, <2>3 DEF Motor!ResetAxis, Motor!Counted, MotorOther, Goes
  <2> QED
    BY <2>4, OtherKeeps
<1>16. ASSUME NEW on \in BOOLEAN, Motor!SetClosedLoop(on) PROVE RecordInv'
  <2>1. CallTyped(s5') /\ s5'.at # "copy"
    BY <1>16, CallingTyped, IdleTyped DEF Motor!SetClosedLoop
  <2>2. MotorOther
    BY <1>1, <1>2, <1>16, <2>1 DEF Motor!SetClosedLoop, Motor!Counted, MotorOther, Goes
  <2> QED
    BY <2>2, OtherKeeps
<1>17. CASE Motor!SetEnable
  <2>1. Goes(s1, s1')
    <3>1. CASE s1.block
      BY <1>2, <1>17, <3>1 DEF Motor!SetEnable
    <3>2. CASE ~s1.block
      BY <1>1, <1>17, <3>2, SwitchedGoes DEF Motor!SetEnable, CallTyped
    <3> QED
      BY <3>1, <3>2
  <2>2. CallTyped(s5') /\ s5'.at # "copy"
    BY <1>1, <1>17, IdleTyped DEF Motor!SetEnable, CallTyped
  <2>3. MotorOther
    BY <1>1, <1>17, <2>1, <2>2 DEF Motor!SetEnable, MotorOther, Goes
  <2> QED
    BY <2>3, OtherKeeps
<1>18. CASE Motor!Poll
  <2>1. CallTyped(s5') /\ s5'.at # "copy"
    <3>1. s5' = Motor!Calling("poll", "poll", FALSE)
      BY <1>18 DEF Motor!Poll
    <3> QED
      BY <3>1 DEF CallTyped, Motor!Calling
  <2>2. MotorOther
    BY <1>1, <1>2, <1>18, <2>1 DEF Motor!Poll, MotorOther, Goes
  <2> QED
    BY <2>2, OtherKeeps
<1>19. CASE Motor!Cycle
  BY <1>19, RecordCycleKeeps
<1>20. CASE Motor!MoveAxis
  BY <1>20, MoveAxisKeeps
<1>21. CASE Motor!LookAtEnabled
  BY <1>21, LookAtEnabledKeeps
<1>22. CASE Motor!ReadStatus
  BY <1>22, ReadStatusKeeps
<1>23. CASE Motor!PollEnds
  BY <1>23, PollEndsKeeps
<1> QED
  BY <1>3, <1>4, <1>5, <1>6, <1>7, <1>8, <1>10, <1>11, <1>12, <1>13, <1>14, <1>15, <1>16, <1>17,
     <1>18, <1>19, <1>20, <1>21, <1>22, <1>23 DEF Motor!MotorNext

(***************************************************************************)
(* The parameters                                                          *)
(***************************************************************************)
\* The times between two updates of data.
Periods == {n \in Nat \ {0} : Round % n = 0}

ParamNames == {"a", "b"}
AskedTimes == [first: Int, least: Int, records: Nat]
ParamRecs ==
    [name: ParamNames, types: {kind.types : kind \in ParamKinds},
     wide: {kind.wide : kind \in ParamKinds}, bits: {kind.bits : kind \in ParamKinds},
     every: Periods, type: {link.type : link \in ParamLinks} \cup {"none"},
     cmd: {link.cmd : link \in ParamLinks} \cup {"none"}, ms: Int, cycles: Int, counter: Nat,
     index: Nat, linked: BOOLEAN, asked: AskedTimes]
LibraryEntries == [name: ParamNames, sampled: Nat, age: Nat]
Ports == [inUse: Seq(Nat), allow: BOOLEAN, epics: {"init", "database", "running"}, cycle: 0 .. (Round - 1),
          fastest: Nat, skip: Nat, flushed: BOOLEAN]

LEMMA PeriodsFit ==
    /\ Round \in Nat \ {0}
    /\ \A kind \in ParamKinds : kind.every \in Periods
  BY ParamAssumption DEF Periods

\* The largest of a number and 0, of two numbers, and the smallest of two.
Late(fastest) == IF fastest > 1 THEN fastest - 1 ELSE 0
LEMMA MaxIsLate ==
    ASSUME NEW n \in Nat PROVE Parameters!Max({n - 1, 0}) = Late(n)
<1> DEFINE S == {n - 1, 0}
<1>1. Late(n) \in S /\ \A y \in S : Late(n) >= y
  BY DEF Late
<1>2. \A x \in S : (\A y \in S : x >= y) => x = Late(n)
  BY DEF Late
<1> QED
  BY <1>1, <1>2 DEF Parameters!Max

LEMMA LargestOfTwo ==
    ASSUME NEW m \in Int, NEW n \in Int
    PROVE  /\ Parameters!Max({m, n}) \in {m, n}
           /\ Parameters!Max({m, n}) >= m /\ Parameters!Max({m, n}) >= n
<1> DEFINE S == {m, n}
           x == IF m >= n THEN m ELSE n
<1>1. x \in S /\ \A y \in S : x >= y
  OBVIOUS
<1>2. LET c == CHOOSE z \in S : \A y \in S : z >= y IN c \in S /\ \A y \in S : c >= y
  BY <1>1
<1> QED
  BY <1>2 DEF Parameters!Max

LEMMA SmallestOfTwo ==
    ASSUME NEW m \in Nat, NEW n \in Nat
    PROVE  Parameters!Min({m, n}) \in Nat /\ Parameters!Min({m, n}) <= m
<1> DEFINE S == {m, n}
           x == IF m <= n THEN m ELSE n
<1>1. x \in S /\ \A y \in S : x <= y
  OBVIOUS
<1>2. LET c == CHOOSE z \in S : \A y \in S : z <= y IN c \in S /\ \A y \in S : c <= y
  BY <1>1
<1> QED
  BY <1>2 DEF Parameters!Min

\* A set of natural numbers has a smallest one.
LEMMA SmallestExists ==
    ASSUME NEW S, S \subseteq Nat, S # {}
    PROVE  \E x \in S : \A y \in S : x <= y
<1>1. OpToRel(<, Nat) = {ss \in Nat \X Nat : ss[1] < ss[2]}
  BY Zenon DEF OpToRel
<1> DEFINE R == {ss \in Nat \X Nat : ss[1] < ss[2]}
<1>2. PICK x \in S : \A y \in S : ~(<<y, x>> \in R)
  BY <1>1, NatLessThanWellFounded, WFMin
<1>3. ASSUME NEW y \in S PROVE x <= y
  <2>1. x \in Nat /\ y \in Nat
    BY <1>2
  <2>2. y < x => <<y, x>> \in R
    BY <2>1
  <2> QED
    BY <1>2, <2>1, <2>2
<1> QED
  BY <1>3

LEMMA SmallestIsNat ==
    ASSUME NEW S, S \subseteq Nat, S # {} PROVE Parameters!Min(S) \in Nat
<1>1. PICK x \in S : \A y \in S : x <= y
  BY SmallestExists
<1>2. (CHOOSE z \in S : \A y \in S : z =< y) \in S
  BY <1>1
<1> QED
  BY <1>2 DEF Parameters!Min

\* The first parameter of a name.
IsFirst(params, name, k) ==
    params[k].name = name /\ \A j \in 1 .. (k - 1) : params[j].name # name

LEMMA FoundIsFirst ==
    ASSUME s1 \in Seq(ParamRecs), NEW name
    PROVE  /\ Parameters!Found(name) \in 0 .. Len(s1)
           /\ \A k \in 1 .. Len(s1) : Parameters!Found(name) = k <=> IsFirst(s1, name, k)
<1> DEFINE I == {i \in 1 .. Len(s1) : s1[i].name = name}
<1>1. Parameters!Found(name) = IF I # {} THEN Parameters!Min(I) ELSE 0
  BY DEF Parameters!Found, Parameters!SelectInSeq
<1>2. Len(s1) \in Nat /\ I \subseteq Nat
  OBVIOUS
<1>3. CASE I = {}
  BY <1>1, <1>2, <1>3 DEF IsFirst
<1>4. CASE I # {}
  <2>2. PICK x \in I : \A y \in I : x <= y
    BY <1>2, <1>4, SmallestExists
  <2>3. \A z \in I : (\A y \in I : z <= y) => z = x
    BY <1>2, <2>2
  <2>4. Parameters!Min(I) = x
    BY <2>2, <2>3 DEF Parameters!Min
  <2>5. IsFirst(s1, name, x)
    BY <1>2, <2>2 DEF IsFirst
  <2>6. ASSUME NEW k \in 1 .. Len(s1), IsFirst(s1, name, k) PROVE k = x
    <3>1. k \in I
      BY <2>6 DEF IsFirst
    <3>2. ~(x < k)
      BY <1>2, <2>6 DEF IsFirst
    <3> QED
      BY <1>2, <2>2, <3>1, <3>2
  <2>7. Parameters!Found(name) = x /\ x \in 1 .. Len(s1)
    BY <1>1, <1>4, <2>4
  <2> HIDE DEF I
  <2> QED
    BY <1>2, <2>5, <2>6, <2>7
<1> QED
  BY <1>3, <1>4

(***************************************************************************)
(* What is kept of each parameter and of its entry in the library          *)
(***************************************************************************)
NotAsked == [first |-> -1, least |-> -1, records |-> 0]

Kept(p) == p.linked /\ Parameters!Promised(p)

\* What a parameter has by itself.
OwnTrue(p) ==
    /\ ~p.linked => p.asked = NotAsked
    /\ p.linked => p.asked.records >= 1 /\ p.index # 0
    /\ p.index # 0 /\ ~p.linked => ~Parameters!Suits(p)
    /\ Kept(p) => /\ p.cycles >= 0
                  /\ p.every * p.cycles <= Parameters!Shortest(p)
                  /\ p.counter = 0 \/ p.counter + 1 <= p.cycles
    /\ p.linked /\ p.every = 1 /\ p.asked.first >= 0 =>
           p.ms = p.asked.least /\ p.cycles = p.ms /\ p.ms >= 0

\* The cycles since the data was updated last, before the next one.
Phase(every, cycle) ==
    IF cycle % every = 0 THEN every - 1 ELSE (cycle % every) - 1

\* The library is not older than the counter says, and the records are called in time.
InTime(p, entry, port) ==
    Kept(p) =>
        /\ entry.sampled <= p.every * p.counter + Phase(p.every, port.cycle)
        /\ port.flushed => entry.age + port.skip <= Parameters!Shortest(p) - 1 + Late(port.fastest)

CallsTrue(port) == port.flushed => port.epics = "running" /\ port.skip <= Late(port.fastest)

ParamsTyped == s1 \in Seq(ParamRecs) /\ s2 \in Seq(LibraryEntries) /\ s3 \in Ports

IndexTrue ==
    /\ Len(s2) = Len(s3.inUse)
    /\ \A i \in 1 .. Len(s2) :
           /\ s3.inUse[i] \in 1 .. Len(s1)
           /\ IsFirst(s1, s2[i].name, s3.inUse[i])
           /\ s1[s3.inUse[i]].index = i
    /\ \A k \in 1 .. Len(s1) :
           s1[k].index # 0 =>
               s1[k].index \in 1 .. Len(s2) /\ s3.inUse[s1[k].index] = k

ParamsTrue ==
    /\ CallsTrue(s3)
    /\ \A k \in 1 .. Len(s1) : OwnTrue(s1[k]) /\ InTime(s1[k], s2[s1[k].index], s3)

ParamInv == ParamsTyped /\ IndexTrue /\ ParamsTrue

LEMMA LateIsNat == ASSUME NEW n \in Nat PROVE Late(n) \in Nat
  BY DEF Late

LEMMA ParamRecFields ==
    ASSUME NEW p \in ParamRecs
    PROVE  /\ p.every \in Nat \ {0} /\ p.every \in Periods
           /\ p.ms \in Int /\ p.cycles \in Int /\ p.counter \in Nat /\ p.index \in Nat
           /\ p.linked \in BOOLEAN /\ p.name \in ParamNames
           /\ p.asked \in AskedTimes /\ p.asked.first \in Int /\ p.asked.least \in Int
           /\ p.asked.records \in Nat
  BY DEF ParamRecs, AskedTimes, Periods

LEMMA ShortestBounds ==
    ASSUME NEW p \in ParamRecs
    PROVE  /\ Parameters!Shortest(p) \in Int
           /\ Parameters!Shortest(p) >= p.every /\ Parameters!Shortest(p) >= p.asked.least
<1>1. p.every \in Int /\ p.asked.least \in Int
  BY ParamRecFields
<1> QED
  BY <1>1, LargestOfTwo DEF Parameters!Shortest

\* Products of natural numbers.
LEMMA MoreTimesMore ==
    ASSUME NEW e \in Nat, NEW m \in Nat, NEW n \in Nat
    PROVE  e * m \in Nat /\ e * (m + 1) = e * m + e /\ (m <= n => e * m <= e * n)
  OBVIOUS

\* Only the counter of a parameter is changed when it is due.
WithCounter(p, c) == [p EXCEPT !.counter = c]

LEMMA CounterAlone ==
    ASSUME NEW p \in ParamRecs, NEW c \in Nat
    PROVE  LET q == WithCounter(p, c)
           IN /\ q \in ParamRecs /\ q.counter = c
              /\ q.name = p.name /\ q.index = p.index /\ q.linked = p.linked
              /\ q.every = p.every /\ q.cycles = p.cycles /\ q.ms = p.ms /\ q.asked = p.asked
              /\ Kept(q) <=> Kept(p)
              /\ Parameters!Shortest(q) = Parameters!Shortest(p)
              /\ Parameters!Suits(q) <=> Parameters!Suits(p)
              /\ OwnTrue(p) /\ (Kept(p) => c = 0 \/ c + 1 <= p.cycles) => OwnTrue(q)
<1> DEFINE q == WithCounter(p, c)
<1>1. /\ q \in ParamRecs /\ q.counter = c
      /\ q.name = p.name /\ q.index = p.index /\ q.linked = p.linked
      /\ q.every = p.every /\ q.cycles = p.cycles /\ q.ms = p.ms /\ q.asked = p.asked
      /\ q.cmd = p.cmd /\ q.bits = p.bits /\ q.wide = p.wide
  BY DEF ParamRecs, WithCounter
<1> HIDE DEF q
<1>2. Parameters!Promised(q) <=> Parameters!Promised(p)
  BY <1>1 DEF Parameters!Promised
<1>3. Parameters!Shortest(q) = Parameters!Shortest(p)
  BY <1>1 DEF Parameters!Shortest
<1>4. Parameters!Suits(q) <=> Parameters!Suits(p)
  BY <1>1 DEF Parameters!Suits
<1>5. Kept(q) <=> Kept(p)
  BY <1>1, <1>2 DEF Kept
<1>6. OwnTrue(p) /\ (Kept(p) => c = 0 \/ c + 1 <= p.cycles) => OwnTrue(q)
  BY <1>1, <1>3, <1>4, <1>5 DEF OwnTrue
<1> QED
  BY <1>1, <1>3, <1>4, <1>5, <1>6 DEF q

LEMMA CountedCounts ==
    ASSUME NEW p \in ParamRecs, NEW force \in BOOLEAN
    PROVE  \E c \in Nat :
              /\ Parameters!Counted(p, force) = WithCounter(p, c)
              /\ p.linked /\ force => c = 0
              /\ p.linked /\ ~force /\ p.cycles >= 0 =>
                    IF p.counter >= p.cycles - 1 THEN c = 0 ELSE c = p.counter + 1
              /\ ~p.linked => c = p.counter
              /\ Parameters!Due(p, force) <=>
                    p.linked /\ (force \/ (p.cycles >= 0 /\ p.counter >= p.cycles - 1))
<1>1. p = [p EXCEPT !.counter = p.counter]
  BY DEF ParamRecs
<1>2. p.counter \in Nat /\ p.cycles \in Int /\ p.linked \in BOOLEAN
  BY ParamRecFields
<1>3. CASE Parameters!Due(p, force)
  BY <1>2, <1>3 DEF Parameters!Counted, Parameters!Due, WithCounter
<1>4. CASE ~Parameters!Due(p, force) /\ p.linked /\ ~force /\ p.cycles >= 0
  <2>1. p.counter < p.cycles - 1 /\ ~(p.counter >= p.cycles - 1)
    BY <1>2, <1>4 DEF Parameters!Due
  <2>2. Parameters!Counted(p, force) = WithCounter(p, p.counter + 1)
    BY <1>4, <2>1 DEF Parameters!Counted, WithCounter
  <2>4. p.counter + 1 \in Nat
    BY <1>2
  <2> QED
    BY <1>2, <1>4, <2>1, <2>2, <2>4
<1>5. CASE ~Parameters!Due(p, force) /\ ~(p.linked /\ ~force /\ p.cycles >= 0)
  BY <1>1, <1>2, <1>5 DEF Parameters!Counted, Parameters!Due, WithCounter
<1> QED
  BY <1>3, <1>4, <1>5

\* What is in the library is younger than the data of its records may be.
LEMMA SampledInTime ==
    ASSUME NEW p \in ParamRecs, NEW entry \in LibraryEntries, NEW port \in Ports,
           OwnTrue(p), InTime(p, entry, port), Kept(p)
    PROVE  entry.sampled <= Parameters!Shortest(p) - 1
<1> DEFINE S == Parameters!Shortest(p)
           f == Phase(p.every, port.cycle)
<1>1. /\ S \in Int /\ S >= p.every /\ p.every \in Nat \ {0} /\ p.every \in Periods
      /\ p.counter \in Nat /\ p.cycles \in Int
      /\ entry.sampled \in Nat /\ port.cycle \in 0 .. (Round - 1)
  BY ShortestBounds, ParamRecFields DEF LibraryEntries, Ports
<1>2. f \in Nat /\ f <= p.every - 1
  BY <1>1, PeriodsFit DEF Phase
<1>3. /\ entry.sampled <= p.every * p.counter + f
      /\ p.cycles \in Nat /\ p.every * p.cycles <= S
      /\ p.counter = 0 \/ p.counter + 1 <= p.cycles
  BY <1>1 DEF OwnTrue, InTime
<1> HIDE DEF S, f
<1>4. CASE p.counter = 0
  BY <1>1, <1>2, <1>3, <1>4 DEF S
<1>5. CASE p.counter + 1 <= p.cycles
  <2>1. /\ p.every * (p.counter + 1) = p.every * p.counter + p.every
        /\ p.every * (p.counter + 1) <= p.every * p.cycles
        /\ p.every * p.counter \in Nat /\ p.every * p.cycles \in Nat
    <3>1. p.counter + 1 \in Nat /\ p.every \in Nat
      BY <1>1
    <3> QED
      BY <1>1, <1>3, <1>5, <3>1, MoreTimesMore
  <2> QED
    BY <1>1, <1>2, <1>3, <2>1 DEF S
<1> QED
  BY <1>3, <1>4, <1>5

\* A cycle: what it does to the counter of a parameter, and that its entry stays in time.
AfterCycle(p) == IF Parameters!Updated(p) THEN Parameters!Counted(p, FALSE) ELSE p
IsDue(p) == Parameters!Updated(p) /\ Parameters!Due(p, FALSE)

LEMMA CycleCounts ==
    ASSUME NEW p \in ParamRecs, OwnTrue(p)
    PROVE  \E c \in Nat :
              /\ AfterCycle(p) = WithCounter(p, c)
              /\ OwnTrue(AfterCycle(p))
              /\ Kept(p) => IF IsDue(p) THEN c = 0
                            ELSE IF Parameters!Updated(p)
                            THEN c = p.counter + 1 ELSE c = p.counter
<1>1. PICK c \in Nat :
              /\ Parameters!Counted(p, FALSE) = WithCounter(p, c)
              /\ p.linked /\ p.cycles >= 0 =>
                    IF p.counter >= p.cycles - 1 THEN c = 0 ELSE c = p.counter + 1
              /\ Parameters!Due(p, FALSE) <=>
                    p.linked /\ p.cycles >= 0 /\ p.counter >= p.cycles - 1
  BY CountedCounts
<1>2. p.counter \in Nat /\ p.cycles \in Int /\ (Kept(p) => p.linked /\ p.cycles >= 0)
  BY ParamRecFields DEF OwnTrue, Kept
<1>3. CASE Parameters!Updated(p)
  <2>1. AfterCycle(p) = WithCounter(p, c)
    BY <1>1, <1>3 DEF AfterCycle
  <2>2. Kept(p) => c = 0 \/ c + 1 <= p.cycles
    BY <1>1, <1>2
  <2>3. OwnTrue(WithCounter(p, c))
    BY <2>2, CounterAlone
  <2>4. Kept(p) => IF IsDue(p) THEN c = 0 ELSE c = p.counter + 1
    BY <1>1, <1>2, <1>3 DEF IsDue
  <2> QED
    BY <1>3, <2>1, <2>3, <2>4
<1>4. CASE ~Parameters!Updated(p)
  <2>1. AfterCycle(p) = p /\ p = WithCounter(p, p.counter) /\ ~IsDue(p)
    BY <1>4 DEF AfterCycle, WithCounter, IsDue, ParamRecs
  <2> QED
    BY <1>2, <1>4, <2>1
<1> QED
  BY <1>3, <1>4

NextCall ==
    /\ s3'.cycle = (s3.cycle + 1) % Round
    /\ s3'.epics = s3.epics /\ s3'.fastest = s3.fastest
    /\ s3'.skip = IF s3.epics = "init" THEN 0
                  ELSE IF Parameters!Calls THEN Late(s3.fastest) ELSE s3.skip - 1
    /\ s3'.flushed = (s3.flushed \/ (Parameters!Calls /\ s3.epics = "running"))

\* The rest of a division goes on by one, and starts over.
LEMMA RestGoesOn ==
    ASSUME NEW n \in Nat, NEW e \in Nat \ {0}
    PROVE  (n + 1) % e = IF n % e = e - 1 THEN 0 ELSE (n % e) + 1
<1> DEFINE q == n \div e
           r == n % e
<1>1. q \in Nat /\ r \in 0 .. (e - 1) /\ n = e * q + r
  OBVIOUS
<1> HIDE DEF q, r
<1>2. CASE r = e - 1
  <2>1. n + 1 = e * (q + 1) /\ q + 1 \in Nat
    BY <1>1, <1>2
  <2>2. \A k \in Nat : (e * k + 0) % e = 0
    OBVIOUS
  <2> QED
    <3>1. e * (q + 1) + 0 = n + 1
      BY <1>1, <2>1
    <3> QED
      BY <1>2, <2>1, <2>2, <3>1 DEF r
<1>3. CASE r # e - 1
  <2>1. n + 1 = e * q + (r + 1) /\ r + 1 \in 0 .. (e - 1)
    BY <1>1, <1>3
  <2>2. (e * q + (r + 1)) % e = r + 1
    BY <1>1, <2>1
  <2> QED
    BY <1>3, <2>1, <2>2 DEF r
<1> QED
  BY <1>2, <1>3

\* The phase goes on by one with each cycle that does not update the data.
LEMMA PhaseGoesOn ==
    ASSUME NEW cycle \in 0 .. (Round - 1), NEW every \in Periods
    PROVE  LET next == (cycle + 1) % Round
           IN /\ next \in 0 .. (Round - 1)
              /\ Phase(every, cycle) \in 0 .. (every - 1)
              /\ Phase(every, next) \in 0 .. (every - 1)
              /\ IF cycle % every = 0
                 THEN Phase(every, cycle) + 1 = Phase(every, next) + every
                 ELSE Phase(every, cycle) + 1 = Phase(every, next)
<1>1. Round \in Nat \ {0} /\ every \in Nat \ {0} /\ Round % every = 0
  BY PeriodsFit DEF Periods
<1>2. (cycle + 1) % Round = IF cycle = Round - 1 THEN 0 ELSE cycle + 1
  <2>1. CASE cycle = Round - 1
    BY <1>1, <2>1
  <2>2. CASE cycle + 1 \in 0 .. (Round - 1)
    BY <1>1, <2>2
  <2> QED
    BY <1>1, <2>1, <2>2
<1> DEFINE r == cycle % every
           next == (cycle + 1) % Round
<1>3. r \in 0 .. (every - 1)
  BY <1>1
<1>4. (cycle + 1) % every = IF r = every - 1 THEN 0 ELSE r + 1
  <2>1. cycle \in Nat
    BY <1>1
  <2> QED
    BY <1>1, <2>1, RestGoesOn DEF r
<1>5. next \in 0 .. (Round - 1) /\ next % every = (cycle + 1) % every
  <2>1. CASE cycle = Round - 1
    <3>1. cycle + 1 = Round /\ next = 0 /\ 0 % every = 0
      BY <1>1, <1>2, <2>1
    <3> QED
      BY <1>1, <3>1
  <2>2. CASE cycle # Round - 1
    BY <1>1, <1>2, <2>2
  <2> QED
    BY <2>1, <2>2
<1> HIDE DEF r, next
<1>6. /\ Phase(every, cycle) = IF r = 0 THEN every - 1 ELSE r - 1
      /\ Phase(every, next) = IF next % every = 0 THEN every - 1 ELSE (next % every) - 1
  BY DEF Phase, r
<1>7. /\ Phase(every, cycle) \in 0 .. (every - 1)
      /\ Phase(every, next) \in 0 .. (every - 1)
      /\ IF r = 0 THEN Phase(every, cycle) + 1 = Phase(every, next) + every
         ELSE Phase(every, cycle) + 1 = Phase(every, next)
  BY <1>1, <1>3, <1>4, <1>5, <1>6
<1> QED
  BY <1>5, <1>7 DEF r, next

LEMMA CycleInTime ==
    ASSUME NEW p \in ParamRecs, s3 \in Ports, s3' \in Ports, NextCall,
           CallsTrue(s3), OwnTrue(p),
           NEW entry \in LibraryEntries, NEW e \in LibraryEntries, InTime(p, entry, s3),
           IsDue(p) => e.sampled = 0, ~IsDue(p) => e.sampled <= entry.sampled + 1,
           Parameters!Calls => e.age = e.sampled,
           ~Parameters!Calls => e.age <= entry.age + 1
    PROVE  InTime(AfterCycle(p), e, s3')
<1>1. PICK c \in Nat :
              /\ AfterCycle(p) = WithCounter(p, c)
              /\ OwnTrue(AfterCycle(p))
              /\ Kept(p) => IF IsDue(p) THEN c = 0
                            ELSE IF Parameters!Updated(p)
                            THEN c = p.counter + 1 ELSE c = p.counter
  BY CycleCounts
<1> DEFINE q == AfterCycle(p)
<1>2. /\ q \in ParamRecs /\ q.counter = c /\ q.every = p.every
      /\ Kept(q) <=> Kept(p)
      /\ Parameters!Shortest(q) = Parameters!Shortest(p)
  BY <1>1, CounterAlone
<1>3. OwnTrue(q)
  BY <1>1
<1> HIDE DEF q
<1> SUFFICES ASSUME Kept(p) PROVE InTime(q, e, s3')
  BY <1>2 DEF InTime, q
<1> DEFINE f == Phase(p.every, s3.cycle)
           g == Phase(p.every, s3'.cycle)
<1>4. /\ p.every \in Nat \ {0} /\ p.every \in Periods /\ p.counter \in Nat
      /\ s3.cycle \in 0 .. (Round - 1)
      /\ e.sampled \in Nat /\ entry.sampled \in Nat /\ e.age \in Nat /\ entry.age \in Nat
      /\ s3.skip \in Nat /\ s3.fastest \in Nat /\ s3'.skip \in Nat
      /\ s3.flushed \in BOOLEAN
  BY ParamRecFields DEF LibraryEntries, Ports
<1>5. /\ f \in 0 .. (p.every - 1) /\ g \in 0 .. (p.every - 1)
      /\ IF s3.cycle % p.every = 0 THEN f + 1 = g + p.every ELSE f + 1 = g
  BY <1>4, PhaseGoesOn DEF NextCall
<1>6. Parameters!Updated(p) <=> s3.cycle % p.every = 0
  BY DEF Parameters!Updated
<1>7. entry.sampled <= p.every * p.counter + f
  BY DEF InTime
<1> HIDE DEF f, g
<1>8. /\ p.every * p.counter \in Nat /\ p.every * c \in Nat /\ p.every * 0 = 0
      /\ p.every * (p.counter + 1) = p.every * p.counter + p.every
  BY <1>4, MoreTimesMore
<1>9. e.sampled <= p.every * c + g
  <2>1. CASE IsDue(p)
    BY <1>1, <1>4, <1>5, <1>8, <2>1
  <2>2. CASE ~IsDue(p) /\ Parameters!Updated(p)
    BY <1>1, <1>4, <1>5, <1>6, <1>7, <1>8, <2>2
  <2>3. CASE ~IsDue(p) /\ ~Parameters!Updated(p)
    BY <1>1, <1>4, <1>5, <1>6, <1>7, <1>8, <2>3
  <2> QED
    BY <2>1, <2>2, <2>3
<1>10. e.sampled <= q.every * q.counter + Phase(q.every, s3'.cycle)
  BY <1>2, <1>9 DEF g
<1> DEFINE S == Parameters!Shortest(p)
<1>11. S \in Int /\ S >= 1 /\ Late(s3.fastest) \in Nat
  BY <1>4, ShortestBounds, LateIsNat
<1>12. ASSUME s3'.flushed PROVE e.age + s3'.skip <= S - 1 + Late(s3.fastest)
  <2>1. CASE Parameters!Calls /\ s3.epics = "running"
    <3>1. e.sampled <= S - 1
      <4> DEFINE n == [s3' EXCEPT !.flushed = FALSE]
      <4>2. n \in Ports /\ n.cycle = s3'.cycle /\ n.flushed = FALSE
        BY DEF Ports
      <4>3. InTime(q, e, n)
        BY <1>10, <4>2 DEF InTime
      <4> HIDE DEF n
      <4> QED
        BY <1>2, <1>3, <4>2, <4>3, SampledInTime
    <3>2. s3'.skip = Late(s3.fastest) /\ e.age = e.sampled
      BY <2>1 DEF NextCall
    <3> QED
      BY <1>4, <1>11, <3>1, <3>2
  <2>2. CASE ~(Parameters!Calls /\ s3.epics = "running")
    <3>1. s3.flushed /\ s3.epics = "running" /\ s3.skip <= Late(s3.fastest)
      BY <1>4, <1>12, <2>2 DEF NextCall, CallsTrue
    <3>2. ~Parameters!Calls /\ s3'.skip = s3.skip - 1
      BY <2>2, <3>1 DEF NextCall
    <3>3. entry.age + s3.skip <= S - 1 + Late(s3.fastest)
      BY <3>1 DEF InTime
    <3> HIDE DEF S
    <3> QED
      BY <1>4, <1>11, <3>2, <3>3
  <2> QED
    BY <2>1, <2>2
<1> QED
  BY <1>2, <1>10, <1>12 DEF InTime, NextCall

(***************************************************************************)
(* Publishing                                                              *)
(***************************************************************************)
LEMMA SampleResets ==
    ASSUME NEW l \in LibraryEntries, NEW type
    PROVE  LET e == Parameters!Sample(l, type)
           IN /\ e \in LibraryEntries /\ e.name = l.name /\ e.sampled = 0
              /\ e.age <= l.age /\ (Parameters!IsArray(type) => e.age = 0)
<1> DEFINE a == IF Parameters!IsArray(type) THEN 0 ELSE l.age
<1>1. a \in Nat /\ a <= l.age /\ (Parameters!IsArray(type) => a = 0)
  BY DEF LibraryEntries
<1>2. Parameters!Sample(l, type) = [l EXCEPT !.sampled = 0, !.age = a]
  BY DEF Parameters!Sample
<1> HIDE DEF a
<1> DEFINE e == [l EXCEPT !.sampled = 0, !.age = a]
<1>3. e \in LibraryEntries /\ e.name = l.name /\ e.sampled = 0 /\ e.age = a
  BY <1>1 DEF LibraryEntries
<1> HIDE DEF e
<1>4. Parameters!Sample(l, type) = e
  BY <1>2 DEF e
<1>5. l.age \in Nat
  BY DEF LibraryEntries
<1> QED
  BY <1>1, <1>3, <1>4, <1>5

LEMMA SeqOfFunction ==
    ASSUME NEW S, NEW n \in Nat, NEW f \in [1 .. n -> S]
    PROVE  f \in Seq(S) /\ Len(f) = n /\ DOMAIN f = 1 .. n
<1>1. f \in Seq(S)
  BY SeqDef
<1> QED
  BY <1>1, LenProperties

LEMMA FlushCalls ==
    ASSUME NEW lib \in Seq(LibraryEntries)
    PROVE  /\ Parameters!Flush(lib) \in Seq(LibraryEntries)
           /\ Len(Parameters!Flush(lib)) = Len(lib)
           /\ \A i \in 1 .. Len(lib) :
                  LET e == Parameters!Flush(lib)[i]
                  IN e.name = lib[i].name /\ e.sampled = lib[i].sampled /\ e.age = lib[i].sampled
<1> DEFINE Out == [i \in DOMAIN lib |-> [lib[i] EXCEPT !.age = lib[i].sampled]]
<1>1. \A i \in 1 .. Len(lib) :
         /\ Out[i] \in LibraryEntries
         /\ Out[i].name = lib[i].name /\ Out[i].sampled = lib[i].sampled /\ Out[i].age = lib[i].sampled
  <2>1. \A l \in LibraryEntries :
           LET e == [l EXCEPT !.age = l.sampled]
           IN e \in LibraryEntries /\ e.name = l.name /\ e.sampled = l.sampled /\ e.age = l.sampled
    BY DEF LibraryEntries
  <2>2. \A i \in 1 .. Len(lib) : lib[i] \in LibraryEntries /\ i \in DOMAIN lib
    OBVIOUS
  <2> QED
    BY <2>1, <2>2
<1>2. Out \in Seq(LibraryEntries) /\ Len(Out) = Len(lib)
  <2>1. Out \in [1 .. Len(lib) -> LibraryEntries] /\ Len(lib) \in Nat
    <3>1. DOMAIN lib = 1 .. Len(lib) /\ Len(lib) \in Nat
      BY LenProperties
    <3>2. \A i \in DOMAIN lib : Out[i] \in LibraryEntries
      BY <1>1, <3>1
    <3>3. Out \in [DOMAIN lib -> LibraryEntries]
      BY <3>2, Zenon
    <3> QED
      BY <3>1, <3>3
  <2> HIDE DEF Out
  <2> QED
    BY <2>1, SeqOfFunction
<1> QED
  BY <1>1, <1>2 DEF Parameters!Flush

LEMMA OlderByOne ==
    ASSUME NEW n \in Nat
    PROVE  Parameters!Older(n) \in Nat /\ Parameters!Older(n) <= n + 1
<1>1. n + 1 \in Nat /\ MaxAge \in Nat
  BY ParamAssumption
<1> QED
  BY <1>1, SmallestOfTwo DEF Parameters!Older

LEMMA AgedByOne ==
    ASSUME s2 \in Seq(LibraryEntries)
    PROVE  /\ Parameters!Aged(s2) \in Seq(LibraryEntries)
           /\ Len(Parameters!Aged(s2)) = Len(s2)
           /\ \A i \in 1 .. Len(s2) :
                  LET e == Parameters!Aged(s2)[i]
                  IN e.name = s2[i].name /\ e.sampled <= s2[i].sampled + 1 /\ e.age <= s2[i].age + 1
<1> DEFINE Out == [i \in DOMAIN s2 |-> [s2[i] EXCEPT !.sampled = Parameters!Older(@),
                                                     !.age = Parameters!Older(@)]]
<1>a. \A i \in 1 .. Len(s2) : s2[i] \in LibraryEntries /\ i \in DOMAIN s2
  OBVIOUS
<1>1. CASE s3.epics # "running"
  <2>1. \A l \in LibraryEntries : l.sampled <= l.sampled + 1 /\ l.age <= l.age + 1
    BY DEF LibraryEntries
  <2> QED
    BY <1>1, <1>a, <2>1 DEF Parameters!Aged
<1>2. CASE s3.epics = "running"
  <2>1. \A i \in 1 .. Len(s2) :
           /\ Out[i] \in LibraryEntries /\ Out[i].name = s2[i].name
           /\ Out[i].sampled <= s2[i].sampled + 1 /\ Out[i].age <= s2[i].age + 1
    <3>1. \A l \in LibraryEntries :
             LET e == [l EXCEPT !.sampled = Parameters!Older(@), !.age = Parameters!Older(@)]
             IN /\ e \in LibraryEntries /\ e.name = l.name
                /\ e.sampled <= l.sampled + 1 /\ e.age <= l.age + 1
      BY OlderByOne DEF LibraryEntries
    <3> QED
      BY <1>a, <3>1
  <2>2. Out \in Seq(LibraryEntries) /\ Len(Out) = Len(s2)
    <3>1. Out \in [1 .. Len(s2) -> LibraryEntries] /\ Len(s2) \in Nat
      <4>1. DOMAIN s2 = 1 .. Len(s2) /\ Len(s2) \in Nat
        BY LenProperties
      <4>2. \A i \in DOMAIN s2 : Out[i] \in LibraryEntries
        BY <2>1, <4>1
      <4>3. Out \in [DOMAIN s2 -> LibraryEntries]
        BY <4>2, Zenon
      <4> QED
        BY <4>1, <4>3
    <3> HIDE DEF Out
    <3> QED
      BY <3>1, SeqOfFunction
  <2>3. Parameters!Aged(s2) = Out
    BY <1>2 DEF Parameters!Aged
  <2> HIDE DEF Out
  <2> QED
    BY <2>1, <2>2, <2>3
<1> QED
  BY <1>1, <1>2

\* The library after all parameters have been looked at.
LEMMA CycleRefreshes ==
    ASSUME s2 \in Seq(LibraryEntries), NEW lib \in Seq(LibraryEntries)
    PROVE  LET R == Parameters!Refresh(lib, s1, LAMBDA p : Parameters!Updated(p)
                                                          /\ Parameters!Due(p, FALSE))
           IN /\ R \in Seq(LibraryEntries) /\ Len(R) = Len(lib)
              /\ \A i \in 1 .. Len(lib) :
                     /\ R[i].name = lib[i].name
                     /\ R[i].sampled <= lib[i].sampled /\ R[i].age <= lib[i].age
                     /\ (\E k \in DOMAIN s1 : s1[k].index = i /\ IsDue(s1[k])) => R[i].sampled = 0
<1> DEFINE R == [i \in DOMAIN lib |->
        IF \E k \in DOMAIN s1 : s1[k].index = i /\ IsDue(s1[k])
        THEN Parameters!Sample(lib[i], s1[Parameters!Found(lib[i].name)].type) ELSE lib[i]]
<1>1. R = Parameters!Refresh(lib, s1, LAMBDA p : Parameters!Updated(p)
                                                /\ Parameters!Due(p, FALSE))
  BY DEF Parameters!Refresh, IsDue
<1>2. \A i \in 1 .. Len(lib) :
         /\ R[i] \in LibraryEntries /\ R[i].name = lib[i].name
         /\ R[i].sampled <= lib[i].sampled /\ R[i].age <= lib[i].age
         /\ (\E k \in DOMAIN s1 : s1[k].index = i /\ IsDue(s1[k])) => R[i].sampled = 0
  <2> SUFFICES ASSUME NEW i \in 1 .. Len(lib)
               PROVE  /\ R[i] \in LibraryEntries /\ R[i].name = lib[i].name
                      /\ R[i].sampled <= lib[i].sampled /\ R[i].age <= lib[i].age
                      /\ (\E k \in DOMAIN s1 : s1[k].index = i /\ IsDue(s1[k])) => R[i].sampled = 0
    OBVIOUS
  <2>1. lib[i] \in LibraryEntries /\ lib[i].sampled \in Nat /\ lib[i].age \in Nat
    <3>1. lib[i] \in LibraryEntries
      OBVIOUS
    <3> QED
      BY <3>1 DEF LibraryEntries
  <2>2. CASE \E k \in DOMAIN s1 : s1[k].index = i /\ IsDue(s1[k])
    <3>1. R[i] = Parameters!Sample(lib[i], s1[Parameters!Found(lib[i].name)].type)
      BY <2>2
    <3> HIDE DEF R
    <3> QED
      BY <2>1, <3>1, SampleResets
  <2>3. CASE ~\E k \in DOMAIN s1 : s1[k].index = i /\ IsDue(s1[k])
    BY <2>1, <2>3
  <2> QED
    BY <2>2, <2>3
<1>3. R \in Seq(LibraryEntries) /\ Len(R) = Len(lib)
  <2>1. R \in [1 .. Len(lib) -> LibraryEntries] /\ Len(lib) \in Nat
    <3>1. DOMAIN lib = 1 .. Len(lib) /\ Len(lib) \in Nat
      BY LenProperties
    <3>2. \A i \in DOMAIN lib : R[i] \in LibraryEntries
      BY <1>2, <3>1
    <3>3. R \in [DOMAIN lib -> LibraryEntries]
      BY <3>2, Zenon
    <3> QED
      BY <3>1, <3>3
  <2> HIDE DEF R
  <2> QED
    BY <2>1, SeqOfFunction
<1> HIDE DEF R
<1> QED
  BY <1>1, <1>2, <1>3

\* The index holds while names, indexes and their order stay.
LEMMA IndexStays ==
    ASSUME IndexTrue, s1 \in Seq(ParamRecs), s2 \in Seq(LibraryEntries),
           Len(s1') = Len(s1), Len(s2') = Len(s2), s3'.inUse = s3.inUse,
           \A k \in 1 .. Len(s1) : s1'[k].name = s1[k].name /\ s1'[k].index = s1[k].index,
           \A i \in 1 .. Len(s2) : s2'[i].name = s2[i].name
    PROVE  IndexTrue'
<1>1. Len(s1) \in Nat /\ Len(s2) \in Nat
  OBVIOUS
<1>2. ASSUME NEW i \in 1 .. Len(s2)
      PROVE  /\ s3'.inUse[i] \in 1 .. Len(s1')
             /\ IsFirst(s1', s2'[i].name, s3'.inUse[i])
             /\ s1'[s3'.inUse[i]].index = i
  <2>1. /\ s3.inUse[i] \in 1 .. Len(s1)
        /\ IsFirst(s1, s2[i].name, s3.inUse[i])
        /\ s1[s3.inUse[i]].index = i
    BY DEF IndexTrue
  <2> DEFINE k == s3.inUse[i]
  <2> HIDE DEF k
  <2>2. IsFirst(s1', s2'[i].name, k)
    <3>1. /\ k \in 1 .. Len(s1) /\ s1[k].name = s2[i].name
          /\ \A j \in 1 .. (k - 1) : s1[j].name # s2[i].name
      BY <2>1 DEF IsFirst, k
    <3>2. \A j \in 1 .. (k - 1) : j \in 1 .. Len(s1)
      BY <1>1, <3>1
    <3>3. s1'[k].name = s2'[i].name /\ \A j \in 1 .. (k - 1) : s1'[j].name # s2'[i].name
      BY <3>1, <3>2
    <3> QED
      BY <3>3 DEF IsFirst
  <2> QED
    BY <2>1, <2>2 DEF k
<1>3. ASSUME NEW k \in 1 .. Len(s1), s1'[k].index # 0
      PROVE  s1'[k].index \in 1 .. Len(s2) /\ s3'.inUse[s1'[k].index] = k
  BY <1>3 DEF IndexTrue
<1>4. Len(s2') = Len(s3'.inUse)
  BY DEF IndexTrue
<1> QED
  BY <1>2, <1>3, <1>4 DEF IndexTrue

\* The entry of a parameter that is linked.
LEMMA EntryOf ==
    ASSUME ParamInv, NEW k \in 1 .. Len(s1)
    PROVE  /\ s1[k] \in ParamRecs /\ OwnTrue(s1[k]) /\ InTime(s1[k], s2[s1[k].index], s3)
           /\ s1[k].linked => s1[k].index \in 1 .. Len(s2) /\ s2[s1[k].index] \in LibraryEntries
<1>1. s1[k] \in ParamRecs /\ OwnTrue(s1[k]) /\ InTime(s1[k], s2[s1[k].index], s3)
  BY DEF ParamInv, ParamsTyped, ParamsTrue
<1>2. s1[k].linked => s1[k].index \in 1 .. Len(s2)
  BY <1>1 DEF OwnTrue, ParamInv, IndexTrue
<1> QED
  BY <1>1, <1>2 DEF ParamInv, ParamsTyped

(***************************************************************************)
(* A cycle                                                                 *)
(***************************************************************************)
LEMMA CycleKeeps ==
    ASSUME ParamInv, Parameters!RtCycle
    PROVE  ParamInv'
<1> DEFINE R == Parameters!Refresh(Parameters!Aged(s2), s1,
                    LAMBDA p : Parameters!Updated(p) /\ Parameters!Due(p, FALSE))
<1>1. /\ s1' = [k \in DOMAIN s1 |-> AfterCycle(s1[k])]
      /\ s2' = IF Parameters!Calls THEN Parameters!Flush(R) ELSE R
  BY DEF Parameters!RtCycle, AfterCycle
<1>2. s1 \in Seq(ParamRecs) /\ s2 \in Seq(LibraryEntries) /\ s3 \in Ports /\ CallsTrue(s3)
  BY DEF ParamInv, ParamsTyped, ParamsTrue
<1>3. /\ R \in Seq(LibraryEntries) /\ Len(R) = Len(s2)
      /\ \A i \in 1 .. Len(s2) :
             /\ R[i].name = s2[i].name
             /\ R[i].sampled <= s2[i].sampled + 1 /\ R[i].age <= s2[i].age + 1
             /\ (\E k \in DOMAIN s1 : s1[k].index = i /\ IsDue(s1[k])) => R[i].sampled = 0
  <2> DEFINE A == Parameters!Aged(s2)
  <2>1. /\ A \in Seq(LibraryEntries) /\ Len(A) = Len(s2)
        /\ \A i \in 1 .. Len(s2) : /\ A[i].name = s2[i].name
                                   /\ A[i].sampled <= s2[i].sampled + 1 /\ A[i].age <= s2[i].age + 1
    BY <1>2, AgedByOne
  <2> HIDE DEF A
  <2> DEFINE Q == Parameters!Refresh(A, s1,
                    LAMBDA p : Parameters!Updated(p) /\ Parameters!Due(p, FALSE))
  <2>2. /\ Q \in Seq(LibraryEntries) /\ Len(Q) = Len(A)
        /\ \A i \in 1 .. Len(A) :
               /\ Q[i].name = A[i].name
               /\ Q[i].sampled <= A[i].sampled /\ Q[i].age <= A[i].age
               /\ (\E k \in DOMAIN s1 : s1[k].index = i /\ IsDue(s1[k])) => Q[i].sampled = 0
    BY <1>2, <2>1, CycleRefreshes
  <2>3. Q = R
    BY DEF A
  <2> HIDE DEF Q, R
  <2>4. \A l \in LibraryEntries : l.sampled \in Nat /\ l.age \in Nat
    BY DEF LibraryEntries
  <2>5. \A i \in 1 .. Len(s2) : Q[i] \in LibraryEntries /\ A[i] \in LibraryEntries
                                /\ s2[i] \in LibraryEntries
    BY <1>2, <2>1, <2>2
  <2>6. ASSUME NEW i \in 1 .. Len(s2)
        PROVE  /\ R[i].name = s2[i].name
               /\ R[i].sampled <= s2[i].sampled + 1 /\ R[i].age <= s2[i].age + 1
               /\ (\E k \in DOMAIN s1 : s1[k].index = i /\ IsDue(s1[k])) => R[i].sampled = 0
    <3>1. /\ Q[i].name = A[i].name /\ A[i].name = s2[i].name
          /\ Q[i].sampled <= A[i].sampled /\ Q[i].age <= A[i].age
          /\ A[i].sampled <= s2[i].sampled + 1 /\ A[i].age <= s2[i].age + 1
          /\ (\E k \in DOMAIN s1 : s1[k].index = i /\ IsDue(s1[k])) => Q[i].sampled = 0
      BY <2>1, <2>2
    <3> QED
      BY <2>3, <2>4, <2>5, <3>1
  <2> QED
    BY <2>1, <2>2, <2>3, <2>6
<1> HIDE DEF R
<1>4. /\ s2' \in Seq(LibraryEntries) /\ Len(s2') = Len(s2)
      /\ \A i \in 1 .. Len(s2) :
             /\ s2'[i].name = s2[i].name
             /\ s2'[i].sampled <= s2[i].sampled + 1
             /\ (\E k \in DOMAIN s1 : s1[k].index = i /\ IsDue(s1[k])) => s2'[i].sampled = 0
             /\ Parameters!Calls => s2'[i].age = s2'[i].sampled
             /\ ~Parameters!Calls => s2'[i].age <= s2[i].age + 1
  <2>1. CASE Parameters!Calls
    BY <1>1, <1>3, <2>1, FlushCalls
  <2>2. CASE ~Parameters!Calls
    BY <1>1, <1>3, <2>2
  <2> QED
    BY <2>1, <2>2
<1>5. ASSUME NEW k \in 1 .. Len(s1)
      PROVE  /\ k \in DOMAIN s1 /\ s1'[k] = AfterCycle(s1[k]) /\ s1'[k] \in ParamRecs
             /\ s1'[k].name = s1[k].name /\ s1'[k].index = s1[k].index /\ OwnTrue(s1'[k])
             /\ Kept(s1'[k]) <=> Kept(s1[k])
  <2>1. k \in DOMAIN s1 /\ s1'[k] = AfterCycle(s1[k])
    BY <1>1, <1>2
  <2>2. PICK c \in Nat : AfterCycle(s1[k]) = WithCounter(s1[k], c) /\ OwnTrue(AfterCycle(s1[k]))
    BY EntryOf, CycleCounts
  <2>3. s1[k] \in ParamRecs
    BY EntryOf
  <2> DEFINE p == s1[k]
             q == WithCounter(p, c)
  <2>4. /\ q \in ParamRecs /\ q.name = p.name /\ q.index = p.index
        /\ Kept(q) <=> Kept(p)
    <3> HIDE DEF p
    <3>1. p \in ParamRecs
      BY <2>3 DEF p
    <3> QED
      BY <3>1, CounterAlone
  <2> QED
    BY <2>1, <2>2, <2>4
<1>6. s1' \in Seq(ParamRecs) /\ Len(s1') = Len(s1) /\ Len(s1) \in Nat
  <2>1. DOMAIN s1 = 1 .. Len(s1) /\ Len(s1) \in Nat
    BY <1>2, LenProperties
  <2>2. s1' \in [1 .. Len(s1) -> ParamRecs]
    BY <1>1, <1>5, <2>1
  <2> QED
    BY <2>1, <2>2, SeqOfFunction
<1>7. s3' \in Ports /\ NextCall /\ s3'.inUse = s3.inUse
  <2>1. s3' = [s3 EXCEPT
            !.cycle = (@ + 1) % Round,
            !.skip = IF s3.epics = "init" THEN 0
                     ELSE IF Parameters!Calls THEN Late(s3.fastest) ELSE @ - 1,
            !.flushed = @ \/ (Parameters!Calls /\ s3.epics = "running")]
    <3>1. s3.fastest \in Nat
      BY <1>2 DEF Ports
    <3> QED
      BY <3>1, PeriodsFit, MaxIsLate DEF Parameters!RtCycle
  <2>2. (s3.cycle + 1) % Round \in 0 .. (Round - 1)
    BY <1>2, PeriodsFit DEF Ports
  <2> DEFINE skip == IF s3.epics = "init" THEN 0
                     ELSE IF Parameters!Calls THEN Late(s3.fastest) ELSE s3.skip - 1
             flushed == s3.flushed \/ (Parameters!Calls /\ s3.epics = "running")
  <2>3. skip \in Nat /\ flushed \in BOOLEAN
    <3>1. s3.skip \in Nat /\ s3.fastest \in Nat /\ Late(s3.fastest) \in Nat /\ s3.flushed \in BOOLEAN
      BY <1>2, LateIsNat DEF Ports
    <3>2. s3.epics # "init" /\ ~Parameters!Calls => s3.skip # 0
      BY DEF Parameters!Calls
    <3> QED
      BY <3>1, <3>2
  <2>4. s3' = [s3 EXCEPT !.cycle = (s3.cycle + 1) % Round, !.skip = skip, !.flushed = flushed]
    BY <2>1
  <2> HIDE DEF skip, flushed
  <2>5. /\ s3' \in Ports /\ s3'.inUse = s3.inUse
        /\ s3'.cycle = (s3.cycle + 1) % Round /\ s3'.skip = skip /\ s3'.flushed = flushed
        /\ s3'.epics = s3.epics /\ s3'.fastest = s3.fastest
    BY <1>2, <2>2, <2>3, <2>4 DEF Ports
  <2> QED
    BY <2>5 DEF NextCall, skip, flushed
<1>8. IndexTrue'
  BY <1>2, <1>4, <1>5, <1>6, <1>7, IndexStays DEF ParamInv
<1>9. CallsTrue(s3')
  <2>1. /\ s3.skip \in Nat /\ s3.fastest \in Nat /\ Late(s3.fastest) \in Nat
        /\ s3.flushed \in BOOLEAN
    BY <1>2, LateIsNat DEF Ports
  <2> QED
    BY <1>2, <1>7, <2>1 DEF CallsTrue, NextCall
<1>10. ASSUME NEW k \in 1 .. Len(s1) PROVE InTime(s1'[k], s2'[s1'[k].index], s3')
  <2>1. CASE ~Kept(s1[k])
    BY <1>5, <2>1 DEF InTime
  <2>2. CASE Kept(s1[k])
    <3> DEFINE i == s1[k].index
    <3>1. i \in 1 .. Len(s2) /\ s2[i] \in LibraryEntries /\ s2'[i] \in LibraryEntries
      BY <1>4, <2>2, EntryOf DEF Kept
    <3>2. /\ IsDue(s1[k]) => s2'[i].sampled = 0
          /\ s2'[i].sampled <= s2[i].sampled + 1
          /\ Parameters!Calls => s2'[i].age = s2'[i].sampled
          /\ ~Parameters!Calls => s2'[i].age <= s2[i].age + 1
      BY <1>4, <1>5, <3>1
    <3>3. /\ s1[k] \in ParamRecs /\ OwnTrue(s1[k]) /\ InTime(s1[k], s2[i], s3)
      BY EntryOf
    <3>4. InTime(AfterCycle(s1[k]), s2'[i], s3')
      BY <1>2, <1>7, <3>1, <3>2, <3>3, CycleInTime
    <3> QED
      BY <1>5, <3>4
  <2> QED
    BY <2>1, <2>2
<1> QED
  BY <1>4, <1>5, <1>6, <1>7, <1>8, <1>9, <1>10 DEF ParamInv, ParamsTyped, ParamsTrue

(***************************************************************************)
(* Linking: what it leaves of a parameter                                  *)
(***************************************************************************)
LEMMA InformedFields ==
    ASSUME NEW p \in ParamRecs, NEW link \in ParamLinks
    PROVE  LET q == Parameters!Informed(p, link)
           IN /\ q \in ParamRecs
              /\ q.name = p.name /\ q.index = p.index /\ q.linked = p.linked
              /\ q.asked = p.asked /\ q.every = p.every /\ q.counter = p.counter
              /\ q.ms = Parameters!Time(link.ms, p.every)
              /\ q.cycles = Parameters!Cycles(link.ms, p.every)
<1>1. link.ms \in Int /\ p.every \in Nat \ {0}
  BY ParamAssumption, ParamRecFields
<1> DEFINE t == Parameters!Time(link.ms, p.every)
           n == Parameters!Cycles(link.ms, p.every)
<1>2. t \in Int /\ n \in Int
  <2>1. t \in Int
    BY <1>1 DEF Parameters!Time
  <2> HIDE DEF t
  <2>2. t \div p.every \in Int
    BY <1>1, <2>1
  <2> QED
    BY <2>1, <2>2 DEF Parameters!Cycles, t
<1> HIDE DEF t, n
<1>3. link.type \in {l.type : l \in ParamLinks} /\ link.cmd \in {l.cmd : l \in ParamLinks}
  OBVIOUS
<1> DEFINE q == [p EXCEPT !.type = link.type, !.cmd = link.cmd, !.ms = t, !.cycles = n]
<1>4. /\ q \in ParamRecs
      /\ q.name = p.name /\ q.index = p.index /\ q.linked = p.linked
      /\ q.asked = p.asked /\ q.every = p.every /\ q.counter = p.counter
      /\ q.ms = t /\ q.cycles = n
  BY <1>2, <1>3 DEF ParamRecs
<1>5. q = Parameters!Informed(p, link)
  BY DEF Parameters!Informed, t, n
<1> HIDE DEF q
<1> QED
  BY <1>4, <1>5 DEF t, n

LEMMA LinkedFields ==
    ASSUME NEW p \in ParamRecs, NEW link \in ParamLinks
    PROVE  LET q == Parameters!Linked(p, link)
           IN /\ q \in ParamRecs
              /\ q.name = p.name /\ q.index = p.index /\ q.linked = TRUE
              /\ q.asked = Parameters!Asked(p.asked, link.ms)
              /\ q.every = p.every /\ q.counter = 0
              /\ IF link.ms < p.ms /\ link.ms >= 0
                 THEN q.ms = link.ms /\ q.cycles = link.ms
                 ELSE q.ms = p.ms /\ q.cycles = p.cycles
<1>1. link.ms \in Int
  BY ParamAssumption
<1> DEFINE a == Parameters!Asked(p.asked, link.ms)
           r == Parameters!Shortened(p, link)
<1>2. a \in AskedTimes
  BY <1>1, ParamRecFields DEF Parameters!Asked, AskedTimes
<1>3. /\ r \in ParamRecs
      /\ r.name = p.name /\ r.index = p.index /\ r.asked = p.asked /\ r.every = p.every
      /\ IF link.ms < p.ms /\ link.ms >= 0
         THEN r.ms = link.ms /\ r.cycles = link.ms
         ELSE r.ms = p.ms /\ r.cycles = p.cycles
  <2>1. CASE link.ms < p.ms /\ link.ms >= 0
    BY <1>1, <2>1 DEF Parameters!Shortened, ParamRecs
  <2>2. CASE ~(link.ms < p.ms /\ link.ms >= 0)
    BY <2>2 DEF Parameters!Shortened
  <2> QED
    BY <2>1, <2>2
<1>4. Parameters!Linked(p, link) = [r EXCEPT !.linked = TRUE, !.counter = 0, !.asked = a]
  BY <1>3 DEF Parameters!Linked
<1> HIDE DEF a, r
<1> DEFINE q == [r EXCEPT !.linked = TRUE, !.counter = 0, !.asked = a]
<1>5. /\ q \in ParamRecs
      /\ q.name = r.name /\ q.index = r.index /\ q.linked = TRUE /\ q.asked = a
      /\ q.every = r.every /\ q.counter = 0 /\ q.ms = r.ms /\ q.cycles = r.cycles
  BY <1>2, <1>3 DEF ParamRecs
<1> HIDE DEF q
<1>6. q = Parameters!Linked(p, link)
  BY <1>4 DEF q
<1> QED
  BY <1>3, <1>5, <1>6 DEF a

\* The first record of a parameter.
LEMMA FirstIsTrue ==
    ASSUME NEW p \in ParamRecs, NEW link \in ParamLinks, p.asked = NotAsked, p.index # 0,
           p.ms = Parameters!Time(link.ms, p.every),
           p.cycles = Parameters!Cycles(link.ms, p.every)
    PROVE  OwnTrue(Parameters!Linked(p, link))
<1> DEFINE q == Parameters!Linked(p, link)
           e == p.every
           m == link.ms
<1>1. m \in Nat \cup {-1} /\ e \in Nat \ {0}
  BY ParamAssumption, ParamRecFields
<1>2. /\ q \in ParamRecs /\ q.linked = TRUE /\ q.index # 0 /\ q.counter = 0 /\ q.every = e
      /\ q.asked = Parameters!Asked(p.asked, m)
      /\ IF m < p.ms /\ m >= 0 THEN q.ms = m /\ q.cycles = m
         ELSE q.ms = p.ms /\ q.cycles = p.cycles
  BY LinkedFields
<1>3. q.asked.first = m /\ q.asked.least = m /\ q.asked.records = 1
  BY <1>1, <1>2 DEF Parameters!Asked, NotAsked
<1>4. Parameters!Shortest(q) \in Int /\ Parameters!Shortest(q) >= e /\ Parameters!Shortest(q) >= m
  BY <1>2, <1>3, ShortestBounds
<1> HIDE DEF q, e, m
<1>5. p.ms = IF m > 0 /\ m < e THEN e ELSE m
  BY DEF Parameters!Time, m, e
<1>6. p.cycles = IF m = -1 THEN -1 ELSE p.ms \div e
  BY DEF Parameters!Cycles, m, e
<1>7. q.every = 1 /\ q.asked.first >= 0 =>
         q.ms = q.asked.least /\ q.cycles = q.ms /\ q.ms >= 0
  BY <1>1, <1>2, <1>3, <1>5, <1>6
<1>8. ASSUME Kept(q) PROVE q.cycles >= 0 /\ q.every * q.cycles <= Parameters!Shortest(q)
  <2>1. m \in Nat /\ (e = 1 \/ m \notin 2 .. (e - 1))
    BY <1>1, <1>2, <1>3, <1>8 DEF Kept, Parameters!Promised
  <2>2. CASE e = 1
    BY <1>2, <1>3, <1>4, <1>7, <2>1, <2>2
  <2>3. CASE e # 1 /\ m = 1
    BY <1>1, <1>2, <1>4, <1>5, <2>3
  <2>4. CASE e # 1 /\ m # 1
    <3>1. p.ms = m /\ q.cycles = m \div e
      BY <1>1, <1>2, <1>5, <1>6, <2>1, <2>4
    <3>2. m \div e \in Nat /\ e * (m \div e) <= m
      BY <1>1, <2>1
    <3> QED
      BY <1>1, <1>2, <1>4, <2>1, <3>1, <3>2
  <2> QED
    BY <2>2, <2>3, <2>4
<1>9. OwnTrue(q)
  BY <1>2, <1>3, <1>7, <1>8 DEF OwnTrue
<1> QED
  BY <1>9 DEF q

\* A further one.
LEMMA FurtherIsTrue ==
    ASSUME NEW p \in ParamRecs, NEW link \in ParamLinks, OwnTrue(p), p.linked
    PROVE  OwnTrue(Parameters!Linked(p, link))
<1> DEFINE q == Parameters!Linked(p, link)
           m == link.ms
<1>1. m \in Nat \cup {-1}
  BY ParamAssumption
<1>2. /\ q \in ParamRecs /\ q.linked = TRUE /\ q.index = p.index /\ q.counter = 0
      /\ q.every = p.every
      /\ q.asked = Parameters!Asked(p.asked, m)
      /\ IF m < p.ms /\ m >= 0 THEN q.ms = m /\ q.cycles = m
         ELSE q.ms = p.ms /\ q.cycles = p.cycles
  BY LinkedFields
<1>3. /\ p.asked.records \in Nat /\ p.asked.records >= 1 /\ p.index # 0
      /\ p.asked.first \in Int /\ p.asked.least \in Int /\ p.ms \in Int /\ p.cycles \in Int
      /\ p.every = 1 /\ p.asked.first >= 0 =>
             p.ms = p.asked.least /\ p.cycles = p.ms /\ p.ms >= 0
  BY ParamRecFields DEF OwnTrue
<1>4. /\ q.asked.first = p.asked.first /\ q.asked.records = p.asked.records + 1
      /\ q.asked.least = IF p.asked.least = -1 \/ (m >= 0 /\ m < p.asked.least)
                         THEN m ELSE p.asked.least
  BY <1>2, <1>3 DEF Parameters!Asked
<1>5. Parameters!Shortest(q) \in Int /\ Parameters!Shortest(q) >= q.asked.least
  BY <1>2, ShortestBounds
<1> HIDE DEF q, m
<1>6. q.every = 1 /\ q.asked.first >= 0 =>
         q.ms = q.asked.least /\ q.cycles = q.ms /\ q.ms >= 0
  BY <1>1, <1>2, <1>3, <1>4
<1>7. Kept(q) => q.every = 1 /\ q.asked.first >= 0
  BY <1>2, <1>3, <1>4 DEF Kept, Parameters!Promised
<1>8. Kept(q) => q.cycles >= 0 /\ q.every * q.cycles <= Parameters!Shortest(q)
  BY <1>5, <1>6, <1>7, <1>2, <1>3, <1>4, <1>1
<1>9. OwnTrue(q)
  BY <1>2, <1>3, <1>4, <1>6, <1>8 DEF OwnTrue
<1> QED
  BY <1>9 DEF q

\* Before the IOC runs, an entry has only to be as old as the counter says.
LEMMA UncalledInTime ==
    ASSUME NEW p, NEW e, NEW port, ~port.flushed,
           Kept(p) => e.sampled <= p.every * p.counter + Phase(p.every, port.cycle)
    PROVE  InTime(p, e, port)
  BY DEF InTime

\* A parameter that was counted from 0 again, and its new entry.
LEMMA FreshInTime ==
    ASSUME NEW p \in ParamRecs, NEW e \in LibraryEntries, NEW port \in Ports, CallsTrue(port),
           p.counter = 0, e.sampled = 0, port.flushed => e.age = 0
    PROVE  InTime(p, e, port)
<1>1. /\ p.every \in Nat \ {0} /\ p.every \in Periods /\ p.every * 0 = 0
      /\ port.cycle \in 0 .. (Round - 1) /\ port.skip \in Nat
      /\ Parameters!Shortest(p) \in Int /\ Parameters!Shortest(p) >= p.every
  BY ParamRecFields, ShortestBounds DEF Ports
<1>2. Phase(p.every, port.cycle) \in Nat
  BY <1>1, PeriodsFit DEF Phase
<1>3. port.fastest \in Nat /\ Late(port.fastest) \in Nat
  BY LateIsNat DEF Ports
<1>4. p.every * p.counter = 0
  BY <1>1
<1>5. e.sampled <= p.every * p.counter + Phase(p.every, port.cycle)
  <2> DEFINE f == Phase(p.every, port.cycle)
             m == p.every * p.counter
  <2>1. f \in Nat /\ m = 0
    BY <1>2, <1>4
  <2> HIDE DEF f, m
  <2>2. e.sampled <= m + f
    BY <2>1
  <2> QED
    BY <2>2 DEF f, m
<1>6. port.flushed =>
         e.age + port.skip <= Parameters!Shortest(p) - 1 + Late(port.fastest)
  BY <1>1, <1>3 DEF CallsTrue
<1> QED
  BY <1>5, <1>6 DEF InTime

(***************************************************************************)
(* Offering and linking                                                    *)
(***************************************************************************)
LEMMA AddKeeps ==
    ASSUME ParamInv, NEW name \in ParamNames, NEW kind \in ParamKinds,
           Parameters!AddParam(name, kind)
    PROVE  ParamInv'
<1> DEFINE p == Parameters!NewParam(name, kind)
           n == Len(s1) + 1
<1>1. s1' = Append(s1, p) /\ s2' = s2 /\ s3' = s3
  BY DEF Parameters!AddParam
<1>2. s1 \in Seq(ParamRecs) /\ s2 \in Seq(LibraryEntries) /\ s3 \in Ports /\ Len(s1) \in Nat
  BY DEF ParamInv, ParamsTyped
<1>3. p \in ParamRecs /\ ~p.linked /\ p.index = 0 /\ p.asked = NotAsked
  <2>1. kind.every \in Periods
    BY PeriodsFit
  <2> QED
    BY <2>1 DEF Parameters!NewParam, Parameters!NoIndex, ParamRecs, AskedTimes, NotAsked
<1> HIDE DEF p
<1>4. /\ s1' \in Seq(ParamRecs) /\ Len(s1') = n /\ s1'[n] = p
      /\ \A k \in 1 .. Len(s1) : s1'[k] = s1[k]
  BY <1>1, <1>2, <1>3
<1>5. \A k \in 1 .. Len(s1') : k # n => k \in 1 .. Len(s1)
  BY <1>2, <1>4
<1>6. IndexTrue'
  <2>1. ASSUME NEW i \in 1 .. Len(s2)
        PROVE  /\ s3.inUse[i] \in 1 .. Len(s1')
               /\ IsFirst(s1', s2[i].name, s3.inUse[i])
               /\ s1'[s3.inUse[i]].index = i
    <3> DEFINE k == s3.inUse[i]
    <3>1. /\ k \in 1 .. Len(s1) /\ IsFirst(s1, s2[i].name, k) /\ s1[k].index = i
      BY DEF ParamInv, IndexTrue
    <3> HIDE DEF k
    <3>2. k \in 1 .. Len(s1') /\ \A j \in 1 .. k : s1'[j] = s1[j]
      BY <1>2, <1>4, <3>1
    <3>3. IsFirst(s1', s2[i].name, k)
      BY <1>2, <3>1, <3>2 DEF IsFirst
    <3> QED
      BY <1>4, <3>1, <3>2, <3>3 DEF k
  <2>2. ASSUME NEW k \in 1 .. Len(s1'), s1'[k].index # 0
        PROVE  s1'[k].index \in 1 .. Len(s2) /\ s3.inUse[s1'[k].index] = k
    BY <1>3, <1>4, <1>5, <2>2 DEF ParamInv, IndexTrue
  <2> QED
    BY <1>1, <2>1, <2>2 DEF ParamInv, IndexTrue
<1>7. ASSUME NEW k \in 1 .. Len(s1')
      PROVE  OwnTrue(s1'[k]) /\ InTime(s1'[k], s2[s1'[k].index], s3)
  <2>1. CASE k = n
    BY <1>3, <1>4, <2>1 DEF OwnTrue, InTime, Kept
  <2>2. CASE k # n
    BY <1>4, <1>5, <2>2, EntryOf
  <2> QED
    BY <2>1, <2>2
<1> QED
  BY <1>1, <1>2, <1>4, <1>6, <1>7 DEF ParamInv, ParamsTyped, ParamsTrue

LEMMA UnsupportedKeeps ==
    ASSUME ParamInv, NEW name \in ParamNames, NEW link \in ParamLinks,
           Parameters!UnsupportedType(name, link)
    PROVE  ParamInv'
<1> DEFINE x == Parameters!Found(name)
           p == s1[x]
           q == Parameters!Informed(p, link)
<1>1. /\ x # 0 /\ p.index = 0
      /\ s1' = [s1 EXCEPT ![x] = q] /\ s2' = s2 /\ s3' = s3
  BY DEF Parameters!UnsupportedType, Parameters!NoIndex
<1>2. s1 \in Seq(ParamRecs) /\ s2 \in Seq(LibraryEntries) /\ s3 \in Ports /\ Len(s1) \in Nat
  BY DEF ParamInv, ParamsTyped
<1>3. x \in 1 .. Len(s1)
  BY <1>1, <1>2, FoundIsFirst
<1>4. p \in ParamRecs /\ OwnTrue(p)
  BY <1>3, EntryOf
<1> HIDE DEF x, p
<1>5. /\ q \in ParamRecs /\ q.name = p.name /\ q.index = p.index /\ q.linked = p.linked
      /\ q.asked = p.asked
  BY <1>4, InformedFields
<1> HIDE DEF q
<1>6. ~p.linked /\ ~q.linked /\ OwnTrue(q) /\ ~Kept(q)
  <2>1. ~p.linked
    BY <1>1, <1>4 DEF OwnTrue
  <2> QED
    BY <1>1, <1>4, <1>5, <2>1 DEF OwnTrue, Kept
<1>7. /\ s1' \in Seq(ParamRecs) /\ Len(s1') = Len(s1)
      /\ s1'[x] = q /\ \A k \in 1 .. Len(s1) : k # x => s1'[k] = s1[k]
  BY <1>1, <1>2, <1>3, <1>5
<1>8. \A k \in 1 .. Len(s1) : s1'[k].name = s1[k].name /\ s1'[k].index = s1[k].index
  BY <1>5, <1>7 DEF p
<1>9. IndexTrue'
  BY <1>1, <1>2, <1>7, <1>8, IndexStays DEF ParamInv
<1>10. ASSUME NEW k \in 1 .. Len(s1)
       PROVE  OwnTrue(s1'[k]) /\ InTime(s1'[k], s2[s1'[k].index], s3)
  <2>1. CASE k = x
    BY <1>6, <1>7, <2>1 DEF InTime
  <2>2. CASE k # x
    BY <1>7, <2>2, EntryOf
  <2> QED
    BY <2>1, <2>2
<1> QED
  BY <1>1, <1>2, <1>7, <1>9, <1>10 DEF ParamInv, ParamsTyped, ParamsTrue

LEMMA CreateKeeps ==
    ASSUME ParamInv, NEW name \in ParamNames, NEW link \in ParamLinks, Parameters!Linking,
           Parameters!CreateAndLink(name, link)
    PROVE  ParamInv'
<1> DEFINE x == Parameters!Found(name)
           o == s1[x]
           p == Parameters!Created(o, link)
           q == IF Parameters!Suits(p) THEN Parameters!Linked(p, link) ELSE p
           n == Len(s2) + 1
           e == Parameters!NewEntry(name)
           L == Append(s2, e)
<1>1. /\ x # 0 /\ o.index = 0
      /\ s1' = [s1 EXCEPT ![x] = q]
      /\ s2' = IF Parameters!Suits(p) THEN Parameters!Flush(L) ELSE L
      /\ s3' = [s3 EXCEPT !.inUse = Append(@, x)]
  BY DEF Parameters!CreateAndLink, Parameters!NoIndex
<1>2. /\ s1 \in Seq(ParamRecs) /\ s2 \in Seq(LibraryEntries) /\ s3 \in Ports
      /\ Len(s1) \in Nat /\ Len(s2) \in Nat
  BY DEF ParamInv, ParamsTyped
<1>3. x \in 1 .. Len(s1) /\ IsFirst(s1, name, x)
  BY <1>1, <1>2, FoundIsFirst
<1>4. o \in ParamRecs /\ OwnTrue(o)
  BY <1>3, EntryOf
<1>a. ~s3.flushed /\ CallsTrue(s3)
  <2>1. s3.epics = "init" /\ s3.flushed \in BOOLEAN
    BY <1>2 DEF Parameters!Linking, Ports
  <2> QED
    BY <2>1 DEF ParamInv, ParamsTrue, CallsTrue
<1>b. o.name = name
  BY <1>3 DEF IsFirst
<1> HIDE DEF x, o
<1>5. /\ p \in ParamRecs /\ p.name = name /\ p.index = n /\ ~p.linked /\ p.asked = NotAsked
      /\ p.ms = Parameters!Time(link.ms, p.every)
      /\ p.cycles = Parameters!Cycles(link.ms, p.every)
  <2> DEFINE i == Parameters!Informed(o, link)
  <2>1. /\ i \in ParamRecs /\ i.name = o.name /\ i.linked = o.linked
        /\ i.asked = o.asked /\ i.every = o.every
        /\ i.ms = Parameters!Time(link.ms, o.every)
        /\ i.cycles = Parameters!Cycles(link.ms, o.every)
    BY <1>4, InformedFields
  <2>2. p = [i EXCEPT !.index = n]
    BY DEF Parameters!Created
  <2> HIDE DEF i, p
  <2>3. /\ p \in ParamRecs /\ p.name = i.name /\ p.linked = i.linked /\ p.index = n
        /\ p.asked = i.asked /\ p.every = i.every /\ p.ms = i.ms /\ p.cycles = i.cycles
    <3>1. \A r \in ParamRecs, m \in Nat :
             LET t == [r EXCEPT !.index = m]
             IN /\ t \in ParamRecs /\ t.name = r.name /\ t.linked = r.linked /\ t.index = m
                /\ t.asked = r.asked /\ t.every = r.every /\ t.ms = r.ms /\ t.cycles = r.cycles
      BY DEF ParamRecs
    <3>2. n \in Nat
      BY <1>2
    <3> HIDE DEF n
    <3> QED
      BY <2>1, <2>2, <3>1, <3>2
  <2>4. ~o.linked /\ o.asked = NotAsked
    BY <1>1, <1>4 DEF OwnTrue
  <2> QED
    BY <1>b, <2>1, <2>3, <2>4
<1> HIDE DEF p
<1>6. /\ q \in ParamRecs /\ q.name = name /\ q.index = n /\ OwnTrue(q)
      /\ Kept(q) => q.counter = 0
  <2>1. CASE Parameters!Suits(p)
    <3>1. q = Parameters!Linked(p, link)
      BY <2>1
    <3>2. p.index # 0
      BY <1>2, <1>5
    <3> HIDE DEF q
    <3> QED
      BY <1>5, <3>1, <3>2, LinkedFields, FirstIsTrue
  <2>2. CASE ~Parameters!Suits(p)
    <3>1. q = p
      BY <2>2
    <3> HIDE DEF q
    <3> QED
      BY <1>2, <1>5, <2>2, <3>1 DEF OwnTrue, Kept
  <2> QED
    BY <2>1, <2>2
<1> HIDE DEF q
<1>7. /\ s1' \in Seq(ParamRecs) /\ Len(s1') = Len(s1)
      /\ s1'[x] = q /\ \A k \in 1 .. Len(s1) : k # x => s1'[k] = s1[k]
  BY <1>1, <1>2, <1>3, <1>6
<1>8. \A k \in 1 .. Len(s1) : s1'[k].name = s1[k].name
  BY <1>6, <1>7, <1>b DEF o
<1>9. e \in LibraryEntries /\ e.name = name /\ e.sampled = 0
  BY DEF Parameters!NewEntry, LibraryEntries
<1> HIDE DEF e
<1>10. /\ L \in Seq(LibraryEntries) /\ Len(L) = n /\ L[n] = e
       /\ \A i \in 1 .. Len(s2) : L[i] = s2[i]
  BY <1>2, <1>9
<1> HIDE DEF L
<1>11. /\ s2' \in Seq(LibraryEntries) /\ Len(s2') = n
       /\ s2'[n].name = name /\ s2'[n].sampled = 0
       /\ \A i \in 1 .. Len(s2) : s2'[i].name = s2[i].name /\ s2'[i].sampled = s2[i].sampled
  <2>1. n \in 1 .. Len(L) /\ \A i \in 1 .. Len(s2) : i \in 1 .. Len(L)
    BY <1>2, <1>10
  <2>2. CASE Parameters!Suits(p)
    BY <1>1, <1>9, <1>10, <2>1, <2>2, FlushCalls
  <2>3. CASE ~Parameters!Suits(p)
    BY <1>1, <1>9, <1>10, <2>1, <2>3
  <2> QED
    BY <2>2, <2>3
<1>12. /\ s3' \in Ports /\ s3'.cycle = s3.cycle /\ s3'.flushed = s3.flushed
       /\ s3'.inUse = Append(s3.inUse, x)
  <2>1. s3.inUse \in Seq(Nat) /\ x \in Nat
    BY <1>2, <1>3 DEF Ports
  <2>2. Append(s3.inUse, x) \in Seq(Nat)
    BY <2>1
  <2> QED
    BY <1>1, <1>2, <2>2 DEF Ports
<1>13. /\ Len(s3'.inUse) = n /\ s3'.inUse[n] = x
       /\ \A i \in 1 .. Len(s2) : s3'.inUse[i] = s3.inUse[i]
  <2>1. s3.inUse \in Seq(Nat) /\ Len(s3.inUse) = Len(s2)
    BY <1>2 DEF Ports, ParamInv, IndexTrue
  <2> QED
    BY <1>2, <1>12, <2>1
<1>14. IndexTrue'
  <2>1. ASSUME NEW i \in 1 .. Len(s2')
        PROVE  /\ s3'.inUse[i] \in 1 .. Len(s1')
               /\ IsFirst(s1', s2'[i].name, s3'.inUse[i])
               /\ s1'[s3'.inUse[i]].index = i
    <3>1. CASE i = n
      <4>1. IsFirst(s1', name, x)
        BY <1>2, <1>3, <1>8 DEF IsFirst
      <4> QED
        BY <1>3, <1>6, <1>7, <1>11, <1>13, <3>1, <4>1
    <3>2. CASE i # n
      <4>1. i \in 1 .. Len(s2)
        BY <1>2, <1>11, <3>2
      <4> DEFINE k == s3.inUse[i]
      <4>2. /\ k \in 1 .. Len(s1) /\ IsFirst(s1, s2[i].name, k) /\ s1[k].index = i
        BY <4>1 DEF ParamInv, IndexTrue
      <4> HIDE DEF k
      <4>3. k # x
        BY <1>1, <4>1, <4>2 DEF o
      <4>4. IsFirst(s1', s2'[i].name, k)
        BY <1>2, <1>8, <1>11, <4>1, <4>2 DEF IsFirst
      <4>5. s3'.inUse[i] = k
        BY <1>13, <4>1 DEF k
      <4> QED
        BY <1>7, <4>2, <4>3, <4>4, <4>5
    <3> QED
      BY <3>1, <3>2
  <2>2. ASSUME NEW k \in 1 .. Len(s1'), s1'[k].index # 0
        PROVE  s1'[k].index \in 1 .. Len(s2') /\ s3'.inUse[s1'[k].index] = k
    <3>1. CASE k = x
      BY <1>2, <1>6, <1>7, <1>11, <1>13, <3>1
    <3>2. CASE k # x
      <4>1. s1'[k] = s1[k] /\ s1[k].index \in 1 .. Len(s2) /\ s3.inUse[s1[k].index] = k
        BY <1>7, <2>2, <3>2 DEF ParamInv, IndexTrue
      <4> QED
        BY <1>2, <1>11, <1>13, <4>1
    <3> QED
      BY <3>1, <3>2
  <2> QED
    BY <1>11, <1>13, <2>1, <2>2 DEF IndexTrue
<1>15. ASSUME NEW k \in 1 .. Len(s1)
       PROVE  OwnTrue(s1'[k]) /\ InTime(s1'[k], s2'[s1'[k].index], s3')
  <2>1. CASE k = x
    <3>1. /\ s2'[n] \in LibraryEntries /\ CallsTrue(s3') /\ ~s3'.flushed
      BY <1>2, <1>11, <1>12, <1>a DEF CallsTrue
    <3>2. CASE Kept(q)
      BY <1>6, <1>7, <1>11, <1>12, <2>1, <3>1, <3>2, FreshInTime
    <3>3. CASE ~Kept(q)
      BY <1>6, <1>7, <2>1, <3>3 DEF InTime
    <3> QED
      BY <3>2, <3>3
  <2>2. CASE k # x
    <3>1. /\ s1'[k] = s1[k] /\ OwnTrue(s1[k]) /\ InTime(s1[k], s2[s1[k].index], s3)
          /\ s1[k].linked => s1[k].index \in 1 .. Len(s2)
      BY <1>7, <2>2, EntryOf
    <3>2. Kept(s1[k]) => s2'[s1[k].index].sampled = s2[s1[k].index].sampled
      BY <1>11, <3>1 DEF Kept
    <3> QED
      BY <1>12, <1>a, <3>1, <3>2 DEF InTime
  <2> QED
    BY <2>1, <2>2
<1>16. CallsTrue(s3')
  BY <1>12, <1>a DEF CallsTrue
<1> QED
  BY <1>7, <1>11, <1>12, <1>14, <1>15, <1>16 DEF ParamInv, ParamsTyped, ParamsTrue

LEMMA AgainKeeps ==
    ASSUME ParamInv, NEW name \in ParamNames, NEW link \in ParamLinks, Parameters!Linking,
           Parameters!LinkAgain(name, link)
    PROVE  ParamInv'
<1> DEFINE x == Parameters!Found(name)
           p == s1[x]
           q == Parameters!Linked(p, link)
           i == p.index
           e == Parameters!Sample(s2[i], p.type)
           L == [s2 EXCEPT ![i] = e]
<1>1. /\ x # 0 /\ i # 0 /\ (p.linked \/ Parameters!Suits(p))
      /\ s1' = [s1 EXCEPT ![x] = q] /\ s2' = Parameters!Flush(L) /\ s3' = s3
  <2>1. L = [s2 EXCEPT ![i] = Parameters!Sample(@, p.type)]
    OBVIOUS
  <2> QED
    BY <2>1 DEF Parameters!LinkAgain, Parameters!NoIndex
<1>2. /\ s1 \in Seq(ParamRecs) /\ s2 \in Seq(LibraryEntries) /\ s3 \in Ports
      /\ Len(s1) \in Nat /\ Len(s2) \in Nat
  BY DEF ParamInv, ParamsTyped
<1>3. x \in 1 .. Len(s1)
  BY <1>1, <1>2, FoundIsFirst
<1>4. p \in ParamRecs /\ OwnTrue(p)
  BY <1>3, EntryOf
<1>5. p.linked
  BY <1>1, <1>4 DEF OwnTrue
<1>6. i \in 1 .. Len(s2) /\ s2[i] \in LibraryEntries
  BY <1>3, <1>5, EntryOf
<1>7. ~s3.flushed /\ CallsTrue(s3)
  <2>1. s3.epics = "init" /\ s3.flushed \in BOOLEAN
    BY <1>2 DEF Parameters!Linking, Ports
  <2> QED
    BY <2>1 DEF ParamInv, ParamsTrue, CallsTrue
<1>8. e \in LibraryEntries /\ e.name = s2[i].name /\ e.sampled = 0
  BY <1>6, SampleResets
<1>9. q \in ParamRecs /\ q.name = p.name /\ q.index = i /\ q.counter = 0 /\ OwnTrue(q)
  BY <1>4, <1>5, LinkedFields, FurtherIsTrue
<1>b. \A k \in 1 .. Len(s1) : k # x /\ s1[k].linked => s1[k].index # i
  BY <1>3, <1>5, EntryOf DEF ParamInv, IndexTrue
<1> HIDE DEF x, p, q, i, e
<1>10. /\ s1' \in Seq(ParamRecs) /\ Len(s1') = Len(s1)
       /\ s1'[x] = q /\ \A k \in 1 .. Len(s1) : k # x => s1'[k] = s1[k]
  BY <1>1, <1>2, <1>3, <1>9
<1>11. /\ L \in Seq(LibraryEntries) /\ Len(L) = Len(s2) /\ L[i] = e
       /\ \A j \in 1 .. Len(s2) : j # i => L[j] = s2[j]
  BY <1>2, <1>6, <1>8
<1> HIDE DEF L
<1>12. /\ s2' \in Seq(LibraryEntries) /\ Len(s2') = Len(s2) /\ s2'[i].sampled = 0
       /\ \A j \in 1 .. Len(s2) : /\ s2'[j].name = s2[j].name
                                  /\ j # i => s2'[j].sampled = s2[j].sampled
  BY <1>1, <1>6, <1>8, <1>11, FlushCalls
<1>13. \A k \in 1 .. Len(s1) : s1'[k].name = s1[k].name /\ s1'[k].index = s1[k].index
  BY <1>9, <1>10 DEF p, i
<1>14. IndexTrue'
  BY <1>1, <1>2, <1>10, <1>12, <1>13, IndexStays DEF ParamInv
<1>15. ASSUME NEW k \in 1 .. Len(s1)
       PROVE  OwnTrue(s1'[k]) /\ InTime(s1'[k], s2'[s1'[k].index], s3')
  <2>1. CASE k = x
    <3>1. s2'[i] \in LibraryEntries /\ s2'[i].sampled = 0
      BY <1>6, <1>12
    <3> QED
      BY <1>1, <1>2, <1>7, <1>9, <1>10, <2>1, <3>1, FreshInTime
  <2>2. CASE k # x
    <3>1. /\ s1'[k] = s1[k] /\ OwnTrue(s1[k]) /\ InTime(s1[k], s2[s1[k].index], s3)
          /\ s1[k].linked => s1[k].index \in 1 .. Len(s2)
      BY <1>10, <2>2, EntryOf
    <3>2. Kept(s1[k]) => s2'[s1[k].index].sampled = s2[s1[k].index].sampled
      BY <1>12, <1>b, <2>2, <3>1 DEF Kept
    <3> QED
      BY <1>1, <1>7, <3>1, <3>2 DEF InTime
  <2> QED
    BY <2>1, <2>2
<1> QED
  BY <1>1, <1>2, <1>7, <1>10, <1>12, <1>14, <1>15 DEF ParamInv, ParamsTyped, ParamsTrue

(***************************************************************************)
(* The state of the IOC                                                    *)
(***************************************************************************)
LEMMA DatabaseKeeps ==
    ASSUME ParamInv, Parameters!DatabaseRunning
    PROVE  ParamInv'
<1>1. s3 \in Ports /\ s1' = s1 /\ s2' = s2 /\ s3' = [s3 EXCEPT !.epics = "database"]
      /\ s3.epics = "init" /\ CallsTrue(s3)
  BY DEF ParamInv, ParamsTyped, ParamsTrue, Parameters!DatabaseRunning, Parameters!Linking
<1>2. /\ s3' \in Ports /\ s3'.inUse = s3.inUse /\ s3'.cycle = s3.cycle
      /\ ~s3.flushed /\ ~s3'.flushed
  BY <1>1 DEF Ports, CallsTrue
<1> QED
  BY <1>1, <1>2 DEF ParamInv, ParamsTyped, ParamsTrue, IndexTrue, CallsTrue, InTime

LEMMA AllowKeeps ==
    ASSUME ParamInv, NEW allowed \in BOOLEAN, Parameters!SetAllowRtThreadCom(allowed)
    PROVE  ParamInv'
<1>1. s3 \in Ports /\ s1' = s1 /\ s2' = s2 /\ s3' = [s3 EXCEPT !.allow = allowed]
  BY DEF ParamInv, ParamsTyped, Parameters!SetAllowRtThreadCom
<1>2. /\ s3' \in Ports /\ s3'.inUse = s3.inUse /\ s3'.cycle = s3.cycle
      /\ s3'.flushed = s3.flushed /\ s3'.skip = s3.skip /\ s3'.fastest = s3.fastest
      /\ s3'.epics = s3.epics
  BY <1>1 DEF Ports
<1> QED
  BY <1>1, <1>2 DEF ParamInv, ParamsTyped, ParamsTrue, IndexTrue, CallsTrue, InTime

LEMMA FastestIsRate ==
    ASSUME ParamInv PROVE Parameters!FastestRate \in Nat
<1> DEFINE S == {DefaultRate} \cup {s1[k].cycles : k \in
            {n \in Parameters!Range(s3.inUse) : s1[n].linked /\ s1[n].cycles >= 0}}
<1>1. Parameters!Range(s3.inUse) = {s3.inUse[i] : i \in 1 .. Len(s2)}
  <2>1. s3.inUse \in Seq(Nat) /\ Len(s3.inUse) = Len(s2)
    BY DEF ParamInv, ParamsTyped, IndexTrue, Ports
  <2> QED
    BY <2>1 DEF Parameters!Range
<1>2. \A n \in Parameters!Range(s3.inUse) : s1[n].cycles \in Int
  BY <1>1, EntryOf, ParamRecFields DEF ParamInv, IndexTrue
<1>3. S \subseteq Nat /\ S # {}
  BY <1>2, ParamAssumption
<1> HIDE DEF S
<1>4. Parameters!Min(S) \in Nat
  BY <1>3, SmallestIsNat
<1> QED
  BY <1>4 DEF Parameters!FastestRate, S

LEMMA AllRefreshed ==
    ASSUME s2 \in Seq(LibraryEntries)
    PROVE  LET R == Parameters!Refresh(s2, s1, LAMBDA p : p.linked)
           IN /\ R \in Seq(LibraryEntries) /\ Len(R) = Len(s2)
              /\ \A i \in 1 .. Len(s2) :
                     /\ R[i].name = s2[i].name
                     /\ (\E k \in DOMAIN s1 : s1[k].index = i /\ s1[k].linked) => R[i].sampled = 0
<1> DEFINE R == [i \in DOMAIN s2 |->
        IF \E k \in DOMAIN s1 : s1[k].index = i /\ s1[k].linked
        THEN Parameters!Sample(s2[i], s1[Parameters!Found(s2[i].name)].type) ELSE s2[i]]
<1>1. R = Parameters!Refresh(s2, s1, LAMBDA p : p.linked)
  BY DEF Parameters!Refresh
<1>2. ASSUME NEW i \in 1 .. Len(s2)
      PROVE  /\ R[i] \in LibraryEntries /\ R[i].name = s2[i].name
             /\ (\E k \in DOMAIN s1 : s1[k].index = i /\ s1[k].linked) => R[i].sampled = 0
  <2>1. s2[i] \in LibraryEntries
    OBVIOUS
  <2>2. CASE \E k \in DOMAIN s1 : s1[k].index = i /\ s1[k].linked
    <3>1. R[i] = Parameters!Sample(s2[i], s1[Parameters!Found(s2[i].name)].type)
      BY <2>2
    <3> HIDE DEF R
    <3> QED
      BY <2>1, <3>1, SampleResets
  <2>3. CASE ~\E k \in DOMAIN s1 : s1[k].index = i /\ s1[k].linked
    BY <2>1, <2>3
  <2> QED
    BY <2>2, <2>3
<1>3. R \in Seq(LibraryEntries) /\ Len(R) = Len(s2)
  <2>1. DOMAIN s2 = 1 .. Len(s2) /\ Len(s2) \in Nat
    BY LenProperties
  <2>2. \A i \in DOMAIN s2 : R[i] \in LibraryEntries
    BY <1>2, <2>1
  <2>3. R \in [DOMAIN s2 -> LibraryEntries]
    BY <2>2, Zenon
  <2> HIDE DEF R
  <2> QED
    BY <2>1, <2>3, SeqOfFunction
<1> HIDE DEF R
<1> QED
  BY <1>1, <1>2, <1>3

LEMMA IocKeeps ==
    ASSUME ParamInv, Parameters!IocRunning
    PROVE  ParamInv'
<1>1. /\ s1 \in Seq(ParamRecs) /\ s2 \in Seq(LibraryEntries) /\ s3 \in Ports
      /\ Len(s1) \in Nat /\ Len(s2) \in Nat
  BY DEF ParamInv, ParamsTyped
<1>2. /\ s3' \in Ports /\ s3'.inUse = s3.inUse /\ s3'.cycle = s3.cycle
      /\ ~s3'.flushed /\ CallsTrue(s3')
  <2>1. s3.epics = "database" /\ Parameters!FastestRate \in Nat
        /\ s3' = [s3 EXCEPT !.epics = "running", !.fastest = Parameters!FastestRate]
    BY FastestIsRate DEF Parameters!IocRunning
  <2>2. ~s3.flushed
    BY <2>1 DEF ParamInv, ParamsTrue, CallsTrue
  <2> QED
    BY <1>1, <2>1, <2>2 DEF Ports, CallsTrue
<1>3. CASE ~s3.allow
  <2>1. s1' = s1 /\ s2' = s2
    BY <1>3 DEF Parameters!IocRunning
  <2>2. IndexTrue'
    BY <1>1, <1>2, <2>1, IndexStays DEF ParamInv
  <2>3. ASSUME NEW k \in 1 .. Len(s1) PROVE OwnTrue(s1[k]) /\ InTime(s1[k], s2[s1[k].index], s3')
    BY <1>2, EntryOf DEF InTime
  <2> QED
    BY <1>1, <1>2, <2>1, <2>2, <2>3 DEF ParamInv, ParamsTyped, ParamsTrue
<1>4. CASE s3.allow
  <2>1. /\ s1' = [k \in DOMAIN s1 |-> Parameters!Counted(s1[k], TRUE)]
        /\ s2' = Parameters!Refresh(s2, s1, LAMBDA p : p.linked)
    BY <1>4 DEF Parameters!IocRunning
  <2>2. /\ s2' \in Seq(LibraryEntries) /\ Len(s2') = Len(s2)
        /\ \A i \in 1 .. Len(s2) :
               /\ s2'[i].name = s2[i].name
               /\ (\E k \in DOMAIN s1 : s1[k].index = i /\ s1[k].linked) => s2'[i].sampled = 0
    BY <1>1, <2>1, AllRefreshed
  <2>3. DOMAIN s1 = 1 .. Len(s1)
    BY <1>1, LenProperties
  <2>4. ASSUME NEW k \in 1 .. Len(s1)
        PROVE  /\ s1'[k] \in ParamRecs /\ s1'[k].name = s1[k].name /\ s1'[k].index = s1[k].index
               /\ OwnTrue(s1'[k]) /\ (Kept(s1'[k]) <=> Kept(s1[k]))
               /\ s1[k].linked => s1'[k].counter = 0
    <3> DEFINE p == s1[k]
    <3>1. s1'[k] = Parameters!Counted(p, TRUE) /\ p \in ParamRecs /\ OwnTrue(p)
      BY <2>1, <2>3, EntryOf
    <3> HIDE DEF p
    <3>2. PICK c \in Nat : /\ Parameters!Counted(p, TRUE) = WithCounter(p, c)
                           /\ p.linked => c = 0
      BY <3>1, CountedCounts
    <3>3. Kept(p) => c = 0
      BY <3>2 DEF Kept
    <3> DEFINE q == WithCounter(p, c)
    <3>4. /\ q \in ParamRecs /\ q.counter = c /\ q.name = p.name /\ q.index = p.index
          /\ Kept(q) <=> Kept(p)
          /\ OwnTrue(q)
      BY <3>1, <3>3, CounterAlone
    <3> QED
      BY <3>1, <3>2, <3>4 DEF p
  <2>5. s1' \in Seq(ParamRecs) /\ Len(s1') = Len(s1)
    <3>1. s1' \in [1 .. Len(s1) -> ParamRecs]
      BY <2>1, <2>3, <2>4
    <3> QED
      BY <1>1, <3>1, SeqOfFunction
  <2>6. IndexTrue'
    BY <1>1, <1>2, <2>2, <2>4, <2>5, IndexStays DEF ParamInv
  <2>7. ASSUME NEW k \in 1 .. Len(s1) PROVE InTime(s1'[k], s2'[s1'[k].index], s3')
    <3>1. CASE Kept(s1[k])
      <4>1. s1[k].linked /\ s1[k].index \in 1 .. Len(s2)
        BY <3>1, EntryOf DEF Kept
      <4>2. s2'[s1[k].index] \in LibraryEntries /\ s2'[s1[k].index].sampled = 0
        BY <2>2, <2>3, <4>1
      <4> QED
        BY <1>2, <2>4, <4>1, <4>2, FreshInTime
    <3>2. CASE ~Kept(s1[k])
      BY <2>4, <3>2 DEF InTime
    <3> QED
      BY <3>1, <3>2
  <2> QED
    BY <1>2, <2>2, <2>4, <2>5, <2>6, <2>7 DEF ParamInv, ParamsTyped, ParamsTrue
<1> QED
  BY <1>3, <1>4 DEF Ports

(***************************************************************************)
(* A client writes                                                         *)
(***************************************************************************)
LEMMA YoungInTime ==
    ASSUME NEW p \in ParamRecs, NEW entry \in LibraryEntries, NEW e \in LibraryEntries,
           NEW port \in Ports, CallsTrue(port), OwnTrue(p), InTime(p, entry, port),
           e.sampled = entry.sampled, e.age = entry.sampled
    PROVE  InTime(p, e, port)
<1> SUFFICES ASSUME Kept(p) PROVE InTime(p, e, port)
  BY DEF InTime
<1>1. e.age <= Parameters!Shortest(p) - 1 /\ e.age \in Nat /\ port.skip \in Nat
      /\ port.fastest \in Nat /\ Late(port.fastest) \in Nat /\ Parameters!Shortest(p) \in Int
  BY SampledInTime, ShortestBounds, LateIsNat DEF LibraryEntries, Ports
<1> QED
  BY <1>1 DEF InTime, CallsTrue

\* A parameter that was counted from 0 again, and whose records have not been called.
LEMMA QuietInTime ==
    ASSUME NEW p \in ParamRecs, NEW q \in ParamRecs, q = WithCounter(p, 0),
           NEW entry \in LibraryEntries, NEW e \in LibraryEntries,
           NEW port \in Ports, InTime(p, entry, port),
           e.sampled = 0, e.age <= entry.age
    PROVE  InTime(q, e, port)
<1>1. /\ q.counter = 0 /\ q.every = p.every /\ Parameters!Shortest(q) = Parameters!Shortest(p)
      /\ Kept(q) <=> Kept(p)
  BY CounterAlone
<1>2. /\ p.every \in Nat \ {0} /\ p.every \in Periods /\ p.every * 0 = 0
      /\ port.cycle \in 0 .. (Round - 1) /\ port.skip \in Nat
      /\ Parameters!Shortest(p) \in Int
  BY ParamRecFields, ShortestBounds DEF Ports
<1>3. Phase(p.every, port.cycle) \in Nat
  BY <1>2, PeriodsFit DEF Phase
<1>4. port.fastest \in Nat /\ Late(port.fastest) \in Nat
  BY LateIsNat DEF Ports
<1>5. e.sampled <= q.every * q.counter + Phase(q.every, port.cycle)
  <2> DEFINE f == Phase(p.every, port.cycle)
             m == p.every * 0
  <2>1. f \in Nat /\ m = 0
    BY <1>2, <1>3
  <2> HIDE DEF f, m
  <2>2. e.sampled <= m + f
    BY <2>1
  <2> QED
    BY <1>1, <2>2 DEF f, m
<1>6. e.age \in Nat /\ entry.age \in Nat
  BY DEF LibraryEntries
<1>7. Kept(p) /\ port.flushed =>
         e.age + port.skip <= Parameters!Shortest(p) - 1 + Late(port.fastest)
  BY <1>2, <1>4, <1>6 DEF InTime
<1> QED
  BY <1>1, <1>5, <1>7 DEF InTime

LEMMA ClientKeeps ==
    ASSUME ParamInv, NEW i, Parameters!Write(i)
    PROVE  ParamInv'
<1> DEFINE x == s3.inUse[i]
           p == s1[x]
           q == Parameters!Counted(p, TRUE)
           e == Parameters!Sample(s2[i], p.type)
           L == [s2 EXCEPT ![i] = e]
<1>1. /\ i \in DOMAIN s2 /\ p.linked
      /\ s1' = [s1 EXCEPT ![x] = q] /\ s3' = s3
      /\ s2' = L \/ s2' = Parameters!Flush(L)
  <2>1. L = [s2 EXCEPT ![i] = Parameters!Sample(@, p.type)]
    OBVIOUS
  <2> QED
    BY <2>1 DEF Parameters!Write
<1>2. /\ s1 \in Seq(ParamRecs) /\ s2 \in Seq(LibraryEntries) /\ s3 \in Ports /\ CallsTrue(s3)
      /\ Len(s1) \in Nat /\ Len(s2) \in Nat
  BY DEF ParamInv, ParamsTyped, ParamsTrue
<1>3. i \in 1 .. Len(s2) /\ x \in 1 .. Len(s1) /\ p.index = i /\ s2[i] \in LibraryEntries
  BY <1>1, <1>2 DEF ParamInv, IndexTrue
<1>4. p \in ParamRecs /\ OwnTrue(p) /\ InTime(p, s2[i], s3)
  BY <1>3, EntryOf
<1>5. e \in LibraryEntries /\ e.name = s2[i].name /\ e.sampled = 0 /\ e.age <= s2[i].age
  BY <1>3, SampleResets
<1>b. \A k \in 1 .. Len(s1) : k # x /\ s1[k].linked => s1[k].index # i
  BY EntryOf DEF ParamInv, IndexTrue
<1> HIDE DEF x, p, e
<1>6. /\ q \in ParamRecs /\ q.name = p.name /\ q.index = p.index /\ q.counter = 0 /\ OwnTrue(q)
      /\ q = WithCounter(p, 0)
  <2>1. PICK c \in Nat : q = WithCounter(p, c) /\ c = 0
    BY <1>1, <1>4, CountedCounts
  <2>2. q = WithCounter(p, 0) /\ 0 \in Nat
    BY <2>1
  <2> HIDE DEF q
  <2> QED
    BY <1>4, <2>2, CounterAlone
<1> HIDE DEF q
<1>7. /\ s1' \in Seq(ParamRecs) /\ Len(s1') = Len(s1)
      /\ s1'[x] = q /\ \A k \in 1 .. Len(s1) : k # x => s1'[k] = s1[k]
  BY <1>1, <1>2, <1>3, <1>6
<1>8. /\ L \in Seq(LibraryEntries) /\ Len(L) = Len(s2) /\ L[i] = e
      /\ \A j \in 1 .. Len(s2) : j # i => L[j] = s2[j]
  BY <1>2, <1>3, <1>5
<1> HIDE DEF L
<1>9. /\ s2' \in Seq(LibraryEntries) /\ Len(s2') = Len(s2)
      /\ s2'[i].sampled = 0 /\ s2'[i].age <= s2[i].age
      /\ \A j \in 1 .. Len(s2) : s2'[j].name = s2[j].name
      /\ \A j \in 1 .. Len(s2) : j # i =>
             \/ s2'[j] = s2[j]
             \/ s2'[j].sampled = s2[j].sampled /\ s2'[j].age = s2[j].sampled
  <2>1. CASE s2' = L
    BY <1>3, <1>5, <1>8, <2>1
  <2>2. CASE s2' = Parameters!Flush(L)
    <3>1. s2[i].age \in Nat
      BY <1>3 DEF LibraryEntries
    <3> QED
      BY <1>3, <1>5, <1>8, <2>2, <3>1, FlushCalls
  <2> QED
    BY <1>1, <2>1, <2>2
<1>10. \A k \in 1 .. Len(s1) : s1'[k].name = s1[k].name /\ s1'[k].index = s1[k].index
  BY <1>6, <1>7 DEF p
<1>11. IndexTrue'
  BY <1>1, <1>2, <1>7, <1>9, <1>10, IndexStays DEF ParamInv
<1>12. ASSUME NEW k \in 1 .. Len(s1)
       PROVE  OwnTrue(s1'[k]) /\ InTime(s1'[k], s2'[s1'[k].index], s3')
  <2>1. CASE k = x
    <3>1. s2'[i] \in LibraryEntries /\ s2'[i].sampled = 0 /\ s2'[i].age <= s2[i].age
      BY <1>3, <1>9
    <3>2. InTime(q, s2'[i], s3)
      BY <1>2, <1>3, <1>4, <1>6, <3>1, QuietInTime
    <3>3. s1'[k] = q /\ s1'[k].index = i /\ s3' = s3
      BY <1>1, <1>3, <1>6, <1>7, <2>1
    <3> QED
      BY <1>6, <3>2, <3>3
  <2>2. CASE k # x
    <3> DEFINE j == s1[k].index
    <3>1. /\ s1'[k] = s1[k] /\ s1[k] \in ParamRecs /\ OwnTrue(s1[k]) /\ InTime(s1[k], s2[j], s3)
          /\ s1[k].linked => j \in 1 .. Len(s2) /\ j # i
      BY <1>7, <1>b, <2>2, EntryOf
    <3>2. CASE Kept(s1[k])
      <4>1. j \in 1 .. Len(s2) /\ j # i
        BY <3>1, <3>2 DEF Kept
      <4>2. s2[j] \in LibraryEntries /\ s2'[j] \in LibraryEntries
        BY <1>2, <1>9, <4>1
      <4>3. CASE s2'[j] = s2[j]
        BY <1>1, <3>1, <4>3
      <4>4. CASE s2'[j].sampled = s2[j].sampled /\ s2'[j].age = s2[j].sampled
        BY <1>1, <1>2, <3>1, <4>2, <4>4, YoungInTime
      <4> QED
        BY <1>9, <4>1, <4>3, <4>4
    <3>3. CASE ~Kept(s1[k])
      BY <3>1, <3>3 DEF InTime
    <3> QED
      BY <3>2, <3>3
  <2> QED
    BY <2>1, <2>2
<1> QED
  BY <1>1, <1>2, <1>7, <1>9, <1>11, <1>12 DEF ParamInv, ParamsTyped, ParamsTrue

(***************************************************************************)
(* All steps, and what the invariant says                                  *)
(***************************************************************************)
LEMMA ParamStart ==
    ASSUME Parameters!ParamsInit PROVE ParamInv
<1>1. /\ s1 = <<>> /\ s2 = <<>> /\ s3.inUse = <<>> /\ s3.flushed = FALSE
      /\ s1 \in Seq(ParamRecs) /\ s2 \in Seq(LibraryEntries) /\ s3 \in Ports
  <2>1. 0 \in 0 .. (Round - 1) /\ DefaultRate \in Nat
    BY PeriodsFit, ParamAssumption
  <2> QED
    BY <2>1 DEF Parameters!ParamsInit, Ports
<1>2. Len(s1) = 0 /\ Len(s2) = 0 /\ Len(s3.inUse) = 0
  BY <1>1
<1> QED
  BY <1>1, <1>2 DEF ParamInv, ParamsTyped, IndexTrue, ParamsTrue, CallsTrue

LEMMA ParamStep ==
    ASSUME ParamInv, Parameters!ParamsNext
    PROVE  ParamInv'
<1>1. CASE \E name \in ParamNames, kind \in ParamKinds :
               Parameters!Linking /\ Parameters!AddParam(name, kind)
  BY <1>1, AddKeeps
<1>2. CASE \E name \in ParamNames, link \in ParamLinks :
               Parameters!Linking /\ Parameters!UnsupportedType(name, link)
  BY <1>2, UnsupportedKeeps
<1>3. CASE \E name \in ParamNames, link \in ParamLinks :
               Parameters!Linking /\ Parameters!CreateAndLink(name, link)
  BY <1>3, CreateKeeps
<1>4. CASE \E name \in ParamNames, link \in ParamLinks :
               Parameters!Linking /\ Parameters!LinkAgain(name, link)
  BY <1>4, AgainKeeps
<1>5. CASE Parameters!DatabaseRunning
  BY <1>5, DatabaseKeeps
<1>6. CASE Parameters!IocRunning
  BY <1>6, IocKeeps
<1>7. CASE \E allowed \in BOOLEAN : Parameters!SetAllowRtThreadCom(allowed)
  BY <1>7, AllowKeeps
<1>8. CASE Parameters!RtCycle
  BY <1>8, CycleKeeps
<1>9. CASE \E i \in 1 .. TableSize : Parameters!Write(i)
  BY <1>9, ClientKeeps
<1> QED
  BY <1>1, <1>2, <1>3, <1>4, <1>5, <1>6, <1>7, <1>8, <1>9
  DEF Parameters!ParamsNext, ParamNames

LEMMA ParamsKeepTime ==
    ASSUME ParamInv PROVE Parameters!ParamsSafe
<1>1. /\ s1 \in Seq(ParamRecs) /\ s2 \in Seq(LibraryEntries) /\ s3 \in Ports /\ CallsTrue(s3)
      /\ Len(s1) \in Nat /\ Len(s2) \in Nat
  BY DEF ParamInv, ParamsTyped, ParamsTrue
<1>2. Parameters!IndexLeadsToParam
  <2>1. ASSUME NEW i \in DOMAIN s2
        PROVE  /\ s3.inUse[i] = Parameters!Found(s2[i].name)
               /\ s1[s3.inUse[i]].index = i
    <3>1. i \in 1 .. Len(s2)
      BY <1>1
    <3> DEFINE k == s3.inUse[i]
    <3>2. /\ k \in 1 .. Len(s1) /\ IsFirst(s1, s2[i].name, k) /\ s1[k].index = i
      BY <3>1 DEF ParamInv, IndexTrue
    <3> HIDE DEF k
    <3>3. k = Parameters!Found(s2[i].name)
      BY <1>1, <3>2, FoundIsFirst
    <3> QED
      BY <3>2, <3>3 DEF k
  <2> QED
    BY <2>1 DEF Parameters!IndexLeadsToParam, ParamInv, IndexTrue
<1>3. Parameters!RecordsAreFresh
  <2> SUFFICES ASSUME s3.flushed, NEW p \in Parameters!Range(s1), Kept(p)
               PROVE  s2[p.index].age
                        <= Parameters!Shortest(p) - 1 + Parameters!Max({s3.fastest - 1, 0})
    BY DEF Parameters!RecordsAreFresh, Kept
  <2>1. PICK k \in 1 .. Len(s1) : p = s1[k]
    BY <1>1 DEF Parameters!Range
  <2>2. /\ p \in ParamRecs /\ InTime(p, s2[p.index], s3)
        /\ s2[p.index] \in LibraryEntries
    BY <2>1, EntryOf DEF Kept
  <2>3. s3.fastest \in Nat /\ s3.skip \in Nat /\ s2[p.index].age \in Nat
        /\ Parameters!Shortest(p) \in Int /\ Late(s3.fastest) \in Nat
    BY <1>1, <2>2, ShortestBounds, LateIsNat DEF Ports, LibraryEntries
  <2>4. Parameters!Max({s3.fastest - 1, 0}) = Late(s3.fastest)
    BY <2>3, MaxIsLate
  <2> QED
    BY <2>2, <2>3, <2>4 DEF InTime
<1> QED
  BY <1>2, <1>3 DEF Parameters!ParamsSafe

(***************************************************************************)
(* Both in the module that runs them                                       *)
(***************************************************************************)
LEMMA MotorPart ==
    ASSUME [Next]_vars, part' = "motor"
    PROVE  /\ part = "motor"
           /\ Motor!MotorNext \/ UNCHANGED <<s1, s2, s3, s4, s5, s6>>
BY DEF Next, OtherNext, vars, slots

LEMMA ParamsPart ==
    ASSUME [Next]_vars, part' = "params"
    PROVE  /\ part = "params"
           /\ Parameters!ParamsNext \/ UNCHANGED <<s1, s2, s3>>
BY DEF Next, OtherNext, vars, slots

LEMMA RecordHolds == Spec => [](part = "motor" => RecordInv)
<1>1. Init => (part = "motor" => RecordInv)
  <2> SUFFICES ASSUME Init, part = "motor" PROVE Motor!MotorInit
    BY RecordInit
  <2> QED
    BY DEF Init
<1>2. (part = "motor" => RecordInv) /\ [Next]_vars => (part = "motor" => RecordInv)'
  <2> SUFFICES ASSUME part = "motor" => RecordInv, [Next]_vars, part' = "motor"
               PROVE  RecordInv'
    OBVIOUS
  <2>1. part = "motor" /\ RecordInv
    BY MotorPart
  <2>2. CASE Motor!MotorNext
    BY <2>1, <2>2, RecordStep
  <2>3. CASE UNCHANGED <<s1, s2, s3, s4, s5, s6>>
    BY <2>1, <2>3 DEF RecordInv, MotorTyped, MotorTold, Motor!ErrorsAreTold, Motor!DoneIsDone
  <2> QED
    BY <2>1, <2>2, <2>3, MotorPart
<1> QED
  BY <1>1, <1>2, PTL DEF Spec

LEMMA ParamsHold == Spec => [](part = "params" => ParamInv)
<1>1. Init => (part = "params" => ParamInv)
  <2> SUFFICES ASSUME Init, part = "params" PROVE Parameters!ParamsInit
    BY ParamStart
  <2> QED
    BY DEF Init
<1>2. (part = "params" => ParamInv) /\ [Next]_vars => (part = "params" => ParamInv)'
  <2> SUFFICES ASSUME part = "params" => ParamInv, [Next]_vars, part' = "params"
               PROVE  ParamInv'
    OBVIOUS
  <2>1. part = "params" /\ ParamInv
    BY ParamsPart
  <2>2. CASE Parameters!ParamsNext
    BY <2>1, <2>2, ParamStep
  <2>3. CASE UNCHANGED <<s1, s2, s3>>
    BY <2>1, <2>3 DEF ParamInv, ParamsTyped, IndexTrue, ParamsTrue
  <2> QED
    BY <2>1, <2>2, <2>3, ParamsPart
<1> QED
  BY <1>1, <1>2, PTL DEF Spec

\* The records of a parameter whose first record asked for a time, and whose time no record
\* shortened unless it is updated every cycle (Promised), have data that is no older than
\* the shortest time that any of them asked for and the time between two calls of the
\* records; nothing is said of the others, which can be late.  Every record leads to the
\* parameter that it named.  Both for any parameters and times, any number of records and
\* whoever writes.  The motor record is not told that a motion is done before it is, and
\* is told every error, for any of its motions.
THEOREM EpicsIsSafe == Spec => []EpicsSafe
<1>1. (part = "motor" => RecordInv) =>
         (part = "motor" => Motor!DoneIsDone /\ Motor!ErrorsAreTold)
  BY DEF RecordInv, MotorTold
<1>2. (part = "params" => ParamInv) => (part = "params" => Parameters!ParamsSafe)
  BY ParamsKeepTime
<1>3. (part = "motor" => RecordInv) /\ (part = "params" => ParamInv) => EpicsSafe
  BY <1>1, <1>2, Zenon DEF EpicsSafe
<1> QED
  BY <1>3, RecordHolds, ParamsHold, PTL
=============================================================================
