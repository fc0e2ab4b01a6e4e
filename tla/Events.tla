------------------------------- MODULE Events -------------------------------
(***************************************************************************)
(* An event and what it triggers (misc/ecmcEvent.cpp, ecmcDataRecorder.cpp *)
(* and ecmcCommandList.cpp, with their commands in misc/ecmcMisc.cpp).     *)
(* The entries of the event are linked, and the storages of the recorders  *)
(* have room for a value.                                                  *)
(***************************************************************************)
EXTENDS Integers, Sequences, SequencesExt

CONSTANTS Kinds,     \* eventType, with the triggerEdge of an edge triggered event
          Periods,   \* values of dataSampleTime_
          Linked     \* the consumers: a sequence of kinds and whether data is linked

VARIABLES event,      \* members of ecmcEvent
          consumers,  \* members of the recorder or command list at each index
          arm,        \* the output that arms the input of the event
          owed        \* history: executions since a trigger that was not armed again

eventVars == <<event, consumers, arm, owed>>

MaxConsumers == Len(Linked)

EventInit ==
    /\ event = [enabled |-> FALSE, kind |-> "sampled", period |-> 1,
                counter |-> 0, trigger |-> 0, triggered |-> FALSE, error |-> "none",
                startup |-> TRUE, arming |-> FALSE, armState |-> 0, armCount |-> 0,
                reArm |-> FALSE]
    /\ consumers = [i \in 1..MaxConsumers |->
            [enabled |-> FALSE, startup |-> TRUE, error |-> "none"]]
    /\ arm = 0
    /\ owed = 0

(***************************************************************************)
(* The consumers.  "calls" collects what the calls of one trigger do.      *)
(***************************************************************************)
NoCalls == [consumers |-> consumers, error |-> "none"]

Failing(calls, i, c, error) ==
    [calls EXCEPT !.consumers[i] = [c EXCEPT !.error = error], !.error = error]

Done(calls, i, c) ==
    [calls EXCEPT !.consumers[i] = c, !.error = "none"]

\* An error of the hardware from before the first event is forgotten.
Started(c) ==
    [c EXCEPT !.startup = FALSE,
              !.error = IF c.startup /\ @ = "hardware" THEN "none" ELSE @]

\* executeEvent() of a recorder.  One that is not enabled does nothing.
Record(calls, i, masterOK) ==
    LET c == Started(calls.consumers[i])
    IN IF ~masterOK THEN Failing(calls, i, calls.consumers[i], "hardware")
       ELSE IF c.error # "none" THEN Failing(calls, i, c, c.error)
       ELSE IF c.enabled /\ ~Linked[i].source THEN Failing(calls, i, c, "other")
       ELSE Done(calls, i, c)

\* executeEvent() of a command list: the first command that fails ends it.
RunCommands(calls, i, works) ==
    LET c == calls.consumers[i]
    IN IF c.error # "none" THEN Failing(calls, i, c, c.error)
       ELSE IF c.enabled /\ ~works THEN Failing(calls, i, c, "other")
       ELSE Done(calls, i, c)

ExecuteEvent(calls, i, masterOK, works) ==
    IF Linked[i].kind = "recorder" THEN Record(calls, i, masterOK)
    ELSE RunCommands(calls, i, works)

\* The first consumer that returns an error ends the calls.
CallConsumers(masterOK, works) ==
    FoldLeft(LAMBDA calls, i : IF calls.error # "none" THEN calls
                               ELSE ExecuteEvent(calls, i, masterOK, works),
             NoCalls, [i \in 1..MaxConsumers |-> i])

(***************************************************************************)
(* The event                                                               *)
(***************************************************************************)
\* armSequence(): the output is 0 for two calls and then 1; -1 if nothing is written.
ArmStep(e) ==
    CASE e.armState = 0 -> [e EXCEPT !.armState = 1]
      [] e.armState = 1 -> [e EXCEPT !.armState = IF e.armCount = 1 THEN 2 ELSE 1,
                                     !.armCount = 1 - @]
      [] e.armState = 2 -> [e EXCEPT !.armState = 0]

ArmWrites(e, out) ==
    CASE e.armState = 0 -> out [] e.armState = 1 -> 0 [] e.armState = 2 -> 1

Fires(e, seen) ==
    CASE e.kind = "sampled" -> e.counter + 1 = e.period
      [] e.kind = "positive" -> seen > e.trigger
      [] e.kind = "negative" -> seen < e.trigger
      [] e.kind = "change" -> seen # e.trigger

Sampled(e, seen) ==
    IF e.kind = "sampled"
    THEN [e EXCEPT !.counter = IF e.counter + 1 = e.period THEN 0 ELSE @ + 1]
    ELSE [e EXCEPT !.trigger = seen]

HardwareLost ==
    /\ event' = [event EXCEPT !.error = "hardware"]
    /\ UNCHANGED <<consumers, arm, owed>>

\* The first execution with the hardware in order.
StartUp(e) ==
    IF ~e.startup THEN e
    ELSE [ArmStep(e) EXCEPT !.startup = FALSE,
             !.error = IF @ = "hardware" THEN "none" ELSE @]

StartUpArm == IF event.startup THEN ArmWrites(event, arm) ELSE arm

\* The event has an error, or is not enabled.
Idle ==
    LET e == StartUp(event)
    IN /\ e.error # "none" \/ ~e.enabled
       /\ event' = [e EXCEPT !.reArm = @ \/ e.error # "none"]
       /\ arm' = StartUpArm
       /\ UNCHANGED <<consumers, owed>>

\* History: the executions since a trigger, until the output rises.
NextOwed(e, rose, fired) ==
    IF ~e.arming THEN 0
    ELSE IF owed > 0 /\ ~rose THEN owed + 1
    ELSE IF fired THEN 1 ELSE 0

\* "seen" is the input of the event, "works" tells if the commands of a list do.
Execute(seen, works) ==
    LET e == StartUp(event)
        steps == e.arming /\ (e.triggered \/ e.armState # 0 \/ e.reArm)
        calls == CallConsumers(TRUE, works)
        fired == Fires(e, seen)
    IN /\ e.error = "none" /\ e.enabled
       /\ event' = [Sampled(IF steps THEN ArmStep(e) ELSE e, seen) EXCEPT
                        !.reArm = @ /\ ~steps, !.triggered = fired,
                        !.error = IF fired THEN calls.error ELSE @]
       /\ arm' = IF steps THEN ArmWrites(e, StartUpArm) ELSE StartUpArm
       /\ consumers' = IF fired THEN calls.consumers ELSE consumers
       /\ owed' = NextOwed(e, arm = 0 /\ arm' = 1, fired)

(***************************************************************************)
(* Commands.  Those that validate the event take its error away.           *)
(***************************************************************************)
Set(e) == event' = e /\ UNCHANGED <<consumers, arm, owed>>

\* setTriggerEdge() leaves the error.
SetEventType(kind) == Set([event EXCEPT !.kind = kind, !.error = "none"])
SetTriggerEdge(kind) ==
    event.kind # "sampled" /\ kind # "sampled" /\ Set([event EXCEPT !.kind = kind])
SetDataSampleTime(period) == Set([event EXCEPT !.period = period])

SetEnable(on) ==
    Set([event EXCEPT !.enabled = on, !.error = IF on /\ ~event.enabled THEN "none" ELSE @])

SetEnableArmSequence(on) ==
    /\ event' = [event EXCEPT !.arming = on, !.error = "none"]
    /\ owed' = IF on THEN owed ELSE 0
    /\ UNCHANGED <<consumers, arm>>

\* arm(): an error while the arming sequence is disabled.
Arm ==
    IF event.arming
    THEN /\ event' = ArmStep(event)
         /\ arm' = ArmWrites(event, arm)
         /\ owed' = IF arm = 0 /\ arm' = 1 THEN 0 ELSE owed
         /\ UNCHANGED consumers
    ELSE Set([event EXCEPT !.error = "other"])

TriggerEvent(masterOK, works) ==
    LET calls == CallConsumers(masterOK, works)
    IN /\ event' = [event EXCEPT !.error = IF calls.error = "none" THEN @ ELSE calls.error]
       /\ consumers' = calls.consumers
       /\ UNCHANGED <<arm, owed>>

\* Triggers a recorder or a command list itself.
TriggerConsumer(i, masterOK, works) ==
    /\ consumers' = ExecuteEvent(NoCalls, i, masterOK, works).consumers
    /\ UNCHANGED <<event, arm, owed>>

\* A recorder validates itself, which sets its error or takes it away.
SetConsumerEnable(i, on) ==
    /\ consumers' = [consumers EXCEPT ![i].enabled = on,
          ![i].error = IF Linked[i].kind = "list" THEN @
                       ELSE IF Linked[i].source THEN "none" ELSE "other"]
    /\ UNCHANGED <<event, arm, owed>>

\* controllerErrorReset()
ErrorReset ==
    /\ event' = [event EXCEPT !.error = "none"]
    /\ consumers' = [i \in 1..MaxConsumers |-> [consumers[i] EXCEPT !.error = "none"]]
    /\ UNCHANGED <<arm, owed>>

EventNext ==
    \/ HardwareLost
    \/ Idle
    \/ \E seen \in 0..1, works \in BOOLEAN : Execute(seen, works)
    \/ \E kind \in Kinds : SetEventType(kind)
    \/ \E on \in BOOLEAN : SetEnable(on)
    \/ \E on \in BOOLEAN : SetEnableArmSequence(on)
    \/ \E kind \in Kinds : SetTriggerEdge(kind)
    \/ \E period \in Periods : SetDataSampleTime(period)
    \/ Arm
    \/ \E masterOK, works \in BOOLEAN : TriggerEvent(masterOK, works)
    \/ \E i \in 1..MaxConsumers, masterOK, works \in BOOLEAN :
          TriggerConsumer(i, masterOK, works)
    \/ \E i \in 1..MaxConsumers, on \in BOOLEAN : SetConsumerEnable(i, on)
    \/ ErrorReset

EventSpec == EventInit /\ [][EventNext]_eventVars

(***************************************************************************)
(* Properties                                                              *)
(***************************************************************************)
\* An event whose input must be armed again is: at the latest in the fourth execution
\* after a trigger the output has risen, also when the event triggered while it was being
\* armed, when commands armed it meanwhile, and when an error or a stop came between
\* (ecmcEvent.cpp:265-283, 378-433).
ReArmed == owed <= 4
=============================================================================
