------------------------------- MODULE AppMode -------------------------------
(***************************************************************************)
(* The application mode and the locks of the realtime thread               *)
(* (main/ecmcMainThread.cpp).  The shell takes the asyn port's lock for    *)
(* the whole of a command, sleeping included; the realtime thread takes    *)
(* the port's lock once the start is over, and the mutex of the motor      *)
(* record in every cycle; both are meant to be free while it sleeps.       *)
(***************************************************************************)
EXTENDS Naturals, FiniteSets

CONSTANTS
    Threads,    \* realtime threads that may be created, one per start
    HasMaster,  \* an EtherCAT master is configured (ec->getInitDone())
    MayHappen   \* what may happen: "stop", "scan", "validate", "activate",
                \* "bus" (the bus never comes up), "plugin"

ASSUME AppModeAssumption ==
    /\ HasMaster \in BOOLEAN
    /\ Threads \cap {"nobody", "shell", "motor"} = {}
    /\ MayHappen \subseteq {"stop", "scan", "validate", "activate", "bus", "plugin"}

Nobody == "nobody"
Shell  == "shell"
Motor  == "motor"

VARIABLES
    appModeCmd,   \* what the shell has asked for
    appModeStat,  \* what the system says it is in
    allowRtCom,   \* allowRtThreadCom_ of the asyn port
    port,         \* who holds the lock of the asyn port
    rtMutex,      \* who holds ecmcRTMutex
    rt,           \* where each realtime thread is
    shell,        \* where the shell is
    motor,        \* where the motor record's thread is
    ecOK          \* the bus has come up since the last activation

appModeVars == <<appModeCmd, appModeStat, allowRtCom, port, rtMutex, rt, shell, motor, ecOK>>

Modes == {"config", "startup", "runtime"}

\* In its loop: from the first test of the command to the end of the thread.
LoopSteps == {"test", "unlocked", "asleep", "want port", "want mutex",
              "want mutex only", "work", "work alone"}
RtSteps == {"none", "first", "ended"} \cup LoopSteps

AppModeTypeOK ==
    /\ appModeCmd \in {"config", "runtime"}
    /\ appModeStat \in Modes
    /\ allowRtCom \in BOOLEAN
    /\ port \in Threads \cup {Nobody, Shell}
    /\ rtMutex \in Threads \cup {Nobody, Motor}
    /\ rt \in [Threads -> RtSteps]
    /\ shell \in {"idle", "want port", "command", "scan", "start", "wait", "allow"}
    /\ motor \in {"idle", "want mutex", "busy"}
    /\ ecOK \in BOOLEAN
    /\ port = Shell <=> shell \notin {"idle", "want port"}
    /\ rtMutex = Motor <=> motor = "busy"

AppModeInit ==
    /\ appModeCmd = "config"
    /\ appModeStat = "config"
    /\ allowRtCom = TRUE
    /\ port = Nobody
    /\ rtMutex = Nobody
    /\ rt = [t \in Threads |-> "none"]
    /\ shell = "idle"
    /\ motor = "idle"
    /\ ecOK = FALSE

-----------------------------------------------------------------------------
(* The realtime thread, cyclic_task().                                     *)

RtTo(t, from, to) == rt[t] = from /\ rt' = [rt EXCEPT ![t] = to]

RtFirst(t) ==
    /\ RtTo(t, "first", "test")
    /\ rtMutex = Nobody
    /\ rtMutex' = t
    /\ UNCHANGED <<appModeCmd, appModeStat, allowRtCom, port, shell, motor, ecOK>>

\* A variant: the port stays locked over the sleep.
RtContinueLocked(t) ==
    /\ appModeCmd = "runtime"
    /\ RtTo(t, "test", "unlocked")
    /\ UNCHANGED <<appModeCmd, appModeStat, allowRtCom, port, rtMutex, shell, motor, ecOK>>

\* Unlocking a port that somebody else holds changes nothing.
RtContinue(t) ==
    /\ appModeCmd = "runtime"
    /\ RtTo(t, "test", "unlocked")
    /\ port' = IF appModeStat = "runtime" /\ port = t THEN Nobody ELSE port
    /\ UNCHANGED <<appModeCmd, appModeStat, allowRtCom, rtMutex, shell, motor, ecOK>>

\* A variant: the loop looks at the status only.
RtEndByStatus(t) ==
    /\ appModeStat = "config"
    /\ RtTo(t, "test", "ended")
    /\ appModeStat' = "config"
    /\ UNCHANGED <<appModeCmd, allowRtCom, port, rtMutex, shell, motor, ecOK>>

\* A variant: the end of the thread is not told to anybody.
RtEndSilent(t) ==
    /\ appModeCmd # "runtime"
    /\ RtTo(t, "test", "ended")
    /\ UNCHANGED <<appModeCmd, appModeStat, allowRtCom, port, rtMutex, shell, motor, ecOK>>

\* The loop ends with the locks as they are.
RtEnd(t) ==
    /\ appModeCmd # "runtime"
    /\ RtTo(t, "test", "ended")
    /\ appModeStat' = "config"
    /\ UNCHANGED <<appModeCmd, allowRtCom, port, rtMutex, shell, motor, ecOK>>

\* A variant: the mutex stays locked over the sleep.
RtSleepLocked(t) ==
    /\ RtTo(t, "unlocked", "asleep")
    /\ UNCHANGED <<appModeCmd, appModeStat, allowRtCom, port, rtMutex, shell, motor, ecOK>>

RtSleep(t) ==
    /\ RtTo(t, "unlocked", "asleep")
    /\ rtMutex' = Nobody
    /\ UNCHANGED <<appModeCmd, appModeStat, allowRtCom, port, shell, motor, ecOK>>

RtWake(t) ==
    /\ RtTo(t, "asleep", IF appModeStat = "runtime" THEN "want port" ELSE "want mutex only")
    /\ UNCHANGED <<appModeCmd, appModeStat, allowRtCom, port, rtMutex, shell, motor, ecOK>>

\* A variant: the result of the lock is not looked at.
RtLockPortTry(t) ==
    /\ RtTo(t, "want port", "want mutex")
    /\ port' = IF port = Nobody THEN t ELSE port
    /\ UNCHANGED <<appModeCmd, appModeStat, allowRtCom, rtMutex, shell, motor, ecOK>>

RtLockPort(t) ==
    /\ RtTo(t, "want port", "want mutex")
    /\ port = Nobody
    /\ port' = t
    /\ UNCHANGED <<appModeCmd, appModeStat, allowRtCom, rtMutex, shell, motor, ecOK>>

RtLockMutex(t) ==
    /\ \/ RtTo(t, "want mutex", "work")
       \/ RtTo(t, "want mutex only", "work alone")
    /\ rtMutex = Nobody
    /\ rtMutex' = t
    /\ UNCHANGED <<appModeCmd, appModeStat, allowRtCom, port, shell, motor, ecOK>>

\* One cycle of everything; the bus may come up in it.
RtWork(t) ==
    /\ RtTo(t, "work", "test") \/ RtTo(t, "work alone", "test")
    /\ ecOK' \in IF "bus" \in MayHappen THEN {ecOK, TRUE} ELSE {TRUE}
    /\ UNCHANGED <<appModeCmd, appModeStat, allowRtCom, port, rtMutex, shell, motor>>

RtStep(t) ==
    \/ RtFirst(t) \/ RtContinue(t) \/ RtEnd(t) \/ RtSleep(t) \/ RtWake(t)
    \/ RtLockPort(t) \/ RtLockMutex(t) \/ RtWork(t)

-----------------------------------------------------------------------------
(* The shell: commands of ecmcConfig and ecmcConfigOrDie, one at a time.   *)

ShellIdle ==
    /\ shell = "idle"
    /\ shell' = "want port"
    /\ UNCHANGED <<appModeCmd, appModeStat, allowRtCom, port, rtMutex, rt, motor, ecOK>>

ShellLock ==
    /\ shell = "want port"
    /\ port = Nobody
    /\ port' = Shell
    /\ shell' = "command"
    /\ UNCHANGED <<appModeCmd, appModeStat, allowRtCom, rtMutex, rt, motor, ecOK>>

\* The command returns, with or without an error.
Return == shell' = "idle" /\ port' = Nobody

OtherCommand ==
    /\ shell = "command"
    /\ Return
    /\ UNCHANGED <<appModeCmd, appModeStat, allowRtCom, rtMutex, rt, motor, ecOK>>

\* setAppModeCfg(): a plugin that refuses to leave runtime returns early.
SetAppModeCfg ==
    /\ appModeCmd' = "config"
    /\ \/ allowRtCom' = FALSE
       \/ "plugin" \in MayHappen /\ appModeCmd = "runtime" /\ UNCHANGED allowRtCom
    /\ UNCHANGED appModeStat

SetAppModeConfig ==
    /\ shell = "command"
    /\ "stop" \in MayHappen
    /\ SetAppModeCfg
    /\ Return
    /\ UNCHANGED <<rtMutex, rt, motor, ecOK>>

\* A variant: a start is never refused.
SetAppModeRunAlways ==
    /\ shell = "command"
    /\ shell' = "scan"
    /\ UNCHANGED <<appModeCmd, appModeStat, allowRtCom, port, rtMutex, rt, motor, ecOK>>

\* Refused in runtime; otherwise the EtherCAT scan is waited for.
SetAppModeRun ==
    /\ shell = "command"
    /\ appModeStat # "runtime"
    /\ shell' = "scan"
    /\ UNCHANGED <<appModeCmd, appModeStat, allowRtCom, port, rtMutex, rt, motor, ecOK>>

ScanTimeout ==
    /\ shell = "scan"
    /\ "scan" \in MayHappen
    /\ SetAppModeCfg
    /\ Return
    /\ UNCHANGED <<rtMutex, rt, motor, ecOK>>

\* The wait for the scan sleeps a second or more, longer than a cycle: a loop
\* that was told to stop has stopped by now.
Settled ==
    \A t \in Threads : appModeCmd # "runtime" =>
        \/ rt[t] \in {"none", "ended"}
        \/ rt[t] = "first" /\ rtMutex \in Threads

\* A variant: communication of the realtime thread is not blocked.
ScanDoneOpen ==
    /\ shell = "scan"
    /\ Settled
    /\ shell' = "start"
    /\ appModeCmd' = "runtime"
    /\ appModeStat' = "startup"
    /\ UNCHANGED <<allowRtCom, port, rtMutex, rt, motor, ecOK>>

ScanDone ==
    /\ shell = "scan"
    /\ Settled
    /\ shell' = "start"
    /\ allowRtCom' = FALSE
    /\ appModeCmd' = "runtime"
    /\ appModeStat' = "startup"
    /\ UNCHANGED <<port, rtMutex, rt, motor, ecOK>>

\* Validation, a plugin or the activation of the master fails: the command
\* returns and leaves the modes as they are.
StartFails ==
    /\ shell = "start"
    /\ MayHappen \cap {"validate", "plugin", "activate"} # {}
    /\ Return
    /\ UNCHANGED <<appModeCmd, appModeStat, allowRtCom, rtMutex, rt, motor, ecOK>>

StartThread(t) ==
    /\ shell = "start"
    /\ rt[t] = "none"
    /\ rt' = [rt EXCEPT ![t] = "first"]
    /\ shell' = "wait"
    /\ ecOK' = FALSE
    /\ UNCHANGED <<appModeCmd, appModeStat, allowRtCom, port, rtMutex, motor>>

Started ==
    /\ shell = "wait"
    /\ HasMaster => ecOK
    /\ appModeStat' = "runtime"
    /\ shell' = "allow"
    /\ UNCHANGED <<appModeCmd, allowRtCom, port, rtMutex, rt, motor, ecOK>>

AllowRtCom ==
    /\ shell = "allow"
    /\ allowRtCom' = TRUE
    /\ Return
    /\ UNCHANGED <<appModeCmd, appModeStat, rtMutex, rt, motor, ecOK>>

\* The bus is not up in time.  Its error, set before it came up and reset only
\* by statusOK(), is returned.
StartTimeout ==
    /\ shell = "wait"
    /\ "bus" \in MayHappen /\ HasMaster /\ ~ecOK
    /\ SetAppModeCfg
    /\ Return
    /\ UNCHANGED <<rtMutex, rt, motor, ecOK>>

ShellStep ==
    \/ ShellLock \/ OtherCommand \/ SetAppModeConfig \/ SetAppModeRun
    \/ ScanTimeout \/ ScanDone \/ StartFails
    \/ (\E t \in Threads : StartThread(t))
    \/ Started \/ AllowRtCom \/ StartTimeout

-----------------------------------------------------------------------------
(* The motor record's thread: one call into the axis under ecmcRTMutex.    *)

MotorIdle ==
    /\ motor = "idle"
    /\ motor' = "want mutex"
    /\ UNCHANGED <<appModeCmd, appModeStat, allowRtCom, port, rtMutex, rt, shell, ecOK>>

MotorLock ==
    /\ motor = "want mutex"
    /\ rtMutex = Nobody
    /\ rtMutex' = Motor
    /\ motor' = "busy"
    /\ UNCHANGED <<appModeCmd, appModeStat, allowRtCom, port, rt, shell, ecOK>>

MotorUnlock ==
    /\ motor = "busy"
    /\ rtMutex' = Nobody
    /\ motor' = "idle"
    /\ UNCHANGED <<appModeCmd, appModeStat, allowRtCom, port, rt, shell, ecOK>>

-----------------------------------------------------------------------------
AppModeNext ==
    \/ \E t \in Threads : RtStep(t)
    \/ ShellIdle
    \/ ShellStep
    \/ MotorIdle
    \/ MotorLock
    \/ MotorUnlock

\* Every thread that can run does.  The realtime thread sleeps without locks in
\* every cycle, so a thread that waits for a lock gets it sooner or later: the
\* strong fairness.  New commands and new calls are not forced.
AppModeFairness ==
    /\ \A t \in Threads : WF_appModeVars(RtStep(t)) /\ SF_appModeVars(RtLockPort(t))
                          /\ SF_appModeVars(RtLockMutex(t)) /\ SF_appModeVars(RtFirst(t))
    /\ WF_appModeVars(ShellStep) /\ SF_appModeVars(ShellLock)
    /\ WF_appModeVars(MotorUnlock) /\ SF_appModeVars(MotorLock)

AppModeSpec == AppModeInit /\ [][AppModeNext]_appModeVars /\ AppModeFairness

-----------------------------------------------------------------------------
InLoop(t) == rt[t] \in LoopSteps
Alive(t)  == InLoop(t) \/ rt[t] = "first"

\* At most one thread runs the axes, through every failed start, stop and
\* restart: two would drive the same hardware (refusal of setAppModeRun, test
\* of the loop).
OneRealtimeThread ==
    \A t, u \in Threads : InLoop(t) /\ InLoop(u) => t = u

\* While the start lasts the realtime thread may not call into the asyn port,
\* whose lock the sleeping shell holds ("Block rt communication during
\* startup").
RtComBlockedInStartup == appModeStat = "startup" => ~allowRtCom

\* A system that says it is in runtime, with no start under way, has a realtime
\* thread.
RuntimeHasThread == appModeStat = "runtime" => \E t \in Threads : Alive(t)

\* A cycle that began in runtime is run with the port and the mutex, so that
\* no command of the shell and no call of the motor record sees half of it.
CycleIsProtected ==
    \A t \in Threads : rt[t] = "work" =>
        port = t /\ rtMutex = t /\ shell \in {"idle", "want port"} /\ motor # "busy"

\* A loop told to stop ends, unless the system is started again.
StopEndsLoop ==
    \A t \in Threads :
        InLoop(t) /\ appModeCmd = "config" ~> ~InLoop(t) \/ appModeCmd = "runtime"

\* As long as no realtime thread has ended, every command of the shell gets the
\* port and every call of the motor record gets its mutex: the realtime thread
\* releases both in every cycle.
Ended == \E t \in Threads : rt[t] = "ended"
ShellServed == shell = "want port" ~> shell # "want port" \/ Ended
MotorServed == motor = "want mutex" ~> motor # "want mutex" \/ Ended

\* "mode = 0: Configuration mode" (ecmcMainThread.h): the mode in which the
\* commands of the configuration are given and served.
ConfigurationServed == shell = "want port" ~> shell # "want port"
=============================================================================
