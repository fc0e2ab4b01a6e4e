------------------------------- MODULE EcBus -------------------------------
(***************************************************************************)
(* The health of the EtherCAT bus (ethercat/ecmcEc.cpp, ecmcEcSlave.cpp):  *)
(* what the realtime thread learns of the domain in every cycle and of the *)
(* master and the slaves in every SlowPeriod-th one, and what it tells the *)
(* axes, the PLCs and the clients.                                         *)
(***************************************************************************)
EXTENDS Naturals, FiniteSets

CONSTANTS Slaves,       \* the configured slaves
          Reports,      \* states that a slave may report: [online, operational, al]
          DomainLimit,  \* domainNotOKCyclesLimit_
          OkDelay,      \* delayEcOKCycles_
          SlowPeriod    \* mcuFrequency / axisDiagFreq, in cycles

ASSUME EcAssumption == {DomainLimit, OkDelay, SlowPeriod} \subseteq Nat

VARIABLES bus,          \* the members of ecmcEc
          state,        \* slaveState_ of each slave, as it was read last
          slaveAlarm,   \* whether the entries of a slave have a communication alarm
          well,         \* whether nothing was wrong with the bus in the last cycle
          past          \* history: what has been true of the bus, for the properties

ecVars == <<bus, state, slaveAlarm, well, past>>

Down == [online |-> FALSE, operational |-> FALSE, al |-> 0]
Up(r) == r.online /\ r.operational

(***************************************************************************)
(* The slave: ecmcEcSlave::checkConfigState().                             *)
(***************************************************************************)
\* The error that a slave returns, "none" in operation.
SlaveError(r) ==
    IF ~r.online THEN "not_online"
    ELSE IF ~r.operational THEN "not_operational"
    ELSE CASE r.al = 1 -> "init" [] r.al = 2 -> "preop" [] r.al = 4 -> "safeop"
           [] r.al = 8 -> "none" [] OTHER -> "undefined"

\* Mutant: only the contact counts.
AlarmOfContact(s, r) == IF r.online # state[s].online THEN ~Up(r) ELSE slaveAlarm[s]

\* Alarms follow changes only: a slave that was never up has none.
AlarmAfter(s, r) ==
    IF r.online # state[s].online \/ r.operational # state[s].operational
    THEN ~Up(r) ELSE slaveAlarm[s]

(***************************************************************************)
(* The master: checkState() with checkSlavesConfState().  A cycle calls    *)
(* them three times on the same state of the bus, which is as good as once.*)
(***************************************************************************)
SlavesOk(b, w) == b.slaves \/ \A s \in Slaves : SlaveError(w.slave[s]) = "none"

Responding(w) == {s \in Slaves : w.slave[s].online}
AlStates(w) == {w.slave[s].al : s \in Responding(w)}

\* al_states is a set of bits: only a bus with all slaves in one and the same
\* state below OP is refused.
MasterOk(w) ==
    /\ w.link
    /\ Cardinality(Responding(w)) >= Cardinality(Slaves)
    /\ AlStates(w) \notin {{1}, {2}, {4}}

CheckState(b, w) ==
    IF ~b.diag THEN [b EXCEPT !.slaves = TRUE, !.master = TRUE]
    ELSE LET errors == {SlaveError(w.slave[s]) : s \in Slaves} \ {"none"}
             first == IF b.error = "none" /\ errors # {} THEN errors ELSE {b.error}
             up == SlavesOk(b, w)
             missing == up /\ w.link /\ Cardinality(Responding(w)) < Cardinality(Slaves)
         IN [b EXCEPT !.slaves = up,
                      !.master = IF up THEN MasterOk(w) ELSE @,
                      !.error = IF missing THEN "mismatch"
                                ELSE CHOOSE e \in first : TRUE]

\* checkDomainState(): a few incomplete cycles are tolerated.
CheckDomainState(b, w) ==
    LET failed == IF w.complete THEN 0
                  ELSE IF b.failed <= DomainLimit THEN b.failed + 1 ELSE b.failed
    IN [b EXCEPT !.failed = failed, !.domain = failed <= DomainLimit]

(***************************************************************************)
(* statusOK(): the end of the startup clears the errors of the startup.    *)
(***************************************************************************)
AllOk(b) == b.slaves /\ b.domain /\ b.master

StartupEnds(b) == b.diag /\ b.startup /\ AllOk(b) /\ b.count > OkDelay

AfterStatusOk(b) ==
    IF StartupEnds(b) THEN [b EXCEPT !.startup = FALSE, !.error = "none"] ELSE b

StatusOk(b) == ~b.diag \/ (AllOk(b) /\ ~b.startup)

\* Mutant: the count ends one cycle too early.
CountShort(b) ==
    IF b.startup /\ AllOk(b) /\ b.count < OkDelay THEN [b EXCEPT !.count = @ + 1] ELSE b

\* send(): the cycles of a startup in which all is well are counted, up to where
\* statusOK() looks.
CountGood(b) ==
    IF b.startup /\ AllOk(b) /\ b.count <= OkDelay THEN [b EXCEPT !.count = @ + 1] ELSE b

(***************************************************************************)
(* Actions                                                                 *)
(***************************************************************************)
AnyWorld ==
    [link: BOOLEAN, complete: BOOLEAN, slave: [Slaves -> Reports]]

Nominal == [s \in Slaves |-> [online |-> TRUE, operational |-> TRUE, al |-> 8]]
Healthy(w) == w.link /\ w.complete /\ w.slave = Nominal

EcInit ==
    /\ \E diag \in BOOLEAN :
         bus = [diag |-> diag, slaves |-> FALSE, master |-> FALSE, domain |-> FALSE,
                failed |-> 0, count |-> 0, startup |-> TRUE, error |-> "status_not_ok",
                slow |-> 0, told |-> FALSE]
    /\ state = [s \in Slaves |-> Down]
    /\ slaveAlarm = [s \in Slaves |-> FALSE]
    /\ well = FALSE
    /\ past = [bad |-> 0, good |-> 0, up |-> {}, checked |-> FALSE]

\* A cycle of cyclic_task(), as far as the bus goes: receive() and the domain, the
\* answer to everybody, every SlowPeriod-th time the slow checks, send().
BusCycle(w) ==
    LET slow == bus.slow = 0
        b1 == CheckDomainState(bus, w)
        b2 == AfterStatusOk(b1)
        b3 == IF slow THEN CheckState(b2, w) ELSE b2
        looked == slow /\ bus.diag
    IN /\ bus' = [CountGood(b3) EXCEPT !.slow = IF slow THEN SlowPeriod ELSE @ - 1,
                                       !.told = StatusOk(b2)]
       /\ state' = IF looked THEN w.slave ELSE state
       /\ slaveAlarm' = IF looked THEN [s \in Slaves |-> AlarmAfter(s, w.slave[s])] ELSE slaveAlarm
       /\ well' = Healthy(w)
       /\ past' = [bad |-> IF w.complete THEN 0
                           ELSE IF past.bad <= DomainLimit THEN past.bad + 1 ELSE past.bad,
                   good |-> IF (w.complete \/ past.bad < DomainLimit) /\ past.good <= OkDelay
                            THEN past.good + 1 ELSE past.good,
                   up |-> IF looked THEN past.up \cup {s \in Slaves : Up(w.slave[s])}
                          ELSE past.up,
                   checked |-> IF looked THEN MasterOk(w) ELSE past.checked]

\* waitForThreadToStart() of the shell asks for the status, too.
ShellAsks ==
    /\ StartupEnds(bus)
    /\ bus' = AfterStatusOk(bus)
    /\ UNCHANGED <<state, slaveAlarm, well, past>>

\* ecResetError(): a command clears the error between two cycles.
ResetError ==
    /\ bus.error # "none"
    /\ bus' = [bus EXCEPT !.error = "none"]
    /\ UNCHANGED <<state, slaveAlarm, well, past>>

EcNext == (\E w \in AnyWorld : BusCycle(w)) \/ ShellAsks \/ ResetError

EcSpec == EcInit /\ [][EcNext]_ecVars

\* The realtime thread goes on; the shell and the commands need not come.
EcFairness == WF_ecVars(\E w \in AnyWorld : BusCycle(w))

(***************************************************************************)
(* Properties                                                              *)
(***************************************************************************)
EcTypeOK ==
    /\ bus.failed \in 0..(DomainLimit + 1)
    /\ bus.count \in 0..(OkDelay + 1)
    /\ bus.slow \in 0..SlowPeriod
    /\ {bus.slaves, bus.master, bus.domain, bus.startup, bus.told} \subseteq BOOLEAN
    /\ state \in [Slaves -> Reports \cup {Down}]
    /\ slaveAlarm \in [Slaves -> BOOLEAN]

\* What the axes are told is good only if the process data failed for no more than the
\* tolerated cycles in a row, was within that tolerance in more than OkDelay cycles before, and the
\* master was well when it was looked at last or is about to be looked at: the flags that
\* are never taken back (slavesOK_, inStartupPhase_) and the early return of checkState()
\* do not hide a dead bus (ecmcEc.cpp:385-592, 1049).
OkIsBacked ==
    bus.diag /\ bus.told =>
        /\ past.bad <= DomainLimit
        /\ past.good > OkDelay
        /\ past.checked \/ bus.slow = SlowPeriod

\* The alarm of the entries of a slave tells what the last look at the slave showed, for
\* every slave that has been up once; a slave in operation never has one
\* (ecmcEcSlave.cpp:321-354).
AlarmTells ==
    \A s \in Slaves :
        /\ Up(state[s]) => ~slaveAlarm[s]
        /\ s \in past.up /\ ~Up(state[s]) => slaveAlarm[s]

\* A bus that has become healthy for good is reported so, whatever happened before:
\* counters, latched flags and the startup do not keep the axes waiting for ever.
BusComesUp ==
    <>[]well => <>[](bus.told)
============================================================================
