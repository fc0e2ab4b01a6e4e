------------------------------ MODULE MCRealtime ------------------------------
(***************************************************************************)
(* What the realtime thread looks after in every cycle beside the axis     *)
(* itself: the monitor of an axis, with three choices of what happens to   *)
(* it (the inputs of the motion with the interlocks of the PLC, the limit  *)
(* switches with their latch and alarm, or a switch and the soft limits),  *)
(* the bus, and the asynchronous requests to the objects of its slaves.  A *)
(* behaviour keeps to one of them.                                         *)
(***************************************************************************)
EXTENDS Monitor, EcBus, EcAsyncSdo

CONSTANTS LimitInputs,   \* what varies in the second choice,
          LimitEvents    \* and what happens between cycles

VARIABLE choice

Limits == INSTANCE Monitor WITH Varying <- LimitInputs, Events <- LimitEvents
SoftLimit == INSTANCE Monitor WITH
    Varying <- {"bwd", "pos", "enabled"}, Events <- {"reset", "alarm"}

\* A slave that is gone, one that starts and one that works.
SlaveReports ==
    {[online |-> FALSE, operational |-> FALSE, al |-> 0],
     [online |-> TRUE, operational |-> FALSE, al |-> 4],
     [online |-> TRUE, operational |-> TRUE, al |-> 8]}

allVars == <<vars, ecVars, sdoVars, choice>>

NoBus == bus = "none" /\ state = "none" /\ slaveAlarm = "none" /\ well = "none" /\ past = "none"
NoSdo == sdo = "none" /\ request = "none" /\ device = "none" /\ told = "none" /\ sdoPast = "none"

MCInit ==
    \/ choice = "motion" /\ Init /\ NoBus /\ NoSdo
    \/ choice = "limits" /\ Limits!Init /\ NoBus /\ NoSdo
    \/ choice = "soft limits" /\ SoftLimit!Init /\ NoBus /\ NoSdo
    \/ choice = "bus" /\ Init /\ EcInit /\ NoSdo
    \/ choice = "sdo" /\ Init /\ NoBus /\ AsyncSdoInit

MCNext ==
    /\ \/ choice = "motion" /\ Next /\ UNCHANGED <<ecVars, sdoVars>>
       \/ choice = "limits" /\ Limits!Next /\ UNCHANGED <<ecVars, sdoVars>>
       \/ choice = "soft limits" /\ SoftLimit!Next /\ UNCHANGED <<ecVars, sdoVars>>
       \/ choice = "bus" /\ EcNext /\ UNCHANGED <<vars, sdoVars>>
       \/ choice = "sdo" /\ AsyncSdoNext /\ UNCHANGED <<vars, ecVars>>
    /\ UNCHANGED choice

\* The realtime thread goes on; the master answers every request, if only with its time
\* out.  The shell and the clients need not come.
BusAlone(A) == choice = "bus" /\ A /\ UNCHANGED <<vars, sdoVars, choice>>
SdoAlone(A) == choice = "sdo" /\ A /\ UNCHANGED <<vars, ecVars, choice>>

Fairness ==
    /\ WF_ecVars(BusAlone(\E w \in AnyWorld : BusCycle(w)))
    /\ WF_sdoVars(SdoAlone(Answered \/ Failed))
    /\ WF_sdoVars(SdoAlone(Execute))

MCSpec == MCInit /\ [][MCNext]_allVars /\ Fairness

(***************************************************************************)
(* Properties of the bus and of the requests                               *)
(***************************************************************************)
\* The axes are told that the bus is in order only when it is, and the alarm of a slave
\* tells what the last look at it showed (ethercat/ecmcEc.cpp:385-592, 1049,
\* ecmcEcSlave.cpp:294-467); the value and the error of an object at rest are those of
\* its last requests (ecmcEcAsyncSDO.cpp:119-273).
BusSafe ==
    /\ choice = "bus" => OkIsBacked /\ AlarmTells
    /\ choice = "sdo" => AnswersAreTrue

\* A bus that has become well for good is reported so, and every request to an object
\* comes to rest (ecmcEc.cpp:613-647, 1049-1060, ecmcEcAsyncSDO.cpp:237-273).
BusResolves ==
    /\ <>[](choice = "bus" /\ well) => <>[](choice = "bus" => bus.told)
    /\ (choice = "sdo" /\ sdo.busy) ~> (choice = "sdo" => ~sdo.busy)
=============================================================================
