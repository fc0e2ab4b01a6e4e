----------------------------- MODULE EcAsyncSdo -----------------------------
(***************************************************************************)
(* A service data object that clients read and write while the bus runs    *)
(* (ethercat/ecmcEcAsyncSDO.cpp).  A rising edge of a trigger starts a     *)
(* request, the master answers it when the slave does, and the realtime    *)
(* thread collects the answer in a later cycle.                            *)
(***************************************************************************)
EXTENDS Naturals

CONSTANTS Data,         \* values of the object in the slave and of the parameter
          MaxRequests   \* bound of this model: requests in a behaviour

VARIABLES sdo,       \* members of ecmcEcAsyncSDO
          request,   \* the request object of the master: state, direction, data
          device,    \* the value that the slave holds
          told,      \* the value that was published last
          sdoPast    \* history: requests so far, a read since the last rest, failures

sdoVars == <<sdo, request, device, told, sdoPast>>

Triggers == {"read", "write"}

AsyncSdoInit ==
    \E d \in Data, v \in Data :
        /\ sdo = [buffer |-> d, busy |-> FALSE, error |-> FALSE,
                  trigger |-> [t \in Triggers |-> FALSE],
                  inProcess |-> [t \in Triggers |-> FALSE]]
        /\ request = [state |-> "UNUSED", kind |-> "read", data |-> d]
        /\ device = v
        /\ told = d
        /\ sdoPast = [count |-> 0, read |-> FALSE, failed |-> FALSE]

InProcess == sdo.inProcess["read"] \/ sdo.inProcess["write"]

(***************************************************************************)
(* The clients.  The asyn port is locked during a command and during a     *)
(* cycle: each is one step.                                                *)
(***************************************************************************)
\* A client writes the value parameter, which is the buffer.
SetBuffer(v) ==
    /\ sdo' = [sdo EXCEPT !.buffer = v]
    /\ UNCHANGED <<request, device, told, sdoPast>>

\* The level of the trigger is remembered whatever becomes of the command.
NoEdge(t, level) ==
    /\ ~(level /\ ~sdo.trigger[t])
    /\ sdo' = [sdo EXCEPT !.trigger[t] = level]
    /\ UNCHANGED <<request, device, told, sdoPast>>

Refused(t) ==
    /\ ~sdo.trigger[t] /\ request.state = "BUSY"
    /\ sdo' = [sdo EXCEPT !.trigger[t] = TRUE, !.error = TRUE]
    /\ UNCHANGED <<request, device, told, sdoPast>>

Accepted(t) ==
    /\ ~sdo.trigger[t] /\ request.state # "BUSY"
    /\ sdoPast.count < MaxRequests
    /\ sdo' = [sdo EXCEPT !.trigger[t] = TRUE, !.busy = TRUE, !.inProcess[t] = TRUE]
    /\ request' = [state |-> "BUSY", kind |-> t,
                   data |-> IF t = "write" THEN sdo.buffer ELSE request.data]
    /\ sdoPast' = [count |-> sdoPast.count + 1, failed |-> FALSE,
                   read |-> t = "read" \/ (sdo.busy /\ sdoPast.read)]
    /\ UNCHANGED <<device, told>>

(***************************************************************************)
(* The master and the slave.                                               *)
(***************************************************************************)
\* The slave answers the request.
Answered ==
    /\ request.state = "BUSY"
    /\ request' = [request EXCEPT !.state = "SUCCESS",
                                  !.data = IF request.kind = "read" THEN device ELSE @]
    /\ device' = IF request.kind = "write" THEN request.data ELSE device
    /\ UNCHANGED <<sdo, told, sdoPast>>

\* The slave refuses the request, or the time of the request is over: a write may have
\* reached the slave.
Failed ==
    /\ request.state = "BUSY"
    /\ request' = [request EXCEPT !.state = "ERROR"]
    /\ device' \in {device} \cup IF request.kind = "write" THEN {request.data} ELSE {}
    /\ sdoPast' = [sdoPast EXCEPT !.failed = TRUE]
    /\ UNCHANGED <<sdo, told>>

(***************************************************************************)
(* The realtime thread: execute(), called for each slave in every cycle.   *)
(***************************************************************************)
AtRest(s) == [s EXCEPT !.busy = FALSE, !.inProcess = [t \in Triggers |-> FALSE]]

\* Mutant: the error of a request is not kept.
ExecuteSilently ==
    /\ InProcess
    /\ request.state \in {"SUCCESS", "ERROR"}
    /\ sdo' = AtRest(sdo)
    /\ UNCHANGED <<request, device, told, sdoPast>>

Execute ==
    /\ InProcess
    /\ request.state \in {"SUCCESS", "ERROR"}
    /\ LET read == sdo.inProcess["read"] /\ request.state = "SUCCESS"
       IN /\ sdo' = [AtRest(sdo) EXCEPT !.error = @ \/ request.state = "ERROR",
                                        !.buffer = IF read THEN request.data ELSE @]
          /\ told' = IF read THEN request.data ELSE told
    /\ UNCHANGED <<request, device, sdoPast>>

AsyncSdoNext ==
    \/ \E v \in Data : SetBuffer(v)
    \/ \E t \in Triggers, level \in BOOLEAN : NoEdge(t, level)
    \/ \E t \in Triggers : Refused(t)
    \/ \E t \in Triggers : Accepted(t)
    \/ Answered
    \/ Failed
    \/ Execute

\* The master answers every request, if only with its time out; the thread goes on.
AsyncSdoFairness == WF_sdoVars(Answered \/ Failed) /\ WF_sdoVars(Execute)

AsyncSdoSpec == AsyncSdoInit /\ [][AsyncSdoNext]_sdoVars

(***************************************************************************)
(* Properties                                                              *)
(***************************************************************************)
AsyncSdoTypeOK ==
    /\ sdo \in [buffer: Data, busy: BOOLEAN, error: BOOLEAN,
                trigger: [Triggers -> BOOLEAN], inProcess: [Triggers -> BOOLEAN]]
    /\ request \in [state: {"UNUSED", "BUSY", "SUCCESS", "ERROR"}, kind: Triggers,
                    data: Data]
    /\ device \in Data /\ told \in Data
    /\ sdoPast \in [count: Nat, read: BOOLEAN, failed: BOOLEAN]

\* A client that sees the object at rest can rely on what it sees: no request is under
\* way, the error tells if the last request failed, and if it succeeded and a read was
\* among the commands since the last rest then the value published is the one that the
\* slave and the master agreed on, also when a write was accepted before the read was
\* collected (ecmcEcAsyncSDO.cpp:119-273).
AnswersAreTrue ==
    ~sdo.busy =>
        /\ request.state # "BUSY" /\ ~InProcess
        /\ sdoPast.failed => sdo.error
        /\ request.state = "SUCCESS" /\ sdoPast.read => told = request.data

\* Every accepted command comes to rest, whatever the slave answers and whatever
\* commands are refused or accepted meanwhile.
SdoResolves == sdo.busy ~> ~sdo.busy
=============================================================================
