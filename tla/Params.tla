------------------------------- MODULE Params -------------------------------
(***************************************************************************)
(* The parameters that records are linked to (com/ecmcAsynPortDriver.cpp,  *)
(* com/ecmcAsynDataItem.cpp): objects offer them, records link to them by  *)
(* name and ask for a type and an update time, the realtime thread         *)
(* publishes their data, clients read and write them.  Times are counted   *)
(* in realtime cycles.                                                     *)
(***************************************************************************)
EXTENDS Integers, Sequences, FiniteSets, SequencesExt

CONSTANTS Names,        \* names of parameters
          Kinds,        \* parameters that objects offer: [types, wide, bits, every]
          Links,        \* what a record asks for: [type, cmd, ms]
          TableSize,    \* paramTableSize_, less the parameter of the motor record
          DefaultRate,  \* defaultSampleTimeMS_
          MaxAge,       \* bound of this model: age of a value
          MaxLinks,     \* bound of this model: records linked to one parameter
          Round         \* bound of this model: the count of cycles starts over, at a
                        \* multiple of the times between two updates of any data

VARIABLES avail,     \* pEcmcParamAvailArray_
          library,   \* the parameters of the asyn library, in the order of creation
          port       \* members of ecmcAsynPortDriver and the counters of the main thread

paramVars == <<avail, library, port>>

NoIndex == 0

ParamsInit ==
    /\ avail = <<>>
    /\ library = <<>>
    /\ port = [inUse |-> <<>>, allow |-> TRUE, epics |-> "init", cycle |-> 0,
               fastest |-> DefaultRate, skip |-> 0, flushed |-> FALSE]

(***************************************************************************)
(* Offering parameters                                                     *)
(***************************************************************************)
NewParam(name, kind) ==
    [name |-> name, types |-> kind.types, wide |-> kind.wide, bits |-> kind.bits,
     every |-> kind.every, type |-> "none", cmd |-> "none", ms |-> 0, cycles |-> 0,
     counter |-> 0, index |-> NoIndex, linked |-> FALSE,
     asked |-> [first |-> -1, least |-> -1, records |-> 0]]

\* The name is not checked: of two parameters of one name only the first is found.
AddParam(name, kind) ==
    /\ Len(avail) < TableSize
    /\ avail' = Append(avail, NewParam(name, kind))
    /\ UNCHANGED <<library, port>>

Found(name) == SelectInSeq(avail, LAMBDA p : p.name = name)

(***************************************************************************)
(* Publishing.  "sampled" is the age of the value in the asyn library,     *)
(* "age" that of the value which the records have, counted while the IOC   *)
(* runs.                                                                   *)
(***************************************************************************)
IsArray(type) == type = "array"

\* The value is put in the library, that of an array goes to the records at once.
Sample(l, type) == [l EXCEPT !.sampled = 0, !.age = IF IsArray(type) THEN 0 ELSE @]

\* Mutant: one cycle late.
DueLate(p, force) == p.linked /\ (force \/ (p.cycles >= 0 /\ p.counter >= p.cycles))

\* refreshParam(): the parameters that are due, or all of them.
Due(p, force) ==
    p.linked /\ (force \/ (p.cycles >= 0 /\ p.counter >= p.cycles - 1))

Counted(p, force) ==
    CASE Due(p, force) -> [p EXCEPT !.counter = 0]
      [] p.linked /\ ~force /\ p.cycles >= 0 /\ p.counter < p.cycles - 1 ->
           [p EXCEPT !.counter = @ + 1]
      [] OTHER -> p

\* callParamCallbacks(): all records get what is in the library.
Flush(lib) == [i \in DOMAIN lib |-> [lib[i] EXCEPT !.age = lib[i].sampled]]

Refresh(lib, params, Which(_)) ==
    [i \in DOMAIN lib |->
        IF \E k \in DOMAIN params :
              params[k].index = i /\ Which(params[k])
        THEN Sample(lib[i], params[Found(lib[i].name)].type) ELSE lib[i]]

(***************************************************************************)
(* Linking a record: drvUserCreate()                                       *)
(***************************************************************************)
\* What parseInfofromDrvInfo() makes of the time that a record asks for; "every" is the
\* number of cycles between two updates of the data.
Time(ms, every) == IF ms > 0 /\ ms < every THEN every ELSE ms
Cycles(ms, every) == IF ms = -1 THEN -1 ELSE Time(ms, every) \div every

\* setDrvInfo() on the parameter that was found, before its type is checked.
Informed(p, link) ==
    [p EXCEPT !.type = link.type, !.cmd = link.cmd, !.ms = Time(link.ms, p.every),
              !.cycles = Cycles(link.ms, p.every)]

UnsupportedType(name, link) ==
    LET k == Found(name)
    IN /\ k # 0 /\ avail[k].index = NoIndex
       /\ avail' = [avail EXCEPT ![k] = Informed(@, link)]
       /\ link.type \notin avail[k].types
       /\ UNCHANGED <<library, port>>

\* The parameter is created in the library, and refused when the command does not suit
\* its data.  It stays created.
Created(p, link) == [Informed(p, link) EXCEPT !.index = Len(library) + 1]

Suits(p) ==
    CASE p.cmd \in {"INT64TOFLOAT64", "UINT64TOFLOAT64"} -> p.bits = 64
      [] p.cmd = "FLOAT64TOINT32" -> p.wide
      [] p.cmd = "none" -> TRUE

\* The shortest time counts; setAsynParSampleTimeMS() counts it in realtime cycles.
Shortened(p, link) ==
    IF link.ms < p.ms /\ link.ms >= 0
    THEN [p EXCEPT !.ms = link.ms, !.cycles = link.ms] ELSE p

\* History: what the first record asked for, and the least that any record did.
Asked(h, ms) ==
    [first |-> IF h.records = 0 THEN ms ELSE h.first, records |-> h.records + 1,
     least |-> IF h.least = -1 \/ (ms >= 0 /\ ms < h.least) THEN ms ELSE h.least]

Linked(p, link) ==
    [Shortened(p, link) EXCEPT !.linked = TRUE, !.counter = 0,
                               !.asked = Asked(@, link.ms)]

NewEntry(name) == [name |-> name, sampled |-> 0, age |-> 0]

CreateAndLink(name, link) ==
    LET k == Found(name)
    IN /\ k # 0 /\ avail[k].index = NoIndex
       /\ link.type \in avail[k].types
       /\ Len(port.inUse) < TableSize
       /\ LET p == Created(avail[k], link)
          IN /\ avail' = [avail EXCEPT ![k] = IF Suits(p) THEN Linked(p, link) ELSE p]
             /\ library' = IF Suits(p) THEN Flush(Append(library, NewEntry(name)))
                           ELSE Append(library, NewEntry(name))
       /\ port' = [port EXCEPT !.inUse = Append(@, k)]

\* A further record: its type and its command are not looked at.
LinkAgain(name, link) ==
    LET k == Found(name)
    IN /\ k # 0 /\ avail[k].index # NoIndex
       /\ avail[k].linked \/ Suits(avail[k])
       /\ avail[k].asked.records < MaxLinks
       /\ avail' = [avail EXCEPT ![k] = Linked(@, link)]
       /\ library' = Flush([library EXCEPT ![avail[k].index] =
                                Sample(@, avail[k].type)])
       /\ UNCHANGED port

(***************************************************************************)
(* The state of the IOC: the records are linked before it runs.            *)
(***************************************************************************)
Linking == port.epics = "init"

DatabaseRunning ==
    /\ Linking
    /\ port' = [port EXCEPT !.epics = "database"]
    /\ UNCHANGED <<avail, library>>

FastestRate ==
    Min({DefaultRate} \cup {avail[k].cycles : k \in
            {n \in Range(port.inUse) : avail[n].linked /\ avail[n].cycles >= 0}})

IocRunning ==
    /\ port.epics = "database"
    /\ port' = [port EXCEPT !.epics = "running", !.fastest = FastestRate]
    /\ IF port.allow
       THEN /\ avail' = [k \in DOMAIN avail |-> Counted(avail[k], TRUE)]
            /\ library' = Refresh(library, avail, LAMBDA p : p.linked)
       ELSE UNCHANGED <<avail, library>>

\* setAppMode() stops the communication of the realtime thread while it starts it.
SetAllowRtThreadCom(allowed) ==
    /\ port' = [port EXCEPT !.allow = allowed]
    /\ UNCHANGED <<avail, library>>

(***************************************************************************)
(* A cycle of the realtime thread.  Each object refreshes its parameters   *)
(* when it updates their data, then updateAsynParams() calls the records.  *)
(***************************************************************************)
Updated(p) == port.cycle % p.every = 0

Older(n) == Min({n + 1, MaxAge})

Aged(lib) ==
    IF port.epics # "running" THEN lib
    ELSE [i \in DOMAIN lib |-> [lib[i] EXCEPT !.sampled = Older(@), !.age = Older(@)]]

Calls == port.epics # "init" /\ port.skip = 0

RtCycle ==
    /\ port.allow
    /\ avail' = [k \in DOMAIN avail |->
            IF Updated(avail[k]) THEN Counted(avail[k], FALSE) ELSE avail[k]]
    /\ LET sampled == Refresh(Aged(library), avail,
                              LAMBDA p : Updated(p) /\ Due(p, FALSE))
       IN library' = IF Calls THEN Flush(sampled) ELSE sampled
    /\ port' = [port EXCEPT
            !.cycle = (@ + 1) % Round,
            !.skip = IF port.epics = "init" THEN 0
                     ELSE IF Calls THEN Max({port.fastest - 1, 0}) ELSE @ - 1,
            !.flushed = @ \/ (Calls /\ port.epics = "running")]

(***************************************************************************)
(* A client writes.  The name in the library and the name of the parameter *)
(* at that index are compared first.                                       *)
(***************************************************************************)
NameAgrees(i) == i <= Len(port.inUse) /\ avail[port.inUse[i]].name = library[i].name

\* A command that converts 64 bit integers, and 32 bit floats: the data is written and
\* the records see it when the parameter is due.  Else it is published at once, but for
\* an integer that a command converts: its records have to wait until they are called.
Converts(p) == p.cmd \in {"INT64TOFLOAT64", "UINT64TOFLOAT64"}

Write(i) ==
    /\ i \in DOMAIN library /\ NameAgrees(i) /\ port.allow
    /\ LET k == port.inUse[i]
       IN /\ avail[k].linked /\ avail[k].type \in avail[k].types
          /\ ~Converts(avail[k])
          /\ avail' = [avail EXCEPT ![k] = Counted(@, TRUE)]
          /\ LET sampled == [library EXCEPT ![i] = Sample(@, avail[k].type)]
             IN \/ library' = IF IsArray(avail[k].type) THEN sampled ELSE Flush(sampled)
                \/ avail[k].cmd = "FLOAT64TOINT32" /\ library' = sampled
    /\ UNCHANGED port

ParamsNext ==
    \/ \E name \in Names, kind \in Kinds : Linking /\ AddParam(name, kind)
    \/ \E name \in Names, link \in Links : Linking /\ UnsupportedType(name, link)
    \/ \E name \in Names, link \in Links : Linking /\ CreateAndLink(name, link)
    \/ \E name \in Names, link \in Links : Linking /\ LinkAgain(name, link)
    \/ DatabaseRunning
    \/ IocRunning
    \/ \E allowed \in BOOLEAN : SetAllowRtThreadCom(allowed)
    \/ RtCycle
    \/ \E i \in 1..TableSize : Write(i)

ParamsSpec == ParamsInit /\ [][ParamsNext]_paramVars

(***************************************************************************)
(* Properties                                                              *)
(***************************************************************************)
\* The time the data of a parameter may be old in its records, as the comment in
\* drvUserCreate() puts it: the shortest time that a record asked for.  It is kept when
\* the first record asked for a time at all, and when no record shortened that of a
\* parameter which is updated more seldom than every cycle, as the first one does that
\* asks for less than the time between two updates.
Promised(p) ==
    /\ p.asked.first >= 0
    /\ p.every = 1 \/ (p.asked.records = 1 /\ p.asked.first \notin 2..(p.every - 1))

Shortest(p) == Max({p.asked.least, p.every})

\* While the IOC runs every record has a value that is no older than the shortest time
\* any record asked for and the time between two calls of the records, which is that of
\* the parameter asked for most often: neither other records, nor clients that write,
\* nor the start of the realtime thread make the data older
\* (ecmcAsynPortDriver.cpp:1029-1069, ecmcAsynDataItem.cpp:177-286).
RecordsAreFresh ==
    port.flushed =>
        \A p \in Range(avail) :
            p.linked /\ Promised(p) =>
                library[p.index].age <= Shortest(p) - 1 + Max({port.fastest - 1, 0})

\* The index that a record got leads to the parameter whose name it gave, also after
\* records that were refused (ecmcAsynPortDriver.cpp:896-1048).
IndexLeadsToParam ==
    /\ Len(library) = Len(port.inUse)
    /\ \A i \in DOMAIN library :
           /\ port.inUse[i] = Found(library[i].name)
           /\ avail[port.inUse[i]].index = i

ParamsSafe == RecordsAreFresh /\ IndexLeadsToParam
=============================================================================
