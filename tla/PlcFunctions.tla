----------------------------- MODULE PlcFunctions -----------------------------
(***************************************************************************)
(* The function libraries of the PLCs: the motion functions of             *)
(* ecmcPLCTask_libMc.inc on one axis, the bit functions of                 *)
(* ecmcPLCTask_libEc.inc on one word, and the functions of both and of     *)
(* ecmcPLCTask_libDs.inc that copy data.  A caller is a PLC in its use of  *)
(* one motion function; two callers may be two PLCs that use the same one. *)
(* They call in any order and with any arguments, and other clients use    *)
(* the axis as well; between the scans the axis goes on.                   *)
(***************************************************************************)
EXTENDS Integers, FiniteSets, FiniteSetsExt

CONSTANTS IntBits,    \* bits of the int in which BIT_SET and its kin shift a 1
          WordBits,   \* ECMC_EC_LIB_MAX_BITS, the bits of the words
          Sizes,      \* elements of a memory map or a data storage
          Callers,    \* the callers of motion functions: a set of positive numbers
          Triggers    \* values of the argument "execute", in halves

VARIABLES axis,       \* what the motion functions use of the axis
          flag,       \* statLastAxesExecute..[axis], by the function that owns it
          mcError,    \* mc_errorCode
          call,       \* history: the call that has been answered last, see NoCall
          asked,      \* history: what each caller has asked for, see NotAsked
          word,       \* a word of a PLC, and what the last bit function made of it
          copy        \* history: the last copy of data

functionVars == <<axis, flag, mcError, call, asked, word, copy>>

\* Who has started the motion of the axis: a caller, or one of these.
Nobody == 0
AnotherClient == -1

Moves == {"abs", "rel", "vel", "home", "home_pos", "ext_pos"}

\* Two pairs of functions share a flag; all PLCs share all flags.
FlagOf == [f \in Moves \cup {"halt"} |->
    CASE f = "ext_pos" -> "abs" [] f = "home_pos" -> "home" [] OTHER -> f]

(***************************************************************************)
(* ecmcAxisBase::setExecute() and what it calls.  An axis that takes its   *)
(* position from elsewhere has no own motion.                              *)
(***************************************************************************)
Failed(a) == [axis |-> a, error |-> TRUE]
Done(a) == [axis |-> a, error |-> FALSE]

\* cmdData that the sequencer takes for a command.
Known(a) == a.command = "home" \/ a.cmdData = 0 \/ (a.command = "abs" /\ a.cmdData = 1)
Allowed(a) == [abs |-> a.enablePos, rel |-> a.enablePos, vel |-> a.enableVel,
               home |-> a.enableHome][a.command]

SeqSetExecute(a, on, by) ==
    LET b == [a EXCEPT !.execute = on]
    IN IF ~on THEN Done([b EXCEPT !.motion = Nobody])
       ELSE IF a.execute THEN Done(b)
       ELSE IF ~a.velocity \/ ~Allowed(a) \/ ~Known(a) THEN Failed(b)
       ELSE Done([b EXCEPT !.busy = TRUE, !.motion = by])

\* A position can be set without power.
SetPosition(a) == a.command = "home" /\ a.cmdData = "setpos"

SetExecute(a, on, by) ==
    IF a.source # "internal" THEN Done(a)
    ELSE IF on /\ ((~a.enable /\ ~SetPosition(a)) \/ (~a.executeOld /\ a.busy))
    THEN Failed(a)
    ELSE SeqSetExecute(a, on, by)

\* Taking the power away stops the motion.
SetEnable(a, on) ==
    IF on = a.enable THEN Done(a)
    ELSE LET b == IF on THEN a ELSE SetExecute(a, FALSE, Nobody).axis
         IN Done([b EXCEPT !.enable = on])

(***************************************************************************)
(* Motion functions.  A call has an answer, its error, and sets            *)
(* mc_errorCode; it may leave mc_errorCode as it is when it does nothing.  *)
(***************************************************************************)
\* A double is a trigger when it is not 0; the flag keeps its integer part, so that
\* below 1 every call is a rising edge.
IsSet(execute) == execute # 0
Kept(execute) == execute \div 2 # 0

\* The caller, 0 for none; whether "execute" has risen since its last call that got
\* through; whether another caller has its flag up, or has lowered it against it; who
\* had moved the axis before.
NoCall == [caller |-> 0, edge |-> FALSE, shared |-> FALSE, before |-> Nobody, error |-> FALSE]

\* The function of the caller, "execute" in its last call that got through, and whether
\* another caller has lowered the flag that the two of them share since.
NotAsked(f) == [function |-> f, execute |-> 0, lowered |-> FALSE]

Function(c) == asked[c].function
Flag(c) == FlagOf[Function(c)]
Sharing(c) == {d \in DOMAIN asked \ {c} : Flag(d) = Flag(c)}
Edge(c, execute) == IsSet(execute) /\ ~Kept(asked[c].execute)

Answer(c, execute, error) ==
    [caller |-> c, edge |-> Edge(c, execute), error |-> error, before |-> axis.motion,
     shared |-> IF Edge(c, execute) THEN \E d \in Sharing(c) : Kept(asked[d].execute)
                ELSE asked[c].lowered]

Asked(c, execute) ==
    [d \in DOMAIN asked |->
        IF d = c THEN [asked[c] EXCEPT !.execute = execute, !.lowered = FALSE]
        ELSE IF d \in Sharing(c) /\ ~Kept(execute) /\ Kept(asked[d].execute)
        THEN [asked[d] EXCEPT !.lowered = TRUE] ELSE asked[d]]

Called(c, execute, result) ==
    /\ axis' = result.axis
    /\ mcError' = result.error
    /\ call' = Answer(c, execute, result.error)
    /\ asked' = Asked(c, execute)
    /\ UNCHANGED <<word, copy>>

CalledInVain(c, execute) ==
    /\ call' = Answer(c, execute, FALSE)
    /\ asked' = Asked(c, execute)
    /\ UNCHANGED <<axis, flag, mcError, word, copy>>

Refused(error) ==
    /\ mcError' = error
    /\ call' = NoCall
    /\ UNCHANGED <<axis, flag, asked, word, copy>>

\* An index out of range clears mc_errorCode, one without an axis leaves it.
WrongAxis == \E range \in BOOLEAN : Refused(~range /\ mcError)
Blocked == ~axis.allow /\ Refused(TRUE)
NotInternal == axis.allow /\ axis.source # "internal" /\ Refused(TRUE)

Ready == axis.allow /\ axis.source = "internal"

\* The command, its parameters and the trigger of a rising edge.
Started(a, c, data, velocity) ==
    SetExecute([a EXCEPT !.velocity = velocity, !.cmdData = data, !.command = Flag(c)],
               TRUE, c)

DataOf(f) == IF f = "ext_pos" THEN {1}
             ELSE IF FlagOf[f] = "home" THEN {"switch", "setpos"} ELSE {0}

Trigger(c, execute) ==
    \E data \in DataOf(Function(c)), velocity \in BOOLEAN :
        Called(c, execute, Started(SetExecute(axis, FALSE, c).axis, c, data, velocity))

\* Mutant: an edge that is answered with an error is tried again in the next scan.
MoveAgain(c, execute) ==
    /\ Function(c) \in Moves /\ Ready
    /\ \/ /\ ~IsSet(execute)
          /\ flag' = [flag EXCEPT ![Flag(c)] = FALSE]
          /\ Called(c, execute, SetExecute(axis, FALSE, c))
       \/ /\ IsSet(execute) /\ ~flag[Flag(c)]
          /\ Trigger(c, execute)
          /\ flag' = [flag EXCEPT ![Flag(c)] = Kept(execute) /\ ~mcError']
       \/ IsSet(execute) /\ flag[Flag(c)] /\ Kept(execute) /\ CalledInVain(c, execute)

\* Without "execute" every call stops the axis; with it only a rising edge acts.
Move(c, execute) ==
    /\ Function(c) \in Moves /\ Ready
    /\ \/ /\ ~IsSet(execute)
          /\ flag' = [flag EXCEPT ![Flag(c)] = FALSE]
          /\ Called(c, execute, SetExecute(axis, FALSE, c))
       \/ /\ IsSet(execute) /\ ~flag[Flag(c)]
          /\ flag' = [flag EXCEPT ![Flag(c)] = Kept(execute)]
          /\ Trigger(c, execute)
       \/ IsSet(execute) /\ flag[Flag(c)] /\ Kept(execute) /\ CalledInVain(c, execute)

\* Without "execute" it stops the axis and forgets to lower its flag.
Halt(c, execute) ==
    /\ Function(c) = "halt" /\ Ready
    /\ \/ /\ ~IsSet(execute)
          /\ Called(c, execute, SetExecute(axis, FALSE, c))
          /\ UNCHANGED flag
       \/ /\ IsSet(execute) /\ ~flag["halt"]
          /\ flag' = [flag EXCEPT !["halt"] = Kept(execute)]
          /\ Called(c, execute, SetExecute(axis, FALSE, c))
       \/ IsSet(execute) /\ flag["halt"] /\ Kept(execute) /\ CalledInVain(c, execute)

\* These do not ask for the source.
Power(on) ==
    /\ axis.allow
    /\ axis' = SetEnable(axis, on).axis
    /\ mcError' = (mcError /\ on = axis.enable)
    /\ call' = NoCall
    /\ UNCHANGED <<flag, asked, word, copy>>

SetEnableMotionFuncs(pos, vel, home) ==
    /\ axis.allow
    /\ axis' = [axis EXCEPT !.enablePos = pos, !.enableVel = vel, !.enableHome = home]
    /\ call' = NoCall
    /\ UNCHANGED <<flag, mcError, asked, word, copy>>

\* Resets the errors of the axis, and mc_errorCode.
Reset ==
    /\ axis.allow
    /\ mcError' = FALSE
    /\ call' = NoCall
    /\ UNCHANGED <<axis, flag, asked, word, copy>>

\* The encoder is chosen without asking for the permission.
SelectEncoder(error) ==
    /\ ~error => ~axis.busy
    /\ mcError' = (mcError \/ error)
    /\ call' = NoCall
    /\ UNCHANGED <<axis, flag, asked, word, copy>>

(***************************************************************************)
(* Bits.  The 1 is shifted as an int and extended with its sign: from its  *)
(* last bit on it is no single bit of the word, and behind it the build    *)
(* decides.                                                                *)
(***************************************************************************)
Bits == 0..(WordBits - 1)
Words == SUBSET Bits

Shifted(b) ==
    IF b < IntBits - 1 THEN {{b}}
    ELSE {(IntBits - 1)..(WordBits - 1)} \cup
         (IF b < IntBits THEN {} ELSE {{}, {b - IntBits}})

\* A 1 of the word's own width: the field from "start" to "stop".
Field(start, stop) == start..stop

Worked(f, first, last, data, after) ==
    /\ word' = [function |-> f, first |-> first, last |-> last, data |-> data,
                before |-> word.value, value |-> after, error |-> FALSE]
    /\ UNCHANGED <<axis, flag, mcError, call, asked, copy>>

SetBit(b) == \E m \in Shifted(b) : Worked("set", b, b, {}, word.value \cup m)
ClearBit(b) == \E m \in Shifted(b) : Worked("clear", b, b, {}, word.value \ m)
FlipBit(b) ==
    \E m \in Shifted(b) :
        Worked("flip", b, b, {}, (word.value \ m) \cup (m \ word.value))

Up(bits, by) == {b + by : b \in bits}

\* Mutant: the value is not cut to the field.
WriteBitsWhole(start, stop, data) ==
    Worked("write", start, stop, data,
           (word.value \ Field(start, stop)) \cup (Up(data, start) \cap Bits))

\* Writes the low bits of a value into a field; stop < start - 1 is undefined.
WriteBits(start, stop, data) ==
    /\ start <= stop + 1
    /\ Worked("write", start, stop, data,
              (word.value \ Field(start, stop)) \cup
              (Up(data, start) \cap Field(start, stop)))

\* ec_chk_bit() and ec_chk_bits(): what they answer.
CheckBit(value, b) == {m \cap value # {} : m \in Shifted(b)}
CheckBits(value, start, stop) == Up(value \cap Field(start, stop), -start)

\* A bit out of range: the value is answered as it is.
WrongBit ==
    /\ word' = [word EXCEPT !.function = "none", !.error = TRUE]
    /\ UNCHANGED <<axis, flag, mcError, call, asked, copy>>

(***************************************************************************)
(* Copies                                                                  *)
(***************************************************************************)
Copied(from, count, source, room) ==
    /\ copy' = [from |-> from, count |-> count, source |-> source, room |-> room]
    /\ UNCHANGED <<axis, flag, mcError, call, asked, word>>

\* ec_mm_cp(): as many bytes as both maps have.
CopyMap(source, room) == Copied(0, Min({source, room}), source, room)

\* ec_mm_append_to_ds(): element by element; the storage takes what it can.
AppendMap(source) == Copied(0, source, source, source)

\* Mutant: the position is forgotten.
AppendStorageWhole(from, elements, source) ==
    /\ from \in 0..(source - 1)
    /\ LET n == Min({elements, source}) IN Copied(from, n, source, n)

\* ds_append_to_ds(): from a position, as many as the source has there.
AppendStorage(from, elements, source) ==
    /\ from \in 0..(source - 1)
    /\ LET n == IF from + elements >= source THEN source - from ELSE elements
       IN Copied(from, n, source, n)

(***************************************************************************)
(* What goes on around them                                                *)
(***************************************************************************)
\* A cycle of the axis; a motion may end, or be ended by an interlock or a loss of power.
AxisCycle ==
    /\ axis' \in {[axis EXCEPT !.executeOld = axis.execute],
                  [axis EXCEPT !.executeOld = axis.execute, !.motion = Nobody,
                               !.busy = FALSE],
                  [SetEnable(axis, FALSE).axis EXCEPT !.executeOld = FALSE]}
    /\ call' = NoCall
    /\ UNCHANGED <<flag, mcError, asked, word, copy>>

\* Another client stops the axis, moves it, or changes its source or the permission.
Client ==
    /\ \/ axis' = SetExecute(axis, FALSE, Nobody).axis
       \/ axis.command # "home"
          /\ axis' = SetExecute([axis EXCEPT !.velocity = TRUE], TRUE, AnotherClient).axis
       \/ axis' = [axis EXCEPT !.allow = ~@]
       \/ axis.source = "internal" /\ ~axis.enable
          /\ axis' = [axis EXCEPT !.source = "external", !.busy = TRUE,
                                  !.execute = TRUE, !.motion = Nobody]
       \/ axis.source = "external"
          /\ axis' = [axis EXCEPT !.source = "internal", !.busy = @ /\ axis.enable,
                                  !.execute = @ /\ axis.enable]
    /\ call' = NoCall
    /\ UNCHANGED <<flag, mcError, asked, word, copy>>

\* The callers differ in their function only: they are taken in its order.
Functions == <<"abs", "ext_pos", "rel", "vel", "home", "home_pos", "halt">>
Ordered == {f \in [Callers -> DOMAIN Functions] : \A c, d \in Callers : c < d => f[c] <= f[d]}

FunctionInit ==
    /\ axis = [allow |-> TRUE, source |-> "internal", enable |-> FALSE,
               execute |-> FALSE, executeOld |-> FALSE, busy |-> FALSE,
               command |-> "vel", cmdData |-> 0, velocity |-> FALSE,
               enablePos |-> TRUE, enableVel |-> TRUE, enableHome |-> TRUE,
               motion |-> Nobody]
    /\ flag = [f \in {"abs", "rel", "vel", "home", "halt"} |-> FALSE]
    /\ mcError = FALSE
    /\ call = NoCall
    /\ asked \in {[c \in Callers |-> NotAsked(Functions[f[c]])] : f \in Ordered}
    /\ word \in [function : {"none", "off"}, first : {0}, last : {0}, data : {{}},
                 before : {{}}, value : Words, error : {FALSE}]
    /\ \/ word.function = "off" /\ word.value = {}
       \/ /\ word.function = "off" => word.value = Bits
          /\ \A c \in Callers : Function(c) = "halt"
    /\ copy = [from |-> 0, count |-> 0, source |-> 0, room |-> 0]

MotionFunctions ==
    \/ \E c \in Callers, execute \in Triggers : Move(c, execute) \/ Halt(c, execute)
    \/ WrongAxis \/ Blocked \/ NotInternal
    \/ \E on \in BOOLEAN : Power(on) \/ SelectEncoder(on)
    \* Bound: all or none.
    \/ \E on \in BOOLEAN : SetEnableMotionFuncs(on, on, on)
    \/ Reset

BitFunctions ==
    \/ \E b \in Bits : SetBit(b) \/ ClearBit(b) \/ FlipBit(b)
    \/ \E start, stop \in Bits, data \in Words : WriteBits(start, stop, data)
    \/ WrongBit

CopyFunctions ==
    \E source \in Sizes :
        \/ \E room \in Sizes : CopyMap(source, room)
        \/ AppendMap(source)
        \/ \E from, elements \in 0..Max(Sizes) : AppendStorage(from, elements, source)

\* Bound: a behaviour calls the functions of one library; the others are independent.
FunctionNext ==
    \/ word.function = "off" /\ word.value = {} /\ (MotionFunctions \/ AxisCycle \/ Client)
    \/ word.function = "off" /\ word.value = Bits /\ CopyFunctions
    \/ word.function # "off" /\ BitFunctions

FunctionSpec == FunctionInit /\ [][FunctionNext]_functionVars

-----------------------------------------------------------------------------
\* A motion that a PLC has started goes on only while "execute" was TRUE in the last
\* call of its function that got through to the axis.
MotionIsAsked == axis.motion \in Callers => IsSet(asked[axis.motion].execute)

\* A rising edge of "execute" that is answered without an error moves the axis; only if
\* another caller holds the flag up that the two share nothing moves.  Mc_halt() is left
\* out: its flag stays up after its first edge, so that its later edges do nothing.
EdgeMoves ==
    call.caller # 0 /\ Function(call.caller) \in Moves /\ call.edge /\ ~call.error =>
        call.shared \/ axis.motion = call.caller

\* A motion starts with a rising edge of its caller: one that was answered with an error,
\* was interlocked or lost the power is not started again by the calls that follow;
\* only if another caller has lowered the flag that the two share.
OnlyEdgesMove ==
    call.caller # 0 /\ axis.motion = call.caller =>
        call.edge \/ call.before = call.caller \/ call.shared

\* A bit function changes its own bits, and only them, as long as the bit is none of
\* the last one of an int and those behind it.
OnlyItsBits ==
    word.function \notin {"none", "off"} /\ (word.function = "write" \/ word.first < IntBits - 1) =>
        LET own == Field(word.first, word.last)
            seen == CheckBits(word.value, word.first, word.last)
        IN /\ word.value \ own = word.before \ own
           /\ word.function = "set" => CheckBit(word.value, word.first) = {TRUE}
           /\ word.function = "clear" => CheckBit(word.value, word.first) = {FALSE}
           /\ word.function = "flip" =>
                  CheckBit(word.value, word.first) # CheckBit(word.before, word.first)
           /\ word.function = "write" => seen = word.data \cap Field(0, word.last - word.first)

\* No copy reads behind its source or writes behind its destination.
CopiesInside == copy.from + copy.count <= copy.source /\ copy.count <= copy.room

FunctionsSafe == MotionIsAsked /\ EdgeMoves /\ OnlyEdgesMove /\ OnlyItsBits /\ CopiesInside
=============================================================================
