------------------------------- MODULE PlcData -------------------------------
(***************************************************************************)
(* The variables of a PLC (plc/ecmcPLCDataIF.cpp) in its scan: all are     *)
(* read, the expression is run, and the ones it has changed are written,   *)
(* in the order they were registered.  One variable of an axis, a data     *)
(* storage or the bus is followed, together with the permission of the     *)
(* axis, which a PLC can write as well.  Clients give commands at any      *)
(* time; nothing holds them back during a scan.  Values are in halves, so  *)
(* that 1 is a number between FALSE and TRUE.                              *)
(***************************************************************************)
EXTENDS Integers, Sequences, SequencesExt

CONSTANT Values      \* the numbers of the expressions, in halves

VARIABLES name,      \* the variable followed
          table,     \* the variables of the PLC in their order
          datum,     \* what the variable stands for, and the permission of the axis
          status,    \* the copy that the axis makes of it at the end of its cycle
          var,       \* data_ and dataRead_ of each variable
          at,        \* 0: between two scans; n: write() of the n-th is next;
                     \* -1: the expression is next
          scan       \* history: what the expression was shown of the variable in this
                     \* scan, whether it has assigned it, and what

dataVars == <<name, table, datum, status, var, at, scan>>

One == 2
NaN == 99
Permission == "allowplccmd"

(***************************************************************************)
(* What can be named, and where it is read                                 *)
(***************************************************************************)
\* Status that nothing writes.
Status == {"id", "cntrl.poserror", "enc.rawpos", "cntrl.output", "traj.setvel",
           "enc.actvel", "traj.setvelffraw", "drv.setvelraw", "counter", "error",
           "seq.state", "drv.enabled", "traj.busy", "mon.attarget", "mon.lowlim",
           "mon.highlim", "mon.homesensor", "traj.dir", "traj.extsetpos",
           "enc.extactpos"}

\* Read from the copy; what is written is a command of the same datum.
Copied == {"traj.targetpos", "traj.command", "traj.cmddata", "traj.source",
           "enc.source", "drv.enable", "traj.execute", "enc.homed"}

\* Read from the copy; what is written is something else: the external position,
\* the interlock of the PLC.
Blocking == {"mon.ilock", "mon.ilockfwd", "mon.ilockbwd"}
Other == {"traj.setpos", "enc.actpos"} \cup Blocking

\* Read where it is written.
Gains == {"ctrl.kp", "ctrl.ki", "ctrl.kd", "ctrl.kff"}
Direct == {"traj.targetvel", "traj.targetacc", "traj.targetdec",
           "mon.lowsoftlim", "mon.highsoftlim", "mon.lowsoftlimenable",
           "mon.highsoftlimenable", "enc.homepos", "blockcom"} \cup Gains

OfAxis == Status \cup Copied \cup Other \cup Direct \cup {"reset"}

\* A storage: the position, the size and the element that the position points at.
OfStorage == {"ds.size", "ds.index", "ds.data", "ds.append", "ds.clear",
              "ds.error", "ds.full"}

Names == OfAxis \cup OfStorage \cup {"ec"}

\* isBool_: only the step over 0 counts as a change.
Bool == {"traj.source", "enc.source", "drv.enable", "drv.enabled", "traj.execute",
         "traj.busy", "mon.attarget", "enc.homed", "mon.lowlim", "mon.highlim",
         "mon.homesensor", "reset", "mon.lowsoftlimenable",
         "mon.highsoftlimenable", "blockcom", "mon.ilockfwd", "mon.ilockbwd",
         Permission, "ds.clear", "ds.full"}

(***************************************************************************)
(* What is written                                                         *)
(***************************************************************************)
Truth(b) == IF b THEN One ELSE 0

\* The integer part, towards 0.
Whole(v) == IF v < 0 THEN -((-v) \div One) * One ELSE (v \div One) * One

\* What a value becomes behind the setters.
Stored(n, v) ==
    CASE n \in {"traj.source", "enc.source", "blockcom", Permission} -> Truth(v >= One)
      [] n \in {"drv.enable", "traj.execute", "enc.homed",
                "mon.lowsoftlimenable", "mon.highsoftlimenable"} -> Truth(v # 0)
      [] n \in Blocking -> Truth(v # 0)
      [] n \in {"traj.command", "traj.cmddata", "ds.size", "ds.index"} -> Whole(v)
      [] OTHER -> v

\* The setter may have a reason to refuse.
MayRefuse == {"traj.source", "enc.source", "drv.enable", "traj.execute",
              "ds.size", "ds.index", "ds.data", "ds.append", "ec"} \cup Gains

\* A reset, a cleared buffer and an appended value need a value of their own kind.
Takes(n, v) ==
    CASE n \in Status \cup {"ds.error", "ds.full"} -> FALSE
      [] n = "ds.append" -> v # NaN
      [] n = "reset" -> v # 0
      [] n = "ds.clear" -> v # NaN /\ v > 0
      [] OTHER -> TRUE

(***************************************************************************)
(* The scan                                                                *)
(***************************************************************************)
\* What read() finds: the copy, the object, or nothing to read.
Seen(n) ==
    CASE n = Permission -> Truth(datum.allow)
      [] n \in Status \cup Copied \cup Other \cup {"ds.error", "ds.full"} -> status
      [] n = "reset" -> 0
      [] n \in {"ds.append", "ds.clear"} -> NaN
      [] OTHER -> datum.value

Positive(v) == v # NaN /\ v > 0

\* NaN is not equal to itself.
Unchanged(n, x) ==
    \/ x.data = x.read /\ x.data # NaN
    \/ n \in Bool /\ Positive(x.data) = Positive(x.read)

Permitted(n) == n \notin OfAxis \/ datum.allow

\* read() fails without an error for the PLC: what the expression sees is old.
MayFail == {"ds.data", "ec"}

\* What the expression sees of a variable: what was found, or what it was before.
Shown(n, failed) == IF n \in failed THEN var[n].data ELSE Seen(n)

\* Mutant: dataRead_ is not refreshed.
ReadForgets ==
    /\ at = 0
    /\ \E failed \in SUBSET ({name} \cap MayFail) :
           /\ var' = [n \in DOMAIN var |-> [data |-> Shown(n, failed), read |-> var[n].read]]
           /\ scan' = [shown |-> Shown(name, failed), set |-> FALSE, value |-> 0]
    /\ at' = -1
    /\ UNCHANGED <<name, table, datum, status>>

Read ==
    /\ at = 0
    /\ \E failed \in SUBSET ({name} \cap MayFail) :
           /\ var' = [n \in DOMAIN var |->
                         [data |-> Shown(n, failed), read |-> Shown(n, failed)]]
           /\ scan' = [shown |-> Shown(name, failed), set |-> FALSE, value |-> 0]
    /\ at' = -1
    /\ UNCHANGED <<name, table, datum, status>>

\* The expression assigns some of the variables.
Refresh ==
    /\ at = -1
    /\ \E set \in SUBSET DOMAIN var :
           \E v \in [set -> Values] :
               /\ var' = [n \in DOMAIN var |->
                             IF n \in set THEN [var[n] EXCEPT !.data = v[n]] ELSE var[n]]
               /\ scan' = [shown |-> scan.shown, set |-> name \in set,
                           value |-> IF name \in set THEN v[name] ELSE 0]
    /\ at' = 1
    /\ UNCHANGED <<name, table, datum, status>>

WriteTo(n, v) ==
    IF n = Permission THEN datum' = [datum EXCEPT !.allow = v >= One]
    ELSE \/ datum' = [datum EXCEPT !.value = Stored(n, v)]
         \/ n \in MayRefuse /\ datum' = datum

Following == IF at = Len(table) THEN 0 ELSE at + 1

Write ==
    /\ at \in DOMAIN table
    /\ LET n == table[at]
           v == var[n].data
       IN IF Unchanged(n, var[n]) \/ ~Permitted(n) \/ ~Takes(n, v)
          THEN datum' = datum ELSE WriteTo(n, v)
    /\ at' = Following
    /\ UNCHANGED <<name, table, status, var, scan>>

\* The axis ends its cycle: what it shows may have other reasons than the PLC's.
AxisCycle ==
    /\ at = 0
    /\ status' \in CASE name \in Copied -> {datum.value}
                     [] name \in Blocking -> {0, datum.value}
                     [] OTHER -> Values
    /\ UNCHANGED <<name, table, datum, var, at, scan>>

(***************************************************************************)
(* Clients                                                                 *)
(***************************************************************************)
ClientWrites ==
    /\ \/ name \notin Status /\ \E v \in Values : datum' = [datum EXCEPT !.value = Stored(name, v)]
       \/ \E on \in BOOLEAN : datum' = [datum EXCEPT !.allow = on]
    /\ UNCHANGED <<name, table, status, var, at, scan>>

DataInit ==
    /\ name \in Names
    /\ table \in {<<name, Permission>>, <<Permission, name>>}
    /\ datum \in [value : {0}, allow : BOOLEAN]
    /\ status = datum.value
    /\ var = [n \in ToSet(table) |-> [data |-> 0, read |-> 0]]
    /\ at = 0
    /\ scan = [shown |-> 0, set |-> FALSE, value |-> 0]

DataNext == Read \/ Refresh \/ Write \/ AxisCycle \/ ClientWrites

DataSpec == DataInit /\ [][DataNext]_dataVars

-----------------------------------------------------------------------------
\* The expression has asked for a change in this scan: it has assigned something else than
\* it was shown; of a Boolean, on the other side of 0.
Asked ==
    /\ scan.set
    /\ scan.value # scan.shown
    /\ name \in Bool => Positive(scan.value) # Positive(scan.shown)

\* When the variables are written a datum changes only if the expression has asked for it
\* in this scan, only to what was assigned, and only while the axis takes commands from
\* PLCs: by now, whatever was allowed when it was read.  What clients have done to it
\* since the read stays otherwise.  And what was asked for is done, unless the one who
\* is asked does not take it.
ChangesWhatItSet ==
    at > 0 /\ at' # at =>
        /\ datum'.value # datum.value =>
              /\ Asked /\ datum'.value = Stored(name, scan.value)
              /\ name \in OfAxis => datum.allow
        /\ table[at] = name /\ Asked /\ Permitted(name) /\ Takes(name, scan.value) =>
              datum'.value = Stored(name, scan.value) \/ name \in MayRefuse
=============================================================================
