--------------------------------- MODULE Plc ---------------------------------
(***************************************************************************)
(* A PLC of the controller (plc/ecmcPLCMain.cpp, ecmcPLCTask.cpp and their *)
(* commands in plc/ecmcPLC.cpp): how its expression is collected, parsed   *)
(* and compiled, and when it is run.  The other PLCs are seen in the       *)
(* errors they cause when the realtime thread starts.  Commands of the     *)
(* shell are taken between two cycles.  exprtk is external: an expression  *)
(* compiles when it is not empty and all of its lines are good, and a name *)
(* that exprtk knows already may be refused.                               *)
(***************************************************************************)
EXTENDS Integers, Sequences, FiniteSets, SequencesExt

CONSTANTS Lines,        \* [names |-> sequence of variables, good |-> it compiles]
          CycleTimes,   \* cycle times asked for, in halves of a cycle; -1 is the default
          MaxVariables, \* ECMC_MAX_PLC_VARIABLES - 1
          MaxText       \* bound on the lines of an expression

VARIABLES plc,     \* plcs_[i]: NoTask or the members of ecmcPLCTask
          var,     \* its enable, scantime and firstscan in globalDataArray_
          globals, \* the names of globalDataArray_
          running, \* the realtime thread runs
          scans,   \* history: the scans of the task
          program  \* history: what the commands have loaded, see NoProgram

plcVars == <<plc, var, globals, running, scans, program>>

NoTask == [created |-> FALSE]

NewTask(skip) ==
    [created |-> TRUE, raw |-> <<>>, text |-> <<>>, newExpr |-> FALSE,
     compiled |-> FALSE, skip |-> skip, counter |-> 0, startup |-> TRUE,
     firstScanDone |-> FALSE, locals |-> {}, registered |-> {}, known |-> {}]

NoScan == [runs |-> 0, first |-> FALSE, calls |-> 0, gap |-> 0, steady |-> TRUE]

\* The lines the expression is to have, and those appended since, which a compilation
\* is to take instead; whether there was an append since the last one that worked.
\* "failed": a start that failed has put the lines into the expression already.
\* "lost": a start found lines that were appended after a compilation and dropped them,
\* or SetExpr's line was dropped for lines appended before; "cleared": the shell has
\* started to load anew.
NoProgram == [lines |-> <<>>, next |-> <<>>, appended |-> FALSE, failed |-> FALSE, lost |-> "no"]

PlcInit ==
    /\ plc = NoTask
    /\ var = [made |-> FALSE, enable |-> FALSE, scantime |-> 0,
              firstscan |-> FALSE]
    /\ globals = {}
    /\ running = FALSE
    /\ scans = NoScan
    /\ program = NoProgram

(***************************************************************************)
(* Variables                                                               *)
(***************************************************************************)
\* The variables that exist when a PLC is created.
Default == [k \in 1..4 |->
    [class |-> "global", exists |-> TRUE,
     id |-> <<"enable", "error", "scantime", "firstscan">>[k]]]

\* parseExpr() looks for the classes one after the other.
Classes == <<"axis", "ec", "static", "global", "plc", "ds">>

NamesIn(lines) == FlattenSeq([k \in DOMAIN lines |-> lines[k].names])

Ordered(lines) ==
    FlattenSeq([c \in DOMAIN Classes |->
        SelectSeq(NamesIn(lines), LAMBDA n : n.class = Classes[c])])

\* Adds a name to the variables of exprtk.  "again": it takes a name it knows.
Known(parse, n, again) ==
    IF n \in parse.known /\ ~again THEN [parse EXCEPT !.error = TRUE]
    ELSE [parse EXCEPT !.known = @ \cup {n}]

AddLocal(parse, n, again) ==
    IF n \in parse.locals THEN parse
    ELSE IF Cardinality(parse.locals) >= MaxVariables
    THEN [parse EXCEPT !.error = TRUE]
    ELSE LET p == Known(parse, n, again)
         IN IF p.error THEN p ELSE [p EXCEPT !.locals = @ \cup {n}]

AddGlobal(parse, n, again) ==
    IF ~n.exists \/ (n \notin parse.globals /\ Cardinality(parse.globals) >= MaxVariables)
    THEN [parse EXCEPT !.error = TRUE]
    ELSE LET p == [parse EXCEPT !.globals = @ \cup {n}]
         IN IF n \in p.registered THEN p
            ELSE [Known(p, n, again) EXCEPT !.registered =
                      IF Known(p, n, again).error THEN @ ELSE @ \cup {n}]

\* The first name that fails ends the search; what was added before it stays.
Register(task, names, again) ==
    FoldLeft(LAMBDA parse, n : IF parse.error THEN parse
                               ELSE IF n.class = "static" THEN AddLocal(parse, n, again)
                               ELSE AddGlobal(parse, n, again),
             [locals |-> task.locals, registered |-> task.registered,
              known |-> task.known, globals |-> globals, error |-> FALSE],
             names)

WithNames(task, parse) ==
    [task EXCEPT !.locals = parse.locals, !.registered = parse.registered,
                 !.known = parse.known]

(***************************************************************************)
(* Expressions: each takes a task and returns [task, globals, error].      *)
(***************************************************************************)
Result(task, all, error) == [task |-> task, globals |-> all, error |-> error]

AddExprLine(task, lines, again) ==
    LET parse == Register(task, Ordered(lines), again)
        t == WithNames(task, parse)
    IN IF parse.error THEN Result(t, parse.globals, TRUE)
       ELSE Result([t EXCEPT !.text = @ \o lines, !.compiled = FALSE],
                   parse.globals, FALSE)

Good(lines) == lines # <<>> /\ \A k \in DOMAIN lines : lines[k].good

Compile(done) ==
    IF Good(done.task.text)
    THEN [done EXCEPT !.task = [@ EXCEPT !.compiled = TRUE, !.newExpr = FALSE,
                                         !.raw = <<>>]]
    ELSE [done EXCEPT !.task = [@ EXCEPT !.compiled = FALSE], !.error = TRUE]

\* The local variables are deleted; exprtk still knows their names.
Cleared(task) == [task EXCEPT !.text = <<>>, !.compiled = FALSE, !.locals = {}]

\* Mutant: the lines appended do not replace what was there.
CompileExprAdds(task, again) ==
    IF ~task.newExpr THEN Result(task, globals, FALSE)
    ELSE LET added == AddExprLine(task, task.raw, again)
         IN IF added.error THEN added ELSE Compile(added)

CompileExpr(task, again) ==
    IF ~task.newExpr THEN Result(task, globals, FALSE)
    ELSE LET added == AddExprLine(Cleared(task), task.raw, again)
         IN IF added.error THEN added ELSE Compile(added)

(***************************************************************************)
(* The commands                                                            *)
(***************************************************************************)
Have == plc.created

\* Cycles that are skipped for a cycle time; a time below a cycle is refused.
SkipCycles(t) == IF t = -1 THEN 0 ELSE t \div 2 - 1

\* What was at the index is deleted; its variables keep their values and their room.
CreatePLC(t) ==
    /\ t = -1 \/ t >= 2
    /\ LET parse == Register(NewTask(SkipCycles(t)), Default, FALSE)
       IN /\ plc' = WithNames(NewTask(SkipCycles(t)), parse)
          /\ globals' = parse.globals
          /\ var' = IF parse.error THEN var
                    ELSE [var EXCEPT !.made = TRUE, !.scantime = SkipCycles(t) + 1,
                                     !.firstscan = TRUE]
    /\ scans' = NoScan
    /\ program' = NoProgram
    /\ UNCHANGED <<running>>

DeletePLC ==
    /\ Have
    /\ plc' = NoTask
    /\ program' = NoProgram
    /\ UNCHANGED <<var, globals, running, scans>>

Appended(lines) == [plc EXCEPT !.raw = @ \o lines, !.newExpr = TRUE]

\* Bound: what is appended after a loss is not kept until it is cleared.
Loaded(lines) == [program EXCEPT !.appended = TRUE,
                                 !.next = IF program.lost = "yes" THEN @ ELSE @ \o lines]

Room(lines) == Len(plc.raw) + Len(plc.text) + Len(lines) <= MaxText

AppendExprLine(line) ==
    /\ Have /\ Room(<<line>>)
    /\ plc' = Appended(<<line>>)
    /\ program' = Loaded(<<line>>)
    /\ UNCHANGED <<var, globals, running, scans>>

\* A PLC that is loaded from a file is enabled.
LoadPLCFile(lines) ==
    /\ Have /\ var.made /\ Room(lines)
    /\ plc' = Appended(lines)
    /\ var' = [var EXCEPT !.enable = TRUE]
    /\ program' = Loaded(lines)
    /\ UNCHANGED <<globals, running, scans>>

ClearExpr ==
    /\ Have
    /\ plc' = [plc EXCEPT !.raw = <<>>]
    /\ program' = [program EXCEPT !.next = <<>>, !.lost = IF @ = "no" THEN @ ELSE "cleared"]
    /\ UNCHANGED <<var, globals, running, scans>>

Take(done) == plc' = done.task /\ globals' = done.globals

\* History: the lines appended are the program now, if they compile.
Replaced(works) ==
    [lines |-> IF works THEN program.next ELSE <<>>,
     next |-> IF works THEN <<>> ELSE program.next,
     appended |-> ~works, failed |-> FALSE,
     lost |-> IF program.lost = "cleared" THEN "no" ELSE program.lost]

CompilePLC(again) ==
    /\ Have
    /\ Take(CompileExpr(plc, again))
    /\ program' = IF program.appended THEN Replaced(plc'.compiled) ELSE program
    /\ UNCHANGED <<var, running, scans>>

\* compileExpr() then drops this expression for the lines appended, or does nothing.
SetExpr(line, again) ==
    /\ Have
    /\ LET added == AddExprLine(Cleared(plc), <<line>>, again)
           done == CompileExpr(added.task, again)
       IN /\ Take(IF added.error THEN added
                  ELSE [done EXCEPT !.globals = @ \cup added.globals])
          /\ program' =
                 [program EXCEPT !.lines = IF added.error THEN <<>> ELSE <<line>>,
                     !.failed = FALSE, !.appended = @ /\ ~plc'.compiled,
                     !.lost = IF program.appended /\ ~added.error THEN "yes" ELSE @]
    /\ UNCHANGED <<var, running, scans>>

\* Before the variable is made the code uses a pointer that is NULL.
SetEnable(value) ==
    /\ Have /\ var.made
    /\ var' = [var EXCEPT !.enable = value]
    /\ UNCHANGED <<plc, globals, running, scans, program>>

(***************************************************************************)
(* validate() at the start of the realtime thread: what is not compiled    *)
(* gets the lines appended, and then every expression is compiled.  The    *)
(* first error ends it: "fails" is where another PLC has one, if any does. *)
(***************************************************************************)
Adding(again) ==
    IF ~Have \/ plc.compiled THEN Result(plc, globals, FALSE)
    ELSE AddExprLine(plc, plc.raw, again)

Compiling(added) == IF ~added.task.created \/ added.task.text = <<>> THEN added ELSE Compile(added)

Validated(fails, again) ==
    LET added == Adding(again)
    IN CASE fails = "before" -> Result(plc, globals, TRUE)
         [] fails = "between" \/ (fails # "before" /\ added.error) -> [added EXCEPT !.error = TRUE]
         [] fails = "after" /\ ~added.error -> [Compiling(added) EXCEPT !.error = TRUE]
         [] fails = "none" /\ ~added.error -> Compiling(added)

Validate(fails, again) ==
    /\ ~running
    /\ Have => Len(plc.raw) + Len(plc.text) <= MaxText
    /\ LET done == Validated(fails, again)
       IN /\ Take(done)
          /\ running' = ~done.error
          /\ program' =
                 CASE ~Have -> program
                   [] Have /\ plc.compiled ->
                      IF fails \notin {"none", "after"} THEN program
                      ELSE [program EXCEPT !.appended = FALSE,
                                !.lost = IF program.next = <<>> THEN @ ELSE "yes"]
                   [] Have /\ ~plc.compiled ->
                      IF done.task.compiled
                      THEN [program EXCEPT !.lines = @ \o program.next, !.next = <<>>,
                                           !.appended = FALSE]
                      ELSE [program EXCEPT !.failed = @ \/ done.task.text # plc.text]
          /\ var' = IF Have /\ var.made
                    THEN [var EXCEPT !.scantime = plc.skip + 1] ELSE var
    /\ UNCHANGED scans

StopRealtime ==
    /\ running
    /\ running' = FALSE
    /\ UNCHANGED <<plc, var, globals, scans, program>>

(***************************************************************************)
(* A cycle                                                                 *)
(***************************************************************************)
\* Mutant: one cycle late.
DueLate == plc.compiled /\ plc.counter > plc.skip

\* It is the turn of the task, once every skip + 1 calls.
Due == plc.compiled /\ plc.counter >= plc.skip

Runs(ecOK) == Due /\ (ecOK \/ ~plc.startup)

\* The counter is not bounded in the code while nothing is compiled.
Executed(ecOK) ==
    IF ~Due THEN [plc EXCEPT !.counter = IF @ <= plc.skip THEN @ + 1 ELSE @]
    ELSE [plc EXCEPT !.counter = 0, !.startup = @ /\ ~ecOK,
                     !.firstScanDone = @ \/ Runs(ecOK)]

\* History: the scans and the calls between them.
Scanned(ecOK) ==
    LET calls == IF scans.calls <= plc.skip + 1 THEN scans.calls + 1 ELSE scans.calls
        steady == plc.compiled /\ (scans.calls = 0 \/ scans.steady)
    IN IF Runs(ecOK)
       THEN [runs |-> IF scans.runs < 2 THEN scans.runs + 1 ELSE 2, steady |-> steady,
             first |-> var.firstscan, calls |-> 0,
             gap |-> IF scans.runs = 0 THEN 0 ELSE calls]
       ELSE IF scans.runs = 0 THEN scans
       ELSE [scans EXCEPT !.calls = calls, !.gap = 0, !.steady = steady]

Cycle(ecOK) ==
    /\ running
    /\ Have /\ var.made /\ var.enable
    /\ plc' = Executed(ecOK)
    /\ var' = [var EXCEPT !.firstscan = IF ecOK THEN ~plc'.firstScanDone ELSE @]
    /\ scans' = Scanned(ecOK)
    /\ UNCHANGED <<globals, running, program>>

PlcNext ==
    \/ \E t \in CycleTimes \cup {-1} : CreatePLC(t)
    \/ \E line \in Lines : AppendExprLine(line) \/ LoadPLCFile(<<line>>)
    \/ \E again \in BOOLEAN : CompilePLC(again)
    \/ \E line \in Lines, again \in BOOLEAN : SetExpr(line, again)
    \/ \E value \in BOOLEAN : SetEnable(value)
    \/ DeletePLC \/ ClearExpr
    \/ \E fails \in {"none", "before", "between", "after"}, again \in BOOLEAN :
           Validate(fails, again)
    \/ StopRealtime
    \/ \E ecOK \in BOOLEAN : Cycle(ecOK)

PlcSpec == PlcInit /\ [][PlcNext]_plcVars

(***************************************************************************)
(* Properties                                                              *)
(***************************************************************************)
\* A task that stays compiled scans once every skip + 1 calls, and a task never scans
\* sooner, whatever is compiled, disabled or enabled in between.
ScansInTime ==
    scans.gap > 0 /\ Have =>
        /\ scans.gap > plc.skip
        /\ scans.steady => scans.gap = plc.skip + 1

\* The expression sees firstscan in the first scan of its task and in no other.
FirstScanIsFirst == scans.runs > 0 => (scans.first <=> scans.runs = 1)

\* A compiled expression has the lines that were loaded, each of them once, and uses only
\* variables that exist; what was appended since waits for the next compilation.  Two
\* exceptions: after a start that failed the lines may come twice; and after lines were
\* lost (NoProgram says how) nothing is said until the shell clears and loads them again.
RunsWhatWasLoaded ==
    Have =>
        /\ program.lost = "yes" \/ plc.raw = program.next
        /\ plc.compiled =>
              /\ program.failed \/ program.lost # "no" \/ plc.text = program.lines
              /\ ToSet(NamesIn(plc.text)) \subseteq plc.locals \cup plc.registered
              /\ plc.registered \subseteq globals

\* What a PLC promises to the program that is loaded into it.
PlcSafe == ScansInTime /\ FirstScanIsFirst /\ RunsWhatWasLoaded
=============================================================================
