--------------------------- MODULE DriveBaseProofs ---------------------------
(***************************************************************************)
(* What one writeEntries() of the base class does to the brake, for every  *)
(* delay and time out: the lemmas behind the theorems about the two drive  *)
(* types.                                                                  *)
(***************************************************************************)
EXTENDS DriveBase, TLAPS

-----------------------------------------------------------------------------
(* The counters are the only numbers of the drive's state.  The leaves     *)
(* below are about records or about numbers, never about both.             *)

\* The constructor's counters are in range.
LEMMA CountersStart == 0 \in BrakeCounters /\ 0 \in TimeoutCounters
BY DriveAssumption DEF DriveAssumption, BrakeCounters, TimeoutCounters

\* A counter of the brake in its range keeps the drive's types.
LEMMA BrakeCounterType ==
    ASSUME NEW d \in DriveState, NEW n \in BrakeCounters
    PROVE  [d EXCEPT !.brakeCounter = n] \in DriveState
BY DEF DriveState

\* So does a counter of the time out.
LEMMA TimeoutCounterType ==
    ASSUME NEW d \in DriveState, NEW n \in TimeoutCounters
    PROVE  [d EXCEPT !.cycleCounterBase = n] \in DriveState
BY DEF DriveState

-----------------------------------------------------------------------------
(* The steps after updateBrakeState() keep the types and the brake.        *)

SameBrake(d, e) ==
    /\ e.brakeState = d.brakeState
    /\ e.brakeCounter = d.brakeCounter
    /\ e.brakeOutputCmd = d.brakeOutputCmd
    /\ e.enableAmpCmd = d.enableAmpCmd
    /\ e.localEnabled = d.localEnabled

\* The interlock check only takes the enable command away (writeEntries).
LEMMA InterlocksKeepBrake ==
    ASSUME NEW d \in DriveState, NEW ok \in BOOLEAN
    PROVE  /\ CheckInterlocks(d, ok) \in DriveState
           /\ SameBrake(d, CheckInterlocks(d, ok))
BY DEF CheckInterlocks, DriveState, SameBrake

\* The time out counts no further than its limit, and does not touch the brake.
LEMMA TimeoutKeepsBrake ==
    ASSUME NEW d \in DriveState
    PROVE  /\ CheckTimeout(d) \in DriveState
           /\ SameBrake(d, CheckTimeout(d))
<1>1. CASE d.localEnabled \/ ~d.enable
  BY <1>1, CountersStart DEF CheckTimeout, DriveState, SameBrake
<1>2. CASE ~(d.localEnabled \/ ~d.enable) /\ TimesOut(d)
  BY <1>2, CountersStart DEF CheckTimeout, DriveState, SameBrake
<1>3. CASE ~(d.localEnabled \/ ~d.enable) /\ ~TimesOut(d)
  <2>1. d.cycleCounterBase + 1 \in TimeoutCounters
    BY <1>3, DriveAssumption DEF DriveAssumption, TimesOut, TimeoutCounters, DriveState
  <2>2. CheckTimeout(d) = [d EXCEPT !.cycleCounterBase = d.cycleCounterBase + 1]
    BY <1>3 DEF CheckTimeout
  <2>3. CheckTimeout(d) \in DriveState
    BY <2>1, <2>2, TimeoutCounterType
  <2>4. SameBrake(d, CheckTimeout(d))
    BY <2>2 DEF DriveState, SameBrake
  <2> QED BY <2>3, <2>4
<1> QED BY <1>1, <1>2, <1>3

\* Losing torque takes the enable command away and nothing else.
LEMMA EnabledLostKeepsBrake ==
    ASSUME NEW d \in DriveState
    PROVE  /\ CheckEnabledLost(d) \in DriveState
           /\ SameBrake(d, CheckEnabledLost(d))
BY DEF CheckEnabledLost, DriveState, SameBrake

\* The end of writeEntries() remembers torque and amplifier command as they are.
LEMMA RememberKeepsBrake ==
    ASSUME NEW d \in DriveState
    PROVE  /\ RememberCommands(d) \in DriveState
           /\ SameBrake(d, RememberCommands(d))
           /\ RememberCommands(d).localEnabledOld = d.localEnabled
           /\ RememberCommands(d).enableAmpCmdOld = d.enableAmpCmd
BY DEF RememberCommands, DriveState, SameBrake

\* All of writeEntries(), seen from the brake: what updateBrakeState() decided
\* is what is remembered.
LEMMA WriteRemembers ==
    ASSUME NEW d \in DriveState, NEW ok \in BOOLEAN,
           UpdateEnableCommand(d) \in DriveState
    PROVE  LET u == UpdateEnableCommand(d)
               e == BaseWriteEntries(d, ok)
           IN  /\ e \in DriveState
               /\ SameBrake(u, e)
               /\ e.localEnabledOld = u.localEnabled
               /\ e.enableAmpCmdOld = u.enableAmpCmd
<1> DEFINE u == UpdateEnableCommand(d)
           a == CheckInterlocks(u, ok)
           b == CheckTimeout(a)
           c == CheckEnabledLost(b)
           e == RememberCommands(c)
<1>1. a \in DriveState /\ SameBrake(u, a)
  BY InterlocksKeepBrake
<1>2. b \in DriveState /\ SameBrake(a, b)
  BY <1>1, TimeoutKeepsBrake
<1>3. c \in DriveState /\ SameBrake(b, c)
  BY <1>2, EnabledLostKeepsBrake
<1>4. /\ e \in DriveState /\ SameBrake(c, e)
      /\ e.localEnabledOld = c.localEnabled
      /\ e.enableAmpCmdOld = c.enableAmpCmd
  BY <1>3, RememberKeepsBrake
<1>5. e = BaseWriteEntries(d, ok)
  BY DEF BaseWriteEntries
<1> HIDE DEF u, a, b, c, e
<1>6. SameBrake(u, e) /\ e.localEnabledOld = u.localEnabled
        /\ e.enableAmpCmdOld = u.enableAmpCmd
  BY <1>1, <1>2, <1>3, <1>4 DEF SameBrake
<1> QED BY <1>4, <1>5, <1>6 DEF u

-----------------------------------------------------------------------------
(* One step of the brake, as the values of the fields it decides.          *)

\* How far a brake state has counted at most.
BrakeCounts(d) ==
    /\ d.brakeState = "opening" => d.brakeCounter <= OpenDelay + 1
    /\ d.brakeState = "closing" => d.brakeCounter <= CloseAhead + 1

\* An edge of the enable command restarts the brake's counter; no edge changes
\* nothing (first lines of updateBrakeState).
LEMMA EdgeStep ==
    ASSUME NEW d \in DriveState
    PROVE  LET e == BrakeEdge(d) IN
           /\ e \in DriveState
           /\ e.localEnabled = d.localEnabled
           /\ e.localEnabledOld = d.localEnabledOld
           /\ e.enableAmpCmdOld = d.enableAmpCmdOld
           /\ e.brakeOutputCmd = d.brakeOutputCmd
           /\ \/ e = d
              \/ e.brakeState \in {"opening", "closing"} /\ e.brakeCounter = 0
<1>1. CASE d.enable = d.enableCmdOld
  BY <1>1 DEF BrakeEdge
<1>2. CASE d.enable # d.enableCmdOld
  <2>1. PICK s \in {"opening", "closing"} :
          BrakeEdge(d) = [d EXCEPT !.brakeState = s, !.brakeCounter = 0]
    BY <1>2 DEF BrakeEdge
  <2> QED BY <2>1, CountersStart DEF DriveState, BrakeStates
<1> QED BY <1>1, <1>2

\* Case BRAKE_CLOSED: brake applied, no amplifier command.
LEMMA ClosedStep ==
    ASSUME NEW d \in DriveState
    PROVE  LET e == BrakeClosed(d) IN
           /\ e \in DriveState
           /\ e.brakeState = "closed"
           /\ ~e.brakeOutputCmd
           /\ ~e.enableAmpCmd
           /\ e.localEnabled = d.localEnabled
BY CountersStart DEF BrakeClosed, Engage, DriveState, BrakeStates

\* Case BRAKE_OPEN: released with an amplifier command, or closed at once.
LEMMA OpenStep ==
    ASSUME NEW d \in DriveState
    PROVE  LET e == BrakeOpen(d) IN
           /\ e \in DriveState
           /\ e.localEnabled = d.localEnabled
           /\ IF ~d.localEnabled /\ d.enable
              THEN e.brakeState = "closed" /\ ~e.brakeOutputCmd /\ ~e.enableAmpCmd
              ELSE e.brakeState = d.brakeState /\ e.brakeOutputCmd /\ e.enableAmpCmd
BY CountersStart DEF BrakeOpen, Engage, DriveState, BrakeStates

\* A counter that has not passed its delay counts one further.
LEMMA CountOn ==
    ASSUME NEW d \in DriveState, d.brakeCounter + 1 \in BrakeCounters
    PROVE  LET e == CountIf(d, TRUE) IN
           /\ e \in DriveState
           /\ e.brakeState = d.brakeState
           /\ e.brakeOutputCmd = d.brakeOutputCmd
           /\ e.enableAmpCmd = d.enableAmpCmd
           /\ e.localEnabled = d.localEnabled
           /\ e.brakeCounter = d.brakeCounter + 1
<1> DEFINE n == d.brakeCounter + 1
<1>1. CountIf(d, TRUE) = [d EXCEPT !.brakeCounter = n]
  BY DEF CountIf
<1>2. n \in BrakeCounters
  OBVIOUS
<1> HIDE DEF n
<1>3. [d EXCEPT !.brakeCounter = n] \in DriveState
  BY <1>2, BrakeCounterType
<1>4. LET e == [d EXCEPT !.brakeCounter = n] IN
         /\ e.brakeState = d.brakeState
         /\ e.brakeOutputCmd = d.brakeOutputCmd
         /\ e.enableAmpCmd = d.enableAmpCmd
         /\ e.localEnabled = d.localEnabled
         /\ e.brakeCounter = n
  BY DEF DriveState
<1> QED BY <1>1, <1>3, <1>4 DEF n

\* An opening brake without its last increment.
OpeningStep(d) ==
    LET lost == d.localEnabledOld /\ ~d.localEnabled
        step == IF ~OpenDelayOver(d) THEN [d EXCEPT !.enableAmpCmd = TRUE]
                ELSE IF d.localEnabled THEN Release(d) ELSE GiveUp(d)
    IN  IF lost THEN Engage(step) ELSE step

\* Case BRAKE_OPENING, before it counts: the fields it decides.
LEMMA OpeningStepType ==
    ASSUME NEW d \in DriveState, d.brakeState = "opening"
    PROVE  LET e == OpeningStep(d) IN
           /\ e \in DriveState
           /\ e.localEnabled = d.localEnabled
           /\ \/ /\ ~OpenDelayOver(d)
                 /\ e.brakeState = "opening"
                 /\ e.enableAmpCmd
                 /\ e.brakeOutputCmd = d.brakeOutputCmd
                 /\ e.brakeCounter = d.brakeCounter
                 /\ d.localEnabled \/ ~d.localEnabledOld
              \/ /\ OpenDelayOver(d)
                 /\ d.localEnabled
                 /\ e.brakeState = "open"
                 /\ e.enableAmpCmd
                 /\ e.brakeOutputCmd
                 /\ e.brakeCounter = d.brakeCounter
              \/ /\ ~d.localEnabled
                 /\ e.brakeState = "closed"
                 /\ ~e.enableAmpCmd
                 /\ ~e.brakeOutputCmd
BY CountersStart
   DEF OpeningStep, Release, GiveUp, Engage, DriveState, BrakeStates

ClosingStep(d) ==
    IF CloseAheadOver(d) \/ ~d.localEnabled
    THEN Engage(d)
    ELSE [d EXCEPT !.brakeOutputCmd = FALSE, !.enableAmpCmd = TRUE]

\* Case BRAKE_CLOSING, before it counts: the fields it decides.
LEMMA ClosingStepType ==
    ASSUME NEW d \in DriveState, d.brakeState = "closing"
    PROVE  LET e == ClosingStep(d) IN
           /\ e \in DriveState
           /\ e.localEnabled = d.localEnabled
           /\ e.brakeCounter = d.brakeCounter
           /\ ~e.brakeOutputCmd
           /\ IF CloseAheadOver(d) \/ ~d.localEnabled
              THEN e.brakeState = "closed" /\ ~e.enableAmpCmd
              ELSE e.brakeState = "closing" /\ e.enableAmpCmd
BY DEF ClosingStep, Engage, DriveState, BrakeStates

-----------------------------------------------------------------------------
(* The brake and the history of what the mechanics saw.                    *)

BrakeHistory(d, h) ==
    /\ d.localEnabledOld <=> h.torqueFor > 0
    /\ d.brakeState = "opening" => d.brakeCounter <= h.torqueFor
    /\ d.brakeState = "closing" => d.brakeCounter <= h.appliedFor
    /\ d.brakeState = "closed" => ~d.enableAmpCmdOld
    /\ d.brakeState = "open" => d.brakeOutputCmd

\* What a step of the brake, from d to u, owes the mechanics, with t cycles of
\* torque and a cycles of applied brake when it is done.
BrakeOwes(d, u, t, a) ==
    /\ u.brakeState = "opening" => u.brakeCounter <= t
    /\ u.brakeState = "closing" => u.brakeCounter <= a
    /\ u.brakeState = "closed" => ~u.enableAmpCmd
    /\ u.brakeState = "open" => u.brakeOutputCmd
    /\ u.brakeOutputCmd => u.enableAmpCmd
    /\ u.brakeOutputCmd /\ ~d.brakeOutputCmd => t > OpenDelay + 1
    /\ d.enableAmpCmdOld /\ ~u.enableAmpCmd /\ u.localEnabled => a > CloseAhead + 1

TorqueAfter(h, u)  == Count(h.torqueFor, u.localEnabled, TorqueBound)
AppliedAfter(h, u) == Count(h.appliedFor, ~u.brakeOutputCmd, BrakeBound)

StepOK(d, u, h) ==
    /\ u \in DriveState
    /\ BrakeCounts(u)
    /\ u.localEnabled = d.localEnabled
    /\ BrakeOwes(d, u, TorqueAfter(h, u), AppliedAfter(h, u))

\* The history counts natural numbers, up to two past each delay.
LEMMA HistoryTypes ==
    ASSUME NEW h \in Histories
    PROVE  /\ h.torqueFor \in Nat /\ h.torqueFor <= OpenDelay + 2
           /\ h.appliedFor \in Nat /\ h.appliedFor <= CloseAhead + 2
BY DriveAssumption DEF DriveAssumption, Histories, TorqueBound, BrakeBound

\* The brake's counter is a natural number.
LEMMA CounterTypes ==
    ASSUME NEW d \in DriveState
    PROVE  d.brakeCounter \in Nat
BY DriveAssumption DEF DriveAssumption, DriveState, BrakeCounters

\* Case BRAKE_CLOSED owes the mechanics nothing.
LEMMA ClosedOK ==
    ASSUME NEW d \in DriveState, NEW h \in Histories, BrakeHistory(d, h),
           d.brakeState = "closed"
    PROVE  StepOK(d, BrakeClosed(d), h)
BY ClosedStep DEF StepOK, BrakeCounts, BrakeOwes, BrakeHistory

\* Case BRAKE_OPEN owes the mechanics nothing: without torque it closes.
LEMMA OpenOK ==
    ASSUME NEW d \in DriveState, NEW h \in Histories,
           d.brakeState = "open", d.brakeOutputCmd
    PROVE  StepOK(d, BrakeOpen(d), h)
BY OpenStep DEF StepOK, BrakeCounts, BrakeOwes

\* Case BRAKE_OPENING releases only after the open delay with torque.
LEMMA OpeningOK ==
    ASSUME NEW d \in DriveState, NEW h \in Histories, BrakeHistory(d, h),
           BrakeCounts(d), d.brakeState = "opening"
    PROVE  StepOK(d, BrakeOpening(d), h)
<1> DEFINE o == OpeningStep(d)
           u == CountIf(o, d.localEnabled)
<1>1. BrakeOpening(d) = u
  BY DEF BrakeOpening, OpeningStep
<1>2. /\ d.brakeCounter \in Nat /\ d.brakeCounter <= OpenDelay + 1
      /\ d.brakeCounter <= h.torqueFor
      /\ d.localEnabledOld <=> h.torqueFor > 0
      /\ d.localEnabled \in BOOLEAN
      /\ h.torqueFor \in Nat /\ h.torqueFor <= OpenDelay + 2
      /\ OpenDelay \in Nat /\ CloseAhead \in Nat
  BY CounterTypes, HistoryTypes, DriveAssumption
     DEF DriveAssumption, BrakeCounts, BrakeHistory, DriveState
<1> HIDE DEF o
<1>3. o \in DriveState /\ o.localEnabled = d.localEnabled
  BY OpeningStepType DEF o
<1>4. CASE /\ ~OpenDelayOver(d)
           /\ o.brakeState = "opening"
           /\ o.enableAmpCmd
           /\ o.brakeOutputCmd = d.brakeOutputCmd
           /\ o.brakeCounter = d.brakeCounter
           /\ d.localEnabled \/ ~d.localEnabledOld
  <2>1. d.brakeCounter <= OpenDelay /\ o.brakeCounter + 1 \in BrakeCounters
    BY <1>2, <1>4 DEF OpenDelayOver, BrakeCounters
  <2>2. /\ u \in DriveState /\ u.brakeState = "opening" /\ u.enableAmpCmd
        /\ u.brakeOutputCmd = d.brakeOutputCmd /\ u.localEnabled = d.localEnabled
        /\ u.brakeCounter = IF d.localEnabled THEN d.brakeCounter + 1
                                              ELSE d.brakeCounter
    BY <1>2, <1>3, <1>4, <2>1, CountOn DEF CountIf
  <2> HIDE DEF u
  <2>3. u.brakeCounter <= TorqueAfter(h, u)
    BY <1>2, <1>4, <2>1, <2>2 DEF TorqueAfter, Count, TorqueBound
  <2>4. BrakeCounts(u)
    BY <1>2, <2>1, <2>2 DEF BrakeCounts
  <2>5. BrakeOwes(d, u, TorqueAfter(h, u), AppliedAfter(h, u))
    BY <2>2, <2>3 DEF BrakeOwes
  <2> QED BY <1>1, <2>2, <2>4, <2>5 DEF StepOK, u
<1>5. CASE /\ OpenDelayOver(d)
           /\ d.localEnabled
           /\ o.brakeState = "open"
           /\ o.enableAmpCmd
           /\ o.brakeOutputCmd
           /\ o.brakeCounter = d.brakeCounter
  <2>1. o.brakeCounter + 1 \in BrakeCounters
    BY <1>2, <1>5 DEF BrakeCounters
  <2>2. /\ u \in DriveState /\ u.brakeState = "open" /\ u.enableAmpCmd
        /\ u.brakeOutputCmd /\ u.localEnabled = d.localEnabled
    BY <1>2, <1>3, <1>5, <2>1, CountOn DEF CountIf
  <2> HIDE DEF u
  <2>3. TorqueAfter(h, u) > OpenDelay + 1
    BY <1>2, <1>5, <2>2 DEF TorqueAfter, Count, TorqueBound, OpenDelayOver
  <2>4. BrakeCounts(u) /\ BrakeOwes(d, u, TorqueAfter(h, u), AppliedAfter(h, u))
    BY <2>2, <2>3 DEF BrakeCounts, BrakeOwes
  <2> QED BY <1>1, <2>2, <2>4 DEF StepOK, u
<1>6. CASE /\ ~d.localEnabled
           /\ o.brakeState = "closed"
           /\ ~o.enableAmpCmd
           /\ ~o.brakeOutputCmd
  <2>1. /\ u \in DriveState /\ u.brakeState = "closed" /\ ~u.enableAmpCmd
        /\ ~u.brakeOutputCmd /\ u.localEnabled = d.localEnabled
    BY <1>2, <1>3, <1>6 DEF CountIf
  <2> HIDE DEF u
  <2>2. BrakeCounts(u) /\ BrakeOwes(d, u, TorqueAfter(h, u), AppliedAfter(h, u))
    BY <1>6, <2>1 DEF BrakeCounts, BrakeOwes
  <2> QED BY <1>1, <2>1, <2>2 DEF StepOK, u
<1> QED BY <1>4, <1>5, <1>6, OpeningStepType DEF o

\* Case BRAKE_CLOSING withdraws the amplifier command from a held load only
\* after the close-ahead time with the brake applied.
LEMMA ClosingOK ==
    ASSUME NEW d \in DriveState, NEW h \in Histories, BrakeHistory(d, h),
           BrakeCounts(d), d.brakeState = "closing"
    PROVE  StepOK(d, BrakeClosing(d), h)
<1> DEFINE c == ClosingStep(d)
           u == CountIf(c, TRUE)
<1>1. BrakeClosing(d) = u
  BY DEF BrakeClosing, ClosingStep
<1>2. /\ d.brakeCounter \in Nat /\ d.brakeCounter <= CloseAhead + 1
      /\ d.brakeCounter <= h.appliedFor
      /\ h.appliedFor \in Nat /\ h.appliedFor <= CloseAhead + 2
      /\ OpenDelay \in Nat /\ CloseAhead \in Nat
  BY CounterTypes, HistoryTypes, DriveAssumption
     DEF DriveAssumption, BrakeCounts, BrakeHistory
<1> HIDE DEF c
<1>3. /\ c \in DriveState /\ c.localEnabled = d.localEnabled
      /\ c.brakeCounter = d.brakeCounter /\ ~c.brakeOutputCmd
      /\ IF CloseAheadOver(d) \/ ~d.localEnabled
         THEN c.brakeState = "closed" /\ ~c.enableAmpCmd
         ELSE c.brakeState = "closing" /\ c.enableAmpCmd
  BY ClosingStepType DEF c
<1>4. c.brakeCounter + 1 \in BrakeCounters
  BY <1>2, <1>3 DEF BrakeCounters
<1>5. /\ u \in DriveState /\ u.brakeState = c.brakeState
      /\ ~u.brakeOutputCmd /\ u.enableAmpCmd = c.enableAmpCmd
      /\ u.localEnabled = d.localEnabled /\ u.brakeCounter = d.brakeCounter + 1
  BY <1>3, <1>4, CountOn
<1> HIDE DEF u
<1>6. AppliedAfter(h, u) = IF h.appliedFor < CloseAhead + 2
                           THEN h.appliedFor + 1 ELSE h.appliedFor
  BY <1>5 DEF AppliedAfter, Count, BrakeBound
<1>7. CASE CloseAheadOver(d) \/ ~d.localEnabled
  <2>1. u.localEnabled => AppliedAfter(h, u) > CloseAhead + 1
    BY <1>2, <1>5, <1>6, <1>7 DEF CloseAheadOver
  <2> QED BY <1>1, <1>3, <1>5, <1>7, <2>1 DEF StepOK, BrakeCounts, BrakeOwes
<1>8. CASE ~(CloseAheadOver(d) \/ ~d.localEnabled)
  <2>1. u.brakeCounter <= AppliedAfter(h, u) /\ u.brakeCounter <= CloseAhead + 1
    BY <1>2, <1>5, <1>6, <1>8 DEF CloseAheadOver
  <2> QED BY <1>1, <1>3, <1>5, <1>8, <2>1 DEF StepOK, BrakeCounts, BrakeOwes
<1> QED BY <1>7, <1>8

\* One step of updateBrakeState() keeps the types and owes nothing.
LEMMA UpdateBrakeStateOK ==
    ASSUME NEW d \in DriveState, NEW h \in Histories, BrakeHistory(d, h),
           BrakeCounts(d)
    PROVE  StepOK(d, UpdateBrakeState(d), h)
<1> DEFINE e == BrakeEdge(d)
           u == UpdateBrakeState(d)
<1>1. /\ e \in DriveState
      /\ e.localEnabled = d.localEnabled
      /\ e.localEnabledOld = d.localEnabledOld
      /\ e.enableAmpCmdOld = d.enableAmpCmdOld
      /\ e.brakeOutputCmd = d.brakeOutputCmd
      /\ \/ e = d
         \/ e.brakeState \in {"opening", "closing"} /\ e.brakeCounter = 0
  BY EdgeStep
<1>2. u = CASE e.brakeState = "closed"  -> BrakeClosed(e)
            [] e.brakeState = "opening" -> BrakeOpening(e)
            [] e.brakeState = "open"    -> BrakeOpen(e)
            [] e.brakeState = "closing" -> BrakeClosing(e)
  BY DEF UpdateBrakeState
<1> HIDE DEF e, u
<1>3. BrakeCounts(e) /\ BrakeHistory(e, h)
  BY <1>1, HistoryTypes, DriveAssumption DEF DriveAssumption, BrakeCounts, BrakeHistory
<1>4. e.brakeState \in {"closed", "opening", "open", "closing"}
  BY <1>1 DEF DriveState, BrakeStates
<1>5. StepOK(e, u, h)
  <2>1. CASE e.brakeState = "closed"
    BY <1>1, <1>2, <1>3, <2>1, ClosedOK
  <2>2. CASE e.brakeState = "opening"
    BY <1>1, <1>2, <1>3, <2>2, OpeningOK
  <2>3. CASE e.brakeState = "open"
    BY <1>1, <1>2, <1>3, <2>3, OpenOK DEF BrakeHistory
  <2>4. CASE e.brakeState = "closing"
    BY <1>1, <1>2, <1>3, <2>4, ClosingOK
  <2> QED BY <1>4, <2>1, <2>2, <2>3, <2>4
<1> QED BY <1>1, <1>5 DEF StepOK, BrakeOwes, u

-----------------------------------------------------------------------------
(* All of writeEntries().                                                  *)

BrakeInvariant(d, h) ==
    /\ d \in DriveState
    /\ h \in Histories
    /\ BrakeCounts(d)
    /\ HasBrake => BrakeHistory(d, h)

\* What a write from d to e means for the mechanics, with the history k after it.
KeepsPromise(d, e, k) ==
    /\ e.localEnabledOld = e.localEnabled
    /\ e.brakeOutputCmd => e.enableAmpCmdOld
    /\ e.brakeOutputCmd /\ ~d.brakeOutputCmd => k.torqueFor > OpenDelay + 1
    /\ d.enableAmpCmdOld /\ ~e.enableAmpCmdOld /\ e.localEnabledOld
         => k.appliedFor > CloseAhead + 1

\* A bounded count stays in its bound and is positive exactly while it counts.
LEMMA CountType ==
    ASSUME NEW bound \in Nat, NEW n \in 0 .. bound, NEW holds \in BOOLEAN
    PROVE  /\ Count(n, holds, bound) \in 0 .. bound
           /\ bound > 0 => (holds <=> Count(n, holds, bound) > 0)
BY DEF Count

\* One cycle of the history: types, counts, and torque now means a count.
LEMMA ObserveType ==
    ASSUME NEW h \in Histories, NEW d \in DriveState, NEW e \in DriveState,
           NEW ok \in BOOLEAN, NEW failing \in Failures, NEW on \in BOOLEAN
    PROVE  LET k == Observe(h, d, e, ok, failing, on) IN
           /\ k \in Histories
           /\ k.torqueFor = TorqueAfter(h, e)
           /\ k.appliedFor = AppliedAfter(h, e)
           /\ e.localEnabled <=> k.torqueFor > 0
<1>1. TorqueBound \in Nat /\ TorqueBound > 0 /\ BrakeBound \in Nat /\ BrakeBound > 0
  BY DriveAssumption DEF DriveAssumption, TorqueBound, BrakeBound
<1>2. h.torqueFor \in 0 .. TorqueBound /\ h.appliedFor \in 0 .. BrakeBound
        /\ h.withdrawn \in BOOLEAN
  BY DEF Histories
<1>3. e.localEnabled \in BOOLEAN /\ (~e.brakeOutputCmd) \in BOOLEAN
  BY DEF DriveState
<1>4. /\ TorqueAfter(h, e) \in 0 .. TorqueBound
      /\ AppliedAfter(h, e) \in 0 .. BrakeBound
      /\ e.localEnabled <=> TorqueAfter(h, e) > 0
  BY <1>1, <1>2, <1>3, CountType DEF TorqueAfter, AppliedAfter
<1> DEFINE w == /\ e.brakeState \in {"opening", "open"}
                /\ h.withdrawn \/ Withdraws(d, e)
           f == IF failing # "none" THEN failing ELSE IF on THEN "none" ELSE h.failure
           n == ~ok
           o == [ torqueFor |-> TorqueAfter(h, e), appliedFor |-> AppliedAfter(h, e),
                  withdrawn |-> w, failure |-> f, interlocked |-> n ]
<1>5. w \in BOOLEAN /\ n \in BOOLEAN /\ f \in Failures
  BY DEF Histories, Failures
<1>6. Observe(h, d, e, ok, failing, on) = o
  BY Zenon DEF Observe, TorqueAfter, AppliedAfter
<1> HIDE DEF w, f, n
<1>7. /\ o \in Histories
      /\ o.torqueFor = TorqueAfter(h, e)
      /\ o.appliedFor = AppliedAfter(h, e)
  BY <1>4, <1>5 DEF Histories
<1> HIDE DEF o
<1> QED BY <1>4, <1>6, <1>7

\* One writeEntries() keeps the invariant, reads no torque of its own, and with a
\* brake keeps the promise to the mechanics.
LEMMA WriteKeepsBrake ==
    ASSUME NEW d \in DriveState, NEW old \in DriveState, NEW h \in Histories,
           NEW ok \in BOOLEAN, NEW failing \in Failures, NEW on \in BOOLEAN,
           BrakeInvariant(d, h)
    PROVE  LET e == BaseWriteEntries(d, ok)
               k == Observe(h, old, e, ok, failing, on)
           IN  /\ BrakeInvariant(e, k)
               /\ e.localEnabled = d.localEnabled
               /\ HasBrake => KeepsPromise(d, e, k)
<1> DEFINE u == UpdateEnableCommand(d)
           e == BaseWriteEntries(d, ok)
           k == Observe(h, old, e, ok, failing, on)
<1>1. CASE HasBrake
  <2> DEFINE m == [d EXCEPT !.enabled = d.localEnabled /\ d.brakeOutputCmd]
  <2>1. u = UpdateBrakeState(m)
    BY <1>1 DEF UpdateEnableCommand
  <2>2. /\ m \in DriveState
        /\ m.localEnabled = d.localEnabled
        /\ m.brakeState = d.brakeState /\ m.brakeCounter = d.brakeCounter
        /\ m.brakeOutputCmd = d.brakeOutputCmd
        /\ m.localEnabledOld = d.localEnabledOld
        /\ m.enableAmpCmdOld = d.enableAmpCmdOld
    BY DEF DriveState
  <2> HIDE DEF m, u
  <2>3. BrakeCounts(m) /\ BrakeHistory(m, h)
    BY <1>1, <2>2 DEF BrakeInvariant, BrakeCounts, BrakeHistory
  <2>4. StepOK(m, u, h)
    BY <2>1, <2>2, <2>3, UpdateBrakeStateOK
  <2>5. /\ e \in DriveState /\ SameBrake(u, e)
        /\ e.localEnabledOld = u.localEnabled
        /\ e.enableAmpCmdOld = u.enableAmpCmd
    BY <2>4, WriteRemembers DEF StepOK, u
  <2> HIDE DEF e
  <2>6. /\ k \in Histories
        /\ k.torqueFor = TorqueAfter(h, e)
        /\ k.appliedFor = AppliedAfter(h, e)
        /\ e.localEnabled <=> k.torqueFor > 0
    BY <2>5, ObserveType
  <2> HIDE DEF k
  <2>7. TorqueAfter(h, e) = TorqueAfter(h, u) /\ AppliedAfter(h, e) = AppliedAfter(h, u)
    BY <2>5 DEF SameBrake, TorqueAfter, AppliedAfter
  <2>8. BrakeOwes(m, u, k.torqueFor, k.appliedFor) /\ BrakeCounts(u)
    BY <2>4, <2>6, <2>7 DEF StepOK
  <2>9. BrakeInvariant(e, k)
    BY <2>5, <2>6, <2>8 DEF BrakeInvariant, BrakeCounts, BrakeHistory, BrakeOwes, SameBrake
  <2>10. KeepsPromise(d, e, k)
    BY <2>2, <2>5, <2>8 DEF KeepsPromise, BrakeOwes, SameBrake
  <2>11. e.localEnabled = d.localEnabled
    BY <2>2, <2>4, <2>5 DEF StepOK, SameBrake
  <2> QED BY <2>9, <2>10, <2>11 DEF e, k
<1>2. CASE ~HasBrake
  <2>1. /\ u \in DriveState /\ u.brakeState = d.brakeState
        /\ u.brakeCounter = d.brakeCounter /\ u.localEnabled = d.localEnabled
    BY <1>2 DEF UpdateEnableCommand, DriveState
  <2>2. e \in DriveState /\ SameBrake(u, e)
    BY <2>1, WriteRemembers
  <2>3. k \in Histories
    BY <2>2, ObserveType
  <2> HIDE DEF u, e, k
  <2>4. BrakeCounts(e)
    BY <2>1, <2>2 DEF BrakeInvariant, BrakeCounts, SameBrake
  <2>5. e.localEnabled = d.localEnabled
    BY <2>1, <2>2 DEF SameBrake
  <2> QED BY <1>2, <2>2, <2>3, <2>4, <2>5 DEF BrakeInvariant, e, k
<1> QED BY <1>1, <1>2

\* A step between two writes: it may change the commands and what is read, but
\* nothing that updateBrakeState() remembers.
SameMemory(d, e) ==
    /\ e \in DriveState
    /\ e.brakeState = d.brakeState
    /\ e.brakeCounter = d.brakeCounter
    /\ e.brakeOutputCmd = d.brakeOutputCmd
    /\ e.localEnabledOld = d.localEnabledOld
    /\ e.enableAmpCmdOld = d.enableAmpCmdOld
    /\ e.enableCmdOld = d.enableCmdOld

\* Commands and reads between two writes keep the invariant.
LEMMA MemoryKeepsBrake ==
    ASSUME NEW d, NEW e, NEW h, BrakeInvariant(d, h), SameMemory(d, e)
    PROVE  BrakeInvariant(e, h)
BY DEF BrakeInvariant, SameMemory, BrakeCounts, BrakeHistory

\* What one step may do to the mechanics: nothing, or one cycle that keeps the
\* brake's promise.
CycleKept(d, e, h, k) ==
    /\ KeepsPromise(d, e, k)
    /\ k.torqueFor = TorqueAfter(h, e)
    /\ k.appliedFor = AppliedAfter(h, e)

MechanicsKept(d, e, h, k) ==
    \/ SameMemory(d, e) /\ k = h
    \/ CycleKept(d, e, h, k)

\* Observe() counts torque and brake as the abstract specification does.
LEMMA ObserveCounts ==
    ASSUME NEW h, NEW d, NEW e, NEW ok, NEW failing, NEW on
    PROVE  /\ Observe(h, d, e, ok, failing, on).torqueFor = TorqueAfter(h, e)
           /\ Observe(h, d, e, ok, failing, on).appliedFor = AppliedAfter(h, e)
BY DEF Observe, TorqueAfter, AppliedAfter

\* A step that keeps the base class's memory may precede a write in the cycle.
LEMMA PromiseFromMemory ==
    ASSUME NEW d, NEW s, NEW e, NEW k, SameMemory(d, s), KeepsPromise(s, e, k)
    PROVE  KeepsPromise(d, e, k)
BY DEF SameMemory, KeepsPromise

\* The constructor's values keep the invariant of the brake.
LEMMA InitKeepsBrake == BrakeInvariant(InitDrive, InitHist)
<1>1. InitDrive \in DriveState
  BY CountersStart DEF InitDrive, DriveState, BrakeStates
<1>2. InitHist \in Histories
  BY DriveAssumption DEF DriveAssumption, InitHist, Histories, Failures, TorqueBound, BrakeBound
<1> QED BY <1>1, <1>2 DEF BrakeInvariant, BrakeCounts, BrakeHistory, InitDrive, InitHist
-----------------------------------------------------------------------------
(* What an applied, an opening and an open brake say about the past.       *)

Applied(u) == u.brakeState \in {"closed", "closing"} /\ ~u.brakeOutputCmd

ReleasedOpen(d) == d.brakeOutputCmd => d.brakeState \in {"open", "opening"}

\* What a step of the brake from m to u does not leave released.
Applies(m, u) ==
    /\ ~m.enable /\ m.enableCmdOld => Applied(u)
    /\ m.enable = m.enableCmdOld /\ m.brakeState \in {"closed", "closing"} => Applied(u)
    /\ m.enable /\ m.localEnabledOld /\ ~m.localEnabled => Applied(u)
    /\ ReleasedOpen(u)
    /\ u.enabled = m.enabled

LEMMA OpeningApplies ==
    ASSUME NEW d \in DriveState, d.brakeState = "opening"
    PROVE  LET u == BrakeOpening(d) IN
           /\ d.localEnabledOld /\ ~d.localEnabled => Applied(u)
           /\ ReleasedOpen(u)
           /\ u.enabled = d.enabled
<1> DEFINE o == OpeningStep(d)
           u == BrakeOpening(d)
<1>1. u = CountIf(o, d.localEnabled)
  BY DEF BrakeOpening, OpeningStep
<1>2. /\ o \in DriveState
      /\ d.localEnabledOld /\ ~d.localEnabled => Applied(o)
      /\ ReleasedOpen(o)
      /\ o.enabled = d.enabled
  BY CountersStart
     DEF OpeningStep, Release, GiveUp, Engage, DriveState, BrakeStates, Applied, ReleasedOpen
<1> HIDE DEF o, u
<1>3. /\ u.brakeState = o.brakeState /\ u.brakeOutputCmd = o.brakeOutputCmd
      /\ u.enabled = o.enabled
  BY <1>1, <1>2 DEF CountIf, DriveState
<1> QED BY <1>2, <1>3 DEF Applied, ReleasedOpen, u

LEMMA ClosingApplies ==
    ASSUME NEW d \in DriveState, d.brakeState = "closing"
    PROVE  LET u == BrakeClosing(d) IN Applied(u) /\ u.enabled = d.enabled
<1> DEFINE c == ClosingStep(d)
           u == BrakeClosing(d)
<1>1. u = CountIf(c, TRUE)
  BY DEF BrakeClosing, ClosingStep
<1>2. c \in DriveState /\ Applied(c) /\ c.enabled = d.enabled
  BY DEF ClosingStep, Engage, DriveState, BrakeStates, Applied
<1> HIDE DEF c, u
<1>3. /\ u.brakeState = c.brakeState /\ u.brakeOutputCmd = c.brakeOutputCmd
      /\ u.enabled = c.enabled
  BY <1>1, <1>2 DEF CountIf, DriveState
<1> QED BY <1>2, <1>3 DEF Applied, u

LEMMA UpdateApplies ==
    ASSUME NEW m \in DriveState, ReleasedOpen(m)
    PROVE  Applies(m, UpdateBrakeState(m))
<1> DEFINE e == BrakeEdge(m)
           u == UpdateBrakeState(m)
<1>1. /\ e \in DriveState
      /\ e.localEnabled = m.localEnabled /\ e.localEnabledOld = m.localEnabledOld
      /\ e.enable = m.enable /\ e.enabled = m.enabled
      /\ e.brakeState = IF m.enable = m.enableCmdOld THEN m.brakeState
                        ELSE IF m.enable THEN "opening" ELSE "closing"
  BY EdgeStep DEF BrakeEdge, DriveState
<1>2. u = CASE e.brakeState = "closed"  -> BrakeClosed(e)
            [] e.brakeState = "opening" -> BrakeOpening(e)
            [] e.brakeState = "open"    -> BrakeOpen(e)
            [] e.brakeState = "closing" -> BrakeClosing(e)
  BY DEF UpdateBrakeState
<1>3. e.brakeState \in {"closed", "opening", "open", "closing"}
  BY <1>1 DEF DriveState, BrakeStates
<1>4. m.enable \in BOOLEAN /\ m.enableCmdOld \in BOOLEAN
  BY DEF DriveState
<1> HIDE DEF e, u
<1>5. CASE e.brakeState = "closed"
  <2>1. u = BrakeClosed(e)
    BY <1>2, <1>5
  <2>2. Applied(u) /\ u.enabled = e.enabled
    BY <1>1, <2>1 DEF BrakeClosed, Engage, DriveState, Applied
  <2> QED BY <1>1, <2>2 DEF Applies, Applied, ReleasedOpen, u
<1>6. CASE e.brakeState = "opening"
  <2>1. u = BrakeOpening(e)
    BY <1>2, <1>6
  <2>2. /\ e.localEnabledOld /\ ~e.localEnabled => Applied(u)
        /\ ReleasedOpen(u) /\ u.enabled = e.enabled
    BY <1>1, <1>6, <2>1, OpeningApplies
  <2>3. ~(~m.enable /\ m.enableCmdOld)
        /\ ~(m.enable = m.enableCmdOld /\ m.brakeState \in {"closed", "closing"})
    BY <1>1, <1>4, <1>6
  <2> QED BY <1>1, <2>2, <2>3 DEF Applies, u
<1>7. CASE e.brakeState = "open"
  <2>1. u = BrakeOpen(e)
    BY <1>2, <1>7
  <2>2. /\ u.enabled = e.enabled
        /\ IF ~e.localEnabled /\ e.enable THEN Applied(u) ELSE u.brakeState = "open"
    BY <1>1, <1>7, <2>1 DEF BrakeOpen, Engage, DriveState, Applied
  <2>3. m.enable = m.enableCmdOld /\ m.brakeState = "open"
    BY <1>1, <1>7
  <2> QED BY <1>1, <1>4, <2>2, <2>3 DEF Applies, Applied, ReleasedOpen, u
<1>8. CASE e.brakeState = "closing"
  <2>1. u = BrakeClosing(e)
    BY <1>2, <1>8
  <2>2. Applied(u) /\ u.enabled = e.enabled
    BY <1>1, <1>8, <2>1, ClosingApplies
  <2> QED BY <1>1, <2>2 DEF Applies, Applied, ReleasedOpen, u
<1> QED BY <1>3, <1>5, <1>6, <1>7, <1>8

\* The checks that follow leave "enabled" alone.
LEMMA WriteEnds ==
    ASSUME NEW d \in DriveState, NEW ok \in BOOLEAN, UpdateEnableCommand(d) \in DriveState
    PROVE  /\ BaseWriteEntries(d, ok).enabled = UpdateEnableCommand(d).enabled
           /\ BaseWriteEntries(d, ok).enableCmdOld = BaseWriteEntries(d, ok).enable
<1> DEFINE u == UpdateEnableCommand(d)
           a == CheckInterlocks(u, ok)
           b == CheckTimeout(a)
           c == CheckEnabledLost(b)
           e == RememberCommands(c)
<1>1. e = BaseWriteEntries(d, ok)
  BY DEF BaseWriteEntries
<1> HIDE DEF u
<1>2. a \in DriveState /\ a.enabled = u.enabled
  BY DEF CheckInterlocks, DriveState, u
<1> HIDE DEF a
<1>3. b \in DriveState /\ b.enabled = a.enabled
  <2>1. b.enabled = a.enabled
    BY <1>2 DEF CheckTimeout, DriveState
  <2> QED BY <1>2, <2>1, TimeoutKeepsBrake
<1> HIDE DEF b
<1>4. c \in DriveState /\ c.enabled = b.enabled
  BY <1>3 DEF CheckEnabledLost, DriveState
<1> HIDE DEF c
<1>5. e.enabled = c.enabled /\ e.enableCmdOld = e.enable
  BY <1>4 DEF RememberCommands, DriveState
<1> HIDE DEF e
<1> QED BY <1>1, <1>2, <1>3, <1>4, <1>5 DEF u

\* As long as the enable command has not been taken away behind the brake's back, an
\* opening or open brake has it, and a released one has had torque for the open delay.
Held(d, h) ==
    /\ ReleasedOpen(d)
    /\ d.brakeState \in {"open", "opening"} /\ ~h.withdrawn => d.enableCmdOld
    /\ d.brakeOutputCmd /\ ~h.withdrawn => h.torqueFor > OpenDelay + 1

LEMMA WriteHolds ==
    ASSUME HasBrake, NEW d \in DriveState, NEW old \in DriveState, NEW h \in Histories,
           NEW ok \in BOOLEAN, NEW failing \in Failures, NEW on \in BOOLEAN,
           BrakeInvariant(d, h), Held(d, h),
           old.enable = d.enable, old.localEnabledOld = d.localEnabledOld
    PROVE  LET e == BaseWriteEntries(d, ok)
               k == Observe(h, old, e, ok, failing, on)
           IN  /\ Held(e, k)
               /\ e.enabled /\ ~h.withdrawn => k.torqueFor > OpenDelay + 1
<1> DEFINE m == [d EXCEPT !.enabled = d.localEnabled /\ d.brakeOutputCmd]
           u == UpdateEnableCommand(d)
           e == BaseWriteEntries(d, ok)
           k == Observe(h, old, e, ok, failing, on)
           t == TorqueAfter(h, e)
<1>1. u = UpdateBrakeState(m)
  BY DEF UpdateEnableCommand
<1> DEFINE told == d.localEnabled /\ d.brakeOutputCmd
<1>2. told \in BOOLEAN
  OBVIOUS
<1>3. m = [d EXCEPT !.enabled = told]
  OBVIOUS
<1> HIDE DEF told, m
<1>4. /\ m \in DriveState /\ m.enabled = told
      /\ m.localEnabled = d.localEnabled /\ m.brakeState = d.brakeState
      /\ m.brakeCounter = d.brakeCounter /\ m.brakeOutputCmd = d.brakeOutputCmd
      /\ m.localEnabledOld = d.localEnabledOld /\ m.enableAmpCmdOld = d.enableAmpCmdOld
      /\ m.enable = d.enable /\ m.enableCmdOld = d.enableCmdOld
  BY <1>2, <1>3 DEF DriveState
<1> HIDE DEF u
<1>5. Applies(m, u)
  BY <1>1, <1>4, UpdateApplies DEF Held, ReleasedOpen
<1>6. BrakeCounts(m) /\ BrakeHistory(m, h)
  BY <1>4 DEF BrakeInvariant, BrakeCounts, BrakeHistory
<1>7. StepOK(m, u, h)
  BY <1>1, <1>4, <1>6, UpdateBrakeStateOK
<1>8. /\ e \in DriveState /\ SameBrake(u, e)
      /\ e.enabled = told /\ e.enableCmdOld = e.enable
  <2>1. UpdateEnableCommand(d) \in DriveState
    BY <1>7 DEF StepOK, u
  <2> QED BY <1>4, <1>5, <2>1, WriteRemembers, WriteEnds DEF Applies, u
<1> HIDE DEF e
<1>9. /\ e.localEnabled = d.localEnabled
      /\ e.brakeOutputCmd /\ ~d.brakeOutputCmd => t > OpenDelay + 1
  <2>1. t = TorqueAfter(h, u)
    BY <1>8 DEF SameBrake, TorqueAfter
  <2> QED BY <1>4, <1>7, <1>8, <2>1 DEF StepOK, BrakeOwes, SameBrake
<1>10. /\ k.torqueFor = t
       /\ k.withdrawn = (/\ e.brakeState \in {"opening", "open"}
                         /\ h.withdrawn \/ Withdraws(old, e))
  BY DEF Observe, TorqueAfter
<1> HIDE DEF k
<1>11. h.torqueFor > OpenDelay + 1 /\ d.localEnabled => t > OpenDelay + 1
  <2>1. h.torqueFor \in Nat /\ h.torqueFor <= OpenDelay + 2 /\ OpenDelay \in Nat
    BY HistoryTypes, DriveAssumption DEF DriveAssumption
  <2>2. d.localEnabled => t = IF h.torqueFor < OpenDelay + 2 THEN h.torqueFor + 1
                              ELSE h.torqueFor
    BY <1>9 DEF TorqueAfter, Count, TorqueBound
  <2> HIDE DEF t
  <2> QED BY <2>1, <2>2
<1>12. h.torqueFor > 0 => d.localEnabledOld
  BY <1>4, <1>6 DEF BrakeHistory
<1> HIDE DEF t
<1>13. /\ d.enable \in BOOLEAN /\ d.enableCmdOld \in BOOLEAN /\ d.localEnabled \in BOOLEAN
       /\ e.brakeState \in {"closed", "opening", "open", "closing"}
       /\ d.brakeState \in {"closed", "opening", "open", "closing"}
       /\ h.withdrawn \in BOOLEAN
  BY <1>8 DEF DriveState, BrakeStates, Histories
\* Without torque, or without the enable command, the brake is applied.
<1>14. ASSUME d.brakeOutputCmd, ~h.withdrawn, e.brakeOutputCmd
       PROVE  h.torqueFor > OpenDelay + 1 /\ d.localEnabled
  <2>1. h.torqueFor > OpenDelay + 1 /\ d.enableCmdOld
    BY <1>14 DEF Held, ReleasedOpen
  <2>2. ~Applied(u)
    BY <1>8, <1>14 DEF Applied, SameBrake
  <2>3. d.enable
    BY <1>4, <1>5, <1>13, <2>1, <2>2 DEF Applies
  <2>4. d.localEnabledOld
    BY <1>12, <2>1, HistoryTypes, DriveAssumption DEF DriveAssumption
  <2> QED BY <1>4, <1>5, <1>13, <2>1, <2>2, <2>3, <2>4 DEF Applies
\* A command that is missing was withdrawn, or the brake follows it.
<1>15. ASSUME e.brakeState \in {"open", "opening"}, ~k.withdrawn
       PROVE  e.enable
  <2>1. SUFFICES ASSUME ~e.enable PROVE FALSE
    OBVIOUS
  <2>2. ~h.withdrawn /\ ~Withdraws(old, e)
    BY <1>10, <1>15
  <2>3. ~Applied(u)
    BY <1>8, <1>15 DEF Applied, SameBrake
  <2>4. CASE d.enable
    <3>1. ~d.localEnabled /\ d.localEnabledOld
      BY <1>9, <2>1, <2>2, <2>4 DEF Withdraws
    <3> QED BY <1>4, <1>5, <2>3, <2>4, <3>1 DEF Applies
  <2>5. CASE ~d.enable
    <3>1. ~d.enableCmdOld
      BY <1>4, <1>5, <2>3, <2>5 DEF Applies
    <3>2. d.brakeState \in {"closed", "closing"}
      BY <1>13, <2>2, <3>1 DEF Held
    <3> QED BY <1>4, <1>5, <1>13, <2>3, <2>5, <3>1, <3>2 DEF Applies
  <2> QED BY <1>13, <2>4, <2>5
<1>16. ReleasedOpen(e)
  BY <1>5, <1>8 DEF Applies, ReleasedOpen, SameBrake
<1>17. ASSUME e.brakeOutputCmd, ~k.withdrawn PROVE k.torqueFor > OpenDelay + 1
  <2>1. ~h.withdrawn
    BY <1>10, <1>16, <1>17 DEF ReleasedOpen
  <2> QED BY <1>9, <1>10, <1>11, <1>14, <1>17, <2>1
<1>18. Held(e, k)
  BY <1>8, <1>15, <1>16, <1>17 DEF Held
<1>19. ASSUME e.enabled, ~h.withdrawn PROVE k.torqueFor > OpenDelay + 1
  <2>1. d.localEnabled /\ d.brakeOutputCmd
    BY <1>8, <1>19 DEF told
  <2>2. h.torqueFor > OpenDelay + 1
    BY <1>19, <2>1 DEF Held
  <2> QED BY <1>10, <1>11, <2>1, <2>2
<1> QED BY <1>18, <1>19 DEF e, k

LEMMA MemoryHolds ==
    ASSUME NEW d, NEW e, NEW h, Held(d, h), SameMemory(d, e)
    PROVE  Held(e, h)
BY DEF Held, ReleasedOpen, SameMemory

-----------------------------------------------------------------------------
(* What an opening or released brake says about the write before it, and   *)
(* what a write does to the enable command and the error.                  *)

\* A step of the brake from m to u: an opening brake has its amplifier command and
\* counts one cycle at a time, a release comes from an open delay that is over, and
\* enable is not set.
Opens(m, u) ==
    /\ u.brakeState = "opening" =>
         /\ u.enableAmpCmd
         /\ \/ u.brakeCounter <= 1
            \/ /\ m.brakeState = "opening" /\ m.localEnabled
               /\ u.brakeCounter <= m.brakeCounter + 1
    /\ u.brakeOutputCmd =>
         \/ m.brakeOutputCmd
         \/ m.brakeState = "opening" /\ m.localEnabled /\ m.brakeCounter > OpenDelay
    /\ u.enable => m.enable

\* Case BRAKE_OPENING: without torque the brake has not counted a cycle yet.
LEMMA OpeningOpens ==
    ASSUME NEW d \in DriveState, NEW h \in Histories, BrakeHistory(d, h),
           d.brakeState = "opening"
    PROVE  LET u == BrakeOpening(d) IN
           /\ u.brakeState = "opening" =>
                /\ u.enableAmpCmd
                /\ u.brakeCounter <= d.brakeCounter + 1
                /\ d.localEnabled \/ u.brakeCounter = 0
           /\ u.brakeOutputCmd =>
                d.brakeOutputCmd \/ (d.localEnabled /\ d.brakeCounter > OpenDelay)
           /\ u.enable => d.enable
           /\ u.error = d.error
<1> DEFINE o == OpeningStep(d)
           u == BrakeOpening(d)
<1>1. u = CountIf(o, d.localEnabled)
  BY DEF BrakeOpening, OpeningStep
<1>2. o \in DriveState /\ (o.enable => d.enable) /\ o.error = d.error
  BY CountersStart DEF OpeningStep, Release, GiveUp, Engage, DriveState, BrakeStates
<1>3. /\ o.brakeState = "opening" =>
            /\ o.enableAmpCmd /\ o.brakeCounter = d.brakeCounter
            /\ d.localEnabled \/ ~d.localEnabledOld
      /\ o.brakeOutputCmd => d.brakeOutputCmd \/ (d.localEnabled /\ OpenDelayOver(d))
  BY OpeningStepType
<1> HIDE DEF o, u
<1>4. /\ u.brakeState = o.brakeState /\ u.brakeOutputCmd = o.brakeOutputCmd
      /\ u.enableAmpCmd = o.enableAmpCmd /\ u.enable = o.enable /\ u.error = o.error
      /\ u.brakeCounter = IF d.localEnabled THEN o.brakeCounter + 1 ELSE o.brakeCounter
  BY <1>1, <1>2 DEF CountIf, DriveState
<1>5. d.brakeCounter \in Nat /\ h.torqueFor \in Nat
      /\ (~d.localEnabledOld => d.brakeCounter = 0)
  BY CounterTypes, HistoryTypes DEF BrakeHistory
<1> QED BY <1>2, <1>3, <1>4, <1>5 DEF OpenDelayOver, u

\* The other brake states release nothing and never open.
LEMMA OthersOpen ==
    ASSUME NEW d \in DriveState
    PROVE  /\ LET u == BrakeClosed(d) IN
              /\ u.brakeState = "closed" /\ ~u.brakeOutputCmd
              /\ u.enable = d.enable /\ u.error = d.error
           /\ d.brakeState = "open" => LET u == BrakeOpen(d) IN
              /\ u.brakeState \in {"open", "closed"}
              /\ u.enable = d.enable /\ u.error = d.error
           /\ d.brakeState = "closing" => LET u == BrakeClosing(d) IN
              /\ u.brakeState \in {"closed", "closing"} /\ ~u.brakeOutputCmd
              /\ u.enable = d.enable /\ u.error = d.error
<1>1. LET u == BrakeClosed(d) IN
        /\ u.brakeState = "closed" /\ ~u.brakeOutputCmd
        /\ u.enable = d.enable /\ u.error = d.error
  BY DEF BrakeClosed, Engage, DriveState
<1>2. ASSUME d.brakeState = "open"
      PROVE  LET u == BrakeOpen(d) IN
             /\ u.brakeState \in {"open", "closed"}
             /\ u.enable = d.enable /\ u.error = d.error
  BY <1>2 DEF BrakeOpen, Engage, DriveState
<1>3. ASSUME d.brakeState = "closing"
      PROVE  LET u == BrakeClosing(d) IN
             /\ u.brakeState \in {"closed", "closing"} /\ ~u.brakeOutputCmd
             /\ u.enable = d.enable /\ u.error = d.error
  <2> DEFINE c == ClosingStep(d)
             u == BrakeClosing(d)
  <2>1. u = CountIf(c, TRUE)
    BY DEF BrakeClosing, ClosingStep
  <2>2. c \in DriveState /\ c.enable = d.enable /\ c.error = d.error
    BY DEF ClosingStep, Engage, DriveState, BrakeStates
  <2>3. c.brakeState \in {"closed", "closing"} /\ ~c.brakeOutputCmd
    BY <1>3, ClosingStepType
  <2> HIDE DEF c, u
  <2>4. /\ u.brakeState = c.brakeState /\ u.brakeOutputCmd = c.brakeOutputCmd
        /\ u.enable = c.enable /\ u.error = c.error
    BY <2>1, <2>2 DEF CountIf, DriveState
  <2> QED BY <2>2, <2>3, <2>4 DEF u
<1> QED BY <1>1, <1>2, <1>3

LEMMA UpdateOpens ==
    ASSUME NEW m \in DriveState, NEW h \in Histories, BrakeHistory(m, h)
    PROVE  Opens(m, UpdateBrakeState(m)) /\ UpdateBrakeState(m).error = m.error
<1> DEFINE e == BrakeEdge(m)
           u == UpdateBrakeState(m)
<1>1. /\ e \in DriveState
      /\ e.localEnabled = m.localEnabled /\ e.localEnabledOld = m.localEnabledOld
      /\ e.brakeOutputCmd = m.brakeOutputCmd /\ e.enableAmpCmdOld = m.enableAmpCmdOld
      /\ \/ e = m
         \/ e.brakeState \in {"opening", "closing"} /\ e.brakeCounter = 0
  BY EdgeStep
<1>2. e.enable = m.enable /\ e.error = m.error
  BY DEF BrakeEdge, DriveState
<1>3. u = CASE e.brakeState = "closed"  -> BrakeClosed(e)
            [] e.brakeState = "opening" -> BrakeOpening(e)
            [] e.brakeState = "open"    -> BrakeOpen(e)
            [] e.brakeState = "closing" -> BrakeClosing(e)
  BY DEF UpdateBrakeState
<1>4. e.brakeState \in {"closed", "opening", "open", "closing"}
  BY <1>1 DEF DriveState, BrakeStates
<1>5. BrakeHistory(e, h)
  BY <1>1, HistoryTypes DEF BrakeHistory
<1>6. OpenDelay \in Nat /\ m.brakeCounter \in Nat
  BY CounterTypes, DriveAssumption DEF DriveAssumption
<1> HIDE DEF e, u
<1>7. CASE e.brakeState = "closed"
  BY <1>1, <1>2, <1>3, <1>7, OthersOpen DEF Opens, u
<1>8. CASE e.brakeState = "open"
  <2>1. u = BrakeOpen(e) /\ e = m
    BY <1>1, <1>3, <1>8
  <2>2. m.brakeOutputCmd
    BY <1>5, <1>8, <2>1 DEF BrakeHistory
  <2> QED BY <1>1, <1>2, <1>8, <2>1, <2>2, OthersOpen DEF Opens, u
<1>9. CASE e.brakeState = "closing"
  BY <1>1, <1>2, <1>3, <1>9, OthersOpen DEF Opens, u
<1>10. CASE e.brakeState = "opening"
  <2>1. u = BrakeOpening(e)
    BY <1>3, <1>10
  <2>2. /\ u.brakeState = "opening" =>
             /\ u.enableAmpCmd
             /\ u.brakeCounter <= e.brakeCounter + 1
             /\ e.localEnabled \/ u.brakeCounter = 0
        /\ u.brakeOutputCmd =>
             e.brakeOutputCmd \/ (e.localEnabled /\ e.brakeCounter > OpenDelay)
        /\ (u.enable => e.enable) /\ u.error = e.error
    BY <1>1, <1>5, <1>10, <2>1, OpeningOpens
  <2>3. CASE e = m
    BY <1>6, <1>10, <2>2, <2>3 DEF Opens, u
  <2>4. CASE e.brakeCounter = 0
    BY <1>1, <1>2, <1>6, <2>2, <2>4 DEF Opens, u
  <2> QED BY <1>1, <2>3, <2>4
<1> QED BY <1>4, <1>7, <1>8, <1>9, <1>10

\* The checks that follow take enable away with every error they set.
LEMMA WriteCommands ==
    ASSUME NEW d \in DriveState, NEW ok \in BOOLEAN, UpdateEnableCommand(d) \in DriveState
    PROVE  LET u == UpdateEnableCommand(d)
               e == BaseWriteEntries(d, ok)
           IN  /\ e.enable => u.enable
               /\ e.error => u.error \/ ~e.enable
<1> DEFINE u == UpdateEnableCommand(d)
           a == CheckInterlocks(u, ok)
           b == CheckTimeout(a)
           c == CheckEnabledLost(b)
           e == RememberCommands(c)
<1>1. e = BaseWriteEntries(d, ok)
  BY DEF BaseWriteEntries
<1> HIDE DEF u
<1>2. a \in DriveState /\ (a.enable => u.enable) /\ (a.error => u.error \/ ~a.enable)
  BY DEF CheckInterlocks, DriveState, u
<1> HIDE DEF a
<1>3. b \in DriveState /\ (b.enable => a.enable) /\ (b.error => a.error \/ ~b.enable)
  <2>1. (b.enable => a.enable) /\ (b.error => a.error \/ ~b.enable)
    BY <1>2 DEF CheckTimeout, DriveState
  <2> QED BY <1>2, <2>1, TimeoutKeepsBrake
<1> HIDE DEF b
<1>4. c \in DriveState /\ (c.enable => b.enable) /\ c.error = b.error
  BY <1>3 DEF CheckEnabledLost, DriveState
<1> HIDE DEF c
<1>5. e.enable = c.enable /\ e.error = c.error
  BY <1>4 DEF RememberCommands, DriveState
<1> HIDE DEF e
<1> QED BY <1>1, <1>2, <1>3, <1>4, <1>5 DEF u

\* All of writeEntries(): the facts of Opens, and what is remembered.
LEMMA WriteOpens ==
    ASSUME HasBrake, NEW d \in DriveState, NEW h \in Histories, NEW ok \in BOOLEAN,
           BrakeInvariant(d, h)
    PROVE  LET e == BaseWriteEntries(d, ok)
           IN  /\ Opens(d, e)
               /\ e.error => d.error \/ ~e.enable
               /\ e.enableAmpCmd = e.enableAmpCmdOld
               /\ e.brakeOutputCmd => e.enableAmpCmdOld
<1> DEFINE m == [d EXCEPT !.enabled = d.localEnabled /\ d.brakeOutputCmd]
           u == UpdateEnableCommand(d)
           e == BaseWriteEntries(d, ok)
<1>1. u = UpdateBrakeState(m)
  BY DEF UpdateEnableCommand
<1>2. /\ m \in DriveState
      /\ m.localEnabled = d.localEnabled /\ m.brakeState = d.brakeState
      /\ m.brakeCounter = d.brakeCounter /\ m.brakeOutputCmd = d.brakeOutputCmd
      /\ m.localEnabledOld = d.localEnabledOld /\ m.enableAmpCmdOld = d.enableAmpCmdOld
      /\ m.enable = d.enable /\ m.error = d.error
  BY DEF DriveState
<1> HIDE DEF m, u
<1>3. BrakeCounts(m) /\ BrakeHistory(m, h)
  BY <1>2 DEF BrakeInvariant, BrakeCounts, BrakeHistory
<1>4. StepOK(m, u, h) /\ Opens(m, u) /\ u.error = m.error
  BY <1>1, <1>2, <1>3, UpdateBrakeStateOK, UpdateOpens
<1>5. /\ e \in DriveState /\ SameBrake(u, e)
      /\ e.enableAmpCmdOld = u.enableAmpCmd
      /\ e.enable => u.enable
      /\ e.error => u.error \/ ~e.enable
  BY <1>4, WriteRemembers, WriteCommands DEF StepOK, u
<1> HIDE DEF e
<1>6. Opens(d, e)
  BY <1>2, <1>4, <1>5 DEF Opens, SameBrake
<1>7. e.brakeOutputCmd => e.enableAmpCmdOld
  BY <1>4, <1>5 DEF StepOK, BrakeOwes, SameBrake
<1> QED BY <1>2, <1>4, <1>5, <1>6, <1>7 DEF Opens, SameBrake, e
=============================================================================
