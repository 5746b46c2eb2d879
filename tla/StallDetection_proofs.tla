------------------------ MODULE StallDetection_proofs ------------------------
(***************************************************************************)
(* Proofs about StallDetection: its types, that a working pipeline is      *)
(* never restarted, and that restarts end with the input but in one way,   *)
(* for every log interval, number of windows, interval and cooldown.       *)
(*                                                                         *)
(* That output has been quiet for Limit when a restart is due does not     *)
(* follow from the count alone: the count says how many windows have       *)
(* passed, and only what the totals have not gained since the last look    *)
(* says that they were silent.  QuietSinceLook joins the two; it holds     *)
(* between the looks too, when part of a window has passed.                *)
(***************************************************************************)
EXTENDS StallDetection, TLAPS

USE DEF Kinds, Output

\* What the bounded counter UpTo yields: one more, or the bound.
LEMMA UpToBounds ==
    ASSUME NEW bound \in Nat, NEW n \in 0..bound
    PROVE  /\ UpTo(n, bound) \in 0..bound
           /\ (n < bound /\ UpTo(n, bound) = n + 1) \/ (n = bound /\ UpTo(n, bound) = bound)
BY DEF UpTo

\* The time a restart asks for is a number of seconds.
LEMMA LimitIsNat == Limit \in Nat
BY WatchdogAssumption DEF Limit

-----------------------------------------------------------------------------

\* Every count of the metrics and the watchdog stays within its bound.
THEOREM TypeCorrect == Spec => []TypeOK
<1>1. Init => TypeOK
  <2> SUFFICES ASSUME Init PROVE TypeOK
    OBVIOUS
  <2>1. logInterval \in LogIntervals /\ logInterval \in Nat
    BY LogIntervalsAssumption DEF Init
  <2>2. age \in 0..logInterval /\ quiet \in 0..Limit
    BY <2>1, LimitIsNat DEF Init
  <2>3. timer \in 0..Interval /\ stalled \in 0..StalledWindows /\ cool \in 0..Cooldown
    BY WatchdogAssumption DEF Init
  <2> QED
    BY <2>1, <2>2, <2>3 DEF Init, TypeOK
<1>2. TypeOK /\ [Next]_vars => TypeOK'
  <2> SUFFICES ASSUME TypeOK, [Next]_vars PROVE TypeOK'
    OBVIOUS
  <2> logInterval \in Nat
    BY LogIntervalsAssumption DEF TypeOK
  <2>1. ASSUME NEW sources \in SUBSET Kinds, NEW consumed \in BOOLEAN,
               Tick(sources, consumed)
        PROVE  TypeOK'
    <3>1. age' \in 0..logInterval /\ cool' \in 0..Cooldown /\ quiet' \in 0..Limit
      BY <2>1, UpToBounds, LimitIsNat, WatchdogAssumption DEF Tick, TypeOK
    <3>2. timer' \in 0..Interval
      BY <2>1, WatchdogAssumption DEF Tick, TypeOK
    <3> QED
      BY <2>1, <3>1, <3>2 DEF Tick, TypeOK
  <2>2. ASSUME NEW kind \in Kinds, Record(kind)
        PROVE  TypeOK'
    <3>1. quiet' \in 0..Limit
      BY <2>2, LimitIsNat DEF Record, TypeOK
    <3>2. /\ window' \subseteq Kinds /\ rates' \subseteq Kinds
          /\ age' \in 0..logInterval
      <4>1. CASE age < logInterval
        BY <2>2, <4>1 DEF Record, TypeOK
      <4>2. CASE ~(age < logInterval)
        <5>1. window' = {} /\ rates' \subseteq window \cup {kind} /\ age' = 0
          BY <2>2, <4>2 DEF Record
        <5> QED
          BY <5>1 DEF TypeOK
      <4> QED
        BY <4>1, <4>2
    <3> QED
      BY <2>2, <3>1, <3>2 DEF Record, TypeOK, watchdog
  <2>3. CASE Skip
    BY <2>3, WatchdogAssumption DEF Skip, TypeOK, metrics
  <2>4. CASE Look
    <3>1. Counted \in 0..StalledWindows
      BY UpToBounds, WatchdogAssumption DEF Counted, TypeOK
    <3> QED
      BY <2>4, <3>1, WatchdogAssumption DEF Look, TypeOK, metrics
  <2>5. CASE Restart
    BY <2>5, WatchdogAssumption DEF Restart, TypeOK, metrics
  <2>6. CASE UNCHANGED vars
    BY <2>6 DEF vars, metrics, watchdog, TypeOK
  <2> QED
    BY <2>1, <2>2, <2>3, <2>4, <2>5, <2>6 DEF Next, Watchdog
<1> QED
  BY <1>1, <1>2, PTL DEF Spec

-----------------------------------------------------------------------------

\* As long as the totals of the output have not grown since the last look,
\* output has been quiet for the windows counted and the part of this one.
QuietSinceLook ==
    fresh \cap Output = {} =>
        quiet = Limit \/ quiet >= stalled * Interval + (Interval - timer)

\* One window more is Interval seconds more.
LEMMA OneMoreWindow ==
    ASSUME NEW n \in Nat
    PROVE  (n + 1) * Interval = n * Interval + Interval /\ n * Interval \in Nat
BY WatchdogAssumption

\* A look that counts a stalled window has seen it whole.
LEMMA CountedIsQuiet ==
    ASSUME TypeOK, QuietSinceLook, timer = 0
    PROVE  quiet = Limit \/ quiet >= Counted * Interval
<1>1. CASE InputActive /\ OutputStalled
  <2>1. fresh \cap Output = {}
    BY <1>1 DEF OutputStalled
  <2>2. stalled \in 0..StalledWindows /\ StalledWindows \in Nat /\ quiet \in Nat
    BY WatchdogAssumption, LimitIsNat DEF TypeOK
  <2>3. Interval \in Nat /\ stalled * Interval \in Nat
    BY <2>2, OneMoreWindow, WatchdogAssumption
  <2>4. quiet = Limit \/ quiet >= stalled * Interval + Interval
    BY <2>1, <2>3 DEF QuietSinceLook
  <2>5. Counted = UpTo(stalled, StalledWindows)
    BY <1>1 DEF Counted
  <2>6. CASE Counted = stalled + 1
    BY <2>2, <2>4, <2>6, OneMoreWindow
  <2>7. CASE Counted = stalled
    BY <2>2, <2>3, <2>4, <2>7
  <2> QED
    BY <2>2, <2>5, <2>6, <2>7, UpToBounds
<1>2. CASE ~(InputActive /\ OutputStalled)
  <2>1. Counted = 0
    BY <1>2 DEF Counted
  <2> QED
    BY <2>1, LimitIsNat, WatchdogAssumption DEF TypeOK
<1> QED
  BY <1>1, <1>2

\* QuietSinceLook holds in every reachable state.
THEOREM QuietSinceLookInvariant == Spec => []QuietSinceLook
<1>1. Init => QuietSinceLook
  BY WatchdogAssumption DEF Init, QuietSinceLook
<1>2. TypeOK /\ QuietSinceLook /\ [Next]_vars => QuietSinceLook'
  <2> SUFFICES ASSUME TypeOK, QuietSinceLook, [Next]_vars PROVE QuietSinceLook'
    OBVIOUS
  <2> USE DEF TypeOK
  <2>a. /\ stalled \in Nat /\ Interval \in Nat /\ stalled * Interval \in Nat
        /\ Limit \in Nat /\ quiet \in 0..Limit /\ timer \in 0..Interval
    BY OneMoreWindow, LimitIsNat, WatchdogAssumption
  <2>1. ASSUME NEW sources \in SUBSET Kinds, NEW consumed \in BOOLEAN,
               Tick(sources, consumed)
        PROVE  QuietSinceLook'
    <3>1. fresh' = fresh /\ stalled' = stalled /\ timer' = timer - 1
      BY <2>1 DEF Tick
    <3>2. (quiet < Limit /\ quiet' = quiet + 1) \/ (quiet = Limit /\ quiet' = Limit)
      BY <2>1, <2>a, UpToBounds DEF Tick
    <3>3. stalled' * Interval = stalled * Interval
      BY <3>1
    <3> DEFINE seen == stalled * Interval
    <3>4. seen \in Nat /\ stalled' * Interval = seen
      BY <2>a, <3>3
    <3> HIDE DEF seen
    <3>5. ASSUME fresh \cap Output = {}, quiet = Limit \/ quiet >= seen + (Interval - timer)
          PROVE  quiet' = Limit \/ quiet' >= seen + (Interval - timer')
      BY <2>a, <3>1, <3>2, <3>4, <3>5
    <3>6. fresh \cap Output = {} =>
              quiet = Limit \/ quiet >= seen + (Interval - timer)
      BY DEF QuietSinceLook, seen
    <3>7. fresh' \cap Output = {} =>
              quiet' = Limit \/ quiet' >= seen + (Interval - timer')
      BY <3>1, <3>5, <3>6
    <3>8. fresh' \cap Output = {} =>
              quiet' = Limit \/ quiet' >= stalled' * Interval + (Interval - timer')
      BY <3>4, <3>7
    <3> QED
      BY <3>8 DEF QuietSinceLook, Limit
  <2>2. ASSUME NEW kind \in Kinds, Record(kind)
        PROVE  QuietSinceLook'
    <3>1. stalled' = stalled /\ timer' = timer
      BY <2>2 DEF Record, watchdog
    <3>2. CASE kind \in Output
      BY <2>2, <3>2 DEF Record, QuietSinceLook
    <3>3. CASE kind \notin Output
      <4>1. quiet' = quiet /\ fresh' \cap Output = fresh \cap Output
        BY <2>2, <3>3 DEF Record
      <4> QED
        BY <3>1, <4>1 DEF QuietSinceLook, Limit
    <3> QED
      BY <3>2, <3>3
  <2>3. CASE Skip
    <3>1. stalled' = 0 /\ timer' = Interval /\ quiet' = quiet
      BY <2>3 DEF Skip
    <3>2. stalled' * Interval + (Interval - timer') = 0
      BY <2>a, <3>1
    <3> QED
      BY <2>a, <3>1, <3>2 DEF QuietSinceLook, Limit
  <2>4. CASE Look
    <3>1. stalled' = Counted /\ timer' = Interval /\ quiet' = quiet /\ timer = 0
      BY <2>4 DEF Look
    <3>2. quiet = Limit \/ quiet >= Counted * Interval
      BY <3>1, CountedIsQuiet
    <3>3. Counted \in Nat
      BY <2>a, UpToBounds, WatchdogAssumption DEF Counted
    <3>4. Counted * Interval \in Nat
      BY <3>3, OneMoreWindow
    <3>5. stalled' * Interval + (Interval - timer') = Counted * Interval
      BY <2>a, <3>1, <3>4
    <3> QED
      BY <3>1, <3>2, <3>5 DEF QuietSinceLook, Limit
  <2>5. CASE Restart
    <3>1. stalled' = 0 /\ timer' = Interval /\ quiet' = quiet
      BY <2>5 DEF Restart
    <3>2. stalled' * Interval + (Interval - timer') = 0
      BY <2>a, <3>1
    <3> QED
      BY <2>a, <3>1, <3>2 DEF QuietSinceLook, Limit
  <2>6. CASE UNCHANGED vars
    BY <2>6 DEF vars, metrics, watchdog, QuietSinceLook, Limit
  <2> QED
    BY <2>1, <2>2, <2>3, <2>4, <2>5, <2>6 DEF Next, Watchdog
<1> QED
  BY <1>1, <1>2, TypeCorrect, PTL DEF Spec

\* Whenever the watchdog restarts the pipeline, output has been quiet for as
\* long as StalledWindows of its windows take.
THEOREM RestartsAreEarned == Spec => RestartOnlyWhenQuiet
<1>1. TypeOK /\ QuietSinceLook /\ [Next]_vars =>
          [cool' = 0 /\ cool # 0 => quiet = Limit]_vars
  <2> SUFFICES ASSUME TypeOK, QuietSinceLook, [Next]_vars, cool' = 0, cool # 0
               PROVE  quiet = Limit
    OBVIOUS
  <2>1. CASE Restart
    <3>1. timer = 0 /\ Counted >= StalledWindows
      BY <2>1 DEF Restart
    <3>2. Counted \in 0..StalledWindows
      BY UpToBounds, WatchdogAssumption DEF Counted, TypeOK
    <3>3. Counted = StalledWindows
      BY <3>1, <3>2, WatchdogAssumption
    <3>4. quiet = Limit \/ quiet >= Limit
      BY <3>1, <3>3, CountedIsQuiet DEF Limit
    <3> QED
      BY <3>4, LimitIsNat DEF TypeOK
  <2>2. ASSUME NEW sources \in SUBSET Kinds, NEW consumed \in BOOLEAN,
               Tick(sources, consumed)
        PROVE  FALSE
    <3>1. cool \in 0..Cooldown /\ Cooldown \in Nat \ {0}
      BY WatchdogAssumption DEF TypeOK
    <3>2. cool' = UpTo(cool, Cooldown)
      BY <2>2 DEF Tick
    <3>3. UpTo(cool, Cooldown) # 0
      BY <3>1, UpToBounds
    <3> QED
      BY <3>2, <3>3
  <2>3. ASSUME NEW kind \in Kinds, Record(kind)
        PROVE  FALSE
    BY <2>3 DEF Record, watchdog
  <2>4. CASE Skip \/ Look
    BY <2>4 DEF Skip, Look
  <2>5. CASE UNCHANGED vars
    BY <2>5 DEF vars, watchdog
  <2> QED
    BY <2>1, <2>2, <2>3, <2>4, <2>5 DEF Next, Watchdog
<1> QED
  BY <1>1, TypeCorrect, QuietSinceLookInvariant, PTL DEF Spec, RestartOnlyWhenQuiet

-----------------------------------------------------------------------------
(* The end of the restarts.  The fairness of the module is written with    *)
(* ENABLED expanded: the clock may tick when what is on is recorded and    *)
(* the watchdog sleeps, a kind may be recorded when it is on and was not   *)
(* yet, and the watchdog takes its turn when it wakes up.                  *)

TickStep == \E sources \in SUBSET Kinds, consumed \in BOOLEAN : Tick(sources, consumed)

\* Kind has been recorded in this second, or is off.
Recorded(kind) == kind \notin on \ done

TimePasses == []<>~(on \subseteq done /\ timer > 0) \/ []<><<TickStep>>_vars
RecordRuns(kind) == []<>Recorded(kind) \/ []<><<Record(kind)>>_vars
\* The watchdog is asleep.
Asleep == timer # 0

WatchdogRuns == []<>Asleep \/ []<><<Watchdog>>_vars

RunningSpec ==
    Spec /\ TimePasses /\ WatchdogRuns /\ \A kind \in Kinds : RecordRuns(kind)

\* What the clock waits for: a kind to be recorded, or the watchdog.
LEMMA SecondEnds ==
    ASSUME TypeOK, [Next]_vars, ~<<TickStep>>_vars
    PROVE  /\ \A kind \in Kinds : Recorded(kind) => Recorded(kind)'
           /\ Asleep => Asleep'
           /\ cool = 0 => cool' = 0
<1>1. ~TickStep
    <2>1. ASSUME TickStep PROVE timer' # timer
        BY <2>1 DEF TickStep, Tick, TypeOK
    <2> QED
        BY <2>1 DEF vars, watchdog
<1>2. ASSUME NEW kind \in Kinds, Record(kind)
      PROVE  on' = on /\ done \subseteq done' /\ timer' = timer /\ cool' = cool
    BY <1>2 DEF Record, watchdog
<1>3. CASE Watchdog
    BY <1>3, WatchdogAssumption DEF Watchdog, Skip, Look, Restart, Recorded, Asleep
<1>4. CASE UNCHANGED vars
    BY <1>4 DEF vars, watchdog, Recorded, Asleep
<1>5. CASE \E kind \in Kinds : Record(kind)
    BY <1>2, <1>5 DEF Recorded, Asleep
<1> QED
    BY <1>1, <1>3, <1>4, <1>5 DEF Next, TickStep

\* Within a second that does not end every kind that is on gets recorded,
LEMMA SecondRecorded ==
    ASSUME NEW kind \in Kinds
    PROVE  RunningSpec => []<><<TickStep>>_vars \/ <>[]Recorded(kind)
<1>1. TypeOK /\ [Next]_vars /\ ~<<TickStep>>_vars => (Recorded(kind) => Recorded(kind)')
    BY SecondEnds
<1>2. <<Record(kind)>>_vars => Recorded(kind)'
    BY DEF Record, Recorded
<1>3. RunningSpec => Spec /\ RecordRuns(kind)
    BY DEF RunningSpec
<1> QED
    BY <1>1, <1>2, <1>3, TypeCorrect, PTL DEF Spec, RecordRuns

\* and the watchdog goes back to sleep,
LEMMA WatchdogSleeps == RunningSpec => []<><<TickStep>>_vars \/ <>[]Asleep
<1>1. TypeOK /\ [Next]_vars /\ ~<<TickStep>>_vars => (Asleep => Asleep')
    BY SecondEnds
<1>2. <<Watchdog>>_vars => Asleep'
    BY WatchdogAssumption DEF Watchdog, Skip, Look, Restart, Asleep
<1>3. RunningSpec => Spec /\ WatchdogRuns
    BY DEF RunningSpec
<1> QED
    BY <1>1, <1>2, <1>3, TypeCorrect, PTL DEF Spec, WatchdogRuns

\* so the clock goes on.
LEMMA ClockGoesOn == RunningSpec => []<><<TickStep>>_vars
<1> DEFINE Due == ~(on \subseteq done /\ timer > 0)
           Ends(kind) == RunningSpec => []<><<TickStep>>_vars \/ <>[]Recorded(kind)
<1>1. /\ TypeOK /\ Asleep
      /\ Recorded("input") /\ Recorded("frames") /\ Recorded("packets")
      => ~Due
    BY DEF TypeOK, Recorded, Asleep
<1>2. Ends("input") /\ Ends("frames") /\ Ends("packets")
    <2>1. ASSUME NEW kind \in Kinds PROVE Ends(kind)
        BY SecondRecorded
    <2> HIDE DEF Ends
    <2> QED
        BY <2>1
<1>3. RunningSpec => Spec /\ TimePasses
    BY DEF RunningSpec
<1>4. Due <=> ~(on \subseteq done /\ timer > 0)
    OBVIOUS
<1> HIDE DEF Due
<1> QED
    BY <1>1, <1>2, <1>3, <1>4, WatchdogSleeps, TypeCorrect, PTL DEF TimePasses

-----------------------------------------------------------------------------
(* What is left of the input once it has ended: in the open window, until  *)
(* a record closes it, in the rates, until a later one does, and in the    *)
(* totals, until the watchdog looks at them.                               *)

Ended == "input" \notin on
InWindow == "input" \in window
InRates == "input" \in rates
InTotals == "input" \in fresh
OutputRated == rates \cap Output # {}
JustRestarted == cool = 0

\* Each of the three, once gone, does not come back, and the rates change only
\* when a window is closed, after which they may still have input once.
LEMMA InputFades ==
    ASSUME Ended, [Next]_vars
    PROVE  /\ ~InWindow => ~InWindow'
           /\ InWindow /\ InWindow' => UNCHANGED rates
           /\ ~InWindow /\ ~InRates => ~InRates'
           /\ ~InWindow /\ InRates' => UNCHANGED rates
           /\ ~InTotals => ~InTotals'
<1> USE DEF Ended, InWindow, InRates, InTotals
<1>1. ASSUME NEW kind \in Kinds, Record(kind)
      PROVE  /\ fresh' = fresh \cup {kind} /\ kind # "input"
             /\ \/ window' = window \cup {kind} /\ UNCHANGED rates
                \/ window' = {} /\ rates' \subseteq window \cup {kind}
    BY <1>1 DEF Record
<1>2. CASE \E kind \in Kinds : Record(kind)
    BY <1>1, <1>2
<1>3. CASE TickStep \/ Watchdog \/ UNCHANGED vars
    BY <1>3 DEF TickStep, Tick, Watchdog, Skip, Look, Restart, metrics, vars
<1> QED
    BY <1>2, <1>3 DEF Next, TickStep

\* Input counted as active and no output, in the totals and in the rates, is what
\* a restart is due to; and it forgets the totals.
LEMMA RestartSeesInput ==
    ASSUME StalledWindows > 0, TypeOK, [Next]_vars, ~JustRestarted, JustRestarted'
    PROVE  (InRates \/ InTotals) /\ ~OutputRated /\ ~InTotals'
<1>1. ASSUME NEW sources \in SUBSET Kinds, NEW consumed \in BOOLEAN, Tick(sources, consumed)
      PROVE  cool' # 0
    <2>1. cool' = UpTo(cool, Cooldown) /\ cool \in 0..Cooldown
        BY <1>1 DEF Tick, TypeOK
    <2> QED
        BY <2>1, WatchdogAssumption DEF UpTo
<1>2. ASSUME NEW kind \in Kinds, Record(kind) PROVE cool' = cool
    BY <1>2 DEF Record, watchdog
<1>3. CASE Skip \/ Look \/ UNCHANGED vars
    BY <1>3 DEF Skip, Look, vars, watchdog, JustRestarted
<1>4. CASE Restart
    <2>1. Counted # 0 /\ fresh' = {}
        BY <1>4, WatchdogAssumption DEF Restart
    <2>2. InputActive /\ OutputStalled
        BY <2>1 DEF Counted
    <2> QED
        BY <2>1, <2>2 DEF InputActive, OutputStalled, InRates, InTotals, OutputRated
<1> QED
    BY <1>1, <1>2, <1>3, <1>4 DEF Next, Watchdog, JustRestarted

\* A second after a restart it is not the last thing that happened.
LEMMA RestartAges == TypeOK /\ <<TickStep>>_vars => ~JustRestarted'
<1> SUFFICES ASSUME TypeOK, NEW sources \in SUBSET Kinds, NEW consumed \in BOOLEAN,
                    Tick(sources, consumed)
             PROVE  ~JustRestarted'
    BY DEF TickStep
<1>1. cool' = UpTo(cool, Cooldown) /\ cool \in 0..Cooldown
    BY DEF Tick, TypeOK
<1> QED
    BY <1>1, WatchdogAssumption DEF UpTo, JustRestarted

\* Once the input has ended for good the restarts end, or the rates of the last
\* closed window, input without output, stay for ever: for every log interval,
\* interval and cooldown, and every number of windows but 0, with which a
\* pipeline without input is restarted too.
THEOREM RestartsEnd ==
    ASSUME StalledWindows > 0
    PROVE  RunningSpec => RestartsEndWithInput
<1>1. Ended /\ [Next]_vars =>
         /\ ~InWindow => ~InWindow'
         /\ InWindow /\ InWindow' =>
               (InRates <=> InRates') /\ (OutputRated <=> OutputRated')
         /\ ~InWindow /\ ~InRates => ~InRates'
         /\ ~InWindow /\ InRates' => InRates /\ (OutputRated <=> OutputRated')
         /\ ~InTotals => ~InTotals'
    BY InputFades DEF InRates, OutputRated
<1>2. TypeOK /\ [Next]_vars /\ ~JustRestarted /\ JustRestarted' =>
         (InRates \/ InTotals) /\ ~OutputRated /\ ~InTotals'
    BY RestartSeesInput
<1>3. RunningSpec => Spec
    BY DEF RunningSpec
<1>4. Ended <=> "input" \notin on
    BY DEF Ended
<1>5. ~JustRestarted <=> cool # 0
    BY DEF JustRestarted
<1>6. InRates /\ ~OutputRated <=> "input" \in rates /\ rates \cap Output = {}
    BY DEF InRates, OutputRated
<1> QED
    BY <1>1, <1>2, <1>3, <1>4, <1>5, <1>6, RestartAges, ClockGoesOn, TypeCorrect, PTL
       DEF Spec, RestartsEndWithInput

=============================================================================
