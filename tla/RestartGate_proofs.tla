------------------------- MODULE RestartGate_proofs -------------------------
(***************************************************************************)
(* Proofs about RestartGate, for any cooldown, any bound on the length of  *)
(* a restart below it and any watchdog and DTLS settings.                  *)
(***************************************************************************)
EXTENDS RestartGate, TLAPS

\* The mutex and the ages.  A thread that waits for a restart has waited no
\* longer than that restart takes; when it gets the mutex the stamp is younger
\* than the cooldown.  The stamp is never much older than the last restart.
GateInv ==
    /\ pc \in [Threads -> {"idle", "waiting", "null", "playing", "exited"}]
    /\ waited \in [Threads -> Nat]
    /\ holder \in Threads \cup {"none"}
    /\ held \in 0..MaxHold
    /\ age \in 0..Oldest
    /\ rest \in 0..Cooldown
    /\ \A t \in Threads : Restarting(t) <=> holder = t
    /\ \A t \in Threads : Restarting(t) => waited[t] = held
    /\ \A t \in Threads : pc[t] = "waiting" =>
          IF holder = "none" THEN waited[t] = 0 \/ age < Cooldown ELSE waited[t] <= held
    /\ holder = "none" => age <= rest + MaxHold

LEMMA GateInit == Init => GateInv
BY GateConfigured DEF Init, GateInv, Threads, Restarting, Oldest

\* A restart begins with the mutex free, long after the last one, and with no
\* thread waiting from before.
LEMMA RestartBegins ==
  ASSUME GateInv, NEW t \in Threads, Restart(t)
  PROVE  /\ \A u \in Threads : ~Restarting(u)
         /\ rest >= Cooldown - MaxHold
         /\ \A u \in Threads : pc[u] = "waiting" => waited[u] = 0
<1>1. holder = "none" /\ \A u \in Threads : ~Restarting(u)
  BY DEF Restart, GateInv, Threads
<1>2. age >= Cooldown
  BY GateConfigured DEF Restart, SinceStamp, GateInv, Oldest
<1>3. QED
  BY <1>1, <1>2, GateConfigured DEF GateInv, Oldest

LEMMA GateNext == GateInv /\ [Next]_vars => GateInv'
<1> SUFFICES ASSUME GateInv, [Next]_vars PROVE GateInv'
  OBVIOUS
<1> USE GateConfigured DEF GateInv, Restarting, Oldest
<1>1. ASSUME UNCHANGED <<pc, waited, holder, held, age, rest>> PROVE GateInv'
  BY <1>1
<1>2. ASSUME NEW t \in Threads, pc[t] = "idle", Waits(t),
             UNCHANGED <<holder, held, age, rest>>
      PROVE  GateInv'
  BY <1>2 DEF Waits
<1>3. ASSUME NEW t \in Threads, Restart(t) PROVE GateInv'
  <2>1. \A u \in Threads : pc[u] = "waiting" => waited[u] = 0
    BY <1>3, RestartBegins
  <2>2. QED
    BY <1>3, <2>1 DEF Restart, Threads
<1>4. ASSUME NEW t \in Threads, Suppress(t) PROVE GateInv'
  BY <1>4 DEF Suppress, Idles
<1>5. ASSUME NEW t \in Threads, BackToPlaying(t) PROVE GateInv'
  BY <1>5 DEF BackToPlaying
<1>6. ASSUME NEW t \in Threads, Finish(t) PROVE GateInv'
  <2>1. holder = t /\ waited[t] = held
    BY <1>6 DEF Finish
  <2>2. age' \in Nat /\ age' <= MaxHold /\ rest' = 0 /\ holder' = "none" /\ held' = 0
    BY <1>6, <2>1 DEF Finish
  <2>3. QED
    BY <1>6, <2>1, <2>2 DEF Finish, Idles, Threads
<1>7. CASE Tick
  <2>1. age' \in 0..Oldest /\ rest' \in 0..Cooldown
    BY <1>7 DEF Tick, Capped
  <2>2. held' \in 0..MaxHold /\ waited' \in [Threads -> Nat]
    BY <1>7 DEF Tick
  <2>3. holder = "none" => age' <= rest' + MaxHold
    BY <1>7 DEF Tick, Capped
  <2>4. ASSUME NEW t \in Threads
        PROVE  /\ Restarting(t)' => waited'[t] = held'
               /\ pc'[t] = "waiting" => holder' # "none" /\ waited'[t] <= held'
    BY <1>7 DEF Tick, Threads
  <2>5. QED
    BY <1>7, <2>1, <2>2, <2>3, <2>4 DEF Tick
<1>8. CASE OutputChanges \/ PostError \/ StopCamera
  BY <1>1, <1>8 DEF OutputChanges, PostError, StopCamera, threads
<1>9. CASE BusError
  BY <1>2, <1>9 DEF BusError, Dispatch, Threads
<1>10. CASE BusWarning
  <2>1. UNCHANGED <<holder, held, age, rest>> /\ pc["bus"] = "idle"
    BY <1>10 DEF BusWarning, Dispatch
  <2>2. Waits("bus") \/ UNCHANGED <<pc, waited>>
    BY <1>10 DEF BusWarning
  <2>3. QED
    BY <1>1, <1>2, <2>1, <2>2 DEF Threads
<1>11. CASE WatchdogChecks
  <2>1. UNCHANGED <<holder, held, age, rest>> /\ pc["watchdog"] = "idle"
    BY <1>11 DEF WatchdogChecks
  <2>2. CASE running
    <3>1. Waits("watchdog") \/ UNCHANGED <<pc, waited>>
      BY <1>11, <2>2 DEF WatchdogChecks
    <3>2. QED
      BY <1>1, <1>2, <2>1, <3>1 DEF Threads
  <2>3. CASE ~running
    <3>1. pc' = [pc EXCEPT !["watchdog"] = "exited"] /\ UNCHANGED waited
      BY <1>11, <2>3 DEF WatchdogChecks
    <3>2. QED
      BY <2>1, <3>1 DEF Threads
  <2>4. QED
    BY <2>2, <2>3
<1>12. CASE UNCHANGED vars
  BY <1>1, <1>12 DEF vars, threads
<1>13. QED
  BY <1>3, <1>4, <1>5, <1>6, <1>7, <1>8, <1>9, <1>10, <1>11, <1>12
  DEF Next, ThreadStep

LEMMA GateInvariant == Spec => []GateInv
BY GateInit, GateNext, PTL DEF Spec

\* Whoever restarts the pipeline read the time when it took the mutex: a thread
\* that waited for another restart is held back.
THEOREM WaitersHoldBack == Spec => []WaiterHoldsBack
<1>1. GateInv => WaiterHoldsBack
  BY DEF GateInv, WaiterHoldsBack
<1>2. QED
  BY <1>1, GateInvariant, PTL

LEMMA OnlyRestartBegins ==
  ASSUME GateInv, [Next]_vars, NEW t \in Threads, Restarting(t)', ~Restarting(t)
  PROVE  Restart(t)
<1> USE DEF GateInv, Restarting, Threads
<1>1. CASE OutputChanges \/ PostError \/ StopCamera \/ Tick
  BY <1>1 DEF OutputChanges, PostError, StopCamera, Tick, threads
<1>2. CASE BusError \/ BusWarning
  BY <1>2 DEF BusError, BusWarning, Waits
<1>3. CASE WatchdogChecks
  <2>1. \/ UNCHANGED pc
        \/ pc' = [pc EXCEPT !["watchdog"] = "exited"]
        \/ pc' = [pc EXCEPT !["watchdog"] = "waiting"]
    BY <1>3 DEF WatchdogChecks, Waits
  <2>2. QED
    BY <2>1
<1>4. ASSUME NEW u \in Threads, ThreadStep(u) PROVE Restart(t)
  BY <1>4 DEF ThreadStep, Restart, Suppress, BackToPlaying, Finish, Idles
<1>5. CASE UNCHANGED vars
  BY <1>5 DEF vars, threads
<1>6. QED
  BY <1>1, <1>2, <1>3, <1>4, <1>5 DEF Next

\* Restarts never overlap, and between two of them lies at least the cooldown
\* less the time a restart takes.
THEOREM RestartsSpaced == Spec => RestartsAreSpaced
<1>1. GateInv /\ [Next]_vars =>
        [\A t \in Threads :
            Restarting(t)' /\ ~Restarting(t) =>
                /\ \A u \in Threads : ~Restarting(u)
                /\ rest >= Cooldown - MaxHold]_vars
  BY OnlyRestartBegins, RestartBegins
<1>2. QED
  BY <1>1, GateInvariant, PTL DEF Spec, RestartsAreSpaced

-----------------------------------------------------------------------------
(* Types.                                                                  *)

\* What is added to the age of the marker, the rest and the DTLS window stays
\* under the cap.
LEMMA CappedBound ==
  ASSUME NEW bound \in Nat, NEW n \in Nat
  PROVE  Capped(n, bound) \in 0..bound
BY DEF Capped

LEMMA BoundsAreNat ==
  {Cooldown, MaxHold, Interval, StalledWindows, DtlsThreshold, DtlsWindow, BusRate}
      \subseteq Nat
BY GateConfigured

\* The variables that only the watchdog and the bus callback count in.
CountsOK ==
    /\ running \in BOOLEAN
    /\ pipeline \in {"Null", "Playing"}
    /\ dtls \in [warnings : 0..DtlsThreshold, age : 0..DtlsWindow]
    /\ stalled \in 0..StalledWindows
    /\ timer \in 0..Interval
    /\ messages \in 0..BusRate
    /\ stall \in BOOLEAN
    /\ errors \in BOOLEAN

LEMMA CountsNext ==
  ASSUME CountsOK, [Next]_vars
  PROVE  CountsOK'
<1> USE GateConfigured DEF CountsOK
<1>1. Reset \in [warnings : 0..DtlsThreshold, age : 0..DtlsWindow]
  BY DEF Reset
<1>2. CASE OutputChanges \/ PostError \/ StopCamera
  BY <1>2 DEF OutputChanges, PostError, StopCamera, threads
<1>3. CASE BusError
  <2>1. messages' \in 0..BusRate
    BY <1>3 DEF BusError, Dispatch
  <2>2. QED
    BY <1>3, <2>1 DEF BusError
<1>4. CASE BusWarning
  <2>1. messages' \in 0..BusRate
    BY <1>4 DEF BusWarning, Dispatch
  <2> DEFINE open == IF dtls.age >= DtlsWindow THEN Reset ELSE dtls
  <2>2. open \in [warnings : 0..DtlsThreshold, age : 0..DtlsWindow]
    BY <1>1
  <2> HIDE DEF open
  <2>3. Capped(open.warnings + 1, DtlsThreshold) \in 0..DtlsThreshold
    <3>1. open.warnings + 1 \in Nat /\ DtlsThreshold \in Nat
      BY <2>2, BoundsAreNat
    <3>2. QED
      BY <3>1, CappedBound
  <2>4. dtls' = [open EXCEPT !.warnings = Capped(open.warnings + 1, DtlsThreshold)]
    BY <1>4 DEF BusWarning, open
  <2>5. dtls' \in [warnings : 0..DtlsThreshold, age : 0..DtlsWindow]
    BY <2>2, <2>3, <2>4
  <2>6. UNCHANGED <<running, pipeline, stalled, timer, stall, errors>>
    BY <1>4 DEF BusWarning
  <2>7. QED
    BY <2>1, <2>5, <2>6
<1>5. CASE WatchdogChecks
  <2>1. stalled' \in 0..StalledWindows
    <3>1. Capped(stalled + 1, StalledWindows) \in 0..StalledWindows
      <4>1. stalled + 1 \in Nat /\ StalledWindows \in Nat
        BY BoundsAreNat
      <4>2. QED
        BY <4>1, CappedBound
    <3>2. QED
      BY <1>5, <3>1 DEF WatchdogChecks
  <2>2. timer' \in 0..Interval
    BY <1>5 DEF WatchdogChecks
  <2>3. QED
    BY <1>5, <2>1, <2>2 DEF WatchdogChecks
<1>6. ASSUME NEW t \in Threads, ThreadStep(t) PROVE CountsOK'
  <2>1. CASE Restart(t)
    BY <2>1 DEF Restart
  <2>2. CASE Suppress(t)
    <3>1. timer' \in 0..Interval
      BY <2>2 DEF Suppress, Idles
    <3>2. QED
      BY <2>2, <3>1 DEF Suppress
  <2>3. CASE BackToPlaying(t)
    BY <2>3 DEF BackToPlaying
  <2>4. CASE Finish(t)
    <3>1. timer' \in 0..Interval /\ stalled' \in 0..StalledWindows
      BY <2>4 DEF Finish, Idles
    <3>2. QED
      BY <1>1, <2>4, <3>1 DEF Finish
  <2>5. QED
    BY <1>6, <2>1, <2>2, <2>3, <2>4 DEF ThreadStep
<1>7. CASE Tick
  <2>1. Capped(dtls.age + 1, DtlsWindow) \in 0..DtlsWindow
    <3>1. dtls.age + 1 \in Nat /\ DtlsWindow \in Nat
      BY BoundsAreNat
    <3>2. QED
      BY <3>1, CappedBound
  <2>2. dtls' \in [warnings : 0..DtlsThreshold, age : 0..DtlsWindow]
    BY <1>7, <2>1 DEF Tick
  <2>3. timer' \in 0..Interval /\ messages' = 0
    BY <1>7 DEF Tick
  <2>4. UNCHANGED <<running, pipeline, stalled, stall, errors>>
    BY <1>7 DEF Tick
  <2>5. QED
    BY <2>2, <2>3, <2>4
<1>8. CASE UNCHANGED vars
  BY <1>8 DEF vars, threads
<1>9. QED
  BY <1>2, <1>3, <1>4, <1>5, <1>6, <1>7, <1>8 DEF Next

\* No thread waits longer than one restart takes.
WaitsAreBounded == \A t \in Threads : waited[t] <= MaxHold

LEMMA WaitsNext ==
  ASSUME GateInv, WaitsAreBounded, [Next]_vars
  PROVE  WaitsAreBounded'
<1> USE GateConfigured DEF WaitsAreBounded
<1>1. CASE Tick
  <2> SUFFICES ASSUME NEW t \in Threads PROVE waited'[t] <= MaxHold
    OBVIOUS
  <2>1. CASE pc[t] \notin {"waiting", "null", "playing"}
    BY <1>1, <2>1 DEF Tick
  <2>2. CASE pc[t] \in {"waiting", "null", "playing"}
    <3>1. waited[t] \in Nat /\ held \in 0..MaxHold
      BY DEF GateInv
    <3>2. holder # "none" /\ held < MaxHold
      BY <1>1, <2>2 DEF Tick, GateInv, Restarting, Threads
    <3>3. waited[t] <= held
      BY <2>2, <3>1, <3>2 DEF GateInv, Restarting
    <3>4. waited'[t] = waited[t] + 1
      BY <1>1, <2>2 DEF Tick
    <3>5. QED
      BY <3>1, <3>2, <3>3, <3>4
  <2>3. QED
    BY <2>1, <2>2
<1>2. ASSUME NEW t \in Threads, Waits(t) PROVE WaitsAreBounded'
  BY <1>2 DEF Waits, GateInv
<1>3. CASE UNCHANGED waited
  BY <1>3
<1>4. CASE OutputChanges \/ PostError \/ StopCamera
  BY <1>3, <1>4 DEF OutputChanges, PostError, StopCamera, threads
<1>5. CASE BusError \/ BusWarning \/ WatchdogChecks
  BY <1>2, <1>3, <1>5 DEF BusError, BusWarning, WatchdogChecks, Threads
<1>6. ASSUME NEW t \in Threads, ThreadStep(t) PROVE WaitsAreBounded'
  BY <1>3, <1>6 DEF ThreadStep, Restart, Suppress, BackToPlaying, Finish
<1>7. CASE UNCHANGED vars
  BY <1>3, <1>7 DEF vars, threads
<1>8. QED
  BY <1>1, <1>4, <1>5, <1>6, <1>7 DEF Next

\* Every variable keeps its type: the pipeline is Playing or Null, no wait is
\* longer than a restart, counters and ages stay within their bounds.
THEOREM GateTypes == Spec => []TypeOK
<1>1. Init => CountsOK /\ WaitsAreBounded
  <2> SUFFICES ASSUME Init PROVE CountsOK /\ WaitsAreBounded
    OBVIOUS
  <2>1. dtls \in [warnings : 0..DtlsThreshold, age : 0..DtlsWindow]
    BY BoundsAreNat DEF Init, Reset
  <2>2. CountsOK
    <3>1. stalled \in 0..StalledWindows /\ timer \in 0..Interval /\ messages \in 0..BusRate
      BY BoundsAreNat DEF Init
    <3>2. running \in BOOLEAN /\ stall \in BOOLEAN /\ errors \in BOOLEAN
      BY DEF Init
    <3>3. QED
      BY <2>1, <3>1, <3>2 DEF Init, CountsOK
  <2>3. WaitsAreBounded
    BY BoundsAreNat DEF Init, WaitsAreBounded
  <2>4. QED
    BY <2>2, <2>3
<1>2. GateInv /\ CountsOK /\ WaitsAreBounded => TypeOK
  BY GateConfigured DEF GateInv, CountsOK, WaitsAreBounded, TypeOK
<1>3. CountsOK /\ [Next]_vars => CountsOK'
  BY CountsNext
<1>4. GateInv /\ WaitsAreBounded /\ [Next]_vars => WaitsAreBounded'
  BY WaitsNext
<1>5. QED
  BY <1>1, <1>2, <1>3, <1>4, GateInvariant, PTL DEF Spec

=============================================================================
