---------------------------- MODULE RestartGate ----------------------------
(***************************************************************************)
(* Pipeline restarts of one camera.  Two threads may restart it: the bus   *)
(* callback, after a pipeline error or repeated DTLS warnings, and the     *)
(* watchdog, when input arrives and nothing goes out.  Both read the time, *)
(* take the mutex of restart_cooldown_marker, compare, and hold the mutex  *)
(* while they take the pipeline through Null to Playing; the stamp they    *)
(* leave is the time read before the mutex.  CameraStream::stop takes no   *)
(* part in this.                                                           *)
(*                                                                         *)
(* Time is counted in seconds and kept as ages, so it is bounded.  A free  *)
(* mutex is taken within the second, and a restart takes up to MaxHold.    *)
(***************************************************************************)
EXTENDS Integers

CONSTANTS
    MainLoop,          \* does the process run the GLib main loop of the watch
    Cooldown,          \* restart_cooldown_secs
    MaxHold,           \* bound: seconds a restart may take
    Interval,          \* watchdog_check_interval_secs
    StalledWindows,    \* watchdog_stalled_windows
    DtlsThreshold,     \* dtls_warning_threshold
    DtlsWindow,        \* dtls_warning_window_secs
    BusRate            \* bound: bus messages dispatched in a second

ASSUME GateConfigured ==
    /\ MainLoop \in BOOLEAN
    /\ {Cooldown, MaxHold, Interval, StalledWindows, DtlsThreshold, DtlsWindow,
         BusRate} \subseteq Nat \ {0}
    /\ MaxHold < Cooldown

Threads == {"bus", "watchdog"}

VARIABLES
    running,     \* CameraStream::running
    pipeline,    \* the state the pipeline was last set to
    pc,          \* "idle", "waiting" for the mutex, "null", "playing" (restart)
    waited,      \* seconds since the thread read the time
    holder,      \* the thread that has the mutex, or "none"
    held,        \* seconds it has had it
    age,         \* seconds since the time in the marker, up to Oldest
    rest,        \* history: seconds since a restart ended, up to Cooldown
    dtls,        \* DtlsWarningTracker: warnings and age of the window
    stalled,     \* stalled_windows
    timer,       \* seconds until the watchdog wakes up
    messages,    \* bus messages dispatched in this second
    stall,       \* environment: frames come in and nothing goes out
    errors       \* environment: an error message waits on the bus

Oldest == Cooldown + MaxHold

threads == <<pc, waited, holder, held, age, rest, stalled, timer>>
vars == <<running, pipeline, threads, messages, dtls, stall, errors>>

Capped(n, bound) == IF n > bound THEN bound ELSE n

Reset == [warnings |-> 0, age |-> 0]

-----------------------------------------------------------------------------

\* The marker starts at the epoch: the first restart is never held back.
Init ==
    /\ running = TRUE
    /\ pipeline = "Playing"
    /\ pc = [t \in Threads |-> "idle"]
    /\ waited = [t \in Threads |-> 0]
    /\ holder = "none"
    /\ held = 0
    /\ age = Oldest
    /\ rest = Cooldown
    /\ dtls = Reset
    /\ stalled = 0
    /\ timer = Interval
    /\ messages = 0
    /\ stall = FALSE
    /\ errors = FALSE

\* Frames stop or resume to go out; an element posts an error.
OutputChanges ==
    /\ stall' = ~stall
    /\ UNCHANGED <<messages, running, pipeline, threads, dtls, errors>>

PostError ==
    /\ pipeline = "Playing" /\ ~errors
    /\ errors' = TRUE
    /\ UNCHANGED <<messages, running, pipeline, threads, dtls, stall>>

\* A thread that wants to restart reads the time and goes for the mutex.
Waits(t) ==
    /\ pc' = [pc EXCEPT ![t] = "waiting"]
    /\ waited' = [waited EXCEPT ![t] = 0]

\* The bus callback takes the next message.  Without the main loop it is never
\* called, a pipeline in Null has its bus flushed, and pipeline_weak upgrades
\* only while the camera or the watchdog holds the pipeline.
Dispatch ==
    /\ MainLoop
    /\ pipeline = "Playing"
    /\ running \/ pc["watchdog"] # "exited"
    /\ pc["bus"] = "idle"
    /\ messages < BusRate
    /\ messages' = messages + 1

\* An error goes for the gate at once.
BusError ==
    /\ Dispatch
    /\ errors
    /\ errors' = FALSE
    /\ Waits("bus")
    /\ UNCHANGED <<running, pipeline, holder, held, age, rest, dtls, stalled, timer, stall>>

\* A DTLS warning is counted, in a window that starts over when it has expired.
BusWarning ==
    /\ Dispatch
    /\ LET window == IF dtls.age >= DtlsWindow THEN Reset ELSE dtls
           count == Capped(window.warnings + 1, DtlsThreshold)
       IN /\ dtls' = [window EXCEPT !.warnings = count]
          /\ IF count >= DtlsThreshold THEN Waits("bus") ELSE UNCHANGED <<pc, waited>>
    /\ UNCHANGED <<running, pipeline, holder, held, age, rest, stalled, timer, stall, errors>>

\* The watchdog wakes up.  It ends when the camera was stopped.
WatchdogChecks ==
    /\ pc["watchdog"] = "idle"
    /\ timer = 0
    /\ IF ~running
       THEN /\ pc' = [pc EXCEPT !["watchdog"] = "exited"]
            /\ UNCHANGED <<waited, stalled, timer>>
       ELSE /\ stalled' = IF stall THEN Capped(stalled + 1, StalledWindows) ELSE 0
            /\ IF stalled' = StalledWindows
               THEN Waits("watchdog") /\ UNCHANGED timer
               ELSE timer' = Interval /\ UNCHANGED <<pc, waited>>
    /\ UNCHANGED <<messages, running, pipeline, holder, held, age, rest, dtls, stall, errors>>

\* The end of a round: the watchdog sleeps, the bus waits for messages.
Idles(t) ==
    /\ pc' = [pc EXCEPT ![t] = "idle"]
    /\ timer' = IF t = "watchdog" THEN Interval ELSE timer

\* now_secs.saturating_sub(*last_restart_secs).
SinceStamp(t) == IF age >= waited[t] THEN age - waited[t] ELSE 0

\* Mutant: the cooldown is not looked at again once the mutex is taken.
Restart_Unchecked(t) ==
    /\ pc[t] = "waiting" /\ holder = "none"
    /\ holder' = t
    /\ held' = 0
    /\ pipeline' = "Null"
    /\ errors' = FALSE
    /\ pc' = [pc EXCEPT ![t] = "null"]
    /\ UNCHANGED <<messages, running, waited, age, rest, dtls, stalled, timer, stall>>

\* The mutex is free and the cooldown is over: the pipeline goes to Null, which
\* flushes its bus.
Restart(t) ==
    /\ pc[t] = "waiting" /\ holder = "none"
    /\ SinceStamp(t) >= Cooldown
    /\ holder' = t
    /\ held' = 0
    /\ pipeline' = "Null"
    /\ errors' = FALSE
    /\ pc' = [pc EXCEPT ![t] = "null"]
    /\ UNCHANGED <<messages, running, waited, age, rest, dtls, stalled, timer, stall>>

\* Mutant: a restart that is held back leaves a stamp too.
Suppress_Stamps(t) ==
    /\ pc[t] = "waiting" /\ holder = "none"
    /\ SinceStamp(t) < Cooldown
    /\ age' = waited[t]
    /\ Idles(t)
    /\ UNCHANGED <<messages, running, pipeline, waited, holder, held, rest, dtls, stalled, stall, errors>>

\* The mutex is free and the cooldown is not over; stalled_windows is kept.
Suppress(t) ==
    /\ pc[t] = "waiting" /\ holder = "none"
    /\ SinceStamp(t) < Cooldown
    /\ Idles(t)
    /\ UNCHANGED <<messages, running, pipeline, waited, holder, held, age, rest, dtls, stalled, stall, errors>>

\* Mutant: the pipeline is not taken all the way back.
BackToPlaying_Pauses(t) ==
    /\ pc[t] = "null"
    /\ pipeline' = "Paused"
    /\ pc' = [pc EXCEPT ![t] = "playing"]
    /\ UNCHANGED <<messages, running, waited, holder, held, age, rest, dtls, stalled, timer, stall, errors>>

\* set_state(Null) returned; set_state(Playing) is called whatever it said.
BackToPlaying(t) ==
    /\ pc[t] = "null"
    /\ pipeline' = "Playing"
    /\ pc' = [pc EXCEPT ![t] = "playing"]
    /\ UNCHANGED <<messages, running, waited, holder, held, age, rest, dtls, stalled, timer, stall, errors>>

\* Mutant: the stamp is forgotten.
Finish_NoStamp(t) ==
    /\ pc[t] = "playing"
    /\ rest' = 0
    /\ dtls' = Reset
    /\ stalled' = IF t = "watchdog" THEN 0 ELSE stalled
    /\ holder' = "none"
    /\ held' = 0
    /\ Idles(t)
    /\ UNCHANGED <<messages, running, pipeline, waited, age, stall, errors>>

\* It returned too: the stamp is the time read before the mutex, and the DTLS
\* window starts over.
Finish(t) ==
    /\ pc[t] = "playing"
    /\ age' = waited[t]
    /\ rest' = 0
    /\ dtls' = Reset
    /\ stalled' = IF t = "watchdog" THEN 0 ELSE stalled
    /\ holder' = "none"
    /\ held' = 0
    /\ Idles(t)
    /\ UNCHANGED <<messages, running, pipeline, waited, stall, errors>>

\* CameraStream::stop, called by remove_camera: the flag is cleared and the
\* pipeline set to Null, without the mutex.
StopCamera ==
    /\ running
    /\ running' = FALSE
    /\ pipeline' = "Null"
    /\ errors' = FALSE
    /\ UNCHANGED <<messages, threads, dtls, stall>>

\* A second goes by; a free mutex is taken before it does.
Tick ==
    /\ IF holder = "none" THEN \A t \in Threads : pc[t] # "waiting" ELSE held < MaxHold
    /\ held' = IF holder = "none" THEN 0 ELSE held + 1
    /\ waited' = [t \in Threads |->
                     IF pc[t] \in {"waiting", "null", "playing"} THEN waited[t] + 1 ELSE 0]
    /\ age' = Capped(age + 1, Oldest)
    /\ rest' = Capped(rest + 1, Cooldown)
    /\ dtls' = [dtls EXCEPT !.age = Capped(@ + 1, DtlsWindow)]
    /\ messages' = 0
    /\ timer' = IF pc["watchdog"] = "idle" /\ timer > 0 THEN timer - 1 ELSE timer
    /\ UNCHANGED <<running, pipeline, pc, holder, stalled, stall, errors>>

ThreadStep(t) == Restart(t) \/ Suppress(t) \/ BackToPlaying(t) \/ Finish(t)

Next ==
    \/ OutputChanges
    \/ PostError
    \/ BusError
    \/ BusWarning
    \/ WatchdogChecks
    \/ \E t \in Threads : ThreadStep(t)
    \/ StopCamera
    \/ Tick

\* Time passes, threads run, and messages are dispatched if anything does so.
Fairness ==
    /\ WF_vars(Tick)
    /\ WF_vars(WatchdogChecks)
    /\ WF_vars(BusError)
    /\ \A t \in Threads : WF_vars(ThreadStep(t))

Spec == Init /\ [][Next]_vars /\ Fairness

-----------------------------------------------------------------------------
(* Properties.                                                             *)

\* Every variable keeps its type: the pipeline is Playing or Null, counters and
\* ages stay within their bounds.
TypeOK ==
    /\ running \in BOOLEAN
    /\ pipeline \in {"Null", "Playing"}
    /\ pc \in [Threads -> {"idle", "waiting", "null", "playing", "exited"}]
    /\ waited \in [Threads -> 0..MaxHold]
    /\ holder \in Threads \cup {"none"}
    /\ held \in 0..MaxHold
    /\ age \in 0..Oldest
    /\ rest \in 0..Cooldown
    /\ dtls \in [warnings : 0..DtlsThreshold, age : 0..DtlsWindow]
    /\ stalled \in 0..StalledWindows
    /\ timer \in 0..Interval
    /\ messages \in 0..BusRate
    /\ stall \in BOOLEAN
    /\ errors \in BOOLEAN

Restarting(t) == pc[t] \in {"null", "playing"}

\* A thread that had to wait for the other one's restart does not restart: when
\* a restart is shorter than the cooldown, the time read before the mutex only
\* ever errs on the side of holding back.
WaiterHoldsBack == \A t \in Threads : Restarting(t) => waited[t] = held

\* Restarts do not overlap, and from the end of one to the start of the next,
\* by whichever thread, at least the cooldown less the time of a restart passes.
RestartsAreSpaced ==
    [][\A t \in Threads :
          Restarting(t)' /\ ~Restarting(t) =>
              /\ \A u \in Threads : ~Restarting(u)
              /\ rest >= Cooldown - MaxHold]_vars

\* Output that stays stalled while the camera runs is restarted again and again.
StallIsRestarted ==
    <>[](stall /\ running) => []<>(\E t \in Threads : Restarting(t))

\* "README copy.md", Reliability / recovery: "pipeline-error restarts and
\* DTLS-warning restarts both go through one cooldown gate".  An error posted on
\* the bus is taken up, or a restart or a stop makes it moot.
ErrorReachesGate == errors ~> ~errors

=============================================================================
