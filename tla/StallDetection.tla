--------------------------- MODULE StallDetection ---------------------------
(***************************************************************************)
(* How the watchdog of a camera decides that its output has stalled.       *)
(*                                                                         *)
(* Three places record what passes: frames that come in, frames that leave *)
(* the parser, packets that enter the queue of a viewer.  The metrics keep *)
(* totals, and rates of the last closed window.  A window has no timer: it *)
(* is closed by the first record after the log interval, so the rates stay *)
(* what they were when nothing is recorded any more.                       *)
(*                                                                         *)
(* Every Interval seconds the watchdog takes the rates, and what has been  *)
(* added to the totals since it last looked.  Input counts as active by    *)
(* either; output is stalled when both, for frames and packets, are zero.  *)
(* What RestartGate takes from its environment, a stall, is made of this;  *)
(* there a restart takes time and has a rival, here it is one step.        *)
(*                                                                         *)
(* The kinds are all that is kept of the counts.  A window in which a kind *)
(* was recorded may still have a rate below the threshold for it.          *)
(***************************************************************************)
EXTENDS Naturals

CONSTANTS
    LogIntervals,     \* STREAM_METRICS_LOG_INTERVAL_SECS, any of these; 0 is allowed
    Interval,         \* watchdog_check_interval_secs
    StalledWindows,   \* watchdog_stalled_windows
    Cooldown          \* restart_cooldown_secs

ASSUME LogIntervalsAssumption == LogIntervals \subseteq Nat
ASSUME WatchdogAssumption ==
    /\ Interval \in Nat \ {0}
    /\ StalledWindows \in Nat
    /\ Cooldown \in Nat \ {0}

Output == {"frames", "packets"}
Kinds == {"input"} \cup Output

VARIABLES
    logInterval,   \* the log interval of this process
    on,            \* environment: the kinds that are recorded in this second
    done,          \* those that have been
    window,        \* the kinds recorded in the open window
    age,           \* seconds since it was opened, up to logInterval
    rates,         \* the kinds with a rate, from the last closed window
    fresh,         \* the kinds whose total grew since the watchdog last looked
    watching,      \* environment: the feed is consumed and there are viewers
    timer,         \* seconds until the watchdog wakes up
    stalled,       \* stalled_windows, up to StalledWindows
    cool,          \* seconds since the last restart, up to Cooldown
    quiet          \* history: seconds since output was recorded, up to Limit

metrics == <<logInterval, window, age, rates>>
watchdog == <<timer, stalled, cool>>
vars == <<on, done, metrics, fresh, watching, watchdog, quiet>>

\* The time that StalledWindows windows of the watchdog take.
Limit == StalledWindows * Interval

\* Counting on, for as long as it makes a difference.
UpTo(n, bound) == IF n < bound THEN n + 1 ELSE bound

-----------------------------------------------------------------------------

\* The watchdog is started with the pipeline; the time of the last restart is
\* the epoch.
Init ==
    /\ logInterval \in LogIntervals
    /\ on = {} /\ done = {}
    /\ window = {} /\ age = 0 /\ rates = {}
    /\ fresh = {}
    /\ watching = FALSE
    /\ timer = Interval /\ stalled = 0 /\ cool = Cooldown
    /\ quiet = 0

-----------------------------------------------------------------------------

\* A second passes: what was on has been recorded, and the watchdog is asleep.
\* The next one may bring other sources, and a first viewer or the end of the
\* feed.  The switch that suppresses the records of the output, for tests of the
\* recovery, is seen as output that stops.
Tick(sources, consumed) ==
    /\ on \subseteq done
    /\ timer > 0
    /\ on' = sources
    /\ watching' = consumed
    /\ done' = {}
    /\ timer' = timer - 1
    /\ age' = UpTo(age, logInterval)
    /\ cool' = UpTo(cool, Cooldown)
    /\ quiet' = UpTo(quiet, Limit)
    /\ UNCHANGED <<logInterval, window, rates, fresh, stalled>>

-----------------------------------------------------------------------------
(* The metrics.                                                            *)

\* Mutant: the rates are only computed when output is recorded.
Record_OutputCloses(kind) ==
    /\ kind \in on \ done
    /\ done' = done \cup {kind}
    /\ fresh' = fresh \cup {kind}
    /\ quiet' = IF kind \in Output THEN 0 ELSE quiet
    /\ IF age < logInterval \/ kind \notin Output
       THEN /\ window' = window \cup {kind}
            /\ UNCHANGED <<age, rates>>
       ELSE /\ rates' \in SUBSET (window \cup {kind})
            /\ window' = {}
            /\ age' = 0
    /\ UNCHANGED <<on, logInterval, watching, watchdog>>

\* record_stream_*: the total and the window grow, and a window that is due is
\* closed by this record.
Record(kind) ==
    /\ kind \in on \ done
    /\ done' = done \cup {kind}
    /\ fresh' = fresh \cup {kind}
    /\ quiet' = IF kind \in Output THEN 0 ELSE quiet
    /\ IF age < logInterval
       THEN /\ window' = window \cup {kind}
            /\ UNCHANGED <<age, rates>>
       ELSE /\ rates' \in SUBSET (window \cup {kind})
            /\ window' = {}
            /\ age' = 0
    /\ UNCHANGED <<on, logInterval, watching, watchdog>>

-----------------------------------------------------------------------------
(* The watchdog.                                                           *)

InputActive == "input" \in rates \cup fresh

\* Mutant: output counts as stalled by its frames alone.
OutputStalled_FramesOnly == "frames" \notin rates \cup fresh

OutputStalled == (rates \cup fresh) \cap Output = {}

\* Mutant: silence is counted whether or not anything comes in.
Counted_AnySilence == IF OutputStalled THEN UpTo(stalled, StalledWindows) ELSE 0

\* stalled_windows after this look.
Counted == IF InputActive /\ OutputStalled THEN UpTo(stalled, StalledWindows) ELSE 0

\* It wakes up and has nothing to look at.  The totals it remembers stay.
Skip ==
    /\ timer = 0
    /\ ~watching
    /\ timer' = Interval
    /\ stalled' = 0
    /\ UNCHANGED <<on, done, metrics, fresh, watching, cool, quiet>>

\* Mutant: a restart that is held back makes it sleep twice.
Look_SleepsTwice ==
    /\ timer = 0
    /\ watching
    /\ fresh' = {}
    /\ timer' = IF Counted < StalledWindows THEN Interval ELSE 2 * Interval
    /\ stalled' = Counted
    /\ Counted < StalledWindows \/ cool < Cooldown
    /\ UNCHANGED <<on, done, metrics, watching, cool, quiet>>

\* It looks, and has not seen enough, or its restart is held back by the
\* cooldown: then the count is kept.
Look ==
    /\ timer = 0
    /\ watching
    /\ fresh' = {}
    /\ timer' = Interval
    /\ stalled' = Counted
    /\ Counted < StalledWindows \/ cool < Cooldown
    /\ UNCHANGED <<on, done, metrics, watching, cool, quiet>>

\* It looks, and restarts the pipeline.
Restart ==
    /\ timer = 0
    /\ watching
    /\ fresh' = {}
    /\ timer' = Interval
    /\ Counted >= StalledWindows /\ cool = Cooldown
    /\ stalled' = 0
    /\ cool' = 0
    /\ UNCHANGED <<on, done, metrics, watching, quiet>>

-----------------------------------------------------------------------------

Watchdog == Skip \/ Look \/ Restart

Next ==
    \/ \E sources \in SUBSET Kinds, consumed \in BOOLEAN : Tick(sources, consumed)
    \/ \E kind \in Kinds : Record(kind)
    \/ Watchdog

\* Time passes, what is on is recorded, and the watchdog's thread runs.
Fairness ==
    /\ WF_vars(\E sources \in SUBSET Kinds, consumed \in BOOLEAN : Tick(sources, consumed))
    /\ \A kind \in Kinds : WF_vars(Record(kind))
    /\ WF_vars(Watchdog)

Spec == Init /\ [][Next]_vars
FairSpec == Spec /\ Fairness

-----------------------------------------------------------------------------
(* Properties.                                                             *)

\* Every count stays within what bounds it.
TypeOK ==
    /\ logInterval \in LogIntervals
    /\ on \subseteq Kinds /\ done \subseteq Kinds
    /\ window \subseteq Kinds /\ rates \subseteq Kinds /\ fresh \subseteq Kinds
    /\ age \in 0..logInterval
    /\ watching \in BOOLEAN
    /\ timer \in 0..Interval
    /\ stalled \in 0..StalledWindows
    /\ cool \in 0..Cooldown
    /\ quiet \in 0..Limit

\* A working pipeline is never restarted: when the watchdog does it, neither a
\* frame nor a packet has been recorded for as long as StalledWindows of its
\* windows take, whatever the viewers, the feed and the log interval did.
RestartOnlyWhenQuiet == [][cool' = 0 /\ cool # 0 => quiet = Limit]_vars

\* A stall that lasts is restarted, again and again until it ends: input goes
\* on, nothing goes out, and viewers are there.
StallIsRestarted ==
    <>[]("input" \in on /\ on \cap Output = {} /\ watching) => []<>(cool = 0)

\* Once the input has ended for good, so have the restarts.  The one way around
\* it is a last closed window that had input and no output: no record closes
\* the next, its rates are taken for what comes in now, and the pipeline is
\* restarted without end.
RestartsEndWithInput ==
    <>[]("input" \notin on) =>
        <>[](cool # 0) \/ <>[]("input" \in rates /\ rates \cap Output = {})

=============================================================================
