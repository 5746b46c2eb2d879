# Formal models of the WebRTC gateway

TLA+ modules for the gateway of this repository (`src/`, Rust): a process that takes
frames from ZeroMQ or a test clip, encodes them once per camera, fans them out through
one GStreamer `tee` to one `webrtcbin` per viewer, and at the end of each viewer's session
writes a report on how the connection went. The modules are checked with TLC on small
instances; the theorems are proved with TLAPS for every value of the constants.

Abbreviations for places in the code: CM `src/camera_manager.rs`, AS `src/state/app_state.rs`,
SM `src/state/state_manager.rs`, SG `src/messaging/signaling_socketio_client.rs`, RT
`src/runtime.rs`, CN `src/tester/connection_monitor.rs`, RP `src/tester/report.rs`, NP
`src/tester/network_probe.rs`, VA `src/viewer_agent.rs`, MT `src/metrics/mod.rs`.

## 1. Inventory

### Components, their state and their operations

| Component | State | Operations |
|---|---|---|
| AppState (AS) | `cameras` (RwLock), the state manager, the signaling client | add, remove and restore a camera; create a viewer's branch; remove a viewer |
| CameraStream (CM) | `running`, `pipeline`, `tee`, `viewers` (Mutex), `zmq_consuming`, `stats_poller_started` | start, stop, start/stop consumption, add/remove viewer, build a branch, answers, candidates, telemetry, ICE restarts |
| Feeder threads (CM) | a loop that polls `running` and `zmq_consuming` | receive, push into the appsrc, give up after receive errors |
| Recovery (CM 898-1215) | `restart_cooldown_marker` (Mutex), `DtlsWarningTracker`, `stalled_windows` | bus callback, watchdog, restart through Null to Playing |
| StateManager (SM) | `PersistentState` in memory, `sfu_state.json` and its backup | load, save, mark as running or failed, remove |
| Signaling client (SG, RT) | the Socket.IO client, `auth_status`, `viewer_streams`, the token | connect, register, handlers for ack, viewer_request, viewer_disconnect, answers, candidates, telemetry |
| ConnectionMonitor (CN, RP) | outcomes, time stamps and counters of one session | about twenty `on_...` events, `finalize`, `verdict` |
| Network probe (NP) | none kept | STUN, TURN and TCP probes, NAT classification |
| Viewer agent (VA) | its client, one `webrtcbin` for its life | ask for a stream on every connect, answer an offer, send telemetry |
| Metrics (MT) | totals, an open window and rates per room | record, close a window, snapshot |

### How they interact

Four kinds of threads meet. The Socket.IO library runs the signaling handlers one after the
other. Tokio tasks add and restore cameras and save the state. GStreamer's streaming threads
run pad probes, and every `webrtcbin` has a thread for its callbacks. Plain threads of the
gateway feed frames, watch the pipeline, poll statistics, and supervise the signaling
connection. They share `AppState::cameras`, `CameraStream::viewers`, the mutex of each monitor,
a few atomic flags, the mutex around the last restart, and the files of the state manager.

### Which behaviours are hard, and what makes each component correct

* *Viewer sessions.* A viewer asks again without having disconnected, a construction fails
  half way, a disconnect arrives late. The cap holds, a routed message finds a webrtcbin, no
  room consumes without viewers, no branch is left behind.
* *Feeder.* A flag shared by all threads a camera ever spawned. Consumption follows the
  viewers; an idle camera loses its threads; viewers stay fed unless a start or a thread failed.
* *Recovery.* Two threads read the time before they wait for the same mutex. Restarts do not
  overlap and are spaced; a stall that lasts is restarted again.
* *Persistence.* A kill between any two steps of a save, or of an addition; a full disk; a boot in test mode. What
  was saved can be loaded again; the registry and the marks in the file agree.
* *Signaling.* An ack before the client is stored, a connection lost while the ack is handled, a
  token that expires, or is not renewed. Every camera is registered; the connection comes back.
* *Teardown.* A lock held over a state change that waits for threads that want the lock; a
  report that needs the last reference to a monitor. The report is final; a removal ends.
* *Negotiation.* Two ends and a relay, offers and answers that do not name each other, a
  `webrtcbin` that outlives its entry, a restart budget kept per viewer id. The ends settle on the
  same offer; a granted restart runs to its end.
* *Stall detection.* Totals compared with the last look, rates of a window that no timer closes. A
  working pipeline is not restarted, a stalled one is, and restarts end when there is nothing to do.
* *Monitor.* Events in any order, late, repeated, and from an earlier session of the viewer.
  The report does not deny what happened, nor claim what did not.

`PROJECT.json` lists these hazards at their lines, with the properties that cover them.

## 2. Modules

### ViewerAdmission and ViewerSessions

`ViewerAdmission` is the abstract promise: a pool of slots (room, viewer), admitted one at a time
up to a cap and released at any time. `ViewerSessions` is what `viewer_request` and
`viewer_disconnect` do. The handlers run one after the other and hold the write lock of
`cameras`, so each is one action:

| Action | Code |
|---|---|
| `AddCamera` | AS 488 `add_camera` (registry part) |
| `RequestUnknown`, `RequestRefused` | SG 538-625: no such stream; the cap in mode `camera` or `gateway` (AS 722-762) |
| `RequestServed`, `RequestFailed` | AS 764-797, CM 1823-1966: feed for the first viewer, entry, branch; failure at one of three stages (elements, links, sync), each leaving other elements behind |
| `Disconnect` | SG 692-716, AS 671-697, CM 1732-1772 |

State: `viewers` maps a slot to the branch its entry names (or to `NoBranch`: the entry is in the
map before the branch is built), `viewerStreams` is the client's mapping, and `webrtcbins`,
`teePads`, `chains` tell which elements of a branch are in the pipeline. The legacy
`add_viewer_to_camera` has no caller and is left out.

### ZmqConsumption

One camera's feeder threads. `ViewerJoins`, `StartSucceeds`, `StartFails`, `ViewerLeaves`,
`StopCamera` are the operations under the lock (CM 1219-1264, 1619-1650; AS 764-775, 671-697);
`Check`, `Receive`, `Push`, `GiveUp` are the steps of a thread, one per access to the flag (CM
1309-1436 and the test pattern of 1485-1613, which polls alike). A thread that gives up leaves
`zmq_consuming` set (CM 1431); a flag that is cleared and set again revives a thread that had
not yet polled it, beside the new one (CM 1260). A failed start admits its viewer without a feed, and
nobody tries again until all viewers have left (AS 766). These are behaviours of the model: `lost` tells that the
last start failed or that the last thread gave up, and `FeedLostOnlyByFailure` that viewers go unfed in no
other way.

### RestartGate

The bus callback and the watchdog of one camera (CM 918-1215). Time is kept as ages in seconds.
`BusError`, `BusWarning`, `WatchdogChecks` read the time and start waiting for the mutex;
`Restart` or `Suppress` decide with it; `BackToPlaying` and `Finish` end a restart;
`Tick` passes a second; `OutputChanges` and `PostError` are the environment. `MainLoop` says
whether a GLib main loop dispatches the bus watch: the gateway binary runs none, so FALSE is the
gateway as it is, and TRUE is a superset in which the gate is really contended. The
watchdog's branch for missing metrics is not reached once a camera runs. The cooldown compares
wall clock seconds; the model's clock only goes forward.

### StallDetection

What `RestartGate` takes from its environment, a stall, is made here from what is recorded. `Record`
is `record_stream_input_frame`, `_output_frame` and `_output_packet` (MT 306-359) with
`update_rates_and_log_if_due` (MT 468-495): totals and window grow, and a window that is due is closed
by the record that finds it so. Counts are abstracted to the kinds that were recorded, rates to the
kinds that had one; `rates' \in SUBSET ...` stands for the thresholds. `Skip`, `Look` and
`Restart` are a turn of the watchdog's loop (CM 1096-1195), one step each, because the mutex and
the time of a restart are `RestartGate`'s. `Tick` passes a second and chooses what will be
recorded in the next one; the test switch that suppresses output records (MT 103-139) is one such
choice. The log interval is one of `LogIntervals`, 0 among them: it has no filter (MT 10-18).

The module makes a restart loop visible. No record closes a window once the input has ended, so
the rates stay those of the last one. If that window had input and no output, input counts as
active and output as stalled for ever, and the watchdog restarts an idle camera after each
cooldown for as long as a viewer stays. `RestartsEndWithInput` says that this is the only way.

### Negotiation

One viewer id on one camera, both ends. The gateway's callbacks are `HandleRequest`, `HandleDisconnect`,
`HandleAnswer` (SG 206-272, CM 1823-1906, 2397-2454); the threads of its webrtcbins are `OfferReady` and
`OfferFails` (CM 2137-2198 and the promise of CM 455-480), `IceConnects`, `IceReturns`, `IceLost`, `IceFails`
(CM 2204-2272, `maybe_ice_restart` CM 402-485); `Forward` is the thread of a channel (CM 1834-1898). The
agent is `AgentStoresClient`, `AgentReconnects` (VA 297-354), `AgentHears` (VA 357-445), `AgentAnswers`,
`AnswerLost`, `NothingToAnswer` (VA 447-487). An offer is a pair of the session and its number; an answer is
the offer it answers, which no message of the code carries. So `local`, `remote` and `heard` tell whether
the two ends talk about the same offer.

Assumed of `webrtcbin`: it takes an answer only while an offer of its own is open, a new offer replaces
an open one, and ICE connects when both ends hold one offer and its answer. Assumed of the
relay: it keeps the order of each direction, may lose what it has for an agent that reconnects,
and may or may not report a disconnect.

`disturbed` marks what the code cannot repair, because it has no retry and no way to match an answer: a
lost offer or answer, an offer made while another exchange was open, an offer of a replaced
webrtcbin, whose callbacks look up the new entry by id, charge its budget and send through its channel.
So the properties do not catch these; they say that nothing else keeps the ends apart, and they hold again
from the next offer that is made while nothing else is open.
A refused restart, for want of budget or within the cooldown, is the state `left`: `maybe_ice_restart` is only
called on the edge to Disconnected, so nothing tries it again (`IceReturns` is ICE's own recovery).

### StatePersistence

`sfu_state.json` and its backup. A save (SM 261-286) is `BeginCopy`, `EndCopy` or `CopyFails`,
`BeginWrite`, `EndWrite` or `WriteFails`, because both copies are in place: between the steps the
file on disk is torn, and the process may be killed (`Stop`) at any of them. `BootTest` and
`BootRestore` are the two boot modes (RT 15-59): a test mode boot ignores the file and overwrites
it; a boot whose first save fails restores nothing. `Restore` and `RestoreFails` are the turns of the
restore loop. `add_camera` is two actions, because it awaits a message to the signaling server (AS 516)
between them: `InsertCamera` puts the camera into the registry (AS 502), `MarkAdded` marks it in the state
manager and saves (AS 525). `adding` holds the rooms in between. A kill there forgets a camera that was
already served, and a save by another operation does not contain it, so `RegistryIsMarked` speaks of the
cameras whose addition is over. `remove_camera` is `TakeOut` (AS 548), then `MarkRemoved` (AS 561) or, when
the pipeline does not stop, `RemoveFails` (AS 553). `run` awaits `add_camera` for its one test camera and
nothing calls `graceful_shutdown`; the model lets both operations run for several rooms at once, but not
two for one room, for which the code has no caller. `Loaded` is `load_or_create`: the
backup is only looked at when the main file exists and does not parse. Two kills, one in the
rewrite of the file and one in the next copy, lose both files: the doc's "atomically"
(docs/local-sfu-workflow.md:180) is the step the code does not take. `exposed` marks the histories
in which the code gives no guarantee, and `LossIsConfined` says they are the only ones.

### SignalingSession

The supervisor (`Attempt`, `ConnectSucceeds`, `ConnectFails`, `WakesUp`, `StoreClient`; RT 112-145,
SG 59-119, 338-379), the library's callbacks (`OnConnect`, `OnAck`, `RegisterNext`, `AckDone`,
`OnAuthError`; SG 128-206, 504-536), its reconnects (`LibraryReconnects`, `LibraryFails`), and
`InsertCamera`/`RegisterAdded` (AS 488-523). The network and the server are external: they
take or refuse a connection, acknowledge, lose the link, at any time. `jwtConfig` is one of the three
configurations of `jwt_config`: none, self-signed (`JWT_SECRET`), pre-built (`GATEWAY_JWT`). `Minted` is
`generate_token` with SG 104-118: a pre-built token is the same on every attempt (jwt.rs 61) and may have
expired, or be none the server takes, from the start; a self-signed one is new, but may be signed
with another secret than the server's, and when signing fails the attempt is made without a token (SG 110-112).
A token may expire at any time (`TokenExpires`), and stays in the builder for the library's reconnections.
`refuses` is the server's policy, fixed for a behaviour: which of no token, a wrong one and an expired one
it turns away. An ack handled before
the client is stored registers nothing (SG 525 against 357): `clientAtAck` is the history variable
that tells these cases apart. Removing a camera is left out: `remove_camera` is only called by
`graceful_shutdown`, which has no caller.

The progress properties therefore have an excuse, `RefusedAttempt`: the supervisor is refused for a token it
could not better. A gateway with an expired `GATEWAY_JWT` retries for ever, refused on a server that checks.
What the properties say for a gateway that signs its tokens is that no token that expired before an
attempt can keep it off, only one that expires during the attempt it was minted for (`lapsed`).

### ViewerTeardown

The lock `CameraStream::viewers`. The handler (`Request`, `Build`, `BuildFails`, `Built`, `Disconnect`,
`StopCamera`, `RemoveNext`, `Unwrap`, `Deactivate`, `Join`, `AllRemoved`, `PipelineStops`) against
`BufferEnters`/`ProbeReturns` (the pad probe), `CallbackStarts`/`CallbackReturns` (the webrtcbin's
thread), and the poller with its promises (`PollerWakes`, `Ask`, `StatsArrive`). Assumed of
GStreamer: deactivating a pad waits for the buffer that passes it, a webrtcbin that stops joins
its thread, and a stopped webrtcbin drops its promises.

### ConnectionMonitor

One session's monitor and its report. Recorded state: the outcomes, the reason, the time stamps
that are set (`seen`), what the statistics and the viewer said. Beside it the truth: was the answer
set (`answered`), is DTLS done (`keys`), was that notified (`told`), how far did media get (`wire`).
Events are actions (`Answer`, `IceChanges`, `PeerConnecting`, `PeerConnected`, `PeerFailed`, `PadAdded`,
`DtlsWarning`, `FrameCounted`, `StatsRead`, `Telemetry`; CM 2052-2470, CN 159-611). An event with
`own = FALSE` comes from an earlier session of the same viewer: callbacks look the entry up by viewer
id, and the constant `Replaced` says whether there is such a session. `Finalize` is
`remove_viewer_internal` (CM 1734-1753). The report is a set of operators: `Verdict` (RP 531-573),
`EffectiveDtls`, `EffectiveReason` (CN 757-791), `Phase5Fails`, `Phase6Fails`, `Phase7Fails` (CN
1017-1194), and the root cause tree (`Tree`, `Primary`; CN 1205-1353). Facts about the code the
module makes visible: since every report follows `on_viewer_teardown`, freeze detection and the
reason of phase 6 are never used; the first frame hides a DTLS failure; the probe never reaches
a monitor because its only writer has no caller; `DtlsOutcome::Timeout` is never set.
`FrameCounted` counts whatever enters the webrtcbin before it can be delivered. The code counts in buffer
probes (CM 2052-2116); a buffer list would pass them uncounted. That no element in front of the webrtcbin
sends lists is an assumption of the module.

## 3. Runs

| Run | Instance | Question |
|---|---|---|
| `sessions` | 2 rooms, 3 viewers, 3 branches, caps of 2, both modes | Do cap, routing, feed and entries stay consistent; is it a slot pool; does a disconnect leave a webrtcbin or tee pad without an entry? |
| `persistence` | 2 rooms, both boot modes, all faults | What survives kills, full disks, failing cameras; is a camera marked once it was added |
| `zmq_consumption` | 3 threads, 2 viewers | Does consumption follow the viewers, when do viewers go unfed, do idle cameras drain |
| `restart_gate` | cooldown 4 s, restart up to 2 s, 2 stalled windows of 2 s, 2 bus messages a second | Are restarts exclusive and spaced; is a stall restarted again and again |
| `restart_no_loop` | the same without a main loop | Is an error ever handled: it is not |
| `stall_detection` | log interval 0 or 3 s, watchdog every 2 s, 2 windows, cooldown 5 s | Is only a quiet pipeline restarted; is a lasting stall restarted again and again; do restarts end with the input |
| `negotiation` | 2 sessions, 3 offers each, 1 restart, cooldown 1 s | Do both ends settle on one offer; do a negotiation and a granted restart end |
| `signaling` | 2 rooms, 3 attempts, three JWT configurations, three server policies | Is every camera registered; is the first connection made; does a reachable gateway come back online, or how does it not |
| `teardown` | 3 sessions of 2 viewers | Are reports final; is a stopped camera silent |
| `teardown_ends` | 2 sessions | Does a removal end: it may wait for a thread that waits for its lock |
| `monitor` | one monitor, all event orders, with an earlier session | Does the report agree with what happened, and with itself |
| `monitor_verdict` | without an earlier session | Does a PASS need proof of delivery: one local frame is enough |

The runs named `..._no_loop`, `..._ends`, `..._verdict` check one sentence of the
repository's docs or comments each, and TLC refutes it; `PROJECT.json` quotes the sentences under
`findings`. All other runs pass.

**Bounds.** Three viewers against caps of two are enough to fill a cap, be refused, and ask again; three
branches give one viewer two requests while another has one. Branches, sessions and threads
are identities, never reused, so their number bounds the requests of a behaviour, not the
interleavings among them. Two rooms suffice because no operation involves more than a room
left and a room asked for. The longest story of a feeder is: old thread, flag cleared and
set, new thread, cleared again; a third thread covers its repetition. In `RestartGate` the bounds
are ratios: a restart shorter than the cooldown, an interval shorter than the cooldown, a stall
counted over more than one window. Ages are capped where no comparison can tell them apart. `StallDetection` needs a watchdog period
shorter than the log interval and one longer (with 0), and a cooldown longer than the windows. In
`Negotiation` two sessions give one replaced webrtcbin or one after a disconnect, and three offers of each
a first one, a restart, and a second restart after a recovery; one attempt shows the budget used up and
given back. ICE is no longer lost at the last offer, so that no restart is cut off by the bound. The
monitor has no bound at all: stamps and flags make its state finite.

**Stopping.** Deadlock is not reported where the system really stops: a camera that was stopped
(`ZmqConsumption`, `ViewerTeardown`), a session whose report was made (`ConnectionMonitor`),
a session that was lost or disconnected after the agent's last request (`Negotiation`).

**Symmetry** is used over viewers, rooms, branches and sessions in runs without liveness properties.

**Fairness.** Threads of the gateway run (weak fairness on their steps): a feeder thread, a start that
is under way, the watchdog, the bus callback if it is dispatched, the signaling handler, a probe or callback
that can get the lock, the supervisor, the library's thread. Time passes. Nothing is assumed of
viewers, of the server, of the network, of GStreamer's buffers or of failures; where the network must
cooperate (`FirstConnectionMade`, `OfflineOnlyGivenUp`) the property says so itself. In `Negotiation` the
callback, each promise, each forwarding thread and the agent run; ICE and the clock do as they like. In
`StallDetection` time passes, what is on is recorded, and the watchdog's thread runs. A
feeder's `GiveUp` is never forced. Weak fairness is enough since none of these threads is starved of a
lock for ever but in the deadlock the run `teardown_ends` exhibits.

## 4. Proofs

Each `*_proofs` module proves, for every value of the constants that satisfies the named assumptions:

| Module | Theorems | Inductive invariant and why it is needed |
|---|---|---|
| ViewerSessions_proofs | `TypeCorrect`, `LimitNeverExceeded`, `RoutingCorrect`, `ConsumptionNeeded`, `EntriesAreFed`, `SessionsImplementAdmission`, `NoOrphanOnDisconnect` | `SessionInv`: types and the four invariants together. `EntryIsFed` needs that a branch has one home; the cap needs finite sets, `AddOne`, and that a request occupies at most its own slot. The refinement maps `admitted` to `Occupied` and shows each handler to be one step or a stutter. The orphans need the types alone: the branch a disconnect takes away is named by the entry it removes |
| StatePersistence_proofs | `TypeCorrect`, `LossConfined`, `AckedSurvive`, `RegistryMarked` | `SaveInv`: the backup is torn exactly while it is copied, and a save needs a live process. `AckInv` adds that, while not exposed, the step that overwrites the file has a good backup, and that a camera being removed is not acknowledged any more. `MarkInv` adds the cameras still to be restored, disjoint from the registry; cameras are only added when there are none of these |
| ZmqConsumption_proofs | `FlagHasViewer`, `LateFramesBounded`, `FeedKept`, `FeederTypes`, `EachFeederEnds` | `FlagInv`, which the types need too, since a start that ends late adds a viewer without a look at the cap; `LateInv`: a thread that pushed its late frame is back at the poll; `FeedInv`: viewers that have not lost their feed have the flag on, and with the flag on a thread only ends by giving up. With the flag off the head of the loop is the end of a thread, which is what `EachFeederEnds` needs of them |
| RestartGate_proofs | `WaitersHoldBack`, `RestartsSpaced`, `GateTypes` | `GateInv`: a waiter has waited no longer than the restart it waits for, and when it gets the mutex the stamp is younger than the cooldown. Rests on `MaxHold < Cooldown`. The types need that counts and waits are capped (`CountsOK`, `WaitsAreBounded`) |
| StallDetection_proofs | `TypeCorrect`, `RestartsAreEarned`, `RestartsEnd` | `QuietSinceLook`: while no output was recorded since the last look, `stalled` windows and the time since that look have passed without any. It speaks of the totals alone, so it holds for every log interval; `CountedIsQuiet` carries it over a look. For the end of the restarts, `InputFades`: what is left of the input in the window, the rates and the totals does not come back, and a restart uses up the totals |
| SignalingSession_proofs | `NoneForgotten`, `SessionTypes`, `FirstConnected` | `LinkInv` ties stages to the connection; `SentInv`: while the ack handler runs on a live connection a camera is registered or still on its list. `ConnectInv`: an expired token the supervisor connects with is pre-built or expired since it was minted, so what a reachable server refuses is a `RefusedAttempt` |
| ViewerTeardown_proofs | `ReportFinal`, `SilentAfterStop`, `TeardownTypes` | `FinalInv`: a monitor whose report was printed is in nobody's reach, neither the map's nor the poller's nor a promise's. `StopInv` follows the stop from the first removal to the stopped pipeline: what was removed stays removed, because nothing is admitted after `running` is cleared |
| ViewerTeardown_proofs, about ConnectionMonitor | `HandshakeKept`, `DeliveryCounts`, `FailureExplained`, `BlameIsFitting`, `MonitorTypes` | `MonitorInv`: time stamps are never taken back, so what was notified or fed has its stamp whatever the outcomes say now, and the statistics count only what was fed. For the blame, `FailScores`: a failed session had no frame, so its media branch scores at least 80, which only the branch of another incomplete stage can pass |
| Negotiation_proofs | `NegotiationTypes`, `EndsAgree`, `ExchangesComplete`, `RestartsRun` | `ShapeInv`: the requests still queued and the sessions made add up to what was asked, so a request always finds its session; a webrtcbin that was not made has done nothing. `ExchangeInv`: unless disturbed, the last offer of the session in the map is at exactly one of five places, from the channel to the answer applied, with nothing else under way; each step leaves it or moves it on (`PlaceStep`), and settled is the fifth place. `RestartAsked`: a lost connection whose restart was granted has an offer asked for or unanswered |

The assumptions are the named ASSUMEs of the modules; TLC evaluates them in every passing run. They ask
for finite sets of rooms, viewers and threads, caps that are naturals, markers that are not
elements of the sets, kinds of relay messages that differ, intervals and a cooldown of at least a
second, a cooldown longer than a restart (`RestartGate`), and nothing else. `RestartsEnd` also needs
that `StalledWindows` is not 0: with 0, which the code accepts (CM 86), a pipeline without input is
restarted after each cooldown.

**Liveness.** The provers know nothing of ENABLED and so cannot use a `WF_`. Where a progress property
is proved, the fairness it needs is a formula of its own with ENABLED written out: `CallbackRuns`, for
instance, is `[]<>(back = <<>>) \/ []<><<Callback>>_vars`, the thread takes a step again and again unless,
again and again, it has nothing to do. The guard in each such formula is the disjunction of the guards of
the steps it is about, and it holds exactly where the step is enabled, which was
verified with TLC on instances like those of the runs (it is not one of the runs); so each formula says what the `WF_` of the module says, and no more is assumed:
`RunningSpec` in Negotiation_proofs and StallDetection_proofs, `SupervisorRuns`, `ThreadRuns`. The
argument is the same in all of them: the states on the way are named, nobody's step leads off it, and the
step of the one thread in charge leads on. `FirstConnected` uses the supervisor's fairness alone.

**Only model-checked**: `StallIsRestarted` (both), `OfflineOnlyGivenUp` and `IdleCameraDrains`. The first
three count, seconds, windows or attempts, up to a constant, and the last collects the ends of a set of
threads: each would be an induction over a number or a set with a temporal formula as its hypothesis,
which the installed provers cannot instantiate. `EachFeederEnds` is the part of `IdleCameraDrains` without
the induction: every single thread ends.

## 5. What is not modelled, and what is known

Not modelled because they keep no state others depend on, or are wiring: configuration, logging, the
performance monitor, caps and sinks, names of events (docs/DATA_FLOW.md describes an event loop the
repository does not have). The network probe keeps nothing either: `add_viewer_to_camera`, the only code
that stores its result in a monitor, has no caller. GStreamer, the Socket.IO library, the network and
the server are external and appear as assumptions or environment actions.

Left out of modelled parts: candidates, phases 3 and 4 of the report and its diagnosis entries; bytes, bit
rates and the aggregate log of the metrics; decoding and the verdict of the viewer agent; the removal
of cameras while the gateway runs.

Behaviours of the code that a reader of the models should know:

* A disconnect leaves queue, parser, payloader and capsfilter of the branch in the pipeline (`chains` in
  `ViewerSessions` only grows), and a repeated request leaves the whole old branch: docs/DATA_FLOW.md:63
  speaks of the branch as removed.
* A lost signaling connection is reopened with the token of the first one. When that has expired, or the
  library has used its ten attempts, `keep_connection_alive` goes on without a connection. The comment at
  SG 92-93 promises a fresh token for reconnections; only a new attempt of the supervisor mints one, and
  with `GATEWAY_JWT` not even that: once it has expired, a server that checks it refuses every attempt.
* A kill between the registry and the state manager in `add_camera` (AS 502-525) forgets the camera.
* A refused ICE restart is not tried again, and an offer of a replaced webrtcbin takes the viewer away from
  the current one (`Negotiation`).
* The rates of a last window with input and no output restart an idle camera without end
  (`StallDetection`).

Next, in this order: candidates sent and received beside the offers, with phases 3 and 4 and the
diagnosis entries; the composition of `Negotiation` with `ViewerSessions`, so that a refused or failed
request also meets the agent; the composition of `ViewerTeardown` with `ConnectionMonitor` (a lost report
against a final one); a wall clock that may go back, for the three modules that compare it.
