--------------------------- MODULE ViewerTeardown ---------------------------
(***************************************************************************)
(* The lock CameraStream::viewers and the threads that meet at it.  The    *)
(* signaling handler (or stop) builds and removes sessions with the lock   *)
(* held.  A buffer that enters a webrtcbin runs a probe that takes the     *)
(* lock, and so do the callbacks of a webrtcbin on its own thread; both    *)
(* then update the session's ConnectionMonitor.  The stats poller takes    *)
(* the monitors out of the map and leaves one with each get-stats promise. *)
(*                                                                         *)
(* Removing a session turns its monitor into the connection report, which  *)
(* takes the last reference to it, and sets its webrtcbin to Null.  Of     *)
(* GStreamer this assumes what a state change to Null is for: deactivating *)
(* a pad waits for the buffer that is passing it, and stopping webrtcbin   *)
(* waits for the callback its thread is running.                           *)
(*                                                                         *)
(* The mutex of a monitor is never held while waiting for anything, so     *)
(* taking it is part of the step that needs it.                            *)
(***************************************************************************)
CONSTANTS
    Sessions,    \* identities for sessions, one per viewer_request
    Viewers,     \* viewer ids
    None         \* not a session

ASSUME NoneIsNoSession == None \notin Sessions

VARIABLES
    running,    \* CameraStream::running
    viewerId,   \* the viewer that made the request of a session
    entries,    \* sessions in the viewers map, at most one of a viewer
    recorded,   \* sessions whose entry names their webrtcbin
    bin,        \* the webrtcbin: "none", "playing", "ready" (no buffers), "null"
    buffer,     \* the streaming thread: "outside" or "probe" (in the webrtcbin's pad)
    callback,   \* the webrtcbin's thread: "idle" or "running" (a callback)
    handler,    \* what the handler does, see Holding
    session,    \* the session it builds or removes
    doomed,     \* sessions stop() has still to remove
    targets,    \* monitors the poller holds, to be asked for
    promises,   \* monitors held by get-stats promises
    report,     \* "none", "printed", "lost"
    late        \* history: a monitor was updated after its report

map == <<viewerId, entries, recorded>>
threads == <<bin, buffer, callback>>
removal == <<handler, session, doomed>>
vars == <<running, map, threads, removal, targets, promises, report, late>>

\* The handler holds the lock while it builds a branch and from the removal of
\* an entry until its webrtcbin is gone.
Holding == handler \in {"building", "unwrap", "deactivate", "join"}

-----------------------------------------------------------------------------

Init ==
    /\ running = TRUE
    /\ viewerId \in [Sessions -> Viewers]
    /\ entries = {}
    /\ recorded = {}
    /\ bin = [s \in Sessions |-> "none"]
    /\ buffer = [s \in Sessions |-> "outside"]
    /\ callback = [s \in Sessions |-> "idle"]
    /\ handler = "idle"
    /\ session = None
    /\ doomed = {}
    /\ targets = {}
    /\ promises = {}
    /\ report = [s \in Sessions |-> "none"]
    /\ late = FALSE

\* Monitors are updated.
Update(monitors) == late' = (late \/ \E s \in monitors : report[s] = "printed")

\* Probes and callbacks look their monitor up by the id of the viewer.  After a
\* repeated request they find the one of the new session.
EntryOf(s) == {e \in entries : viewerId[e] = viewerId[s]}

-----------------------------------------------------------------------------
(* The handler: a viewer_request.                                          *)

\* Mutant: the webrtcbin of the replaced entry stays on record.
Request_KeepsRecord(s) ==
    /\ handler = "idle" /\ running
    /\ s \notin entries /\ bin[s] = "none" /\ report[s] = "none"
    /\ entries' = (entries \ EntryOf(s)) \cup {s}
    /\ session' = s
    /\ handler' = "build"
    /\ UNCHANGED <<running, viewerId, recorded, threads, doomed, targets, promises, report,
                   late>>

\* add_viewer, with the lock taken and released.  An entry of the same viewer is
\* replaced, and nothing is done about its webrtcbin.
Request(s) ==
    /\ handler = "idle" /\ running
    /\ s \notin entries /\ bin[s] = "none" /\ report[s] = "none"
    /\ entries' = (entries \ EntryOf(s)) \cup {s}
    /\ recorded' = recorded \ EntryOf(s)
    /\ session' = s
    /\ handler' = "build"
    /\ UNCHANGED <<running, viewerId, threads, doomed, targets, promises, report, late>>

\* create_viewer_webrtc_pipeline takes the lock again; once the elements are in
\* sync with the pipeline, buffers and callbacks come.
Build ==
    /\ handler = "build"
    /\ handler' = "building"
    /\ bin' = [bin EXCEPT ![session] = "playing"]
    /\ UNCHANGED <<running, map, buffer, callback, session, doomed, targets, promises,
                   report, late>>

\* It fails, before or after the webrtcbin plays.
BuildFails ==
    /\ handler \in {"build", "building"}
    /\ handler' = "idle"
    /\ UNCHANGED <<running, map, threads, session, doomed, targets, promises, report, late>>

\* The entry is completed and the lock dropped before the offer is triggered.
Built ==
    /\ handler = "building"
    /\ recorded' = recorded \cup {session}
    /\ handler' = "idle"
    /\ UNCHANGED <<running, viewerId, entries, threads, session, doomed, targets, promises, report, late>>

-----------------------------------------------------------------------------
(* The handler: a viewer_disconnect, or stop.                              *)

Disconnect(s) ==
    /\ handler = "idle" /\ running
    /\ s \in entries
    /\ doomed' = {s}
    /\ handler' = "remove"
    /\ UNCHANGED <<running, map, threads, session, targets, promises, report, late>>

StopCamera ==
    /\ handler = "idle" /\ running
    /\ running' = FALSE
    /\ doomed' = entries
    /\ handler' = "remove"
    /\ UNCHANGED <<map, threads, session, targets, promises, report, late>>

\* remove_viewer_internal: the lock is taken, and the entry taken out.
RemoveNext(s) ==
    /\ handler = "remove"
    /\ s \in doomed
    /\ doomed' = doomed \ {s}
    /\ session' = s
    /\ entries' = entries \ {s}
    /\ handler' = "unwrap"
    /\ UNCHANGED <<running, viewerId, recorded, threads, targets, promises, report, late>>

\* Mutant: stop does not set the pipeline to Null.
AllRemoved_KeepsPipeline ==
    /\ handler = "remove"
    /\ doomed = {}
    /\ handler' = "idle"
    /\ UNCHANGED <<running, map, threads, session, doomed, targets, promises, report, late>>

AllRemoved ==
    /\ handler = "remove"
    /\ doomed = {}
    /\ handler' = IF running THEN "idle" ELSE "pipeline"
    /\ UNCHANGED <<running, map, threads, session, doomed, targets, promises, report, late>>

\* stop sets the whole pipeline to Null, without the lock: what no entry named
\* goes with it.
PipelineStops ==
    /\ handler = "pipeline"
    /\ \A s \in Sessions : buffer[s] = "outside" /\ callback[s] = "idle"
    /\ bin' = [s \in Sessions |-> IF bin[s] = "none" THEN "none" ELSE "null"]
    /\ promises' = {}
    /\ handler' = "idle"
    /\ UNCHANGED <<running, map, buffer, callback, session, doomed, targets, report, late>>

\* Mutant: the report is made without a look at the other owners of the monitor.
Unwrap_Shared ==
    /\ handler = "unwrap"
    /\ report' = [report EXCEPT ![session] = "printed"]
    /\ handler' = IF session \in recorded THEN "deactivate" ELSE "remove"
    /\ recorded' = recorded \ {session}
    /\ UNCHANGED <<running, viewerId, entries, threads, session, doomed, targets, promises,
                   late>>

\* The report is made only when nobody else has the monitor.
Unwrap ==
    /\ handler = "unwrap"
    /\ report' = [report EXCEPT
          ![session] = IF session \in targets \cup promises THEN "lost" ELSE "printed"]
    /\ handler' = IF session \in recorded THEN "deactivate" ELSE "remove"
    /\ recorded' = recorded \ {session}
    /\ UNCHANGED <<running, viewerId, entries, threads, session, doomed, targets, promises,
                   late>>

\* set_state(Null): first the pads.
Deactivate ==
    /\ handler = "deactivate"
    /\ buffer[session] = "outside"
    /\ bin' = [bin EXCEPT ![session] = "ready"]
    /\ handler' = "join"
    /\ UNCHANGED <<running, map, buffer, callback, session, doomed, targets, promises,
                   report, late>>

\* Then the thread.  Promises that were not answered are dropped.
Join ==
    /\ handler = "join"
    /\ callback[session] = "idle"
    /\ bin' = [bin EXCEPT ![session] = "null"]
    /\ promises' = promises \ {session}
    /\ handler' = "remove"
    /\ UNCHANGED <<running, map, buffer, callback, session, doomed, targets, report, late>>

-----------------------------------------------------------------------------
(* The threads of a webrtcbin.                                             *)

BufferEnters(s) ==
    /\ bin[s] = "playing"
    /\ buffer[s] = "outside"
    /\ buffer' = [buffer EXCEPT ![s] = "probe"]
    /\ UNCHANGED <<running, map, bin, callback, removal, targets, promises, report, late>>

\* The probe gets the lock, updates the monitor of an entry and returns.
ProbeReturns(s) ==
    /\ buffer[s] = "probe"
    /\ ~Holding
    /\ buffer' = [buffer EXCEPT ![s] = "outside"]
    /\ Update(EntryOf(s))
    /\ UNCHANGED <<running, map, bin, callback, removal, targets, promises, report>>

\* A state of the webrtcbin changes, an offer or a candidate is ready.
CallbackStarts(s) ==
    /\ bin[s] \in {"playing", "ready"}
    /\ callback[s] = "idle"
    /\ callback' = [callback EXCEPT ![s] = "running"]
    /\ UNCHANGED <<running, map, bin, buffer, removal, targets, promises, report, late>>

CallbackReturns(s) ==
    /\ callback[s] = "running"
    /\ ~Holding
    /\ callback' = [callback EXCEPT ![s] = "idle"]
    /\ Update(EntryOf(s))
    /\ UNCHANGED <<running, map, bin, buffer, removal, targets, promises, report>>

\* A get-stats promise is answered.  It does not need the lock.
StatsArrive(s) ==
    /\ s \in promises
    /\ callback[s] = "idle"
    /\ promises' = promises \ {s}
    /\ Update({s})
    /\ UNCHANGED <<running, map, threads, removal, targets, report>>

-----------------------------------------------------------------------------
(* The stats poller.                                                       *)

\* Once a second: the complete entries with their monitors.
PollerWakes ==
    /\ running
    /\ targets = {}
    /\ ~Holding
    /\ targets' = entries \cap recorded
    /\ UNCHANGED <<running, map, threads, removal, promises, report, late>>

\* get-stats; the monitor goes into the promise, which a webrtcbin that has been
\* stopped drops.
Ask(s) ==
    /\ s \in targets
    /\ targets' = targets \ {s}
    /\ promises' = IF bin[s] = "null" THEN promises ELSE promises \cup {s}
    /\ UNCHANGED <<running, map, threads, removal, report, late>>

-----------------------------------------------------------------------------

Handler ==
    \/ Build \/ BuildFails \/ Built
    \/ AllRemoved \/ PipelineStops \/ Unwrap \/ Deactivate \/ Join
    \/ \E s \in Sessions : RemoveNext(s)

Thread(s) == ProbeReturns(s) \/ CallbackReturns(s)

Next ==
    \/ Handler
    \/ StopCamera
    \/ PollerWakes
    \/ \E s \in Sessions :
          \/ Request(s)
          \/ Disconnect(s)
          \/ BufferEnters(s)
          \/ CallbackStarts(s)
          \/ Thread(s)
          \/ StatsArrive(s)
          \/ Ask(s)

\* A handler that was called and a thread inside a probe or a callback run on.
Fairness == WF_vars(Handler) /\ \A s \in Sessions : WF_vars(Thread(s))

Spec == Init /\ [][Next]_vars /\ Fairness

-----------------------------------------------------------------------------
(* Properties.                                                             *)

\* Every variable keeps its type: a recorded webrtcbin belongs to an entry, or to
\* the session that is being removed.
TypeOK ==
    /\ running \in BOOLEAN
    /\ viewerId \in [Sessions -> Viewers]
    /\ entries \subseteq Sessions
    /\ recorded \subseteq entries \cup {session}
    /\ bin \in [Sessions -> {"none", "playing", "ready", "null"}]
    /\ buffer \in [Sessions -> {"outside", "probe"}]
    /\ callback \in [Sessions -> {"idle", "running"}]
    /\ handler \in {"idle", "build", "building", "remove", "unwrap", "deactivate", "join",
                   "pipeline"}
    /\ session \in Sessions \cup {None}
    /\ doomed \subseteq Sessions
    /\ targets \subseteq Sessions
    /\ promises \subseteq Sessions
    /\ report \in [Sessions -> {"none", "printed", "lost"}]
    /\ late \in BOOLEAN

\* A report that was printed is final: no probe, callback or stats answer that
\* was under way when the session was removed updates its monitor afterwards.
ReportIsFinal == ~late

\* After stop has returned nothing of the camera is left: no entry, no webrtcbin
\* that plays, also none that an entry no longer named, and no probe or callback
\* that could still come back to the map.
StoppedIsSilent ==
    ~running /\ handler = "idle" =>
        /\ entries = {}
        /\ \A s \in Sessions :
              bin[s] \in {"none", "null"} /\ buffer[s] = "outside" /\ callback[s] = "idle"

\* docs/DATA_FLOW.md: "On disconnect, the viewer branch is removed."  A removal
\* under way ends.
RemovalEnds == Holding ~> ~Holding

=============================================================================
