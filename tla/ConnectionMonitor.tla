-------------------------- MODULE ConnectionMonitor --------------------------
(***************************************************************************)
(* The ConnectionMonitor of one viewer session: what the callbacks of the  *)
(* session write into it, in any order, and the report finalize() makes of *)
(* it: the verdict, the failure reasons of the phases, the branch of the   *)
(* root cause tree that gets the blame.                                    *)
(*                                                                         *)
(* Beside the monitor the module keeps what really happened to the session *)
(* (answered, keys, told, wire), so that the report can be compared with   *)
(* it.  Callbacks find the monitor by viewer id, so those of an earlier    *)
(* session of the same viewer write into it too: such a call is bound to   *)
(* nothing that happened to this session.                                 *)
(*                                                                         *)
(* Left out: candidates and the phases about them, durations, texts.  The  *)
(* network probe is never stored by a running gateway (its only writer,    *)
(* add_viewer_to_camera, has no caller), so network_probe is None here.    *)
(* Whether the report is made or lost to another owner of the monitor is   *)
(* the business of ViewerTeardown.                                         *)
(***************************************************************************)
EXTENDS Naturals, Sequences

CONSTANT
    Replaced    \* the viewer has had an earlier session, whose branch is still fed

ASSUME ReplacedIsBoolean == Replaced \in BOOLEAN

VARIABLES
    ice,        \* ice_outcome
    dtls,       \* dtls_outcome
    reason,     \* dtls_failure_reason
    seen,       \* the time stamps that are set, see Stamps
    sent,       \* egress_packets_sent > 0
    acked,      \* egress_remote_packets_received > 0
    heard,      \* media_packets_observed counts packets the viewer sent
    lossy,      \* more than a tenth of the packets is reported lost
    displayed,  \* viewer_displayed
    ended,      \* session_ended_by_viewer
    quiet,      \* no frame and no feedback for five seconds, at the report
    reported,   \* the monitor was turned into its report
    answered,   \* the viewer's answer was set as remote description
    keys,       \* the session's own DTLS handshake is done
    told,       \* its webrtcbin has notified the state "connected"
    wire        \* its media: "idle", "fed" (to webrtcbin), "sent", "got"

observed == <<ice, dtls, reason, seen>>
measured == <<sent, acked, heard, lossy, displayed>>
closing == <<ended, quiet, reported>>
truth == <<answered, keys, told, wire>>
monitorVars == <<observed, measured, closing, truth>>

IceOutcomes == {"InProgress", "Connected", "Completed", "Failed", "Disconnected"}
DtlsOutcomes == {"NotStarted", "InProgress", "Connected", "Failed"}

\* The reasons the text of a warning is sorted into, and the two others.
WarningReasons == {"FingerprintMismatch", "CertificateInvalid", "Timeout"}
Reasons == WarningReasons \cup {"None", "Unknown"}

\* dtls_start, dtls_done, srtp_ready_at, first_keyframe_at; "frame" stands for
\* first_rtp_packet_at, first_frame_at and frames_sent > 0, which are set together.
Stamps == {"dtlsStart", "dtlsDone", "srtp", "frame", "keyframe"}

-----------------------------------------------------------------------------

MonitorInit ==
    /\ ice = "InProgress"
    /\ dtls = "NotStarted"
    /\ reason = "None"
    /\ seen = {}
    /\ sent = FALSE /\ acked = FALSE /\ heard = FALSE /\ lossy = FALSE
    /\ displayed = FALSE
    /\ ended = FALSE /\ quiet = FALSE /\ reported = FALSE
    /\ answered = FALSE /\ keys = FALSE /\ told = FALSE
    /\ wire = "idle"

\* on_ice_connected and on_ice_completed take the start of DTLS for granted.
IceUp(outcome) ==
    /\ ice' = outcome
    /\ dtls' = IF "dtlsStart" \in seen THEN dtls ELSE "InProgress"
    /\ seen' = seen \cup {"dtlsStart"}
    /\ UNCHANGED <<reason, measured, closing, truth>>

IceDown(outcome) ==
    /\ ice' = outcome
    /\ UNCHANGED <<dtls, reason, seen, measured, closing, truth>>

IceChanges ==
    \/ \E outcome \in {"Connected", "Completed"} : IceUp(outcome)
    \/ \E outcome \in {"Failed", "Disconnected"} : IceDown(outcome)

\* on_dtls_connecting: called for every answer, also one after an ICE restart,
\* and for every notification of "connecting".
DtlsConnecting ==
    /\ dtls' = "InProgress"
    /\ seen' = seen \cup {"dtlsStart"}

\* The monitor is told before the text of the answer is parsed.
Answer(parses) ==
    /\ DtlsConnecting
    /\ answered' = (answered \/ parses)
    /\ UNCHANGED <<ice, reason, measured, closing, keys, told, wire>>

PeerConnecting ==
    /\ DtlsConnecting
    /\ UNCHANGED <<ice, reason, measured, closing, truth>>

\* What on_dtls_connected and on_srtp_keys_ready leave behind.
PeerConnected(own) ==
    /\ IF own THEN keys ELSE Replaced
    /\ dtls' = "Connected"
    /\ seen' = seen \cup {"dtlsDone", "srtp"}
    /\ told' = (told \/ own)
    /\ UNCHANGED <<ice, reason, measured, closing, answered, keys, wire>>

PeerFailed ==
    /\ dtls' = "Failed"
    /\ seen' = seen \cup {"dtlsDone"}
    /\ reason' = IF reason = "None" THEN "Unknown" ELSE reason
    /\ UNCHANGED <<ice, measured, closing, truth>>

\* pad-added, for a stream the viewer sends: on_srtp_keys_ready alone.
PadAdded ==
    /\ keys \/ Replaced
    /\ "srtp" \notin seen
    /\ dtls' = IF "dtlsDone" \in seen THEN dtls ELSE "Connected"
    /\ seen' = seen \cup {"srtp", "dtlsDone"}
    /\ UNCHANGED <<ice, reason, measured, closing, truth>>

\* A warning on the bus goes to the monitors of all viewers.
DtlsWarning ==
    /\ reason' \in WarningReasons
    /\ UNCHANGED <<ice, dtls, seen, measured, closing, truth>>

\* Mutant: a key frame is not counted as a frame.
FrameCounted_KeyAside(own, key) ==
    /\ IF own THEN answered ELSE Replaced
    /\ seen' = seen \cup (IF key THEN {"keyframe"} ELSE {"frame"})
    /\ wire' = IF own /\ wire = "idle" THEN "fed" ELSE wire
    /\ UNCHANGED <<ice, dtls, reason, measured, closing, answered, keys, told>>

\* The probe on the webrtcbin's sink pad, which passes no buffer before the
\* answer is set.
FrameCounted(own, key) ==
    /\ IF own THEN answered ELSE Replaced
    /\ seen' = seen \cup (IF key THEN {"frame", "keyframe"} ELSE {"frame"})
    /\ wire' = IF own /\ wire = "idle" THEN "fed" ELSE wire
    /\ UNCHANGED <<ice, dtls, reason, measured, closing, answered, keys, told>>

DtlsCompletes ==
    /\ answered
    /\ keys' = TRUE
    /\ UNCHANGED <<observed, measured, closing, answered, told, wire>>

MediaMoves ==
    /\ \/ wire = "fed" /\ keys /\ wire' = "sent"
       \/ wire = "sent" /\ wire' = "got"
    /\ UNCHANGED <<observed, measured, closing, answered, keys, told>>

\* The answer to a get-stats: packets sent, feedback on them from the viewer, or
\* only packets of a stream the viewer sends itself.
StatsRead ==
    /\ keys
    /\ IF wire \in {"sent", "got"}
       THEN /\ sent' = TRUE
            /\ acked' \in {acked, wire = "got"} /\ (acked => acked')
            /\ lossy' \in IF acked' THEN BOOLEAN ELSE {lossy}
            /\ UNCHANGED heard
       ELSE /\ heard' = TRUE
            /\ UNCHANGED <<sent, acked, lossy>>
    /\ UNCHANGED <<observed, displayed, closing, truth>>

\* The viewer says that it has decoded frames, maybe those of an earlier session.
Telemetry ==
    /\ wire = "got" \/ Replaced
    /\ displayed' = TRUE
    /\ UNCHANGED <<observed, sent, acked, heard, lossy, closing, truth>>

\* Mutant: finalize without on_viewer_teardown.
Finalize_KeepsOpen ==
    /\ quiet' \in BOOLEAN
    /\ reported' = TRUE
    /\ UNCHANGED <<ended, observed, measured, truth>>

\* remove_viewer_internal: on_viewer_teardown, then finalize.
Finalize ==
    /\ ended' = TRUE
    /\ quiet' \in BOOLEAN
    /\ reported' = TRUE
    /\ UNCHANGED <<observed, measured, truth>>

MonitorNext ==
    /\ ~reported
    /\ \/ IceChanges
       \/ \E parses \in BOOLEAN : Answer(parses)
       \/ PeerConnecting
       \/ \E own \in BOOLEAN : PeerConnected(own)
       \/ PeerFailed
       \/ PadAdded
       \/ DtlsWarning
       \/ \E own, key \in BOOLEAN : FrameCounted(own, key)
       \/ DtlsCompletes
       \/ MediaMoves
       \/ StatsRead
       \/ Telemetry
       \/ Finalize

MonitorSpec == MonitorInit /\ [][MonitorNext]_monitorVars

-----------------------------------------------------------------------------
(* The report. *)

IceOk == ice \in {"Connected", "Completed"}

\* Mutant: the last notification counts, whatever media says.
EffectiveDtls_AsNotified == dtls

\* Media that flows, or keys that are there, prove the handshake.
EffectiveDtls ==
    IF "srtp" \in seen \/ "frame" \in seen THEN "Connected" ELSE dtls

HandshakeDone == EffectiveDtls = "Connected"

\* Of a handshake that was done only hard evidence against it is reported.
EffectiveReason ==
    IF HandshakeDone /\ reason \notin {"CertificateInvalid", "FingerprintMismatch"}
    THEN "None" ELSE reason

Frozen == ~ended /\ ~displayed /\ quiet /\ ("frame" \in seen \/ (acked /\ sent))

Verdict ==
    CASE ended /\ "frame" \in seen -> "PASS"
      [] ~(ended /\ "frame" \in seen) /\ ~(IceOk /\ HandshakeDone) -> "FAIL"
      [] OTHER ->
            IF displayed \/ acked
            THEN IF lossy \/ Frozen THEN "DEGRADED" ELSE "PASS"
            ELSE IF "frame" \in seen THEN "DEGRADED" ELSE "FAIL"

\* failure_reason of phase 5 is present.  A failure is always explained; the
\* report tells "stuck in checking" from "failed" by a duration left out here.
Phase5Fails == ice \in {"Failed", "InProgress"}

Phase6Fails == ~HandshakeDone /\ ~ended

RtpObserved == acked \/ sent \/ heard \/ "frame" \in seen

\* Mutant: as phase 6, nothing is said of a session that was ended.
Phase7Fails_LiveOnly ==
    /\ ~ended
    /\ ~RtpObserved \/ (sent /\ ~acked /\ ~displayed) \/ Frozen \/ lossy

Phase7Fails ==
    \/ ~RtpObserved
    \/ sent /\ ~acked /\ ~displayed
    \/ Frozen
    \/ lossy

IceScore ==
    CASE ice = "Failed" -> 90
      [] ice = "Disconnected" -> IF ended /\ "frame" \in seen THEN 15 ELSE 70
      [] ice = "InProgress" -> 40
      [] OTHER -> 20

\* Mutant: the tree is built from the outcome as it was notified.
DtlsScore_AsNotified ==
    CASE dtls # "Connected" /\ EffectiveReason \in {"FingerprintMismatch", "CertificateInvalid"} -> 98
      [] dtls = "Failed" -> 88
      [] dtls = "Connected" -> 10
      [] OTHER -> 65

DtlsScore ==
    IF HandshakeDone THEN 10
    ELSE IF EffectiveReason \in {"FingerprintMismatch", "CertificateInvalid"} THEN 98
    ELSE IF dtls = "Failed" THEN 88 ELSE 65

MediaScore ==
    CASE "srtp" \notin seen -> 85
      [] "srtp" \in seen /\ "frame" \notin seen -> 80
      [] {"srtp", "frame"} \subseteq seen /\ "keyframe" \notin seen -> 60
      [] OTHER -> 15

\* The root cause tree in the order of the comparison; without a probe the first
\* three are constants.
Tree == <<[branch |-> "network", score |-> 25],
          [branch |-> "nat_turn", score |-> 30],
          [branch |-> "signaling", score |-> 10],
          [branch |-> "ice", score |-> IceScore],
          [branch |-> "dtls", score |-> DtlsScore],
          [branch |-> "srtp_media", score |-> MediaScore]>>

\* Only a greater score replaces the one found before.
Primary ==
    LET first == CHOOSE i \in DOMAIN Tree : \A j \in DOMAIN Tree :
                    \/ Tree[j].score < Tree[i].score
                    \/ Tree[j].score = Tree[i].score /\ i <= j
    IN  Tree[first].branch

-----------------------------------------------------------------------------
(* Properties. *)

\* Every variable keeps its type, and a key frame is a frame.
MonitorTypeOK ==
    /\ ice \in IceOutcomes
    /\ dtls \in DtlsOutcomes
    /\ reason \in Reasons
    /\ seen \subseteq Stamps
    /\ "keyframe" \in seen => "frame" \in seen
    /\ {sent, acked, heard, lossy, displayed} \subseteq BOOLEAN
    /\ {ended, quiet, reported} \subseteq BOOLEAN
    /\ {answered, keys, told} \subseteq BOOLEAN
    /\ wire \in {"idle", "fed", "sent", "got"}

\* A handshake that was done is reported as done, whatever came later: the
\* answer to an ICE restart, which sets the outcome back to InProgress, a failure
\* of the connection, a warning, or a notification that never came while media
\* was flowing (on_dtls_connecting, on_dtls_failed, finalize).
HandshakeNotDenied ==
    reported /\ (told \/ wire \in {"sent", "got"}) => EffectiveDtls = "Connected"

\* A session whose media reached the viewer is not reported as failed, even if
\* ICE was lost before the viewer was removed or no feedback ever came (verdict).
DeliveredNeverFails ==
    reported /\ wire = "got" => Verdict # "FAIL"

\* A failed connection comes with a failure reason in one of the phases 5, 6 and 7.
\* The one exception: packets the viewer sent are taken for media on its way to
\* the viewer (media_packets_observed falls back to packets-received).
FailIsExplained ==
    reported /\ Verdict = "FAIL" /\ ~heard => Phase5Fails \/ Phase6Fails \/ Phase7Fails

\* The stages a report shows as not completed.
Incomplete ==
    (IF IceOk THEN {} ELSE {"ice"})
    \cup (IF HandshakeDone THEN {} ELSE {"dtls"})
    \cup (IF {"srtp", "frame"} \subseteq seen THEN {} ELSE {"srtp_media"})

\* The branch a failed connection is blamed on is a stage the same report shows as
\* not completed: never DTLS after the keys were there, nor ICE while it is up
\* (build_root_cause_tree against effective_dtls_outcome and ice_ok).
BlameFits ==
    reported /\ Verdict = "FAIL" => Primary \in Incomplete

\* Local frame counts alone are not a proof of delivery (the comment above
\* verdict): a PASS needs the viewer's word or the feedback of its side.
PassNeedsDelivery ==
    reported /\ Verdict = "PASS" => displayed \/ acked

=============================================================================
