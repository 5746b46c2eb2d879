----------------------- MODULE ViewerTeardown_proofs -----------------------
(***************************************************************************)
(* Proofs about ViewerTeardown, for any number of sessions and viewers: no *)
(* update follows a printed report, a webrtcbin on record has an owner,    *)
(* and a camera that was stopped is silent; and about the monitors whose   *)
(* reports it prints, that they say what happened to their session.        *)
(***************************************************************************)
EXTENDS ViewerTeardown, ConnectionMonitor, TLAPS

\* The sessions whose monitor somebody but the removal can still update.
Reachable == entries \cup targets \cup promises

\* What keeps a printed report final: its monitor is out of the map, and neither
\* the poller nor a promise has it.
FinalInv ==
    /\ ~late
    /\ handler = "unwrap" => session \notin entries
    /\ \A s \in Reachable : report[s] # "printed"
    /\ Reachable \subseteq Sessions

LEMMA FinalInvInit == Init => FinalInv
  BY DEF Init, FinalInv, Reachable

LEMMA FinalInvStep == FinalInv /\ [Next]_vars => FinalInv'
  <1>. SUFFICES ASSUME FinalInv, [Next]_vars PROVE FinalInv'
    OBVIOUS
  <1>. USE DEF FinalInv, Reachable, map, threads, removal
  <1>1. CASE Build \/ BuildFails \/ Built
    BY <1>1 DEF Build, BuildFails, Built
  <1>2. CASE AllRemoved \/ PipelineStops
    BY <1>2 DEF AllRemoved, PipelineStops
  <1>3. CASE Unwrap
    BY <1>3 DEF Unwrap
  <1>4. CASE Deactivate \/ Join
    BY <1>4 DEF Deactivate, Join
  <1>5. CASE StopCamera
    BY <1>5 DEF StopCamera
  <1>6. CASE PollerWakes
    BY <1>6 DEF PollerWakes
  <1>7. ASSUME NEW s \in Sessions,
               \/ RemoveNext(s) \/ Disconnect(s)
               \/ BufferEnters(s) \/ CallbackStarts(s) \/ Ask(s)
        PROVE  FinalInv'
    BY <1>7 DEF RemoveNext, Disconnect, BufferEnters, CallbackStarts, Ask
  <1>8. ASSUME NEW s \in Sessions, Request(s) PROVE FinalInv'
    BY <1>8 DEF Request
  <1>9. ASSUME NEW s \in Sessions, Thread(s) PROVE FinalInv'
    \* What they update belongs to an entry.
    <2>1. ~late'
      BY <1>9 DEF Thread, ProbeReturns, CallbackReturns, Update, EntryOf
    <2>. QED
      BY <1>9, <2>1 DEF Thread, ProbeReturns, CallbackReturns
  <1>10. ASSUME NEW s \in Sessions, StatsArrive(s) PROVE FinalInv'
    <2>1. ~late'
      BY <1>10 DEF StatsArrive, Update
    <2>. QED
      BY <1>10, <2>1 DEF StatsArrive
  <1>11. CASE UNCHANGED vars
    BY <1>11 DEF vars
  <1>. QED
    BY <1>1, <1>2, <1>3, <1>4, <1>5, <1>6, <1>7, <1>8, <1>9, <1>10, <1>11
    DEF Next, Handler

\* A connection report that was printed stays complete: whatever probe, callback
\* or stats answer was under way, none updates the monitor after finalize, for
\* any number of sessions and viewers.
THEOREM ReportFinal == Spec => []ReportIsFinal
  <1>1. FinalInv => ReportIsFinal
    BY DEF FinalInv, ReportIsFinal
  <1>. QED
    BY <1>1, FinalInvInit, FinalInvStep, PTL DEF Spec

-----------------------------------------------------------------------------
(* Types.                                                                  *)

\* A webrtcbin is on record for an entry, except between the removal of the
\* entry and the unwrapping of its monitor; what is built has an entry.
RecordInv ==
    /\ handler # "unwrap" => recorded \subseteq entries
    /\ handler \in {"build", "building"} => session \in entries
    /\ handler \in {"build", "building", "unwrap", "deactivate", "join"} =>
          session \in Sessions

LEMMA TypeStep ==
  ASSUME TypeOK, RecordInv, [Next]_vars
  PROVE  TypeOK' /\ RecordInv'
  <1>. USE DEF TypeOK, RecordInv, map, threads, removal
  <1>1. CASE Build \/ BuildFails \/ Built
    BY <1>1 DEF Build, BuildFails, Built
  <1>2. CASE AllRemoved
    BY <1>2 DEF AllRemoved
  <1>3. CASE PipelineStops
    BY <1>3 DEF PipelineStops
  <1>4. CASE Unwrap
    BY <1>4 DEF Unwrap
  <1>5. CASE Deactivate \/ Join
    BY <1>5 DEF Deactivate, Join
  <1>6. CASE StopCamera
    BY <1>6 DEF StopCamera
  <1>7. CASE PollerWakes
    BY <1>7 DEF PollerWakes
  <1>8. ASSUME NEW s \in Sessions, RemoveNext(s) \/ Disconnect(s)
        PROVE  TypeOK' /\ RecordInv'
    BY <1>8 DEF RemoveNext, Disconnect
  <1>9. ASSUME NEW s \in Sessions, BufferEnters(s) \/ CallbackStarts(s) \/ Ask(s)
        PROVE  TypeOK' /\ RecordInv'
    BY <1>9 DEF BufferEnters, CallbackStarts, Ask
  <1>10. ASSUME NEW s \in Sessions, Request(s)
         PROVE  TypeOK' /\ RecordInv'
    BY <1>10 DEF Request, EntryOf
  <1>11. ASSUME NEW s \in Sessions, Thread(s) \/ StatsArrive(s)
         PROVE  TypeOK' /\ RecordInv'
    <2>1. late' \in BOOLEAN
      BY <1>11 DEF Thread, ProbeReturns, CallbackReturns, StatsArrive, Update
    <2>. QED
      BY <1>11, <2>1 DEF Thread, ProbeReturns, CallbackReturns, StatsArrive
  <1>12. CASE UNCHANGED vars
    BY <1>12 DEF vars
  <1>. QED
    BY <1>1, <1>2, <1>3, <1>4, <1>5, <1>6, <1>7, <1>8, <1>9, <1>10, <1>11, <1>12
    DEF Next, Handler

\* Every variable keeps its type: at no point of a removal, a failed build or a
\* repeated request is a webrtcbin on record that neither an entry nor the
\* removal under way answers for.
THEOREM TeardownTypes == Spec => []TypeOK
  <1>1. Init => TypeOK /\ RecordInv
    BY DEF Init, TypeOK, RecordInv
  <1>2. TypeOK /\ RecordInv /\ [Next]_vars => TypeOK' /\ RecordInv'
    BY TypeStep
  <1>. QED
    BY <1>1, <1>2, PTL DEF Spec

-----------------------------------------------------------------------------
(* After stop.                                                             *)

Silent(s) == bin[s] \in {"none", "null"} /\ buffer[s] = "outside" /\ callback[s] = "idle"

\* From the moment the flag is cleared every entry left is on the list of those
\* to remove; the list is empty when the pipeline is set to Null, and what is
\* silent then cannot start again.
StopInv ==
    /\ handler = "pipeline" => ~running /\ doomed = {}
    /\ ~running =>
          /\ handler \notin {"build", "building"}
          /\ entries \subseteq doomed
          /\ handler = "idle" => doomed = {} /\ \A s \in Sessions : Silent(s)

LEMMA StopStep ==
  ASSUME TypeOK, StopInv, [Next]_vars
  PROVE  StopInv'
  <1>. USE DEF StopInv, Silent, map, threads, removal
  <1>1. CASE Build \/ BuildFails \/ Built
    BY <1>1 DEF Build, BuildFails, Built
  <1>2. CASE AllRemoved
    BY <1>2 DEF AllRemoved
  <1>3. CASE PipelineStops
    BY <1>3 DEF PipelineStops
  <1>4. CASE Unwrap \/ Deactivate \/ Join
    BY <1>4 DEF Unwrap, Deactivate, Join
  <1>5. CASE StopCamera
    BY <1>5 DEF StopCamera
  <1>6. CASE PollerWakes
    BY <1>6 DEF PollerWakes
  <1>7. ASSUME NEW s \in Sessions, RemoveNext(s)
        PROVE  StopInv'
    BY <1>7 DEF RemoveNext
  <1>8. ASSUME NEW s \in Sessions, Disconnect(s) \/ Request(s)
        PROVE  StopInv'
    BY <1>8 DEF Disconnect, Request
  <1>9. ASSUME NEW s \in Sessions, BufferEnters(s)
        PROVE  StopInv'
    BY <1>9 DEF BufferEnters
  <1>10. ASSUME NEW s \in Sessions, CallbackStarts(s)
         PROVE  StopInv'
    BY <1>10 DEF CallbackStarts
  <1>11. ASSUME NEW s \in Sessions, Thread(s)
         PROVE  StopInv'
    BY <1>11 DEF Thread, ProbeReturns, CallbackReturns
  <1>12. ASSUME NEW s \in Sessions, StatsArrive(s) \/ Ask(s)
         PROVE  StopInv'
    BY <1>12 DEF StatsArrive, Ask
  <1>13. CASE UNCHANGED vars
    BY <1>13 DEF vars
  <1>. QED
    BY <1>1, <1>2, <1>3, <1>4, <1>5, <1>6, <1>7, <1>8, <1>9, <1>10, <1>11, <1>12, <1>13
    DEF Next, Handler

\* Once stop has returned nothing of the camera is left that could come back to
\* the viewers map: no entry, no playing webrtcbin, also of a replaced session,
\* and no probe or callback under way.
THEOREM SilentAfterStop == Spec => []StoppedIsSilent
  <1>1. Init => StopInv
    BY DEF Init, StopInv
  <1>2. TypeOK /\ StopInv /\ [Next]_vars => StopInv'
    BY StopStep
  <1>3. StopInv => StoppedIsSilent
    BY DEF StopInv, StoppedIsSilent, Silent
  <1>. QED
    BY <1>1, <1>2, <1>3, TeardownTypes, PTL DEF Spec

-----------------------------------------------------------------------------
(* What a printed report says: ConnectionMonitor, the monitor of one       *)
(* session, which the removal above turns into a report.                   *)
(*                                                                         *)
(* The report keeps what really happened: an inductive invariant ties the  *)
(* truth about the session (told, wire) to the time stamps, which no call  *)
(* ever takes back, and the counters of the stats to the media.            *)

\* Time stamps outlive the outcomes: what was notified or fed has its stamp, the
\* stats count only what was fed, and the report follows the teardown.
MonitorInv ==
    /\ told => "srtp" \in seen
    /\ wire # "idle" => "frame" \in seen
    /\ sent => wire # "idle"
    /\ acked => sent
    /\ reported => ended

LEMMA MonitorInvInit == MonitorInit => MonitorInv
BY DEF MonitorInit, MonitorInv

LEMMA MonitorInvStep == MonitorInv /\ [MonitorNext]_monitorVars => MonitorInv'
<1> SUFFICES ASSUME MonitorInv, [MonitorNext]_monitorVars PROVE MonitorInv'
    OBVIOUS
<1> USE DEF MonitorInv, monitorVars, observed, measured, closing, truth
<1>1. CASE IceChanges
    BY <1>1 DEF IceChanges, IceUp, IceDown
<1>2. ASSUME NEW parses \in BOOLEAN, Answer(parses) PROVE MonitorInv'
    BY <1>2 DEF Answer, DtlsConnecting
<1>3. CASE PeerConnecting
    BY <1>3 DEF PeerConnecting, DtlsConnecting
<1>4. ASSUME NEW own \in BOOLEAN, PeerConnected(own) PROVE MonitorInv'
    BY <1>4 DEF PeerConnected
<1>5. CASE PeerFailed
    BY <1>5 DEF PeerFailed
<1>6. CASE PadAdded
    BY <1>6 DEF PadAdded
<1>7. CASE DtlsWarning
    BY <1>7 DEF DtlsWarning
<1>8. ASSUME NEW own \in BOOLEAN, NEW key \in BOOLEAN, FrameCounted(own, key)
      PROVE  MonitorInv'
    BY <1>8 DEF FrameCounted
<1>9. CASE DtlsCompletes
    BY <1>9 DEF DtlsCompletes
<1>10. CASE MediaMoves
    BY <1>10 DEF MediaMoves
<1>11. CASE StatsRead
    BY <1>11 DEF StatsRead
<1>12. CASE Telemetry
    BY <1>12 DEF Telemetry
<1>13. CASE Finalize
    BY <1>13 DEF Finalize
<1>14. CASE UNCHANGED monitorVars
    BY <1>14
<1> QED
    BY <1>1, <1>2, <1>3, <1>4, <1>5, <1>6, <1>7, <1>8, <1>9, <1>10, <1>11, <1>12, <1>13,
       <1>14 DEF MonitorNext

\* The invariant, for a viewer with and without earlier sessions.
THEOREM Monitored == MonitorSpec => []MonitorInv
BY MonitorInvInit, MonitorInvStep, PTL DEF MonitorSpec

\* A DTLS handshake that was notified, or that media went through, is reported
\* as connected, whatever came afterwards.
THEOREM HandshakeKept == MonitorSpec => []HandshakeNotDenied
<1>1. MonitorInv => HandshakeNotDenied
    BY DEF MonitorInv, HandshakeNotDenied, EffectiveDtls
<1> QED
    BY Monitored, <1>1, PTL

\* Media that reached the viewer keeps the verdict away from FAIL.
THEOREM DeliveryCounts == MonitorSpec => []DeliveredNeverFails
<1>1. MonitorInv => DeliveredNeverFails
    BY DEF MonitorInv, DeliveredNeverFails, Verdict
<1> QED
    BY Monitored, <1>1, PTL

\* Every FAIL names a reason in a phase, but for the packets of the viewer's own
\* stream.
THEOREM FailureExplained == MonitorSpec => []FailIsExplained
<1>1. ASSUME MonitorInv, reported, Verdict = "FAIL", ~heard PROVE Phase7Fails
    <2>1. ended
        BY <1>1 DEF MonitorInv
    <2>2. "frame" \notin seen
        BY <1>1, <2>1 DEF Verdict
    <2>3. ~sent /\ ~acked
        BY <1>1, <2>2 DEF MonitorInv
    <2> QED
        BY <1>1, <2>2, <2>3 DEF Phase7Fails, RtpObserved
<1>2. MonitorInv => FailIsExplained
    BY <1>1 DEF FailIsExplained
<1> QED
    BY Monitored, <1>2, PTL

-----------------------------------------------------------------------------
(* Types.                                                                  *)

LEMMA MonitorTypeInit == MonitorInit => MonitorTypeOK
BY DEF MonitorInit, MonitorTypeOK, IceOutcomes, DtlsOutcomes, Reasons, WarningReasons, Stamps

LEMMA MonitorTypeStep == MonitorTypeOK /\ [MonitorNext]_monitorVars => MonitorTypeOK'
<1> SUFFICES ASSUME MonitorTypeOK, [MonitorNext]_monitorVars PROVE MonitorTypeOK'
    OBVIOUS
<1> USE DEF MonitorTypeOK, monitorVars, observed, measured, closing, truth, IceOutcomes, DtlsOutcomes,
            Reasons, WarningReasons, Stamps
<1>1. CASE IceChanges
    BY <1>1 DEF IceChanges, IceUp, IceDown
<1>2. ASSUME NEW parses \in BOOLEAN, Answer(parses) PROVE MonitorTypeOK'
    <2>1. (answered \/ parses) \in BOOLEAN
        OBVIOUS
    <2> QED
        BY <1>2, <2>1 DEF Answer, DtlsConnecting
<1>3. CASE PeerConnecting
    BY <1>3 DEF PeerConnecting, DtlsConnecting
<1>4. ASSUME NEW own \in BOOLEAN, PeerConnected(own) PROVE MonitorTypeOK'
    <2>1. (told \/ own) \in BOOLEAN
        OBVIOUS
    <2> QED
        BY <1>4, <2>1 DEF PeerConnected
<1>5. CASE PeerFailed
    BY <1>5 DEF PeerFailed
<1>6. CASE PadAdded
    BY <1>6 DEF PadAdded
<1>7. CASE DtlsWarning
    BY <1>7 DEF DtlsWarning
<1>8. ASSUME NEW own \in BOOLEAN, NEW key \in BOOLEAN, FrameCounted(own, key)
      PROVE  MonitorTypeOK'
    BY <1>8 DEF FrameCounted
<1>9. CASE DtlsCompletes
    BY <1>9 DEF DtlsCompletes
<1>10. CASE MediaMoves
    BY <1>10 DEF MediaMoves
<1>11. CASE StatsRead
    BY <1>11 DEF StatsRead
<1>12. CASE Telemetry
    BY <1>12 DEF Telemetry
<1>13. CASE Finalize
    BY <1>13 DEF Finalize
<1>14. CASE UNCHANGED monitorVars
    BY <1>14
<1> QED
    BY <1>1, <1>2, <1>3, <1>4, <1>5, <1>6, <1>7, <1>8, <1>9, <1>10, <1>11, <1>12, <1>13,
       <1>14 DEF MonitorNext

\* Every variable of the monitor keeps its type, and a key frame is a frame.
THEOREM MonitorTypes == MonitorSpec => []MonitorTypeOK
BY MonitorTypeInit, MonitorTypeStep, PTL DEF MonitorSpec

-----------------------------------------------------------------------------
(* The blame.                                                              *)

\* A failed session had no frame, so its media branch scores 80 or more: only a
\* branch of a stage that did not complete can score as much.
LEMMA FailScores ==
    ASSUME MonitorTypeOK, MonitorInv, reported, Verdict = "FAIL"
    PROVE  /\ MediaScore \in {80, 85}
           /\ "srtp_media" \in Incomplete
           /\ IceScore \in {20, 40, 70} \/ (IceScore = 90 /\ "ice" \in Incomplete)
           /\ DtlsScore \in {10, 65} \/ (DtlsScore \in {88, 98} /\ "dtls" \in Incomplete)
<1>1. ended /\ "frame" \notin seen
    BY DEF MonitorInv, Verdict
<1>2. MediaScore \in {80, 85} /\ "srtp_media" \in Incomplete
    BY <1>1 DEF MediaScore, Incomplete
<1>3. IceScore \in {20, 40, 70} \/ (IceScore = 90 /\ "ice" \in Incomplete)
    BY <1>1 DEF IceScore, Incomplete, IceOk, MonitorTypeOK, IceOutcomes
<1>4. DtlsScore \in {10, 65} \/ (DtlsScore \in {88, 98} /\ "dtls" \in Incomplete)
    BY DEF DtlsScore, Incomplete
<1> QED
    BY <1>2, <1>3, <1>4

\* The first branch of the highest score, when no constant branch has it.
LEMMA PrimaryIsHighest ==
    ASSUME NEW i \in {4, 5, 6},
           \A j \in 1..6 : \/ Tree[j].score < Tree[i].score
                           \/ Tree[j].score = Tree[i].score /\ i <= j,
           \A j \in 1..6 : Tree[j].score \in Nat
    PROVE  Primary = Tree[i].branch
<1> DEFINE First(k) == \A j \in DOMAIN Tree :
                          \/ Tree[j].score < Tree[k].score
                          \/ Tree[j].score = Tree[k].score /\ k <= j
<1>1. DOMAIN Tree = 1..6
    BY DEF Tree
<1>2. First(i)
    BY <1>1
<1>3. \A k \in 1..6 : First(k) => k = i
    BY <1>1
<1>4. i = CHOOSE k \in DOMAIN Tree : First(k)
    BY <1>1, <1>2, <1>3
<1> QED
    BY <1>4 DEF Primary

\* The branch that a failed session is blamed on is a stage that its report shows
\* as not completed.
THEOREM BlameIsFitting == MonitorSpec => []BlameFits
<1>1. ASSUME MonitorTypeOK, MonitorInv, reported, Verdict = "FAIL" PROVE Primary \in Incomplete
    <2>1. /\ Tree[1].score = 25 /\ Tree[2].score = 30 /\ Tree[3].score = 10
          /\ Tree[4].score = IceScore /\ Tree[4].branch = "ice"
          /\ Tree[5].score = DtlsScore /\ Tree[5].branch = "dtls"
          /\ Tree[6].score = MediaScore /\ Tree[6].branch = "srtp_media"
        BY DEF Tree
    <2>2. \A j \in 1..6 : j \in {1, 2, 3, 4, 5, 6}
        OBVIOUS
    <2>3. \A j \in 1..6 : Tree[j].score \in Nat
        BY <1>1, <2>1, <2>2, FailScores
    <2>4. CASE DtlsScore \in {88, 98} /\ DtlsScore > IceScore
        <3>1. \A j \in 1..6 : Tree[j].score < Tree[5].score \/ (Tree[j].score = Tree[5].score /\ 5 <= j)
            BY <1>1, <2>1, <2>2, <2>4, FailScores
        <3>2. Primary = "dtls"
            BY <3>1, <2>1, <2>3, PrimaryIsHighest
        <3> QED
            BY <1>1, <2>4, <3>2, FailScores
    <2>5. CASE IceScore = 90 /\ DtlsScore <= 90
        <3>1. \A j \in 1..6 : Tree[j].score < Tree[4].score \/ (Tree[j].score = Tree[4].score /\ 4 <= j)
            BY <1>1, <2>1, <2>2, <2>5, FailScores
        <3>2. Primary = "ice"
            BY <3>1, <2>1, <2>3, PrimaryIsHighest
        <3> QED
            BY <1>1, <2>5, <3>2, FailScores
    <2>6. CASE IceScore # 90 /\ DtlsScore \in {10, 65}
        <3>1. \A j \in 1..6 : Tree[j].score < Tree[6].score \/ (Tree[j].score = Tree[6].score /\ 6 <= j)
            BY <1>1, <2>1, <2>2, <2>6, FailScores
        <3>2. Primary = "srtp_media"
            BY <3>1, <2>1, <2>3, PrimaryIsHighest
        <3> QED
            BY <1>1, <3>2, FailScores
    <2> QED
        BY <1>1, <2>4, <2>5, <2>6, FailScores
<1>2. MonitorTypeOK /\ MonitorInv => BlameFits
    BY <1>1 DEF BlameFits
<1> QED
    BY MonitorTypes, Monitored, <1>2, PTL

=============================================================================
