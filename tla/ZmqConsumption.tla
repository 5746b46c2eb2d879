--------------------------- MODULE ZmqConsumption ---------------------------
(***************************************************************************)
(* The feeder threads of one camera: start_zmq_consumption spawns a thread *)
(* that pushes frames into the appsrc, stop_zmq_consumption only clears    *)
(* the flag the thread polls.  The flag is shared by every thread the      *)
(* camera ever spawned.                                                    *)
(*                                                                         *)
(* The viewer operations run under the write lock of AppState::cameras;    *)
(* the threads run freely against them, one step per access to the flag.   *)
(* A thread is the ZeroMQ receiver or the test pattern source, which poll  *)
(* the flag the same way.                                                  *)
(***************************************************************************)
EXTENDS Naturals, FiniteSets

CONSTANTS
    Threads,      \* identities for feeder threads, one per start
    MaxViewers    \* the cap on the viewers of a camera

ASSUME FiniteThreads == IsFiniteSet(Threads)
ASSUME ViewersBound == MaxViewers \in Nat \ {0}

VARIABLES
    viewers,        \* number of entries in CameraStream::viewers
    running,        \* CameraStream::running
    zmqConsuming,   \* CameraStream::zmq_consuming
    starting,       \* a start_zmq_consumption set the flag and is not done yet
    feeder,         \* where each thread is
    late,           \* history: frames pushed since the flag was last cleared
    lost            \* history: what fed the camera last did not start, or gave up

camera == <<viewers, running, zmqConsuming, starting>>
vars == <<camera, feeder, late, lost>>

Alive == {t \in Threads : feeder[t] \in {"check", "receive", "push"}}

-----------------------------------------------------------------------------

Init ==
    /\ viewers = 0
    /\ running = TRUE
    /\ zmqConsuming = FALSE
    /\ starting = FALSE
    /\ feeder = [t \in Threads |-> "unborn"]
    /\ late = [t \in Threads |-> 0]
    /\ lost = FALSE

\* Mutant: the cap is compared with "<=".
ViewerJoins_NoCap ==
    /\ running /\ ~starting
    /\ viewers <= MaxViewers
    /\ IF viewers = 0 /\ ~zmqConsuming
       THEN /\ zmqConsuming' = TRUE
            /\ starting' = TRUE
            /\ late' = [t \in Threads |-> 0]
            /\ lost' = FALSE
            /\ UNCHANGED viewers
       ELSE /\ viewers' = viewers + 1
            /\ UNCHANGED <<zmqConsuming, starting, late, lost>>
    /\ UNCHANGED <<running, feeder>>

\* A viewer is added.  Only the first viewer of a camera that does not consume
\* starts consumption, and the flag is set before the source is opened.
ViewerJoins ==
    /\ running /\ ~starting
    /\ viewers < MaxViewers
    /\ IF viewers = 0 /\ ~zmqConsuming
       THEN /\ zmqConsuming' = TRUE
            /\ starting' = TRUE
            /\ late' = [t \in Threads |-> 0]
            /\ lost' = FALSE
            /\ UNCHANGED viewers
       ELSE /\ viewers' = viewers + 1
            /\ UNCHANGED <<zmqConsuming, starting, late, lost>>
    /\ UNCHANGED <<running, feeder>>

\* The source was opened: the thread is spawned and the viewer is added.
StartSucceeds(t) ==
    /\ starting
    /\ feeder[t] = "unborn"
    /\ feeder' = [feeder EXCEPT ![t] = "check"]
    /\ starting' = FALSE
    /\ viewers' = viewers + 1
    /\ UNCHANGED <<running, zmqConsuming, late, lost>>

\* It was not: the flag is taken back and the viewer is added all the same.
StartFails ==
    /\ starting
    /\ starting' = FALSE
    /\ zmqConsuming' = FALSE
    /\ viewers' = viewers + 1
    /\ lost' = TRUE
    /\ UNCHANGED <<running, feeder, late>>

\* Mutant: the last viewer does not stop consumption.
ViewerLeaves_KeepsConsuming ==
    /\ viewers > 0 /\ ~starting
    /\ viewers' = viewers - 1
    /\ UNCHANGED <<running, zmqConsuming, starting, feeder, late, lost>>

\* Mutant: the last but one viewer stops consumption.
ViewerLeaves_StopsEarly ==
    /\ viewers > 0 /\ ~starting
    /\ viewers' = viewers - 1
    /\ zmqConsuming' = (zmqConsuming /\ viewers > 2)
    /\ UNCHANGED <<running, starting, feeder, late, lost>>

\* A viewer is removed; the last one stops consumption.
ViewerLeaves ==
    /\ viewers > 0 /\ ~starting
    /\ viewers' = viewers - 1
    /\ zmqConsuming' = (zmqConsuming /\ viewers > 1)
    /\ UNCHANGED <<running, starting, feeder, late, lost>>

\* CameraStream::stop clears both flags and removes every viewer.
StopCamera ==
    /\ running /\ ~starting
    /\ running' = FALSE
    /\ zmqConsuming' = FALSE
    /\ viewers' = 0
    /\ UNCHANGED <<starting, feeder, late, lost>>

-----------------------------------------------------------------------------
(* A feeder thread.                                                        *)

\* Mutant: only the camera's own flag is polled.
Check_RunningOnly(t) ==
    /\ feeder[t] = "check"
    /\ feeder' = [feeder EXCEPT ![t] = IF running THEN "receive" ELSE "exited"]
    /\ UNCHANGED <<camera, late, lost>>

\* The head of the loop.
Check(t) ==
    /\ feeder[t] = "check"
    /\ feeder' = [feeder EXCEPT
          ![t] = IF running /\ zmqConsuming THEN "receive" ELSE "exited"]
    /\ UNCHANGED <<camera, late, lost>>

\* A frame, or no message within the poll.
Receive(t) ==
    /\ feeder[t] = "receive"
    /\ \E outcome \in {"push", "check"} : feeder' = [feeder EXCEPT ![t] = outcome]
    /\ UNCHANGED <<camera, late, lost>>

\* More than MAX_CONSECUTIVE_ERRORS receive errors end the thread.  The flag
\* is left alone, set or cleared.
GiveUp(t) ==
    /\ feeder[t] = "receive"
    /\ feeder' = [feeder EXCEPT ![t] = "exited"]
    /\ lost' = (lost \/ (zmqConsuming /\ Alive = {t}))
    /\ UNCHANGED <<camera, late>>

\* Mutant: the next frame is received without a look at the flag.
Push_NoCheck(t) ==
    /\ feeder[t] = "push"
    /\ feeder' = [feeder EXCEPT ![t] = "receive"]
    /\ late' = [late EXCEPT ![t] = IF zmqConsuming \/ @ = 2 THEN @ ELSE @ + 1]
    /\ UNCHANGED <<camera, lost>>

\* The frame goes into the appsrc, whatever the flag says by now.
Push(t) ==
    /\ feeder[t] = "push"
    /\ feeder' = [feeder EXCEPT ![t] = "check"]
    /\ late' = [late EXCEPT ![t] = IF zmqConsuming \/ @ = 2 THEN @ ELSE @ + 1]
    /\ UNCHANGED <<camera, lost>>

Step(t) == Check(t) \/ Receive(t) \/ Push(t)

Start == StartFails \/ \E t \in Threads : StartSucceeds(t)

Next ==
    \/ ViewerJoins
    \/ Start
    \/ ViewerLeaves
    \/ StopCamera
    \/ \E t \in Threads : Step(t) \/ GiveUp(t)

\* A spawned thread keeps running; a start in progress ends.  Viewers come and
\* go as they like.
Fairness == WF_vars(Start) /\ \A t \in Threads : WF_vars(Step(t))

Spec == Init /\ [][Next]_vars /\ Fairness

-----------------------------------------------------------------------------
(* Properties.                                                             *)

\* Every variable keeps its type; the viewers stay within the cap.
TypeOK ==
    /\ viewers \in 0..MaxViewers
    /\ running \in BOOLEAN
    /\ zmqConsuming \in BOOLEAN
    /\ starting \in BOOLEAN
    /\ feeder \in [Threads -> {"unborn", "check", "receive", "push", "exited"}]
    /\ late \in [Threads -> 0..2]
    /\ lost \in BOOLEAN

\* The flag is on only while the camera runs and has a viewer, or is about to
\* have one; a start in progress has set it.
FlagNeedsViewer ==
    /\ zmqConsuming => running /\ (viewers > 0 \/ starting)
    /\ starting => zmqConsuming /\ viewers = 0

\* After the flag is cleared every thread, however many of them are left over
\* from earlier starts, pushes at most the one frame it had already received.
OneLateFrame == \A t \in Threads : late[t] <= 1

\* A camera that stays without viewers ends up without feeder threads.
IdleCameraDrains == <>[](viewers = 0 /\ ~starting) => <>[](Alive = {})

\* Viewers are fed by some thread, the one their camera was started with or one
\* left over from an earlier start, unless the last start of the feed failed or
\* the last of its threads gave up on receive errors: no order of joins, leaves
\* and polls of the flag leaves viewers without a thread in any other way.  (After
\* such a failure nobody tries again until all of them have left.)
FeedLostOnlyByFailure == viewers > 0 /\ ~starting => Alive # {} \/ lost

=============================================================================
