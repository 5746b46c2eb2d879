------------------------ MODULE ZmqConsumption_proofs ------------------------
(***************************************************************************)
(* Proofs about ZmqConsumption, for any set of threads and any number of   *)
(* viewers.                                                                *)
(***************************************************************************)
EXTENDS ZmqConsumption, TLAPS

-----------------------------------------------------------------------------
(* The flag.                                                               *)

\* The part of TypeOK the flag depends on, and the flag's own invariant.
FlagInv ==
    /\ viewers \in Nat
    /\ zmqConsuming => running /\ (viewers > 0 \/ starting)
    /\ starting => zmqConsuming /\ viewers = 0

LEMMA FlagInit == Init => FlagInv
BY DEF Init, FlagInv

LEMMA FlagNext == FlagInv /\ [Next]_vars => FlagInv'
<1> SUFFICES ASSUME FlagInv, [Next]_vars PROVE FlagInv'
  OBVIOUS
<1> USE DEF FlagInv, camera
<1>1. CASE ViewerJoins
  BY <1>1 DEF ViewerJoins
<1>2. ASSUME NEW t \in Threads, StartSucceeds(t) PROVE FlagInv'
  BY <1>2 DEF StartSucceeds
<1>3. CASE StartFails
  BY <1>3 DEF StartFails
<1>4. CASE ViewerLeaves
  <2>1. viewers' = viewers - 1 /\ viewers > 0 /\ ~starting' /\ running' = running
    BY <1>4 DEF ViewerLeaves
  <2>2. zmqConsuming' => zmqConsuming /\ viewers > 1
    BY <1>4 DEF ViewerLeaves
  <2>3. QED
    BY <2>1, <2>2
<1>5. CASE StopCamera
  BY <1>5 DEF StopCamera
<1>6. ASSUME NEW t \in Threads, Step(t) \/ GiveUp(t) PROVE FlagInv'
  BY <1>6 DEF Step, Check, Receive, Push, GiveUp
<1>7. CASE UNCHANGED vars
  BY <1>7 DEF vars
<1>8. QED
  BY <1>1, <1>2, <1>3, <1>4, <1>5, <1>6, <1>7 DEF Next, Start

\* The flag is never left on for a camera without viewers, failed starts and
\* stops included.
THEOREM FlagHasViewer == Spec => []FlagNeedsViewer
<1>1. FlagInv => FlagNeedsViewer
  BY DEF FlagInv, FlagNeedsViewer
<1>2. QED
  BY <1>1, FlagInit, FlagNext, PTL DEF Spec

-----------------------------------------------------------------------------
(* Late frames.                                                            *)

\* OneLateFrame, strengthened by where the thread is: a thread that pushed its
\* late frame is back at the head of the loop, or gone.
LateInv ==
    /\ late \in [Threads -> {0, 1}]
    /\ feeder \in [Threads -> {"unborn", "check", "receive", "push", "exited"}]
    /\ \A t \in Threads :
          late[t] = 1 => ~zmqConsuming /\ feeder[t] \in {"check", "exited"}

LEMMA LateInit == Init => LateInv
BY DEF Init, LateInv

LEMMA LateNext == FlagInv /\ LateInv /\ [Next]_vars => LateInv'
<1> SUFFICES ASSUME FlagInv, LateInv, [Next]_vars PROVE LateInv'
  OBVIOUS
<1> USE DEF LateInv, camera
<1>1. CASE ViewerJoins
  BY <1>1 DEF ViewerJoins
<1>2. ASSUME NEW t \in Threads, StartSucceeds(t) PROVE LateInv'
  BY <1>2 DEF StartSucceeds, FlagInv
<1>3. CASE StartFails \/ ViewerLeaves \/ StopCamera
  BY <1>3 DEF StartFails, ViewerLeaves, StopCamera
<1>4. ASSUME NEW t \in Threads, Check(t) \/ Receive(t) \/ GiveUp(t) PROVE LateInv'
  BY <1>4 DEF Check, Receive, GiveUp
<1>5. ASSUME NEW t \in Threads, Push(t) PROVE LateInv'
  BY <1>5 DEF Push
<1>6. CASE UNCHANGED vars
  BY <1>6 DEF vars
<1>7. QED
  BY <1>1, <1>2, <1>3, <1>4, <1>5, <1>6 DEF Next, Start, Step

\* However many feeder threads are left over from earlier starts, each pushes at
\* most one frame after the flag is cleared.
THEOREM LateFramesBounded == Spec => []OneLateFrame
<1>1. LateInv => OneLateFrame
  BY DEF LateInv, OneLateFrame
<1>2. QED
  BY <1>1, FlagInit, FlagNext, LateInit, LateNext, PTL DEF Spec

-----------------------------------------------------------------------------
(* The feed.                                                               *)

\* A camera whose viewers have not lost their feed has the flag on and a thread
\* that polls it.
FeedInv ==
    /\ feeder \in [Threads -> {"unborn", "check", "receive", "push", "exited"}]
    /\ viewers > 0 /\ ~starting => lost \/ (zmqConsuming /\ Alive # {})

\* While the flag is on a thread leaves Alive only by giving up, and the feed is
\* lost when it was the last.
LEMMA FeedStep ==
  ASSUME FlagInv, FeedInv, NEW t \in Threads, Step(t) \/ GiveUp(t)
  PROVE  FeedInv'
<1> USE DEF FeedInv, camera
<1>1. CASE Check(t)
  <2>1. ASSUME zmqConsuming PROVE feeder'[t] = "receive"
    BY <1>1, <2>1 DEF Check, FlagInv
  <2>2. zmqConsuming => Alive' # {}
    BY <1>1, <2>1 DEF Alive
  <2>3. QED
    BY <1>1, <2>2 DEF Check
<1>2. CASE Receive(t) \/ Push(t)
  <2>1. feeder'[t] \in {"push", "check"}
    BY <1>2 DEF Receive, Push
  <2>2. Alive' # {}
    BY <2>1 DEF Alive
  <2>3. QED
    BY <1>2, <2>2 DEF Receive, Push
<1>3. CASE GiveUp(t)
  <2>1. ASSUME Alive # {t}, Alive # {} PROVE Alive' # {}
    BY <1>3, <2>1 DEF GiveUp, Alive
  <2>2. QED
    BY <1>3, <2>1 DEF GiveUp
<1>4. QED
  BY <1>1, <1>2, <1>3 DEF Step

LEMMA FeedNext == FlagInv /\ FeedInv /\ [Next]_vars => FeedInv'
<1> SUFFICES ASSUME FlagInv, FeedInv, [Next]_vars PROVE FeedInv'
  OBVIOUS
<1> USE DEF FlagInv, FeedInv, camera
<1>1. CASE ViewerJoins
  BY <1>1 DEF ViewerJoins, Alive
<1>2. ASSUME NEW t \in Threads, StartSucceeds(t) PROVE FeedInv'
  <2>1. t \in Alive'
    BY <1>2 DEF StartSucceeds, Alive
  <2>2. QED
    BY <1>2, <2>1 DEF StartSucceeds
<1>3. CASE StartFails
  BY <1>3 DEF StartFails
<1>4. CASE ViewerLeaves
  <2>1. viewers' > 0 => viewers > 1
    BY <1>4 DEF ViewerLeaves
  <2>2. Alive' = Alive /\ UNCHANGED <<feeder, lost, starting>>
    BY <1>4 DEF ViewerLeaves, Alive
  <2>3. viewers > 1 => viewers > 0 /\ (zmqConsuming => zmqConsuming')
    BY <1>4 DEF ViewerLeaves
  <2>4. QED
    BY <2>1, <2>2, <2>3
<1>5. CASE StopCamera
  BY <1>5 DEF StopCamera
<1>6. ASSUME NEW t \in Threads, Step(t) \/ GiveUp(t) PROVE FeedInv'
  BY <1>6, FeedStep
<1>7. CASE UNCHANGED vars
  BY <1>7 DEF vars, Alive
<1>8. QED
  BY <1>1, <1>2, <1>3, <1>4, <1>5, <1>6, <1>7 DEF Next, Start

\* However starts, leaves, leftover threads and the flag's changes interleave,
\* viewers are fed by some thread unless its start failed or the last one gave
\* up.
THEOREM FeedKept == Spec => []FeedLostOnlyByFailure
<1>1. Init => FeedInv
  BY DEF Init, FeedInv
<1>2. FeedInv => FeedLostOnlyByFailure
  BY DEF FeedInv, FeedLostOnlyByFailure
<1>3. QED
  BY <1>1, <1>2, FlagInit, FlagNext, FeedNext, PTL DEF Spec

-----------------------------------------------------------------------------
(* Types.                                                                  *)

\* The number of viewers stays within the cap through a start that ends late,
\* because nobody joins while it is under way; every other variable keeps its
\* type.
TypeInv == TypeOK /\ FlagInv

LEMMA CapIsNat == MaxViewers \in Nat /\ 1 <= MaxViewers
BY ViewersBound

LEMMA TypeInit == Init => TypeInv
<1> SUFFICES ASSUME Init PROVE TypeInv
  OBVIOUS
<1>1. viewers \in 0..MaxViewers
  BY CapIsNat DEF Init
<1>2. feeder \in [Threads -> {"unborn", "check", "receive", "push", "exited"}]
  BY DEF Init
<1>3. late \in [Threads -> 0..2]
  BY DEF Init
<1>4. QED
  BY <1>1, <1>2, <1>3, FlagInit DEF Init, TypeInv, TypeOK

LEMMA ViewersNext == TypeInv /\ [Next]_vars => viewers' \in 0..MaxViewers
<1> SUFFICES ASSUME TypeInv, [Next]_vars PROVE viewers' \in 0..MaxViewers
  OBVIOUS
<1>1. viewers \in Nat /\ viewers <= MaxViewers /\ (starting => viewers = 0)
  BY CapIsNat DEF TypeInv, TypeOK, FlagInv
<1>2. CASE ViewerJoins
  <2>1. viewers < MaxViewers /\ (viewers' = viewers \/ viewers' = viewers + 1)
    BY <1>2 DEF ViewerJoins
  <2>2. QED
    BY <1>1, <2>1, CapIsNat
<1>3. CASE Start
  <2>1. viewers = 0 /\ viewers' = viewers + 1
    BY <1>1, <1>3 DEF Start, StartFails, StartSucceeds
  <2>2. QED
    BY <2>1, CapIsNat
<1>4. CASE ViewerLeaves
  <2>1. viewers > 0 /\ viewers' = viewers - 1
    BY <1>4 DEF ViewerLeaves
  <2>2. QED
    BY <1>1, <2>1, CapIsNat
<1>5. CASE StopCamera
  <2>1. viewers' = 0
    BY <1>5 DEF StopCamera
  <2>2. QED
    BY <2>1, CapIsNat
<1>6. ASSUME NEW t \in Threads, Step(t) \/ GiveUp(t) PROVE viewers' \in 0..MaxViewers
  <2>1. viewers' = viewers
    BY <1>6 DEF Step, Check, Receive, Push, GiveUp, camera
  <2>2. QED
    BY <1>1, <2>1, CapIsNat
<1>7. CASE UNCHANGED vars
  BY <1>1, <1>7, CapIsNat DEF vars, camera
<1>8. QED
  BY <1>2, <1>3, <1>4, <1>5, <1>6, <1>7 DEF Next

LEMMA TypeNext == TypeInv /\ [Next]_vars => TypeOK'
<1> SUFFICES ASSUME TypeInv, [Next]_vars PROVE TypeOK'
  OBVIOUS
<1>0. viewers' \in 0..MaxViewers
  BY ViewersNext
<1> DEFINE Others == /\ running \in BOOLEAN
                     /\ zmqConsuming \in BOOLEAN
                     /\ starting \in BOOLEAN
                     /\ feeder \in [Threads ->
                           {"unborn", "check", "receive", "push", "exited"}]
                     /\ late \in [Threads -> 0..2]
                     /\ lost \in BOOLEAN
<1>1. Others
  BY DEF TypeInv, TypeOK
<1>2. CASE ViewerJoins
  <2>1. zmqConsuming' \in BOOLEAN /\ starting' \in BOOLEAN
    BY <1>1, <1>2 DEF ViewerJoins
  <2>2. late' \in [Threads -> 0..2]
    <3>1. late' = late \/ late' = [t \in Threads |-> 0]
      BY <1>2 DEF ViewerJoins
    <3>2. QED
      BY <1>1, <3>1
  <2>3. QED
    BY <1>1, <1>2, <1>0, <2>1, <2>2 DEF ViewerJoins, TypeOK
<1>3. ASSUME NEW t \in Threads, StartSucceeds(t) PROVE TypeOK'
  BY <1>1, <1>3, <1>0 DEF StartSucceeds, TypeOK
<1>4. CASE StartFails
  BY <1>1, <1>4, <1>0 DEF StartFails, TypeOK
<1>5. CASE ViewerLeaves
  <2>1. zmqConsuming' \in BOOLEAN
    <3> HIDE DEF Others
    <3>1. zmqConsuming' = (zmqConsuming /\ viewers > 1)
      BY <1>5 DEF ViewerLeaves
    <3>2. QED
      BY <3>1, Zenon
  <2>2. QED
    BY <1>1, <1>5, <1>0, <2>1 DEF ViewerLeaves, TypeOK
<1>6. CASE StopCamera
  BY <1>1, <1>6, <1>0 DEF StopCamera, TypeOK
<1>7. ASSUME NEW t \in Threads, Step(t) \/ GiveUp(t) PROVE TypeOK'
  <2>1. feeder' \in [Threads -> {"unborn", "check", "receive", "push", "exited"}]
    BY <1>1, <1>7 DEF Step, Check, Receive, Push, GiveUp
  <2>2. late' \in [Threads -> 0..2]
    BY <1>1, <1>7 DEF Step, Check, Receive, Push, GiveUp
  <2>3. running' = running /\ zmqConsuming' = zmqConsuming /\ starting' = starting
    BY <1>7 DEF Step, Check, Receive, Push, GiveUp, camera
  <2>4. lost' \in BOOLEAN
    <3> DEFINE Last == zmqConsuming /\ Alive = {t}
    <3>1. lost' = lost \/ lost' = (lost \/ Last)
      BY <1>7 DEF Step, Check, Receive, Push, GiveUp
    <3>2. lost \in BOOLEAN
      BY <1>1
    <3> HIDE DEF Last
    <3>3. QED
      BY <3>1, <3>2, Zenon
  <2>5. QED
    BY <1>1, <1>0, <2>1, <2>2, <2>3, <2>4 DEF TypeOK
<1>8. CASE UNCHANGED vars
  BY <1>1, <1>8, <1>0 DEF vars, camera, TypeOK
<1>9. QED
  BY <1>2, <1>3, <1>4, <1>5, <1>6, <1>7, <1>8 DEF Next, Start

\* For any cap and any set of threads the viewers stay within the cap, and every
\* variable of the feeder keeps its type.
THEOREM FeederTypes == Spec => []TypeOK
<1>1. TypeInv /\ [Next]_vars => TypeInv'
  BY FlagNext, TypeNext DEF TypeInv
<1>2. TypeInv => TypeOK
  BY DEF TypeInv
<1>3. QED
  BY <1>1, <1>2, TypeInit, PTL DEF Spec

-----------------------------------------------------------------------------
(* Draining.                                                               *)

\* The weak fairness of a thread, with ENABLED written out: it can take a step as
\* long as it is alive.
ThreadRuns(t) == []<>(t \notin Alive) \/ []<><<Step(t)>>_vars

\* Where a step of anybody, and a step of its own, can take thread t of a camera
\* without viewers: the flag is off, so the head of the loop is its end.
LEMMA IdleThreadMoves ==
  ASSUME NEW t \in Threads, FlagInv, LateInv, [Next]_vars, viewers = 0 /\ ~starting
  PROVE  /\ feeder[t] = "receive" => feeder'[t] \in {"receive", "push", "check", "exited"}
         /\ feeder[t] = "push" => feeder'[t] \in {"push", "check"}
         /\ feeder[t] = "check" => feeder'[t] \in {"check", "exited"}
         /\ t \notin Alive => (t \notin Alive)'
         /\ Step(t) => /\ feeder[t] = "receive" => feeder'[t] \in {"push", "check"}
                       /\ feeder[t] = "push" => feeder'[t] = "check"
                       /\ feeder[t] = "check" => feeder'[t] = "exited"
<1> USE DEF LateInv, Alive
<1>1. ~zmqConsuming
  BY DEF FlagInv
<1>2. CASE ViewerJoins \/ StartFails \/ ViewerLeaves \/ StopCamera \/ UNCHANGED vars
  <2>1. UNCHANGED feeder /\ ~Step(t)
    BY <1>2 DEF ViewerJoins, StartFails, ViewerLeaves, StopCamera, vars, Step, Check,
                Receive, Push
  <2>2. QED
    BY <2>1
<1>3. ASSUME NEW u \in Threads, Step(u) \/ GiveUp(u)
      PROVE  /\ u # t => feeder'[t] = feeder[t]
             /\ feeder[u] = "receive" => feeder'[u] \in {"push", "check", "exited"}
             /\ feeder[u] = "push" => feeder'[u] = "check"
             /\ feeder[u] = "check" => feeder'[u] = "exited"
             /\ feeder[u] \in {"receive", "push", "check"}
             /\ Step(u) => (feeder[u] = "receive" => feeder'[u] # "exited")
             /\ Step(t) => u = t
  BY <1>1, <1>3 DEF Step, Check, Receive, Push, GiveUp
<1>4. ~\E u \in Threads : StartSucceeds(u)
  BY DEF StartSucceeds
<1>5. CASE \E u \in Threads : Step(u) \/ GiveUp(u)
  BY <1>3, <1>5
<1>6. QED
  BY <1>2, <1>4, <1>5 DEF Next, Start

\* Each thread of a camera that stays without viewers ends, however many there
\* are, from whichever start it is left over, and wherever it was when the last
\* viewer left.  (For a finite set of threads this is IdleCameraDrains.)
THEOREM EachFeederEnds ==
  ASSUME NEW t \in Threads
  PROVE  Init /\ [][Next]_vars /\ ThreadRuns(t)
           => (<>[](viewers = 0 /\ ~starting) => <>[](t \notin Alive))
<1> DEFINE Idle == viewers = 0 /\ ~starting
           Receiving == feeder[t] = "receive"
           Pushing == feeder[t] = "push"
           Checking == feeder[t] = "check"
           Gone == t \notin Alive
<1>1. FlagInv /\ LateInv /\ Idle /\ [Next]_vars =>
         /\ Receiving => Receiving' \/ Pushing' \/ Checking' \/ Gone'
         /\ Pushing => Pushing' \/ Checking'
         /\ Checking => Checking' \/ Gone'
         /\ Gone => Gone'
  BY IdleThreadMoves DEF Alive
<1>2. FlagInv /\ LateInv /\ Idle /\ [Next]_vars /\ <<Step(t)>>_vars =>
         /\ Receiving => Pushing' \/ Checking'
         /\ Pushing => Checking'
         /\ Checking => Gone'
  BY IdleThreadMoves DEF Alive
<1>3. Receiving \/ Pushing \/ Checking \/ Gone
  BY DEF Alive
<1>4. ~(Gone /\ Receiving) /\ ~(Gone /\ Pushing) /\ ~(Gone /\ Checking)
  BY DEF Alive
<1>5. Gone <=> t \notin Alive
  OBVIOUS
<1>6. Idle <=> viewers = 0 /\ ~starting
  OBVIOUS
<1> HIDE DEF Idle, Receiving, Pushing, Checking, Gone
<1> QED
  BY <1>1, <1>2, <1>3, <1>4, <1>5, <1>6, FlagInit, FlagNext, LateInit, LateNext, PTL
     DEF ThreadRuns

=============================================================================
