------------------------- MODULE Negotiation_proofs -------------------------
(***************************************************************************)
(* Proofs about Negotiation, for any number of sessions, offers and        *)
(* restarts: the state keeps its shape, once nothing is under way the      *)
(* viewer and the session in the map agree on the last offer, and an       *)
(* exchange and a granted restart come to their end if the threads run.    *)
(***************************************************************************)
EXTENDS Negotiation, FiniteSets, FiniteSetTheorems, SequenceTheorems, TLAPS

-----------------------------------------------------------------------------
(* The invariants.                                                         *)

\* Where a sequence of messages has a viewer_request, and where an answer.
Requests(q) == {i \in 1..Len(q) : q[i] = Request}
Answers(q) == {i \in 1..Len(q) : q[i] \in Offers}

\* Every request of the agent is still to be handled or has made its session.
EachRequestCounts == Cardinality(Requests(back)) + made = asked

\* A webrtcbin that was not made yet has done nothing.
LaterAreNew ==
    \A s \in Sessions : s > made => creating[s] = 0 /\ local[s] = 0 /\ ice[s] = "new"

\* What a webrtcbin was asked for is within the bound on its offers.
OffersBounded == \A s \in Sessions : creating[s] + local[s] <= MaxOffers

\* What makes TypeOK inductive.
ShapeInv ==
    /\ TypeOK
    /\ EachRequestCounts
    /\ LaterAreNew
    /\ OffersBounded
    /\ open => heard \in Offers

\* Where the last offer of session e is while no other exchange overlaps it:
\* in the channel of the session,
InChannel(e) ==
    /\ outbox[e] = <<<<e, local[e]>>>> /\ \A s \in Sessions \ {e} : outbox[s] = <<>>
    /\ wire = <<>> /\ owed = 0 /\ Answers(back) = {}
    /\ awaiting[e]

\* on its way to the agent,
OnTheWire(e) ==
    /\ \A s \in Sessions : outbox[s] = <<>>
    /\ wire = <<<<e, local[e]>>>> /\ owed = 0 /\ Answers(back) = {}
    /\ awaiting[e]

\* applied by the agent, which owes its answer,
WithTheAgent(e) ==
    /\ \A s \in Sessions : outbox[s] = <<>>
    /\ wire = <<>> /\ owed = 1 /\ open /\ heard = <<e, local[e]>> /\ Answers(back) = {}
    /\ awaiting[e]

\* answered, and the only answer on its way back,
Answered(e) ==
    /\ \A s \in Sessions : outbox[s] = <<>>
    /\ wire = <<>> /\ owed = 0 /\ heard = <<e, local[e]>>
    /\ \E k \in Answers(back) : Answers(back) = {k} /\ back[k] = <<e, local[e]>>
    /\ awaiting[e]

\* or held by both ends.
Settled(e) ==
    /\ ~ExchangeOpen
    /\ heard = <<e, local[e]>>
    /\ Agreed(e)

AtOnePlace(e) ==
    InChannel(e) \/ OnTheWire(e) \/ WithTheAgent(e) \/ Answered(e) \/ Settled(e)

\* The session in the map has an offer asked for or made; its last one is at
\* one of these places, unless something has come between.
ExchangeInv ==
    (entry # 0 /\ ~disturbed) =>
        /\ creating[entry] > 0 \/ local[entry] > 0
        /\ local[entry] > 0 => AtOnePlace(entry)

-----------------------------------------------------------------------------
(* The bounds, and the messages of the relay.                              *)

Messages == Offers \cup {Request, Disconnect}

LEMMA BoundsAreNat ==
    /\ MaxSessions \in Nat /\ MaxSessions >= 1
    /\ MaxOffers \in Nat /\ MaxOffers >= 1
    /\ MaxAttempts \in Nat /\ Cooldown \in Nat
    BY SessionsAssumption, RecoveryAssumption

\* The three kinds of message exclude each other.
LEMMA KindsDiffer == Request \notin Offers /\ Disconnect \notin Offers /\ Request # Disconnect
    BY KindsAssumption

LEMMA RequestsFinite ==
    ASSUME NEW q \in Seq(Messages)
    PROVE  IsFiniteSet(Requests(q)) /\ Cardinality(Requests(q)) \in Nat
<1>1. Len(q) \in Nat /\ Requests(q) \subseteq 1..Len(q)
    BY LenProperties DEF Requests
<1>2. IsFiniteSet(1..Len(q))
    BY <1>1, FS_Interval
<1> QED
    BY <1>1, <1>2, FS_Subset, FS_CardinalityType

\* A message at the end of the queue counts if it is a request.
LEMMA RequestsAppend ==
    ASSUME NEW q \in Seq(Messages), NEW x \in Messages
    PROVE  /\ x = Request => Cardinality(Requests(Append(q, x))) = Cardinality(Requests(q)) + 1
           /\ x # Request => Requests(Append(q, x)) = Requests(q)
<1>1. /\ Len(q) \in Nat /\ Len(Append(q, x)) = Len(q) + 1
      /\ \A i \in 1..Len(q) : Append(q, x)[i] = q[i]
      /\ Append(q, x)[Len(q) + 1] = x
    BY AppendProperties, LenProperties
<1>2. x = Request => Requests(Append(q, x)) = Requests(q) \cup {Len(q) + 1}
    BY <1>1 DEF Requests
<1>3. x # Request => Requests(Append(q, x)) = Requests(q)
    BY <1>1 DEF Requests
<1>4. Len(q) + 1 \notin Requests(q)
    BY <1>1 DEF Requests
<1> QED
    BY <1>2, <1>3, <1>4, RequestsFinite, FS_AddElement

\* So does the message at its front.
LEMMA RequestsTail ==
    ASSUME NEW q \in Seq(Messages), q # <<>>
    PROVE  /\ Head(q) = Request => Cardinality(Requests(q)) = Cardinality(Requests(Tail(q))) + 1
           /\ Head(q) # Request => Cardinality(Requests(q)) = Cardinality(Requests(Tail(q)))
<1> DEFINE later == {i \in Requests(q) : i # 1}
           shift == [i \in Requests(Tail(q)) |-> i + 1]
<1>1. /\ Len(q) \in Nat /\ Len(q) >= 1 /\ Len(Tail(q)) = Len(q) - 1
      /\ Tail(q) \in Seq(Messages)
      /\ \A i \in 1..Len(Tail(q)) : Tail(q)[i] = q[i + 1]
      /\ Head(q) = q[1]
    BY HeadTailProperties, LenProperties, EmptySeq
<1>2. Cardinality(later) = Cardinality(Requests(Tail(q)))
    <2>1. shift \in [Requests(Tail(q)) -> later]
        BY <1>1 DEF Requests
    <2>2. \A i, j \in Requests(Tail(q)) : shift[i] = shift[j] => i = j
        BY <1>1 DEF Requests
    <2>3. \A k \in later : k - 1 \in Requests(Tail(q)) /\ shift[k - 1] = k
        BY <1>1 DEF Requests
    <2>4. shift \in Bijection(Requests(Tail(q)), later)
        BY <2>1, <2>2, <2>3, Zenon DEF Bijection, Injection, Surjection, IsInjective
    <2> QED
        BY <1>1, <2>4, RequestsFinite, FS_Bijection DEF ExistsBijection
<1>3. IsFiniteSet(later)
    BY RequestsFinite, FS_Subset
<1>4. CASE Head(q) = Request
    <2>1. Requests(q) = later \cup {1} /\ 1 \notin later
        BY <1>1, <1>4 DEF Requests
    <2> QED
        BY <1>2, <1>3, <1>4, <2>1, FS_AddElement
<1>5. CASE Head(q) # Request
    <2>1. Requests(q) = later
        BY <1>1, <1>5 DEF Requests
    <2> QED
        BY <1>2, <1>5, <2>1
<1> QED
    BY <1>4, <1>5

\* What a reconnect of the agent appends, one message at a time.
LEMMA ReconnectAppends ==
    ASSUME NEW q \in Seq(Messages)
    PROVE  /\ q \o <<Request>> = Append(q, Request)
           /\ q \o <<Disconnect, Request>> = Append(Append(q, Disconnect), Request)
    OBVIOUS

-----------------------------------------------------------------------------
(* Shape.                                                                  *)

LEMMA ShapeInit == Init => ShapeInv
<1> SUFFICES ASSUME Init PROVE ShapeInv
    OBVIOUS
<1>1. TypeOK
    <2>1. back \in Seq(Offers \cup {Request, Disconnect})
        BY DEF Init
    <2>2. /\ made \in 0..asked /\ asked \in 1..MaxSessions /\ entry \in 0..made
          /\ attempts \in 0..MaxAttempts /\ since \in 0..Cooldown
        BY BoundsAreNat DEF Init
    <2>3. 0 \in 0..MaxOffers
        BY BoundsAreNat
    <2>4. /\ creating \in [Sessions -> 0..MaxOffers] /\ local \in [Sessions -> 0..MaxOffers]
          /\ awaiting \in [Sessions -> BOOLEAN] /\ remote \in [Sessions -> Offers \cup {None}]
          /\ ice \in [Sessions -> {"new", "checking", "up", "lost", "left", "failed", "closed"}]
        BY <2>3 DEF Init
    <2>5. outbox \in [Sessions -> Seq(Offers)] /\ wire \in Seq(Offers)
        BY EmptySeq DEF Init
    <2>6. /\ stored \in BOOLEAN /\ open \in BOOLEAN /\ disturbed \in BOOLEAN
          /\ heard \in Offers \cup {None} /\ owed \in Nat
        BY DEF Init
    <2> QED
        BY <2>1, <2>2, <2>4, <2>5, <2>6 DEF TypeOK
<1>2. EachRequestCounts
    <2>1. Requests(back) = {1}
        BY DEF Init, Requests
    <2>2. Cardinality({1}) = 1
        BY FS_Singleton
    <2> QED
        BY <2>1, <2>2 DEF Init, EachRequestCounts
<1>3. LaterAreNew
    BY DEF Init, LaterAreNew
<1>4. OffersBounded
    BY BoundsAreNat DEF Init, OffersBounded
<1> QED
    BY <1>1, <1>2, <1>3, <1>4 DEF Init, ShapeInv

\* What the relay has for the gateway, and the bound on its sessions.
LEMMA QueueShape ==
    ASSUME ShapeInv
    PROVE  /\ back \in Seq(Messages)
           /\ Cardinality(Requests(back)) \in Nat
           /\ made \in Nat /\ asked \in Nat /\ asked <= MaxSessions
           /\ entry \in Nat /\ entry <= made
           /\ entry # 0 => entry \in Sessions
<1>1. back \in Seq(Messages)
    BY DEF ShapeInv, TypeOK, Messages
<1>2. made \in Nat /\ asked \in Nat /\ asked <= MaxSessions /\ made <= asked
    BY BoundsAreNat DEF ShapeInv, TypeOK
<1>3. entry \in Nat /\ entry <= made
    BY <1>2 DEF ShapeInv, TypeOK
<1> QED
    BY <1>1, <1>2, <1>3, BoundsAreNat, RequestsFinite DEF Sessions

\* What a webrtcbin was asked for and has made are numbers.
LEMMA BinShape ==
    ASSUME ShapeInv, NEW s \in Sessions
    PROVE  creating[s] \in Nat /\ local[s] \in Nat /\ creating[s] + local[s] <= MaxOffers
<1>1. creating[s] \in 0..MaxOffers /\ local[s] \in 0..MaxOffers
    BY DEF ShapeInv, TypeOK
<1> QED
    BY <1>1, BoundsAreNat DEF ShapeInv, OffersBounded

\* A request that is taken from the relay leaves room for its session.
LEMMA RequestTaken ==
    ASSUME ShapeInv, HandleRequest
    PROVE  ShapeInv'
<1> USE DEF HandleRequest
<1>1. /\ Cardinality(Requests(back)) = Cardinality(Requests(Tail(back))) + 1
      /\ Tail(back) \in Seq(Messages)
      /\ Cardinality(Requests(Tail(back))) \in Nat
    BY QueueShape, RequestsTail, RequestsFinite, HeadTailProperties
<1>2. EachRequestCounts'
    BY <1>1, QueueShape DEF ShapeInv, EachRequestCounts, agent
<1>3. made + 1 \in Sessions /\ made + 1 <= asked
    BY <1>1, QueueShape, BoundsAreNat DEF ShapeInv, EachRequestCounts, Sessions
<1>4. LaterAreNew'
    BY <1>3, QueueShape DEF ShapeInv, LaterAreNew, TypeOK, Sessions
<1>5. OffersBounded'
    <2>1. local[made + 1] = 0
        BY <1>3, QueueShape DEF ShapeInv, LaterAreNew
    <2>2. \A s \in Sessions : creating'[s] = IF s = made + 1 THEN 1 ELSE creating[s]
        BY DEF ShapeInv, TypeOK
    <2> QED
        BY <2>1, <2>2, BinShape, BoundsAreNat DEF OffersBounded
<1>6. TypeOK'
    <2>1. made' \in 0..asked' /\ entry' \in 0..made'
        BY <1>3, QueueShape DEF agent
    <2>2. attempts' \in 0..MaxAttempts /\ since' \in 0..Cooldown
        BY BoundsAreNat
    <2>3. 1 \in 0..MaxOffers
        BY BoundsAreNat
    <2>4. creating' \in [Sessions -> 0..MaxOffers]
        BY <2>3 DEF ShapeInv, TypeOK
    <2> QED
        BY <1>1, <2>1, <2>2, <2>4 DEF ShapeInv, TypeOK, Messages, agent
<1> QED
    BY <1>2, <1>4, <1>5, <1>6 DEF ShapeInv, agent

LEMMA DisconnectTaken ==
    ASSUME ShapeInv, HandleDisconnect
    PROVE  ShapeInv'
<1> USE DEF HandleDisconnect
<1>1. /\ Cardinality(Requests(back)) = Cardinality(Requests(Tail(back)))
      /\ Tail(back) \in Seq(Messages)
    BY QueueShape, KindsDiffer, RequestsTail, HeadTailProperties
<1>2. EachRequestCounts'
    BY <1>1, QueueShape DEF ShapeInv, EachRequestCounts, agent
<1>3. LaterAreNew'
    BY QueueShape DEF ShapeInv, LaterAreNew, TypeOK, Sessions
<1>4. OffersBounded'
    <2>1. \A s \in Sessions : creating'[s] = IF s = entry THEN 0 ELSE creating[s]
        OBVIOUS
    <2> QED
        BY <2>1, BinShape, BoundsAreNat DEF OffersBounded
<1>5. TypeOK'
    <2>1. entry' \in 0..made'
        BY QueueShape
    <2>2. 0 \in 0..MaxOffers
        BY BoundsAreNat
    <2>3. creating' \in [Sessions -> 0..MaxOffers]
        BY <2>2 DEF ShapeInv, TypeOK
    <2> QED
        BY <1>1, <2>1, <2>3 DEF ShapeInv, TypeOK, Messages, agent, budget
<1> QED
    BY <1>2, <1>3, <1>4, <1>5 DEF ShapeInv, agent

LEMMA AnswerTaken ==
    ASSUME ShapeInv, HandleAnswer
    PROVE  ShapeInv'
<1> USE DEF HandleAnswer
<1>1. /\ Cardinality(Requests(back)) = Cardinality(Requests(Tail(back)))
      /\ Tail(back) \in Seq(Messages)
    BY QueueShape, KindsDiffer, RequestsTail, HeadTailProperties
<1>2. EachRequestCounts'
    BY <1>1, QueueShape DEF ShapeInv, EachRequestCounts, agent
<1>3. LaterAreNew'
    <2>1. ASSUME NEW s \in Sessions, s > made PROVE ice'[s] = ice[s]
        <3>1. s # entry
            BY <2>1, QueueShape
        <3>2. DOMAIN ice = Sessions
            BY DEF ShapeInv, TypeOK
        <3>3. CASE entry # 0 /\ awaiting[entry]
            BY <3>1, <3>2, <3>3
        <3> QED
            BY <3>3
    <2> QED
        BY <2>1 DEF ShapeInv, LaterAreNew
<1>4. OffersBounded'
    BY DEF ShapeInv, OffersBounded
<1>5. TypeOK'
    BY <1>1 DEF ShapeInv, TypeOK, Messages, agent, budget
<1> QED
    BY <1>2, <1>3, <1>4, <1>5 DEF ShapeInv, agent

\* The offer that a webrtcbin makes is one of its own, within the bound.
LEMMA OfferMade ==
    ASSUME ShapeInv, NEW s \in Sessions, OfferReady(s)
    PROVE  ShapeInv'
<1> USE DEF OfferReady
<1>1. /\ creating[s] \in Nat /\ local[s] \in Nat /\ creating[s] > 0
      /\ creating[s] - 1 \in 0..MaxOffers
      /\ local[s] + 1 \in 1..MaxOffers
    BY BinShape, BoundsAreNat
<1>2. <<s, local[s] + 1>> \in Offers
    BY <1>1 DEF Offers
<1>3. /\ creating' \in [Sessions -> 0..MaxOffers]
      /\ local' \in [Sessions -> 0..MaxOffers]
      /\ awaiting' \in [Sessions -> BOOLEAN]
    BY <1>1, BoundsAreNat DEF ShapeInv, TypeOK
<1>4. outbox' \in [Sessions -> Seq(Offers)]
    <2>1. \A e \in Sessions : Append(outbox[e], <<s, local[s] + 1>>) \in Seq(Offers)
        BY <1>2 DEF ShapeInv, TypeOK
    <2>2. CASE entry # 0
        <3>1. /\ outbox \in [Sessions -> Seq(Offers)] /\ entry \in Sessions
              /\ outbox' = [outbox EXCEPT ![entry] = Append(@, <<s, local[s] + 1>>)]
            BY <2>2, QueueShape DEF ShapeInv, TypeOK
        <3> QED
            BY <2>1, <3>1, Zenon
    <2>3. CASE entry = 0
        BY <2>3 DEF ShapeInv, TypeOK
    <2> QED
        BY <2>2, <2>3
<1>5. disturbed' \in BOOLEAN
    <2>1. (s # entry \/ ExchangeOpen) \in BOOLEAN
        BY Zenon
    <2>2. disturbed \in BOOLEAN
        BY DEF ShapeInv, TypeOK
    <2>3. CASE entry # 0
        BY <2>1, <2>3, Zenon
    <2>4. CASE entry = 0
        BY <2>2, <2>4
    <2> QED
        BY <2>3, <2>4
<1>6. TypeOK'
    BY <1>3, <1>4, <1>5 DEF ShapeInv, TypeOK, budget, agent
<1>7. /\ \A t \in Sessions : creating'[t] = IF t = s THEN creating[s] - 1 ELSE creating[t]
      /\ \A t \in Sessions : local'[t] = IF t = s THEN local[s] + 1 ELSE local[t]
    BY DEF ShapeInv, TypeOK
<1>8. LaterAreNew'
    BY <1>1, <1>7 DEF ShapeInv, LaterAreNew
<1>9. OffersBounded'
    BY <1>7, BinShape, BoundsAreNat DEF OffersBounded
<1>10. EachRequestCounts'
    BY DEF ShapeInv, EachRequestCounts, agent
<1> QED
    BY <1>6, <1>8, <1>9, <1>10 DEF ShapeInv, agent

LEMMA OfferFailed ==
    ASSUME ShapeInv, NEW s \in Sessions, OfferFails(s)
    PROVE  ShapeInv'
<1> USE DEF OfferFails
<1>1. /\ creating[s] \in Nat /\ creating[s] > 0
      /\ creating[s] - 1 \in 0..MaxOffers
    BY BinShape, BoundsAreNat
<1>2. TypeOK'
    BY <1>1 DEF ShapeInv, TypeOK, budget, transit, agent
<1>3. \A t \in Sessions : creating'[t] = IF t = s THEN creating[s] - 1 ELSE creating[t]
    BY DEF ShapeInv, TypeOK
<1>4. LaterAreNew'
    BY <1>1, <1>3 DEF ShapeInv, LaterAreNew
<1>5. OffersBounded'
    BY <1>3, BinShape, BoundsAreNat DEF OffersBounded
<1> QED
    BY <1>2, <1>4, <1>5 DEF ShapeInv, EachRequestCounts, transit, agent

\* A restart that is granted asks for an offer within the bound.
LEMMA LossSeen ==
    ASSUME ShapeInv, NEW s \in Sessions, IceLost(s)
    PROVE  ShapeInv'
<1> USE DEF IceLost
<1>1. /\ creating[s] \in Nat /\ local[s] \in Nat /\ local[s] + creating[s] < MaxOffers
      /\ creating[s] + 1 \in 0..MaxOffers
    BY BinShape, BoundsAreNat
<1>2. s <= made
    BY QueueShape, BoundsAreNat DEF ShapeInv, LaterAreNew, Sessions
<1>3. creating' \in [Sessions -> 0..MaxOffers]
    BY <1>1 DEF ShapeInv, TypeOK
<1>4. attempts' \in 0..MaxAttempts /\ since' \in 0..Cooldown
    BY BoundsAreNat DEF MayRestart, ShapeInv, TypeOK, budget
<1>5. ice' \in [Sessions -> {"new", "checking", "up", "lost", "left", "failed", "closed"}]
    BY DEF ShapeInv, TypeOK
<1>6. TypeOK'
    BY <1>3, <1>4, <1>5 DEF ShapeInv, TypeOK, transit, agent
<1>7. /\ \A t \in Sessions \ {s} : creating'[t] = creating[t] /\ ice'[t] = ice[t]
      /\ creating'[s] \in Nat /\ creating'[s] <= creating[s] + 1
    BY <1>1 DEF ShapeInv, TypeOK
<1>8. LaterAreNew'
    BY <1>2, <1>7, QueueShape, BoundsAreNat DEF ShapeInv, LaterAreNew, Sessions
<1>9. OffersBounded'
    BY <1>1, <1>7, BinShape, BoundsAreNat DEF OffersBounded
<1> QED
    BY <1>6, <1>8, <1>9 DEF ShapeInv, EachRequestCounts, transit, agent

\* The other reports of ICE touch the session they are about and the budget.
LEMMA IceReported ==
    ASSUME ShapeInv, NEW s \in Sessions, IceConnects(s) \/ IceReturns(s) \/ IceFails(s)
    PROVE  ShapeInv'
<1> USE DEF IceConnects, IceReturns, IceFails
<1>1. ice[s] # "new"
    OBVIOUS
<1>2. LaterAreNew'
    BY <1>1 DEF ShapeInv, LaterAreNew, TypeOK
<1>3. attempts' \in 0..MaxAttempts /\ since' = since
    BY BoundsAreNat DEF ShapeInv, TypeOK, budget
<1>4. TypeOK'
    BY <1>3 DEF ShapeInv, TypeOK, transit, agent
<1>5. OffersBounded'
    BY DEF ShapeInv, OffersBounded
<1> QED
    BY <1>2, <1>4, <1>5 DEF ShapeInv, EachRequestCounts, transit, agent

LEMMA ClockTicks ==
    ASSUME ShapeInv, Tick
    PROVE  ShapeInv'
<1> USE DEF Tick, bins, transit, agent
<1>1. since' \in 0..Cooldown
    BY BoundsAreNat DEF ShapeInv, TypeOK
<1>2. TypeOK'
    BY <1>1 DEF ShapeInv, TypeOK
<1> QED
    BY <1>2 DEF ShapeInv, EachRequestCounts, LaterAreNew, OffersBounded

LEMMA OfferForwarded ==
    ASSUME ShapeInv, NEW s \in Sessions, NEW delivered \in BOOLEAN, Forward(s, delivered)
    PROVE  ShapeInv'
<1> USE DEF Forward, budget, bins, agent
<1>1. outbox[s] \in Seq(Offers) /\ outbox[s] # <<>>
    BY DEF ShapeInv, TypeOK
<1>2. Head(outbox[s]) \in Offers /\ Tail(outbox[s]) \in Seq(Offers)
    BY <1>1, HeadTailProperties
<1>3. outbox' \in [Sessions -> Seq(Offers)]
    BY <1>2 DEF ShapeInv, TypeOK
<1>4. wire' \in Seq(Offers)
    BY <1>2 DEF ShapeInv, TypeOK
<1>5. disturbed' \in BOOLEAN
    <2>1. (disturbed \/ ~delivered) \in BOOLEAN
        BY Zenon
    <2> QED
        BY <2>1
<1>6. TypeOK'
    BY <1>3, <1>4, <1>5 DEF ShapeInv, TypeOK
<1> QED
    BY <1>6 DEF ShapeInv, EachRequestCounts, LaterAreNew, OffersBounded

\* A reconnect asks once more, and there is a session left for it.
LEMMA AgentReturned ==
    ASSUME ShapeInv, NEW told \in BOOLEAN, AgentReconnects(told)
    PROVE  ShapeInv'
<1> USE DEF AgentReconnects, budget, bins
<1>1. /\ back \in Seq(Messages) /\ Append(back, Disconnect) \in Seq(Messages)
      /\ Request \in Messages /\ Disconnect \in Messages
    BY QueueShape DEF Messages
<1>2. /\ back' \in Seq(Messages)
      /\ Cardinality(Requests(back')) = Cardinality(Requests(back)) + 1
    <2>1. CASE told
        <3>1. back' = Append(Append(back, Disconnect), Request)
            BY <1>1, <2>1, ReconnectAppends
        <3>2. Requests(Append(back, Disconnect)) = Requests(back)
            BY <1>1, KindsDiffer, RequestsAppend
        <3>3. Cardinality(Requests(back')) = Cardinality(Requests(Append(back, Disconnect))) + 1
            BY <1>1, <3>1, RequestsAppend
        <3> QED
            BY <1>1, <3>1, <3>2, <3>3, AppendProperties
    <2>2. CASE ~told
        <3>1. back' = Append(back, Request)
            BY <1>1, <2>2, ReconnectAppends
        <3>2. Cardinality(Requests(back')) = Cardinality(Requests(back)) + 1
            BY <1>1, <3>1, RequestsAppend
        <3> QED
            BY <1>1, <3>1, <3>2
    <2> QED
        BY <2>1, <2>2
<1>3. EachRequestCounts'
    BY <1>2, QueueShape DEF ShapeInv, EachRequestCounts
<1>4. asked' \in 1..MaxSessions /\ made' \in 0..asked'
    BY QueueShape, BoundsAreNat DEF ShapeInv, TypeOK
<1>5. disturbed' \in BOOLEAN
    <2>1. (disturbed \/ wire # <<>>) \in BOOLEAN
        BY Zenon
    <2> QED
        BY <2>1
<1>6. wire' \in Seq(Offers)
    BY EmptySeq
<1>7. TypeOK'
    BY <1>2, <1>4, <1>5, <1>6 DEF ShapeInv, TypeOK, Messages
<1> QED
    BY <1>3, <1>7 DEF ShapeInv, LaterAreNew, OffersBounded

LEMMA OfferHeard ==
    ASSUME ShapeInv, AgentHears
    PROVE  ShapeInv'
<1> USE DEF AgentHears, budget, bins
<1>1. Head(wire) \in Offers /\ Tail(wire) \in Seq(Offers)
    BY HeadTailProperties DEF ShapeInv, TypeOK
<1>2. TypeOK'
    BY <1>1 DEF ShapeInv, TypeOK
<1> QED
    BY <1>1, <1>2 DEF ShapeInv, EachRequestCounts, LaterAreNew, OffersBounded

LEMMA AnswerSent ==
    ASSUME ShapeInv, AgentAnswers
    PROVE  ShapeInv'
<1> USE DEF AgentAnswers, budget, bins
<1>1. heard \in Offers /\ heard # Request
    BY KindsDiffer DEF ShapeInv
<1>2. back' \in Seq(Messages) /\ Requests(back') = Requests(back)
    BY <1>1, QueueShape, RequestsAppend DEF Messages
<1>3. owed' \in Nat
    BY DEF ShapeInv, TypeOK
<1>4. TypeOK'
    BY <1>2, <1>3 DEF ShapeInv, TypeOK, Messages
<1> QED
    BY <1>2, <1>4 DEF ShapeInv, EachRequestCounts, LaterAreNew, OffersBounded

LEMMA ShapeStep == ShapeInv /\ [Next]_vars => ShapeInv'
<1> SUFFICES ASSUME ShapeInv, [Next]_vars PROVE ShapeInv'
    OBVIOUS
<1>1. CASE Callback
    BY <1>1, RequestTaken, DisconnectTaken, AnswerTaken DEF Callback
<1>2. ASSUME NEW s \in Sessions,
             \/ OfferReady(s) \/ OfferFails(s)
             \/ IceConnects(s) \/ IceReturns(s) \/ IceLost(s) \/ IceFails(s)
      PROVE  ShapeInv'
    BY <1>2, OfferMade, OfferFailed, LossSeen, IceReported
<1>3. CASE Tick
    BY <1>3, ClockTicks
<1>4. ASSUME NEW s \in Sessions, NEW delivered \in BOOLEAN, Forward(s, delivered)
      PROVE  ShapeInv'
    BY <1>4, OfferForwarded
<1>5. CASE AgentStoresClient
    BY <1>5 DEF AgentStoresClient, ShapeInv, TypeOK, EachRequestCounts, LaterAreNew,
                OffersBounded, budget, bins, transit
<1>6. ASSUME NEW told \in BOOLEAN, AgentReconnects(told) PROVE ShapeInv'
    BY <1>6, AgentReturned
<1>7. CASE AgentHears \/ AgentAnswers
    BY <1>7, OfferHeard, AnswerSent
<1>8. CASE AnswerLost \/ NothingToAnswer
    <2>1. owed' \in Nat
        BY <1>8 DEF AnswerLost, NothingToAnswer, ShapeInv, TypeOK
    <2>2. TypeOK'
        BY <1>8, <2>1 DEF AnswerLost, NothingToAnswer, ShapeInv, TypeOK, budget, bins, transit
    <2> QED
        BY <1>8, <2>2 DEF AnswerLost, NothingToAnswer, ShapeInv, EachRequestCounts,
                          LaterAreNew, OffersBounded, budget, bins, transit
<1>9. CASE UNCHANGED vars
    BY <1>9 DEF vars, ShapeInv, TypeOK, EachRequestCounts, LaterAreNew, OffersBounded,
                budget, bins, transit, agent
<1> QED
    BY <1>1, <1>2, <1>3, <1>4, <1>5, <1>6, <1>7, <1>8, <1>9 DEF Next, Agent

\* The state keeps its shape for any number of requests, offers and restarts:
\* every request finds room for its session, no webrtcbin makes more offers than
\* it was asked for, and the restarts of an entry stay within its budget.
THEOREM NegotiationTypes == Spec => []TypeOK
<1>1. ShapeInv => TypeOK
    BY DEF ShapeInv
<1> QED
    BY <1>1, ShapeInit, ShapeStep, PTL DEF Spec

-----------------------------------------------------------------------------
(* Agreement.                                                              *)

\* An exchange is open while an offer or an answer is somewhere.
LEMMA NothingOpen ==
    ~ExchangeOpen <=> /\ \A s \in Sessions : outbox[s] = <<>>
                      /\ wire = <<>> /\ ~(owed > 0) /\ Answers(back) = {}
    BY DEF ExchangeOpen, Answers

LEMMA AnswersAppend ==
    ASSUME NEW q \in Seq(Messages), NEW x \in Messages
    PROVE  /\ \A k \in Answers(q) : Append(q, x)[k] = q[k]
           /\ x \notin Offers => Answers(Append(q, x)) = Answers(q)
           /\ x \in Offers => /\ Answers(Append(q, x)) = Answers(q) \cup {Len(q) + 1}
                              /\ Append(q, x)[Len(q) + 1] = x
<1>1. /\ Len(q) \in Nat /\ Len(Append(q, x)) = Len(q) + 1
      /\ \A i \in 1..Len(q) : Append(q, x)[i] = q[i]
      /\ Append(q, x)[Len(q) + 1] = x
    BY AppendProperties, LenProperties
<1> QED
    BY <1>1 DEF Answers

\* The only answer of the queue, when it is at the front.
LEMMA AnswersTail ==
    ASSUME NEW q \in Seq(Messages), q # <<>>, Head(q) \in Offers,
           NEW k \in Answers(q), Answers(q) = {k}
    PROVE  q[k] = Head(q) /\ Answers(Tail(q)) = {}
<1>1. /\ Len(q) \in Nat /\ Len(q) >= 1 /\ Len(Tail(q)) = Len(q) - 1
      /\ \A i \in 1..Len(Tail(q)) : Tail(q)[i] = q[i + 1]
      /\ Head(q) = q[1]
    BY HeadTailProperties, LenProperties, EmptySeq
<1>2. k = 1
    BY <1>1 DEF Answers
<1>3. ASSUME NEW i \in Answers(Tail(q)) PROVE FALSE
    <2>1. i + 1 \in Answers(q) /\ i + 1 # 1
        BY <1>1 DEF Answers
    <2> QED
        BY <1>2, <2>1
<1> QED
    BY <1>1, <1>2, <1>3

LEMMA AnswersReconnect ==
    ASSUME NEW q \in Seq(Messages)
    PROVE  /\ Answers(q \o <<Request>>) = Answers(q)
           /\ \A k \in Answers(q) : (q \o <<Request>>)[k] = q[k]
           /\ Answers(q \o <<Disconnect, Request>>) = Answers(q)
           /\ \A k \in Answers(q) : (q \o <<Disconnect, Request>>)[k] = q[k]
<1>1. Request \in Messages /\ Disconnect \in Messages /\ Append(q, Disconnect) \in Seq(Messages)
    BY AppendProperties DEF Messages
<1>2. /\ Answers(Append(q, Request)) = Answers(q)
      /\ \A k \in Answers(q) : Append(q, Request)[k] = q[k]
    BY <1>1, KindsDiffer, AnswersAppend
<1>3. /\ Answers(Append(q, Disconnect)) = Answers(q)
      /\ \A k \in Answers(q) : Append(q, Disconnect)[k] = q[k]
    BY <1>1, KindsDiffer, AnswersAppend
<1>4. /\ Answers(Append(Append(q, Disconnect), Request)) = Answers(Append(q, Disconnect))
      /\ \A k \in Answers(Append(q, Disconnect)) :
             Append(Append(q, Disconnect), Request)[k] = Append(q, Disconnect)[k]
    BY <1>1, KindsDiffer, AnswersAppend
<1>5. /\ q \o <<Request>> = Append(q, Request)
      /\ q \o <<Disconnect, Request>> = Append(Append(q, Disconnect), Request)
    BY ReconnectAppends
<1> QED
    BY <1>2, <1>3, <1>4, <1>5

\* The places exclude each other, by what is in the channels and by what waits.
LEMMA PlacesApart ==
    ASSUME NEW e \in Sessions, AtOnePlace(e)
    PROVE  /\ \A s \in Sessions : outbox[s] # <<>> => InChannel(e) /\ s = e
           /\ wire # <<>> => OnTheWire(e)
           /\ owed > 0 => WithTheAgent(e)
           /\ Answers(back) # {} => Answered(e)
           /\ ~ExchangeOpen => Settled(e)
    BY NothingOpen DEF AtOnePlace, InChannel, OnTheWire, WithTheAgent, Answered, Settled

\* A step that moves no message, and gives the webrtcbins neither an offer nor an
\* answer, leaves an offer where it is.
LEMMA PlaceKept ==
    ASSUME NEW e \in Sessions,
           UNCHANGED <<local, awaiting, remote>>,
           UNCHANGED <<outbox, wire, heard, open, owed>>,
           Answers(back') = Answers(back), \A k \in Answers(back) : back'[k] = back[k]
    PROVE  /\ InChannel(e) => InChannel(e)'
           /\ OnTheWire(e) => OnTheWire(e)'
           /\ WithTheAgent(e) => WithTheAgent(e)'
           /\ Answered(e) => Answered(e)'
           /\ Settled(e) => Settled(e)'
    BY NothingOpen DEF InChannel, OnTheWire, WithTheAgent, Answered, Settled, ExchangeOpen,
                       Answers, Agreed

\* A fresh offer of the session in the map, when nothing else is under way, is in
\* the channel of that session.
LEMMA OfferStarts ==
    ASSUME ShapeInv, NEW s \in Sessions, OfferReady(s), entry # 0, ~disturbed'
    PROVE  s = entry /\ local'[entry] > 0 /\ InChannel(entry)' /\ entry' = entry
<1>1. entry' = entry /\ s = entry /\ ~ExchangeOpen
    BY DEF OfferReady
<1>2. /\ local' = [local EXCEPT ![s] = @ + 1]
      /\ awaiting' = [awaiting EXCEPT ![s] = TRUE]
      /\ outbox' = [outbox EXCEPT ![s] = Append(@, <<s, local[s] + 1>>)]
      /\ UNCHANGED <<wire, back, owed>>
    BY <1>1 DEF OfferReady, agent
<1>3. /\ local \in [Sessions -> 0..MaxOffers]
      /\ awaiting \in [Sessions -> BOOLEAN]
      /\ outbox \in [Sessions -> Seq(Offers)]
      /\ owed \in Nat
    BY DEF ShapeInv, TypeOK
<1>4. local'[s] = local[s] + 1 /\ local'[s] > 0
    BY <1>2, <1>3, BinShape
<1>5. awaiting'[s]
    BY <1>2, <1>3
<1>6. /\ outbox'[s] = <<<<s, local'[s]>>>>
      /\ \A t \in Sessions \ {s} : outbox'[t] = <<>>
    <2>1. \A t \in Sessions : outbox[t] = <<>>
        BY <1>1, NothingOpen
    <2>2. Append(<<>>, <<s, local[s] + 1>>) = <<<<s, local[s] + 1>>>>
        OBVIOUS
    <2> QED
        BY <1>2, <1>3, <1>4, <2>1, <2>2
<1>7. wire' = <<>> /\ owed' = 0 /\ Answers(back') = {}
    BY <1>1, <1>2, <1>3, NothingOpen
<1> QED
    BY <1>1, <1>4, <1>5, <1>6, <1>7 DEF InChannel, Answers

\* The forwarding threads have only this offer to move,
LEMMA OfferMoves ==
    ASSUME ShapeInv, NEW e \in Sessions, AtOnePlace(e),
           NEW s \in Sessions, NEW delivered \in BOOLEAN, Forward(s, delivered), ~disturbed'
    PROVE  InChannel(e) /\ OnTheWire(e)'
<1>1. InChannel(e) /\ s = e
    BY PlacesApart DEF Forward
<1>2. /\ outbox' = [outbox EXCEPT ![s] = Tail(@)] /\ outbox \in [Sessions -> Seq(Offers)]
      /\ wire' = Append(wire, Head(outbox[s]))
      /\ UNCHANGED <<local, awaiting, back, owed>>
    BY DEF Forward, bins, agent, ShapeInv, TypeOK
<1>3. /\ Head(<<<<e, local[e]>>>>) = <<e, local[e]>>
      /\ Tail(<<<<e, local[e]>>>>) = <<>>
      /\ Append(<<>>, <<e, local[e]>>) = <<<<e, local[e]>>>>
    OBVIOUS
<1>4. \A t \in Sessions : outbox'[t] = <<>>
    BY <1>1, <1>2, <1>3 DEF InChannel
<1>5. wire' = <<<<e, local[e]>>>>
    BY <1>1, <1>2, <1>3 DEF InChannel
<1> QED
    BY <1>1, <1>2, <1>4, <1>5 DEF InChannel, OnTheWire, Answers

\* the agent has only this one to apply
LEMMA OfferArrives ==
    ASSUME NEW e \in Sessions, AtOnePlace(e), AgentHears
    PROVE  OnTheWire(e) /\ WithTheAgent(e)'
<1>1. OnTheWire(e)
    BY PlacesApart DEF AgentHears
<1>2. Head(<<<<e, local[e]>>>>) = <<e, local[e]>> /\ Tail(<<<<e, local[e]>>>>) = <<>>
    OBVIOUS
<1>3. wire' = <<>> /\ heard' = <<e, local[e]>> /\ open' /\ owed' = 1
    BY <1>1, <1>2 DEF AgentHears, OnTheWire
<1> QED
    BY <1>1, <1>3 DEF AgentHears, bins, OnTheWire, WithTheAgent, Answers

\* and to answer,
LEMMA AnswerMade ==
    ASSUME ShapeInv, NEW e \in Sessions, AtOnePlace(e), AgentAnswers
    PROVE  WithTheAgent(e) /\ Answered(e)'
<1>1. WithTheAgent(e)
    BY PlacesApart DEF AgentAnswers
<1>2. heard \in Offers /\ back \in Seq(Messages) /\ heard \in Messages
    BY QueueShape DEF AgentAnswers, ShapeInv, Messages
<1>3. Answers(back') = {Len(back) + 1} /\ back'[Len(back) + 1] = heard
    BY <1>1, <1>2, AnswersAppend DEF AgentAnswers, WithTheAgent
<1>4. owed' = 0
    BY <1>1 DEF AgentAnswers, WithTheAgent
<1> QED
    BY <1>1, <1>3, <1>4 DEF AgentAnswers, bins, WithTheAgent, Answered, Answers

\* and the gateway gives the answer to the webrtcbin that made the offer.
LEMMA AnswerArrives ==
    ASSUME ShapeInv, entry # 0, AtOnePlace(entry), HandleAnswer
    PROVE  Answered(entry) /\ Settled(entry)' /\ ice'[entry] = "checking"
<1>1. /\ back # <<>> /\ Head(back) \in Offers
      /\ back \in Seq(Messages) /\ entry \in Sessions
    BY QueueShape DEF HandleAnswer
<1>2. 1 \in Answers(back)
    BY <1>1, HeadTailProperties, LenProperties, EmptySeq DEF Answers
<1>3. Answered(entry)
    BY <1>1, <1>2, PlacesApart
<1>4. PICK k \in Answers(back) : Answers(back) = {k} /\ back[k] = <<entry, local[entry]>>
    BY <1>3 DEF Answered
<1>5. Head(back) = <<entry, local[entry]>> /\ Answers(Tail(back)) = {}
    BY <1>1, <1>4, AnswersTail
<1>6. /\ remote' = [remote EXCEPT ![entry] = Head(back)]
      /\ awaiting' = [awaiting EXCEPT ![entry] = FALSE]
      /\ ice' = [ice EXCEPT ![entry] = "checking"]
      /\ back' = Tail(back)
      /\ UNCHANGED <<entry, local, outbox, wire, owed, heard>>
    BY <1>3 DEF HandleAnswer, Answered, agent
<1>7. remote'[entry] = <<entry, local[entry]>> /\ ~awaiting'[entry] /\ ice'[entry] = "checking"
    BY <1>1, <1>5, <1>6 DEF ShapeInv, TypeOK
<1>8. ~ExchangeOpen'
    <2>1. /\ \A s \in Sessions : outbox'[s] = <<>>
          /\ wire' = <<>> /\ owed' = 0
        BY <1>3, <1>6 DEF Answered
    <2>2. ~\E i \in 1..Len(back') : back'[i] \in Offers
        BY <1>5, <1>6 DEF Answers
    <2> QED
        BY <2>1, <2>2 DEF ExchangeOpen
<1> QED
    BY <1>3, <1>6, <1>7, <1>8 DEF Settled, Agreed, Answered

\* What a step does to an offer at one of its places.
Stays(e) ==
    /\ InChannel(e) => InChannel(e)'
    /\ OnTheWire(e) => OnTheWire(e)'
    /\ WithTheAgent(e) => WithTheAgent(e)'
    /\ Answered(e) => Answered(e)'
    /\ Settled(e) => Settled(e)'

GoesOn(e) ==
    \/ Settled(e) /\ InChannel(e)'
    \/ InChannel(e) /\ OnTheWire(e)'
    \/ OnTheWire(e) /\ WithTheAgent(e)'
    \/ WithTheAgent(e) /\ Answered(e)'
    \/ Answered(e) /\ Settled(e)' /\ ice'[e] = "checking"

\* A reconnect loses no offer, unless one was on its way.
LEMMA PlaceSurvives ==
    ASSUME ShapeInv, NEW e \in Sessions, NEW told \in BOOLEAN, AgentReconnects(told),
           ~disturbed'
    PROVE  Stays(e) /\ UNCHANGED <<entry, local, creating>> /\ ~disturbed
<1>1. /\ Answers(back') = Answers(back)
      /\ \A k \in Answers(back) : back'[k] = back[k]
    BY QueueShape, AnswersReconnect DEF AgentReconnects
<1>2. wire = <<>> /\ wire' = <<>> /\ ~disturbed
    BY DEF AgentReconnects
<1>3. UNCHANGED <<entry, local, awaiting, remote, creating, outbox, wire, heard, open, owed>>
    BY <1>2 DEF AgentReconnects, bins
<1> QED
    BY <1>1, <1>2, <1>3, PlaceKept DEF Stays

\* ICE, the clock and the agent's own start do not touch it.
LEMMA PlaceUntouched ==
    ASSUME ShapeInv, NEW e \in Sessions,
           \/ \E s \in Sessions : IceConnects(s) \/ IceReturns(s) \/ IceFails(s) \/ IceLost(s)
           \/ Tick \/ AgentStoresClient \/ UNCHANGED vars
    PROVE  /\ Stays(e) /\ UNCHANGED <<entry, local, disturbed>>
           /\ creating'[e] \in Nat /\ creating'[e] >= creating[e]
<1>1. UNCHANGED <<entry, local, awaiting, remote, outbox, wire, back, heard, open, owed, disturbed>>
    BY DEF IceConnects, IceReturns, IceFails, IceLost, Tick, AgentStoresClient, vars, transit,
           agent, bins
<1>2. Answers(back') = Answers(back) /\ \A k \in Answers(back) : back'[k] = back[k]
    BY <1>1 DEF Answers
<1>3. creating'[e] \in Nat /\ creating'[e] >= creating[e]
    BY BinShape DEF IceConnects, IceReturns, IceFails, IceLost, Tick, AgentStoresClient, vars,
                    bins, ShapeInv, TypeOK
<1> QED
    BY <1>1, <1>2, <1>3, PlaceKept DEF Stays

\* An offer of the session in the map stays where it is or goes one place on, in
\* every step that neither replaces the session nor disturbs the exchange.
LEMMA PlaceStep ==
    ASSUME ShapeInv, [Next]_vars, entry # 0, entry' = entry, ~disturbed, ~disturbed',
           AtOnePlace(entry)
    PROVE  Stays(entry) \/ GoesOn(entry)
<1>1. entry \in Sessions
    BY QueueShape
<1>2. ~HandleRequest /\ ~HandleDisconnect
    BY QueueShape DEF HandleRequest, HandleDisconnect
<1>3. CASE HandleAnswer
    BY <1>3, AnswerArrives DEF GoesOn
<1>4. ASSUME NEW s \in Sessions, OfferReady(s) PROVE GoesOn(entry)
    <2>1. InChannel(entry)' /\ ~ExchangeOpen
        BY <1>4, OfferStarts DEF OfferReady
    <2> QED
        BY <1>1, <2>1, PlacesApart DEF GoesOn
<1>5. ASSUME NEW s \in Sessions PROVE ~OfferFails(s)
    BY DEF OfferFails
<1>6. ASSUME NEW s \in Sessions,
             IceConnects(s) \/ IceReturns(s) \/ IceLost(s) \/ IceFails(s)
      PROVE  Stays(entry)
    BY <1>1, <1>6, PlaceUntouched
<1>7. ASSUME NEW s \in Sessions, NEW delivered \in BOOLEAN, Forward(s, delivered)
      PROVE  GoesOn(entry)
    BY <1>1, <1>7, OfferMoves DEF GoesOn
<1>8. ASSUME NEW told \in BOOLEAN, AgentReconnects(told) PROVE Stays(entry)
    BY <1>1, <1>8, PlaceSurvives
<1>9. CASE AgentHears
    BY <1>1, <1>9, OfferArrives DEF GoesOn
<1>10. CASE AgentAnswers
    BY <1>1, <1>10, AnswerMade DEF GoesOn
<1>11. ~AnswerLost
    BY DEF AnswerLost
<1>12. ~NothingToAnswer
    \* An offer that is owed an answer, while nothing overlaps, has none yet.
    BY <1>1, PlacesApart DEF NothingToAnswer, WithTheAgent
<1>13. CASE Tick \/ AgentStoresClient \/ UNCHANGED vars
    BY <1>1, <1>13, PlaceUntouched
<1> QED
    BY <1>2, <1>3, <1>4, <1>5, <1>6, <1>7, <1>8, <1>9, <1>10, <1>11, <1>12, <1>13
    DEF Next, Callback, Agent

\* A request makes a session that has an offer asked for and none made.
LEMMA SessionStarts ==
    ASSUME ShapeInv, HandleRequest
    PROVE  ExchangeInv'
<1>1. made + 1 \in Sessions /\ local[made + 1] = 0
    <2>1. made + 1 <= asked
        BY RequestTaken, QueueShape DEF HandleRequest, ShapeInv, TypeOK, agent
    <2>2. made + 1 \in Sessions
        BY <2>1, QueueShape, BoundsAreNat DEF Sessions
    <2> QED
        BY <2>2, QueueShape DEF ShapeInv, LaterAreNew
<1>2. creating'[made + 1] = 1 /\ local'[made + 1] = 0 /\ entry' = made + 1
    BY <1>1 DEF HandleRequest, ShapeInv, TypeOK
<1> QED
    BY <1>2 DEF ExchangeInv

LEMMA ExchangeStep == ShapeInv /\ ExchangeInv /\ [Next]_vars => ExchangeInv'
<1> SUFFICES ASSUME ShapeInv, ExchangeInv, [Next]_vars, entry' # 0, ~disturbed'
             PROVE  ExchangeInv'
    BY DEF ExchangeInv
<1>1. CASE HandleRequest
    BY <1>1, SessionStarts
<1>2. ASSUME NEW s \in Sessions, OfferReady(s) PROVE ExchangeInv'
    <2>1. entry # 0
        BY <1>2 DEF OfferReady
    <2> QED
        BY <1>2, <2>1, OfferStarts DEF ExchangeInv, AtOnePlace
<1>3. CASE ~HandleRequest /\ \A s \in Sessions : ~OfferReady(s)
    <2>1. /\ entry' = entry /\ ~disturbed /\ local' = local
          /\ creating'[entry] \in Nat /\ creating'[entry] >= creating[entry]
        <3>1. CASE Tick \/ AgentStoresClient \/ UNCHANGED vars
            <4>1. entry' = entry
                BY <3>1 DEF Tick, AgentStoresClient, vars
            <4> QED
                BY <3>1, <4>1, PlaceUntouched, QueueShape
        <3>2. CASE \E s \in Sessions : IceConnects(s) \/ IceReturns(s) \/ IceLost(s) \/ IceFails(s)
            <4>1. entry' = entry
                BY <3>2 DEF IceConnects, IceReturns, IceFails, IceLost
            <4> QED
                BY <3>2, <4>1, PlaceUntouched, QueueShape
        <3>3. CASE HandleAnswer \/ Agent \/ (\E told \in BOOLEAN : AgentReconnects(told))
                   \/ (\E s \in Sessions, delivered \in BOOLEAN : Forward(s, delivered))
            <4>1. entry' = entry /\ local' = local /\ creating' = creating
                BY <3>3 DEF HandleAnswer, Agent, AgentHears, AgentAnswers, AnswerLost,
                            NothingToAnswer, AgentReconnects, Forward, bins
            <4>2. ~disturbed
                BY <3>3 DEF HandleAnswer, Agent, AgentHears, AgentAnswers, AnswerLost,
                            NothingToAnswer, AgentReconnects, Forward
            <4> QED
                BY <4>1, <4>2, QueueShape, BinShape
        <3> QED
            BY <1>3, <3>1, <3>2, <3>3 DEF Next, Callback, OfferFails, HandleDisconnect
    <2>2. local[entry] > 0 => AtOnePlace(entry)
        BY <2>1 DEF ExchangeInv
    <2>3. AtOnePlace(entry) => AtOnePlace(entry)'
        BY <2>1, PlaceStep DEF Stays, GoesOn, AtOnePlace
    <2>4. entry \in Sessions /\ creating[entry] \in Nat
        BY <2>1, QueueShape, BinShape
    <2>5. creating'[entry] > 0 \/ local[entry] > 0
        BY <2>1, <2>4 DEF ExchangeInv
    <2> QED
        BY <2>1, <2>2, <2>3, <2>5 DEF ExchangeInv
<1> QED
    BY <1>1, <1>2, <1>3

\* Once nothing is under way the two ends agree: whatever was asked for, lost and
\* repeated before, the viewer holds the last offer of the session in the map and
\* that session the answer to it, if since that offer no message was lost and no
\* other exchange was open, for any number of sessions, offers and reconnects.
THEOREM EndsAgree == Spec => []SettledAgrees
<1>1. Init => ExchangeInv
    BY DEF Init, ExchangeInv
<1>2. ShapeInv /\ ExchangeInv => SettledAgrees
    <2> SUFFICES ASSUME ShapeInv, ExchangeInv, entry # 0,
                        \A s \in Sessions : creating[s] = 0, ~ExchangeOpen, ~disturbed
                 PROVE  heard = <<entry, local[entry]>> /\ Agreed(entry)
        BY DEF SettledAgrees
    <2>1. AtOnePlace(entry) /\ entry \in Sessions
        BY QueueShape DEF ExchangeInv
    <2>2. Settled(entry)
        BY <2>1, PlacesApart
    <2> QED
        BY <2>2 DEF Settled
<1> QED
    BY <1>1, <1>2, ShapeInit, ShapeStep, ExchangeStep, PTL DEF Spec

-----------------------------------------------------------------------------
(* Completion.  The fairness of the module says that a step which stays    *)
(* possible is taken.  Here what is possible is written out: each thread   *)
(* takes a step again and again unless, again and again, it has nothing to *)
(* do.  The guards are those of the steps: the callback handles any        *)
(* message, a promise is replied to, an offer in a channel is forwarded,   *)
(* and the agent has an offer to apply or an answer to make, or to lose.   *)

CallbackRuns == []<>(back = <<>>) \/ []<><<Callback>>_vars
PromiseRuns(s) == []<>(creating[s] = 0) \/ []<><<OfferReady(s) \/ OfferFails(s)>>_vars
ForwardRuns(s) ==
    []<>(outbox[s] = <<>>) \/ []<><<\E delivered \in BOOLEAN : Forward(s, delivered)>>_vars
AgentRuns == []<>(wire = <<>> /\ owed = 0) \/ []<><<Agent>>_vars

RunningSpec ==
    /\ Spec
    /\ CallbackRuns /\ AgentRuns
    /\ \A s \in Sessions : PromiseRuns(s) /\ ForwardRuns(s)

\* The exchange of session s has come to its end, or something came between.
Over(s) == disturbed \/ entry # s \/ (Agreed(s) /\ ice[s] # "lost")

\* It is under way: the session has an offer asked for, or its last one is at one
\* of the places.
Underway(s) == ShapeInv /\ ExchangeInv /\ entry = s /\ ~disturbed

AskedFor(s) == Underway(s) /\ creating[s] > 0
Queued(s) == Underway(s) /\ InChannel(s)
Sent(s) == Underway(s) /\ OnTheWire(s)
Applied(s) == Underway(s) /\ WithTheAgent(s)
Returning(s) == Underway(s) /\ Answered(s)

LEMMA OnePlaceOnly ==
    ASSUME NEW e \in Sessions
    PROVE  /\ InChannel(e) => outbox[e] # <<>>
           /\ OnTheWire(e) => outbox[e] = <<>> /\ wire # <<>>
           /\ WithTheAgent(e) => outbox[e] = <<>> /\ wire = <<>> /\ owed = 1
           /\ Answered(e) => /\ outbox[e] = <<>> /\ wire = <<>> /\ owed = 0
                             /\ Answers(back) # {} /\ back # <<>>
           /\ Settled(e) => /\ outbox[e] = <<>> /\ wire = <<>> /\ ~(owed > 0)
                            /\ Answers(back) = {}
<1>1. Answers(back) # {} => back # <<>>
    BY DEF Answers
<1>2. InChannel(e) => outbox[e] # <<>>
    BY DEF InChannel
<1>3. /\ OnTheWire(e) => outbox[e] = <<>> /\ wire # <<>>
      /\ WithTheAgent(e) => outbox[e] = <<>> /\ wire = <<>> /\ owed = 1
    BY DEF OnTheWire, WithTheAgent
<1>4. Answered(e) => outbox[e] = <<>> /\ wire = <<>> /\ owed = 0 /\ Answers(back) # {}
    BY DEF Answered
<1> QED
    BY <1>1, <1>2, <1>3, <1>4, NothingOpen DEF Settled

\* While it is under way an offer is where it was, or one place on.
LEMMA UnderwayStep ==
    ASSUME NEW s \in Sessions, Underway(s), [Next]_vars, ~Over(s)'
    PROVE  /\ Underway(s)'
           /\ InChannel(s) => InChannel(s)' \/ OnTheWire(s)'
           /\ OnTheWire(s) => OnTheWire(s)' \/ WithTheAgent(s)'
           /\ WithTheAgent(s) => WithTheAgent(s)' \/ Answered(s)'
           /\ Answered(s) => Answered(s)'
<1>1. ShapeInv /\ entry = s /\ entry' = s /\ ~disturbed /\ ~disturbed' /\ entry # 0
    BY QueueShape, BoundsAreNat DEF Underway, Over, Sessions
<1>2. Underway(s)'
    BY <1>1, ShapeStep, ExchangeStep DEF Underway
<1>3. ASSUME AtOnePlace(s) PROVE Stays(s) \/ GoesOn(s)
    BY <1>1, <1>3, PlaceStep
<1>4. Settled(s)' => ice'[s] = "lost"
    BY <1>1 DEF Over, Settled
<1> QED
    BY <1>2, <1>3, <1>4, OnePlaceOnly DEF AtOnePlace, Stays, GoesOn

LEMMA PromiseReplied ==
    ASSUME NEW s \in Sessions, AskedFor(s), OfferReady(s) \/ OfferFails(s)
    PROVE  Queued(s)' \/ Over(s)'
<1> SUFFICES ASSUME ~Over(s)' PROVE Queued(s)'
    OBVIOUS
<1>1. [Next]_vars
    BY DEF Next
<1>2. Underway(s)'
    BY <1>1, UnderwayStep DEF AskedFor
<1>3. OfferReady(s) /\ ~disturbed' /\ entry = s /\ entry # 0
    BY QueueShape, BoundsAreNat DEF OfferFails, Over, AskedFor, Underway, Sessions
<1> QED
    BY <1>2, <1>3, OfferStarts DEF AskedFor, Underway, Queued

LEMMA AskedForStep ==
    ASSUME NEW s \in Sessions, AskedFor(s), [Next]_vars
    PROVE  AskedFor(s)' \/ Queued(s)' \/ Over(s)'
<1> SUFFICES ASSUME ~Over(s)', creating'[s] = 0 PROVE Queued(s)'
    <2>1. ~Over(s)' => creating'[s] \in Nat
        BY UnderwayStep, ShapeStep, BoundsAreNat DEF AskedFor, Underway, ShapeInv, TypeOK
    <2>2. ~Over(s)' => Underway(s)'
        BY UnderwayStep DEF AskedFor
    <2> QED
        BY <2>1, <2>2 DEF AskedFor
<1>1. Underway(s) /\ creating[s] > 0 /\ entry = s /\ entry' = s
    BY DEF AskedFor, Underway, Over
<1>2. OfferReady(s) \/ OfferFails(s)
    <2>1. creating \in [Sessions -> 0..MaxOffers] /\ creating[s] \in Nat
        BY <1>1, BinShape DEF Underway, ShapeInv, TypeOK
    <2>2. creating'[s] # creating[s] /\ ~(creating'[s] > creating[s])
        BY <1>1, <2>1
    <2>3. ~HandleRequest /\ ~HandleDisconnect
        BY <1>1, QueueShape, BoundsAreNat DEF HandleRequest, HandleDisconnect, Underway, Sessions
    <2>4. ASSUME NEW t \in Sessions, t # s PROVE ~OfferReady(t) /\ ~OfferFails(t)
        BY <2>1, <2>2, <2>4 DEF OfferReady, OfferFails
    <2>5. ASSUME NEW t \in Sessions
          PROVE  ~IceConnects(t) /\ ~IceReturns(t) /\ ~IceFails(t) /\ ~IceLost(t)
        BY <2>1, <2>2 DEF IceConnects, IceReturns, IceFails, IceLost
    <2>6. ~HandleAnswer /\ ~Tick /\ ~AgentStoresClient /\ ~Agent /\ ~UNCHANGED vars
        BY <2>2 DEF HandleAnswer, Tick, AgentStoresClient, Agent, AgentHears, AgentAnswers,
                    AnswerLost, NothingToAnswer, vars, bins
    <2>7. ASSUME NEW t \in Sessions, NEW b \in BOOLEAN
          PROVE  ~Forward(t, b) /\ ~AgentReconnects(b)
        BY <2>2 DEF Forward, AgentReconnects, bins
    <2> QED
        BY <2>3, <2>4, <2>5, <2>6, <2>7 DEF Next, Callback
<1> QED
    BY <1>2, PromiseReplied

\* The thread whose turn it is moves the offer on.
LEMMA OfferForwardedOn ==
    ASSUME NEW s \in Sessions, Queued(s), \E delivered \in BOOLEAN : Forward(s, delivered)
    PROVE  Sent(s)' \/ Over(s)'
<1> SUFFICES ASSUME ~Over(s)' PROVE Sent(s)'
    OBVIOUS
<1>1. [Next]_vars
    BY DEF Next
<1>2. Underway(s)' /\ ~disturbed'
    BY <1>1, UnderwayStep DEF Queued, Over
<1> QED
    BY <1>2, OfferMoves DEF Queued, Underway, AtOnePlace, Sent

LEMMA AgentTurns ==
    ASSUME NEW s \in Sessions, Agent
    PROVE  /\ Sent(s) => Applied(s)' \/ Over(s)'
           /\ Applied(s) => Returning(s)' \/ Over(s)'
<1>1. [Next]_vars
    BY DEF Next
<1>2. ASSUME Sent(s), ~Over(s)' PROVE Applied(s)'
    <2>1. Underway(s)' /\ ~disturbed'
        BY <1>1, <1>2, UnderwayStep DEF Sent, Over
    <2>2. owed = 0 /\ AtOnePlace(s)
        BY <1>2 DEF Sent, OnTheWire, AtOnePlace
    <2>3. AgentHears
        BY <2>1, <2>2 DEF Agent, AgentAnswers, AnswerLost, NothingToAnswer
    <2> QED
        BY <2>1, <2>2, <2>3, OfferArrives DEF Applied
<1>3. ASSUME Applied(s), ~Over(s)' PROVE Returning(s)'
    <2>1. Underway(s)' /\ ~disturbed'
        BY <1>1, <1>3, UnderwayStep DEF Applied, Over
    <2>2. wire = <<>> /\ open /\ AtOnePlace(s)
        BY <1>3 DEF Applied, WithTheAgent, AtOnePlace
    <2>3. AgentAnswers
        BY <2>1, <2>2 DEF Agent, AgentHears, AnswerLost, NothingToAnswer
    <2> QED
        BY <1>3, <2>1, <2>2, <2>3, AnswerMade DEF Applied, Underway, Returning
<1> QED
    BY <1>2, <1>3

\* What is ahead of an answer in the queue ends the session it is for.
LEMMA CallbackTurns ==
    ASSUME NEW s \in Sessions, Returning(s), Callback
    PROVE  Over(s)'
<1>1. ShapeInv /\ entry = s /\ entry # 0 /\ AtOnePlace(s)
    BY QueueShape, BoundsAreNat DEF Returning, Underway, AtOnePlace, Sessions
<1>2. CASE HandleRequest
    BY <1>1, <1>2, QueueShape DEF HandleRequest, Over
<1>3. CASE HandleDisconnect
    BY <1>1, <1>3 DEF HandleDisconnect, Over
<1>4. CASE HandleAnswer
    <2>1. entry' = s
        BY <1>1, <1>4 DEF HandleAnswer
    <2>2. Settled(s)' /\ ice'[s] = "checking"
        BY <1>1, <1>4, <2>1, AnswerArrives
    <2> QED
        BY <2>2 DEF Settled, Over
<1> QED
    BY <1>2, <1>3, <1>4 DEF Callback

\* An exchange that is under way comes to its end: each place is left by the step
\* of one thread, and no other step takes the offer back.
LEMMA ExchangeEnds ==
    ASSUME NEW s \in Sessions
    PROVE  RunningSpec =>
               ((AskedFor(s) \/ Queued(s) \/ Sent(s) \/ Applied(s) \/ Returning(s)) ~> Over(s))
<1>1. RunningSpec => /\ [][Next]_vars /\ CallbackRuns /\ AgentRuns
                     /\ PromiseRuns(s) /\ ForwardRuns(s)
    BY DEF RunningSpec, Spec
<1>2. AskedFor(s) /\ [Next]_vars => AskedFor(s)' \/ Queued(s)' \/ Over(s)'
    BY AskedForStep
<1>3. Queued(s) /\ [Next]_vars => Queued(s)' \/ Sent(s)' \/ Over(s)'
    BY UnderwayStep DEF Queued, Sent
<1>4. Sent(s) /\ [Next]_vars => Sent(s)' \/ Applied(s)' \/ Over(s)'
    BY UnderwayStep DEF Sent, Applied
<1>5. Applied(s) /\ [Next]_vars => Applied(s)' \/ Returning(s)' \/ Over(s)'
    BY UnderwayStep DEF Applied, Returning
<1>6. Returning(s) /\ [Next]_vars => Returning(s)' \/ Over(s)'
    BY UnderwayStep DEF Returning
<1>7. AskedFor(s) /\ <<OfferReady(s) \/ OfferFails(s)>>_vars => Queued(s)' \/ Over(s)'
    BY PromiseReplied
<1>8. Queued(s) /\ <<\E delivered \in BOOLEAN : Forward(s, delivered)>>_vars
      => Sent(s)' \/ Over(s)'
    BY OfferForwardedOn
<1>9. /\ Sent(s) /\ <<Agent>>_vars => Applied(s)' \/ Over(s)'
      /\ Applied(s) /\ <<Agent>>_vars => Returning(s)' \/ Over(s)'
    BY AgentTurns
<1>10. Returning(s) /\ <<Callback>>_vars => Over(s)'
    BY CallbackTurns
<1>11. /\ AskedFor(s) => ~(creating[s] = 0)
       /\ Queued(s) => ~(outbox[s] = <<>>)
       /\ Sent(s) => ~(wire = <<>> /\ owed = 0)
       /\ Applied(s) => ~(wire = <<>> /\ owed = 0)
       /\ Returning(s) => ~(back = <<>>)
    BY OnePlaceOnly DEF AskedFor, Queued, Sent, Applied, Returning
<1> QED
    BY <1>1, <1>2, <1>3, <1>4, <1>5, <1>6, <1>7, <1>8, <1>9, <1>10, <1>11, PTL
    DEF CallbackRuns, AgentRuns, PromiseRuns, ForwardRuns

\* A lost connection whose restart was granted has an offer asked for or
\* unanswered.
RestartAsked ==
    (entry # 0 /\ ~disturbed /\ ice[entry] = "lost") => creating[entry] > 0 \/ awaiting[entry]

LEMMA RunningInvariants == RunningSpec => []ShapeInv /\ []ExchangeInv
<1>1. Init => ExchangeInv
    BY DEF Init, ExchangeInv
<1>2. RunningSpec => Init /\ [][Next]_vars
    BY DEF RunningSpec, Spec
<1> QED
    BY <1>1, <1>2, ShapeInit, ShapeStep, ExchangeStep, PTL

\* A session with an offer to make or one unanswered has its exchange under way.
LEMMA AskedOrPlaced ==
    ASSUME ShapeInv, ExchangeInv, NEW s \in Sessions, entry = s,
           creating[s] > 0 \/ awaiting[s]
    PROVE  AskedFor(s) \/ Queued(s) \/ Sent(s) \/ Applied(s) \/ Returning(s) \/ disturbed
<1> SUFFICES ASSUME ~disturbed, ~(creating[s] > 0), awaiting[s]
             PROVE  Queued(s) \/ Sent(s) \/ Applied(s) \/ Returning(s)
    BY DEF AskedFor, Underway
<1>1. entry # 0
    BY BoundsAreNat DEF Sessions
<1>2. AtOnePlace(s) /\ ~Settled(s)
    BY <1>1 DEF ExchangeInv, Settled, Agreed
<1> QED
    BY <1>2 DEF AtOnePlace, Queued, Sent, Applied, Returning, Underway

\* A session that has an offer to make or one unanswered comes to agree with the
\* viewer, unless a message is lost, exchanges overlap or the session goes: for
\* any number of sessions, offers, requests and reconnects.
THEOREM ExchangesComplete == RunningSpec => NegotiationCompletes
<1> SUFFICES ASSUME NEW s \in Sessions
             PROVE  RunningSpec => ((entry = s /\ (creating[s] > 0 \/ awaiting[s]))
                                        ~> (Agreed(s) \/ disturbed \/ entry # s))
    BY DEF NegotiationCompletes
<1>1. ShapeInv /\ ExchangeInv /\ entry = s /\ (creating[s] > 0 \/ awaiting[s])
      => \/ AskedFor(s) \/ Queued(s) \/ Sent(s) \/ Applied(s) \/ Returning(s)
         \/ disturbed
    BY AskedOrPlaced
<1>2. Over(s) => Agreed(s) \/ disturbed \/ entry # s
    BY DEF Over
<1> QED
    BY <1>1, <1>2, ExchangeEnds, RunningInvariants, PTL

LEMMA RestartAskedStep ==
    ASSUME ShapeInv, ExchangeInv, RestartAsked, [Next]_vars
    PROVE  RestartAsked'
<1> SUFFICES ASSUME entry' # 0, ~disturbed', ice'[entry'] = "lost"
             PROVE  creating'[entry'] > 0 \/ awaiting'[entry']
    BY DEF RestartAsked
<1> USE DEF RestartAsked
<1>1. /\ entry # 0 => entry \in Sessions
      /\ creating \in [Sessions -> 0..MaxOffers] /\ awaiting \in [Sessions -> BOOLEAN]
      /\ ice \in [Sessions -> {"new", "checking", "up", "lost", "left", "failed", "closed"}]
    BY QueueShape DEF ShapeInv, TypeOK
<1>2. entry # 0 => creating[entry] \in Nat
    BY QueueShape, BinShape
<1>3. ~HandleRequest
    <2> SUFFICES ASSUME HandleRequest PROVE FALSE
        OBVIOUS
    <2>1. made + 1 \in Sessions
        BY RequestTaken, QueueShape, BoundsAreNat
        DEF HandleRequest, ShapeInv, TypeOK, agent, Sessions
    <2>2. ice[made + 1] = "new"
        BY <2>1, QueueShape DEF ShapeInv, LaterAreNew
    <2> QED
        BY <2>2 DEF HandleRequest
<1>4. ~HandleDisconnect
    BY DEF HandleDisconnect
<1>5. CASE HandleAnswer
    <2>1. entry' = entry /\ disturbed' = disturbed /\ creating' = creating
        BY <1>5 DEF HandleAnswer
    <2>2. ~awaiting[entry]
        BY <1>1, <1>5, <2>1 DEF HandleAnswer
    <2>3. ice' = ice
        BY <1>5, <2>2 DEF HandleAnswer
    <2> QED
        BY <2>1, <2>2, <2>3
<1>6. ASSUME NEW s \in Sessions, OfferReady(s) PROVE awaiting'[entry']
    BY <1>1, <1>6 DEF OfferReady
<1>7. ASSUME NEW s \in Sessions PROVE ~OfferFails(s)
    BY DEF OfferFails
<1>8. ASSUME NEW s \in Sessions, IceConnects(s) \/ IceReturns(s) \/ IceFails(s)
      PROVE  creating'[entry'] > 0 \/ awaiting'[entry']
    <2>1. UNCHANGED <<entry, disturbed, creating, awaiting>> /\ ice'[entry] = ice[entry]
        BY <1>1, <1>8 DEF IceConnects, IceReturns, IceFails
    <2> QED
        BY <2>1
<1>9. ASSUME NEW s \in Sessions, IceLost(s)
      PROVE  creating'[entry'] > 0 \/ awaiting'[entry']
    <2>1. UNCHANGED <<entry, disturbed, awaiting>>
        BY <1>9 DEF IceLost
    <2>2. CASE s = entry
        <3>1. MayRestart
            BY <1>1, <1>9, <2>1, <2>2 DEF IceLost
        <3> QED
            BY <1>1, <1>2, <1>9, <2>1, <2>2, <3>1 DEF IceLost
    <2>3. CASE s # entry
        <3>1. ice'[entry] = ice[entry] /\ creating'[entry] = creating[entry]
            BY <1>1, <1>9, <2>1, <2>3 DEF IceLost
        <3> QED
            BY <2>1, <3>1
    <2> QED
        BY <2>2, <2>3
<1>10. ASSUME \/ Tick \/ AgentStoresClient \/ Agent \/ UNCHANGED vars
              \/ \E s \in Sessions, delivered \in BOOLEAN : Forward(s, delivered)
              \/ \E told \in BOOLEAN : AgentReconnects(told)
       PROVE  creating'[entry'] > 0 \/ awaiting'[entry']
    <2>1. UNCHANGED <<entry, creating, awaiting, ice>>
        BY <1>10 DEF Tick, AgentStoresClient, Agent, AgentHears, AgentAnswers, AnswerLost,
                     NothingToAnswer, Forward, AgentReconnects, vars, bins
    <2>2. ~disturbed
        BY <1>10 DEF Tick, AgentStoresClient, Agent, AgentHears, AgentAnswers, AnswerLost,
                     NothingToAnswer, Forward, AgentReconnects, vars
    <2> QED
        BY <2>1, <2>2
<1> QED
    BY <1>3, <1>4, <1>5, <1>6, <1>7, <1>8, <1>9, <1>10 DEF Next, Callback

\* A lost connection whose restart was granted does not stay lost: its offer is
\* made, answered and checked, or one of the same things comes between.
THEOREM RestartsRun == RunningSpec => GrantedRestartRuns
<1> SUFFICES ASSUME NEW s \in Sessions
             PROVE  RunningSpec => ((ice[s] = "lost" /\ entry = s)
                                        ~> (ice[s] # "lost" \/ disturbed \/ entry # s))
    BY DEF GrantedRestartRuns
<1>1. Init => RestartAsked
    BY DEF Init, RestartAsked
<1>2. ShapeInv /\ ExchangeInv /\ RestartAsked /\ [Next]_vars => RestartAsked'
    BY RestartAskedStep
<1>3. RunningSpec => Init /\ [][Next]_vars
    BY DEF RunningSpec, Spec
<1>4. RestartAsked /\ ice[s] = "lost" /\ entry = s
      => (entry = s /\ (creating[s] > 0 \/ awaiting[s])) \/ disturbed
    BY BoundsAreNat DEF RestartAsked, Sessions
<1>5. ShapeInv /\ ExchangeInv /\ entry = s /\ (creating[s] > 0 \/ awaiting[s])
      => \/ AskedFor(s) \/ Queued(s) \/ Sent(s) \/ Applied(s) \/ Returning(s)
         \/ disturbed
    BY AskedOrPlaced
<1>6. Over(s) => ice[s] # "lost" \/ disturbed \/ entry # s
    BY DEF Over
<1> QED
    BY <1>1, <1>2, <1>3, <1>4, <1>5, <1>6, ExchangeEnds, RunningInvariants, PTL

=============================================================================
