---------------------------- MODULE Negotiation ----------------------------
(***************************************************************************)
(* Offers and answers between the gateway and a viewer agent, for one      *)
(* viewer id on one camera, from the viewer_request to the ICE restarts.   *)
(*                                                                         *)
(* Every viewer_request makes a session: a webrtcbin, and an entry of the  *)
(* viewers map with the channel its offers leave by and its ICE restart    *)
(* budget.  A repeated request replaces the entry; the webrtcbin of the    *)
(* old one lives on, and its callbacks find the new entry under the id of  *)
(* the viewer.  The entry says where an offer is sent and which webrtcbin  *)
(* an answer is given to: neither message names the offer it is about.     *)
(*                                                                         *)
(* A thread per session moves offers from the channel to the signaling     *)
(* client.  The agent has one webrtcbin for its life; it answers whatever  *)
(* offer it applied last.  Sessions are numbered in the order of their     *)
(* requests, and the offers of a webrtcbin in the order it makes them.     *)
(*                                                                         *)
(* webrtcbin itself is external: it takes an answer only while an offer of *)
(* its own is unanswered, and a second offer replaces an unanswered one.   *)
(***************************************************************************)
EXTENDS Naturals, Sequences

CONSTANTS
    MaxSessions,   \* bound: viewer_requests of the agent
    MaxOffers,     \* bound: offers of one webrtcbin
    MaxAttempts,   \* ICE_RESTART_MAX_ATTEMPTS
    Cooldown,      \* ICE_RESTART_COOLDOWN_SECS
    Request,       \* a viewer_request
    Disconnect,    \* a viewer_disconnect
    None           \* no offer

ASSUME SessionsAssumption == MaxSessions \in Nat \ {0} /\ MaxOffers \in Nat \ {0}
ASSUME RecoveryAssumption == MaxAttempts \in Nat /\ Cooldown \in Nat

Sessions == 1..MaxSessions
Offers == Sessions \X (1..MaxOffers)

\* What the relay has for the gateway is told apart by its kind.
ASSUME KindsAssumption == Request # Disconnect /\ {Request, Disconnect} \cap Offers = {}

VARIABLES
    made,       \* sessions made so far
    entry,      \* the session in the viewers map, 0 when there is none
    attempts,   \* ViewerPeer::ice_restart_attempts
    since,      \* seconds since its last_ice_restart_epoch, up to Cooldown
    creating,   \* per session: create-offer promises of its webrtcbin
    local,      \* per session: the last offer of its webrtcbin
    awaiting,   \* per session: that offer has no answer yet
    remote,     \* per session: the offer that the answer it took is to
    ice,        \* per session: the ICE state, "left" when a loss got no restart
    outbox,     \* per session: offers in its channel
    wire,       \* offers on their way to the agent
    back,       \* what the relay has for the gateway: answers, requests, disconnects
    asked,      \* requests of the agent
    stored,     \* the agent has stored its client
    heard,      \* the offer the agent applied last
    open,       \* it has not made an answer to it
    owed,       \* offers it applied for which no create-answer has replied
    disturbed   \* history: the last offer overlapped another exchange, or a
                \* message was lost since

budget == <<attempts, since>>
bins == <<creating, local, awaiting, remote, ice>>
transit == <<outbox, wire, back>>
agent == <<asked, stored, heard, open, owed>>
vars == <<made, entry, budget, bins, transit, agent, disturbed>>

-----------------------------------------------------------------------------

\* The agent has connected, and its first request is on its way.
Init ==
    /\ made = 0 /\ entry = 0
    /\ attempts = 0 /\ since = Cooldown
    /\ creating = [s \in Sessions |-> 0]
    /\ local = [s \in Sessions |-> 0]
    /\ awaiting = [s \in Sessions |-> FALSE]
    /\ remote = [s \in Sessions |-> None]
    /\ ice = [s \in Sessions |-> "new"]
    /\ outbox = [s \in Sessions |-> <<>>]
    /\ wire = <<>> /\ back = <<Request>>
    /\ asked = 1 /\ stored = FALSE
    /\ heard = None /\ open = FALSE /\ owed = 0
    /\ disturbed = FALSE

\* An exchange is under way: an offer or an answer has still to arrive, or to
\* be made by the agent.
ExchangeOpen ==
    \/ \E s \in Sessions : outbox[s] # <<>>
    \/ wire # <<>> \/ owed > 0
    \/ \E i \in 1..Len(back) : back[i] \in Offers

-----------------------------------------------------------------------------
(* The gateway's signaling callback, one message at a time.                *)

\* viewer_request: a fresh entry, a webrtcbin, and a first offer asked of it.
HandleRequest ==
    /\ back # <<>> /\ Head(back) = Request
    /\ back' = Tail(back)
    /\ made' = made + 1
    /\ entry' = made + 1
    /\ attempts' = 0 /\ since' = Cooldown
    /\ creating' = [creating EXCEPT ![made + 1] = 1]
    /\ UNCHANGED <<local, awaiting, remote, ice, outbox, wire, agent, disturbed>>

\* viewer_disconnect: the entry goes, and its webrtcbin is set to Null.  What
\* its channel holds is still forwarded.
HandleDisconnect ==
    /\ back # <<>> /\ Head(back) = Disconnect
    /\ back' = Tail(back)
    /\ entry' = 0
    /\ creating' = [s \in Sessions |-> IF s = entry THEN 0 ELSE creating[s]]
    /\ ice' = [s \in Sessions |-> IF s = entry THEN "closed" ELSE ice[s]]
    /\ UNCHANGED <<made, budget, local, awaiting, remote, outbox, wire, agent, disturbed>>

\* An answer goes to the webrtcbin of the entry, if there is one.
HandleAnswer ==
    /\ back # <<>> /\ Head(back) \in Offers
    /\ back' = Tail(back)
    /\ IF entry # 0 /\ awaiting[entry]
       THEN /\ remote' = [remote EXCEPT ![entry] = Head(back)]
            /\ awaiting' = [awaiting EXCEPT ![entry] = FALSE]
            /\ ice' = [ice EXCEPT ![entry] = "checking"]
       ELSE UNCHANGED <<remote, awaiting, ice>>
    /\ UNCHANGED <<made, entry, budget, creating, local, outbox, wire, agent, disturbed>>

-----------------------------------------------------------------------------
(* The webrtcbins' own threads.                                            *)

\* Mutant: the offer is sent, but not set as the local description.
OfferReady_NotSet(s) ==
    /\ creating[s] > 0
    /\ creating' = [creating EXCEPT ![s] = @ - 1]
    /\ local' = [local EXCEPT ![s] = @ + 1]
    /\ IF entry # 0
       THEN /\ outbox' = [outbox EXCEPT ![entry] = Append(@, <<s, local[s] + 1>>)]
            /\ disturbed' = (s # entry \/ ExchangeOpen)
       ELSE UNCHANGED <<outbox, disturbed>>
    /\ UNCHANGED <<made, entry, budget, awaiting, remote, ice, wire, back, agent>>

\* Mutant: only the first offer of a webrtcbin is sent.
OfferReady_RestartNotSent(s) ==
    /\ creating[s] > 0
    /\ creating' = [creating EXCEPT ![s] = @ - 1]
    /\ local' = [local EXCEPT ![s] = @ + 1]
    /\ awaiting' = [awaiting EXCEPT ![s] = TRUE]
    /\ IF entry # 0 /\ local[s] = 0
       THEN /\ outbox' = [outbox EXCEPT ![entry] = Append(@, <<s, local[s] + 1>>)]
            /\ disturbed' = (s # entry \/ ExchangeOpen)
       ELSE UNCHANGED <<outbox, disturbed>>
    /\ UNCHANGED <<made, entry, budget, remote, ice, wire, back, agent>>

\* The create-offer promise, of the first offer or of a restart: the offer is
\* set on the webrtcbin that made it and sent by the channel of the entry.
OfferReady(s) ==
    /\ creating[s] > 0
    /\ creating' = [creating EXCEPT ![s] = @ - 1]
    /\ local' = [local EXCEPT ![s] = @ + 1]
    /\ awaiting' = [awaiting EXCEPT ![s] = TRUE]
    /\ IF entry # 0
       THEN /\ outbox' = [outbox EXCEPT ![entry] = Append(@, <<s, local[s] + 1>>)]
            /\ disturbed' = (s # entry \/ ExchangeOpen)
       ELSE UNCHANGED <<outbox, disturbed>>
    /\ UNCHANGED <<made, entry, budget, remote, ice, wire, back, agent>>

\* It replies with an error, which is logged.
OfferFails(s) ==
    /\ creating[s] > 0
    /\ creating' = [creating EXCEPT ![s] = @ - 1]
    /\ disturbed' = TRUE
    /\ UNCHANGED <<made, entry, budget, local, awaiting, remote, ice, transit, agent>>

\* Connected or Completed: the two ends hold the same offer and its answer.
\* The restart budget of the viewer is given back.
IceConnects(s) ==
    /\ ice[s] = "checking"
    /\ heard = remote[s] /\ heard[1] = s
    /\ ice' = [ice EXCEPT ![s] = "up"]
    /\ attempts' = IF entry # 0 THEN 0 ELSE attempts
    /\ UNCHANGED <<made, entry, since, creating, local, awaiting, remote, transit, agent,
                   disturbed>>

\* A lost connection that comes back by itself does the same.
IceReturns(s) ==
    /\ ice[s] \in {"lost", "left"}
    /\ heard = remote[s] /\ heard[1] = s
    /\ ice' = [ice EXCEPT ![s] = "up"]
    /\ attempts' = IF entry # 0 THEN 0 ELSE attempts
    /\ UNCHANGED <<made, entry, since, creating, local, awaiting, remote, transit, agent,
                   disturbed>>

\* Mutant: the attempts are not counted against the budget.
MayRestart_Unbounded == entry # 0 /\ since = Cooldown

\* The budget and the cooldown of the entry.
MayRestart == entry # 0 /\ attempts < MaxAttempts /\ since = Cooldown

\* Mutant: the attempt is charged, and no offer asked for.
IceLost_Charged(s) ==
    /\ ice[s] \in {"checking", "up"}
    /\ local[s] + creating[s] < MaxOffers
    /\ IF MayRestart
       THEN /\ attempts' = attempts + 1
            /\ since' = 0
            /\ ice' = [ice EXCEPT ![s] = "lost"]
            /\ UNCHANGED creating
       ELSE /\ ice' = [ice EXCEPT ![s] = "left"]
            /\ UNCHANGED <<budget, creating>>
    /\ UNCHANGED <<made, entry, local, awaiting, remote, transit, agent, disturbed>>

\* Disconnected, and maybe_ice_restart: any webrtcbin of the viewer is charged
\* to the entry.  A restart that is refused here is not tried again.
IceLost(s) ==
    /\ ice[s] \in {"checking", "up"}
    /\ local[s] + creating[s] < MaxOffers
    /\ IF MayRestart
       THEN /\ attempts' = attempts + 1
            /\ since' = 0
            /\ ice' = [ice EXCEPT ![s] = "lost"]
            /\ creating' = [creating EXCEPT ![s] = @ + 1]
       ELSE /\ ice' = [ice EXCEPT ![s] = "left"]
            /\ UNCHANGED <<budget, creating>>
    /\ UNCHANGED <<made, entry, local, awaiting, remote, transit, agent, disturbed>>

\* Failed is logged and reported, and nothing else.
IceFails(s) ==
    /\ ice[s] \in {"checking", "lost", "left"}
    /\ ice' = [ice EXCEPT ![s] = "failed"]
    /\ UNCHANGED <<made, entry, budget, creating, local, awaiting, remote, transit, agent,
                   disturbed>>

Tick ==
    /\ entry # 0 /\ since < Cooldown
    /\ since' = since + 1
    /\ UNCHANGED <<made, entry, attempts, bins, transit, agent, disturbed>>

-----------------------------------------------------------------------------
(* The forwarding thread of a session, and the relay.                      *)

\* An offer without a signaling client, or whose emit fails, is gone.
Forward(s, delivered) ==
    /\ outbox[s] # <<>>
    /\ outbox' = [outbox EXCEPT ![s] = Tail(@)]
    /\ wire' = IF delivered THEN Append(wire, Head(outbox[s])) ELSE wire
    /\ disturbed' = (disturbed \/ ~delivered)
    /\ UNCHANGED <<made, entry, budget, bins, back, agent>>

-----------------------------------------------------------------------------
(* The viewer agent.                                                       *)

\* connect() has returned.
AgentStoresClient ==
    /\ ~stored
    /\ stored' = TRUE
    /\ UNCHANGED <<made, entry, budget, bins, transit, asked, heard, open, owed, disturbed>>

\* The library reconnects and the agent asks again.  The relay may or may not
\* have told the gateway that the viewer was gone; what it had for the agent
\* is lost.
AgentReconnects(told) ==
    /\ asked < MaxSessions
    /\ asked' = asked + 1
    /\ back' = back \o IF told THEN <<Disconnect, Request>> ELSE <<Request>>
    /\ wire' = <<>>
    /\ disturbed' = (disturbed \/ wire # <<>>)
    /\ UNCHANGED <<made, entry, budget, bins, outbox, stored, heard, open, owed>>

\* handle_offer: the offer is applied, and an answer asked for.
AgentHears ==
    /\ wire # <<>>
    /\ wire' = Tail(wire)
    /\ heard' = Head(wire)
    /\ open' = TRUE
    /\ owed' = owed + 1
    /\ UNCHANGED <<made, entry, budget, bins, outbox, back, asked, stored, disturbed>>

\* create_and_send_answer: the answer is to the offer applied last.
AgentAnswers ==
    /\ owed > 0 /\ open /\ stored
    /\ owed' = owed - 1
    /\ open' = FALSE
    /\ back' = Append(back, heard)
    /\ UNCHANGED <<made, entry, budget, bins, outbox, wire, asked, stored, heard, disturbed>>

\* It is made but does not arrive: there is no client yet, the emit fails, or
\* the relay has lost the gateway.
AnswerLost ==
    /\ owed > 0 /\ open
    /\ owed' = owed - 1
    /\ open' = FALSE
    /\ disturbed' = TRUE
    /\ UNCHANGED <<made, entry, budget, bins, transit, asked, stored, heard>>

\* An earlier create-answer has answered this offer too: there is none to make.
NothingToAnswer ==
    /\ owed > 0 /\ ~open
    /\ owed' = owed - 1
    /\ UNCHANGED <<made, entry, budget, bins, transit, asked, stored, heard, open, disturbed>>

-----------------------------------------------------------------------------

Callback == HandleRequest \/ HandleDisconnect \/ HandleAnswer
Agent == AgentHears \/ AgentAnswers \/ AnswerLost \/ NothingToAnswer

Next ==
    \/ Callback
    \/ \E s \in Sessions : OfferReady(s)
    \/ \E s \in Sessions : OfferFails(s)
    \/ \E s \in Sessions : IceConnects(s)
    \/ \E s \in Sessions : IceReturns(s)
    \/ \E s \in Sessions : IceLost(s)
    \/ \E s \in Sessions : IceFails(s)
    \/ Tick
    \/ \E s \in Sessions, delivered \in BOOLEAN : Forward(s, delivered)
    \/ AgentStoresClient
    \/ \E told \in BOOLEAN : AgentReconnects(told)
    \/ Agent

\* The threads of the gateway and of the agent are scheduled, and a promise is
\* replied to.  Nothing is assumed of the network below ICE, or of the clock.
Fairness ==
    /\ WF_vars(Callback)
    /\ \A s \in Sessions : WF_vars(OfferReady(s) \/ OfferFails(s))
    /\ \A s \in Sessions : WF_vars(\E delivered \in BOOLEAN : Forward(s, delivered))
    /\ WF_vars(Agent)

Spec == Init /\ [][Next]_vars
FairSpec == Spec /\ Fairness

-----------------------------------------------------------------------------
(* Properties.                                                             *)

\* The state keeps its shape, and the budget its bounds.
TypeOK ==
    /\ made \in 0..asked /\ asked \in 1..MaxSessions
    /\ entry \in 0..made
    /\ attempts \in 0..MaxAttempts /\ since \in 0..Cooldown
    /\ creating \in [Sessions -> 0..MaxOffers]
    /\ local \in [Sessions -> 0..MaxOffers]
    /\ awaiting \in [Sessions -> BOOLEAN]
    /\ remote \in [Sessions -> Offers \cup {None}]
    /\ ice \in [Sessions -> {"new", "checking", "up", "lost", "left", "failed", "closed"}]
    /\ outbox \in [Sessions -> Seq(Offers)]
    /\ wire \in Seq(Offers)
    /\ back \in Seq(Offers \cup {Request, Disconnect})
    /\ stored \in BOOLEAN /\ open \in BOOLEAN /\ disturbed \in BOOLEAN
    /\ heard \in Offers \cup {None}
    /\ owed \in Nat

Agreed(s) == ~awaiting[s] /\ remote[s] = <<s, local[s]>>

\* Once nothing is under way, the viewer holds the last offer of the session
\* in the map and that session the answer to it, although no message says
\* which offer it belongs to.  The one way around it, short of a lost message,
\* is an offer made while another exchange was open, or by the webrtcbin of a
\* replaced session.
SettledAgrees ==
    (/\ entry # 0
     /\ \A s \in Sessions : creating[s] = 0
     /\ ~ExchangeOpen
     /\ ~disturbed) => (heard = <<entry, local[entry]>> /\ Agreed(entry))

\* A session that has an offer to make or one unanswered comes to agree with
\* the viewer, unless a message is lost, exchanges overlap or the session goes.
NegotiationCompletes ==
    \A s \in Sessions :
        (entry = s /\ (creating[s] > 0 \/ awaiting[s]))
            ~> (Agreed(s) \/ disturbed \/ entry # s)

\* A lost connection whose restart was granted does not stay lost: the offer
\* is made, answered and checked, or one of the same things comes between.
GrantedRestartRuns ==
    \A s \in Sessions :
        (ice[s] = "lost" /\ entry = s) ~> (ice[s] # "lost" \/ disturbed \/ entry # s)

=============================================================================
