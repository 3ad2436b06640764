----------------------- MODULE FederatedRuntimeProofs -----------------------
(***************************************************************************)
(* The safety properties of FederatedRuntime for any peers, any number of  *)
(* links, and any limits of heartbeats, attempts and connections.          *)
(*                                                                         *)
(* The inductive invariant says of each link how the state of the table,   *)
(* the RTCPeerConnection and the suspended method go together (Coherent),  *)
(* whoever holds the link; of a link the runtime keeps, that it is made    *)
(* for the peer it is kept for and that the table has followed it up       *)
(* (Tracked); and of the owner of the relay handler, that it is waiting    *)
(* for an answer or already open.                                          *)
(***************************************************************************)
EXTENDS FederatedRuntime, TLAPS

Coherent(c) ==
  /\ c.state \in {"idle", "connecting", "awaiting_answer", "connected", "disconnected"}
  /\ c.heartbeat => c.rtc \in {"up", "lost"}
  /\ c.rtc = "new" => c.state \in {"connecting", "awaiting_answer"}
  /\ c.rtc \in {"answered", "up", "lost"} => c.state \in {"connected", "disconnected"}
  /\ c.state = "connected" => c.rtc \in {"answered", "up"}
  /\ c.task \in {"joining", "reopening"} => c.rtc = "new" /\ c.state = "connecting"
  /\ c.task = "sleeping" => c.rtc = "none" /\ c.state = "disconnected"

Tracked(c) ==
  /\ c.rtc \in {"answered", "up"} => c.state = "connected"
  /\ c.rtc # "lost"

Waiting(c) == c.rtc # "none" /\ (c.rtc = "new" => c.state = "awaiting_answer")

LinksCoherent == \A l \in Link : Coherent(connection[l])
UnmadeAreNew  == \A l \in Link : remotePeerId[l] = NoPeer => connection[l] = NewConnection
KeptTracked   == \A p \in Peer : peerConnections[p] # NoLink =>
                   /\ remotePeerId[peerConnections[p]] = p
                   /\ Tracked(connection[peerConnections[p]])
RelayWaits    == relay # NoLink => Waiting(connection[relay])
OnlineIsKept  == \A p \in Peer : directory[p] = "online" <=> peerConnections[p] # NoLink

IInv == TypeOK /\ LinksCoherent /\ UnmadeAreNew /\ KeptTracked /\ RelayWaits /\ OnlineIsKept
-----------------------------------------------------------------------------
(* What the methods of a connection do to the three predicates.            *)

LEMMA NewFacts == NewConnection \in Connection /\ Coherent(NewConnection)
  BY ConnectionAssumption DEF NewConnection, Connection, Coherent, PeerConnectionState

(* The rows of the table the runtime's connections use.                    *)
LEMMA AfterFacts ==
  /\ \A s \in {"idle", "disconnected"} : After(s, "connect_requested") = "connecting"
  /\ After("connecting", "offer_sent") = "awaiting_answer"
  /\ After("awaiting_answer", "answer_received") = "connected"
  /\ \A s \in {"awaiting_answer", "connected"} :
       Valid(s, "heartbeat_timeout") /\ After(s, "heartbeat_timeout") = "disconnected"
  /\ \A s \in {"idle", "connecting", "disconnected"} :
       ~Valid(s, "heartbeat_timeout") /\ After(s, "heartbeat_timeout") = s
  /\ After(After("connected", "disconnect_requested"), "disconnected") = "disconnected"
  /\ \A s \in {"idle", "connecting", "awaiting_answer", "disconnected"} :
       After(After(s, "disconnect_requested"), "disconnected") = s
  BY DEF After, Valid, TRANSITIONS

LEMMA ConnectFacts ==
  ASSUME NEW c \in Connection, Coherent(c), NEW t \in {"joining", "reopening"},
         c = NewConnection \/ c.task = "sleeping"
  PROVE  LET d == ConnectAsOfferer(c, t)
         IN  d \in Connection /\ Coherent(d) /\ d.rtc = "new" /\ d.state = "connecting"
<1>1. c.state \in {"idle", "disconnected"} /\ c.heartbeat = FALSE
  BY DEF NewConnection, Coherent, Connection
<1>2. After(c.state, "connect_requested") = "connecting"
  BY <1>1, AfterFacts
<1> QED
  BY <1>1, <1>2 DEF ConnectAsOfferer, Connection, Coherent, PeerConnectionState

LEMMA OfferFacts ==
  ASSUME NEW c \in Connection, Coherent(c), c.task \in {"joining", "reopening"}
  PROVE  LET d == OfferSent(c)
         IN  d \in Connection /\ Coherent(d) /\ Waiting(d) /\ d.rtc = "new"
  BY AfterFacts DEF OfferSent, Connection, Coherent, Waiting, PeerConnectionState

LEMMA AnswerFacts ==
  ASSUME NEW c \in Connection, Coherent(c), Waiting(c), c.rtc = "new"
  PROVE  LET d == AnswerReceived(c)
         IN  d \in Connection /\ Coherent(d) /\ Waiting(d) /\ Tracked(d)
  BY AfterFacts DEF AnswerReceived, Connection, Coherent, Waiting, Tracked, PeerConnectionState

LEMMA UpFacts ==
  ASSUME NEW c \in Connection, Coherent(c), c.rtc \in {"answered", "lost"}
  PROVE  LET d == StartHeartbeat(c)
         IN  d \in Connection /\ Coherent(d) /\ Waiting(d) /\ (Tracked(c) => Tracked(d))
<1> DEFINE d == StartHeartbeat(c)
<1>1. d \in Connection
  <2>1. 0 \in 0 .. MaxMissed + 1 /\ "up" \in {"none", "new", "answered", "up", "lost"}
    BY ConnectionAssumption
  <2> QED BY <2>1 DEF StartHeartbeat, Connection
<1>2. /\ d.rtc = "up" /\ d.state = c.state /\ d.task = c.task
  BY DEF StartHeartbeat, Connection
<1> QED
  BY <1>1, <1>2 DEF Connection, Coherent, Waiting, Tracked

LEMMA BeatFacts ==
  ASSUME NEW c \in Connection, Coherent(c)
  PROVE  LET d == Beat(c)
         IN  /\ d \in Connection /\ Coherent(d)
             /\ d.rtc = c.rtc /\ d.state = c.state /\ d.attempts = c.attempts
             /\ d.heartbeat = c.heartbeat /\ d.task = c.task
  BY ConnectionAssumption DEF Beat, Connection, Coherent, PeerConnectionState

LEMMA DisconnectFacts ==
  ASSUME NEW c \in Connection, Coherent(c)
  PROVE  LET d == Disconnect(c)
         IN  /\ d \in Connection /\ Coherent(d) /\ d.rtc = "none"
             /\ d.attempts = c.attempts /\ d.heartbeat = FALSE
             /\ c.state \in {"connected", "disconnected"} => d.state = "disconnected"
  BY AfterFacts DEF Disconnect, Connection, Coherent, PeerConnectionState

(* A connection that is lost, whose state has timed out.                   *)
LEMMA LostFacts ==
  ASSUME NEW c \in Connection, Coherent(c), c.rtc \in {"answered", "up"}
  PROVE  LET d == [TimedOut(c) EXCEPT !.rtc = "lost"]
         IN  d \in Connection /\ Coherent(d) /\ Waiting(d)
  BY AfterFacts DEF TimedOut, Connection, Coherent, Waiting, PeerConnectionState

LEMMA TimedOutFacts ==
  ASSUME NEW c \in Connection, Coherent(c), c.heartbeat
  PROVE  LET d == TimedOut(Beat(c))
         IN  /\ d \in Connection /\ Coherent(d) /\ Waiting(d)
             /\ d.rtc = c.rtc /\ d.state = "disconnected" /\ d.attempts = c.attempts
  BY BeatFacts, AfterFacts
     DEF TimedOut, Connection, Coherent, Waiting, PeerConnectionState

LEMMA ReconnectFacts ==
  ASSUME NEW c \in Connection, Coherent(c), c.state = "disconnected"
  PROVE  LET d == Reconnect(c)
         IN  /\ d \in Connection /\ Coherent(d)
             /\ IF c.attempts < MaxAttempts THEN d.rtc = "none" ELSE d = c
<1> DEFINE d == Disconnect(c)
<1>1. /\ d \in Connection /\ Coherent(d) /\ d.rtc = "none" /\ d.heartbeat = FALSE
      /\ d.attempts = c.attempts /\ d.state = "disconnected"
  BY DisconnectFacts
<1>2. CASE c.attempts >= MaxAttempts
  BY <1>2, ConnectionAssumption DEF Reconnect, Connection
<1>3. CASE ~(c.attempts >= MaxAttempts)
  <2> HIDE DEF d
  <2> DEFINE e == [d EXCEPT !.attempts = d.attempts + 1, !.task = "sleeping"]
  <2>1. Reconnect(c) = e
    BY <1>3 DEF Reconnect, d
  <2>2. d.attempts + 1 \in 0 .. MaxAttempts
    BY <1>1, <1>3, ConnectionAssumption DEF Connection
  <2>3. e \in Connection /\ Coherent(e) /\ e.rtc = "none"
    BY <1>1, <2>2 DEF Connection, Coherent
  <2> QED BY <2>1, <2>3, <1>3, ConnectionAssumption DEF Connection
<1> QED BY <1>2, <1>3
-----------------------------------------------------------------------------
(* The two shapes of a step: one link moves and the runtime's books stay,  *)
(* or the runtime forgets a peer and only links of that peer move.         *)

LEMMA LocalStep ==
  ASSUME IInv,
         NEW l \in Link, NEW d \in Connection, Coherent(d), remotePeerId[l] # NoPeer,
         Tracked(connection[l]) => Tracked(d),
         connection' = [connection EXCEPT ![l] = d],
         relay' \in {relay, l, NoLink}, relay' = l => Waiting(d),
         sessions' \subseteq Peer,
         UNCHANGED <<started, remotePeerId, peerConnections, directory, silent>>
  PROVE  IInv'
<1>1. TypeOK'
  BY DEF IInv, TypeOK
<1>2. LinksCoherent'
  BY DEF IInv, TypeOK, LinksCoherent
<1>3. UnmadeAreNew'
  BY DEF IInv, TypeOK, UnmadeAreNew
<1>4. KeptTracked'
  BY DEF IInv, TypeOK, KeptTracked
<1>5. RelayWaits'
  BY DEF IInv, TypeOK, RelayWaits
<1>6. OnlineIsKept'
  BY DEF IInv, OnlineIsKept
<1> QED BY <1>1, <1>2, <1>3, <1>4, <1>5, <1>6 DEF IInv

LEMMA DropStep ==
  ASSUME IInv,
         NEW p \in Peer, Forget(p),
         connection' \in [Link -> Connection],
         \A k \in Link : Coherent(connection'[k]),
         \A k \in Link : remotePeerId[k] # p => connection'[k] = connection[k],
         relay' \in {relay, NoLink},
         relay' # NoLink => Waiting(connection'[relay]),
         UNCHANGED <<started, remotePeerId, silent>>
  PROVE  IInv'
<1>1. TypeOK'
  BY DEF IInv, TypeOK, Forget
<1>2. LinksCoherent'
  BY DEF LinksCoherent
<1>3. UnmadeAreNew'
  BY RuntimeAssumption DEF IInv, UnmadeAreNew
<1>4. KeptTracked'
  <2> SUFFICES ASSUME NEW q \in Peer, peerConnections'[q] # NoLink
               PROVE  /\ remotePeerId[peerConnections'[q]] = q
                      /\ Tracked(connection'[peerConnections'[q]])
    BY DEF KeptTracked
  <2>1. q # p /\ peerConnections'[q] = peerConnections[q]
    BY DEF IInv, TypeOK, Forget
  <2>2. peerConnections[q] \in Link /\ remotePeerId[peerConnections[q]] = q
    BY <2>1 DEF IInv, TypeOK, KeptTracked
  <2> QED BY <2>1, <2>2 DEF IInv, KeptTracked
<1>5. RelayWaits'
  BY DEF RelayWaits
<1>6. OnlineIsKept'
  BY DEF IInv, TypeOK, OnlineIsKept, Forget
<1> QED BY <1>1, <1>2, <1>3, <1>4, <1>5, <1>6 DEF IInv

(* A link that has done anything was made for a peer.                      *)
LEMMA MadeFor ==
  ASSUME IInv, NEW l \in Link,
         connection[l].rtc # "none" \/ connection[l].task # "none" \/ connection[l].heartbeat
  PROVE  remotePeerId[l] \in Peer /\ remotePeerId[l] # NoPeer
  BY RuntimeAssumption DEF IInv, TypeOK, UnmadeAreNew, NewConnection

(* What handlePeerDisconnect leaves of the links it is given.              *)
LEMMA DroppedFacts ==
  ASSUME IInv, NEW p \in Peer, NEW conns \in [Link -> Connection],
         \A k \in Link : Coherent(conns[k])
  PROVE  /\ AfterDrop(conns, p) \in [Link -> Connection]
         /\ \A k \in Link : Coherent(AfterDrop(conns, p)[k])
         /\ \A k \in Link : remotePeerId[k] # p => AfterDrop(conns, p)[k] = conns[k]
         /\ p \notin Kept => AfterDrop(conns, p) = conns
         /\ \A k \in Link : /\ AfterDrop(conns, p)[k].attempts = conns[k].attempts
                            /\ conns[k].state = "disconnected"
                                 => AfterDrop(conns, p)[k].state = "disconnected"
<1>1. CASE p \notin Kept
  BY <1>1 DEF AfterDrop
<1>2. CASE p \in Kept
  <2> DEFINE m == peerConnections[p]
  <2>1. m \in Link /\ remotePeerId[m] = p
    BY <1>2 DEF Kept, IInv, TypeOK, KeptTracked
  <2> DEFINE d == Disconnect(conns[m])
  <2>2. /\ d \in Connection /\ Coherent(d) /\ d.attempts = conns[m].attempts
        /\ conns[m].state = "disconnected" => d.state = "disconnected"
    BY <2>1, DisconnectFacts
  <2>3. AfterDrop(conns, p) = [conns EXCEPT ![m] = d]
    BY <1>2 DEF AfterDrop
  <2> HIDE DEF m, d
  <2> QED BY <1>2, <2>1, <2>2, <2>3
<1> QED BY <1>1, <1>2
-----------------------------------------------------------------------------
(* One lemma for each group of actions.                                    *)

LEMMA InitInv == Init => IInv
<1> SUFFICES ASSUME Init PROVE IInv
  OBVIOUS
<1>1. TypeOK
  BY NewFacts DEF Init, TypeOK
<1>2. LinksCoherent
  BY NewFacts DEF Init, LinksCoherent
<1> QED
  BY <1>1, <1>2 DEF Init, IInv, UnmadeAreNew, KeptTracked, RelayWaits, OnlineIsKept

LEMMA JoinInv ==
  ASSUME IInv, NEW p \in Peer, Join(p)
  PROVE  IInv'
<1> PICK l \in Link : /\ remotePeerId[l] = NoPeer
                      /\ remotePeerId' = [remotePeerId EXCEPT ![l] = p]
                      /\ connection' = [connection EXCEPT ![l] = ConnectAsOfferer(@, "joining")]
                      /\ peerConnections' = [peerConnections EXCEPT ![p] = l]
  BY DEF Join
<1> DEFINE d == ConnectAsOfferer(connection[l], "joining")
<1>1. /\ d \in Connection /\ Coherent(d) /\ d.rtc = "new" /\ d.state = "connecting"
  <2>1. connection[l] \in Connection /\ Coherent(connection[l]) /\ connection[l] = NewConnection
    BY DEF IInv, TypeOK, LinksCoherent, UnmadeAreNew
  <2> QED BY <2>1, ConnectFacts
<1>2. connection' = [connection EXCEPT ![l] = d]
  OBVIOUS
<1> HIDE DEF d
<1>3. TypeOK'
  BY <1>1, <1>2 DEF IInv, TypeOK, Join
<1>4. LinksCoherent'
  BY <1>1, <1>2 DEF IInv, TypeOK, LinksCoherent
<1>5. UnmadeAreNew'
  BY <1>2, RuntimeAssumption DEF IInv, TypeOK, UnmadeAreNew
<1>6. KeptTracked'
  <2> SUFFICES ASSUME NEW q \in Peer, peerConnections'[q] # NoLink
               PROVE  /\ remotePeerId'[peerConnections'[q]] = q
                      /\ Tracked(connection'[peerConnections'[q]])
    BY DEF KeptTracked
  <2>1. CASE q = p
    BY <2>1, <1>1, <1>2 DEF IInv, TypeOK, Tracked
  <2>2. CASE q # p
    <3>1. /\ peerConnections'[q] = peerConnections[q]
          /\ peerConnections[q] \in Link
          /\ remotePeerId[peerConnections[q]] = q
          /\ Tracked(connection[peerConnections[q]])
      BY <2>2 DEF IInv, TypeOK, KeptTracked
    <3>2. peerConnections[q] # l
      BY <3>1, RuntimeAssumption
    <3> QED BY <3>1, <3>2, <1>2 DEF IInv, TypeOK
  <2> QED BY <2>1, <2>2
<1>7. RelayWaits'
  <2> SUFFICES ASSUME relay # NoLink PROVE Waiting(connection'[relay])
    BY DEF RelayWaits, Join
  <2>1. relay \in Link /\ Waiting(connection[relay])
    BY DEF IInv, TypeOK, RelayWaits
  <2>2. relay # l
    BY <2>1 DEF IInv, UnmadeAreNew, NewConnection, Waiting
  <2> QED BY <2>1, <2>2, <1>2 DEF IInv, TypeOK
<1>8. OnlineIsKept'
  BY RuntimeAssumption DEF IInv, TypeOK, OnlineIsKept, Join
<1> QED BY <1>3, <1>4, <1>5, <1>6, <1>7, <1>8 DEF IInv

LEMMA OfferInv ==
  ASSUME IInv, NEW l \in Link, OfferMade(l) \/ OfferFails(l)
  PROVE  IInv'
<1>1. /\ connection[l] \in Connection /\ Coherent(connection[l])
      /\ connection[l].task \in {"joining", "reopening"}
      /\ remotePeerId[l] \in Peer /\ remotePeerId[l] # NoPeer
      /\ relay \in Link \cup {NoLink} /\ sessions \subseteq Peer
  BY MadeFor DEF IInv, TypeOK, LinksCoherent, OfferMade, OfferFails
<1>2. CASE OfferMade(l)
  <2> DEFINE d == OfferSent(connection[l])
  <2>1. d \in Connection /\ Coherent(d) /\ Waiting(d) /\ d.rtc = "new"
    BY <1>1, OfferFacts
  <2>2. connection' = [connection EXCEPT ![l] = d]
    BY <1>2 DEF OfferMade
  <2>3. Tracked(d)
    BY <2>1 DEF Tracked
  <2>4. relay' = l /\ sessions' \subseteq Peer
    BY <1>1, <1>2 DEF OfferMade
  <2>5. UNCHANGED <<started, remotePeerId, peerConnections, directory, silent>>
    BY <1>2 DEF OfferMade
  <2> HIDE DEF d
  <2> QED BY <1>1, <2>1, <2>2, <2>3, <2>4, <2>5, LocalStep
<1>3. CASE OfferFails(l)
  <2> DEFINE c == connection[l]
             d == [c EXCEPT !.task = "none"]
  <2>1. /\ d \in Connection /\ Coherent(d) /\ (Tracked(c) => Tracked(d))
        /\ (Waiting(c) => Waiting(d))
    BY <1>1 DEF Connection, Coherent, Tracked, Waiting
  <2>2. connection' = [connection EXCEPT ![l] = d]
    BY <1>3 DEF OfferFails
  <2>3. relay' = relay /\ sessions' = sessions
    BY <1>3 DEF OfferFails
  <2>4. relay' = l => Waiting(d)
    BY <2>1, <2>3, RuntimeAssumption DEF IInv, RelayWaits
  <2>5. UNCHANGED <<started, remotePeerId, peerConnections, directory, silent>>
    BY <1>3 DEF OfferFails
  <2> HIDE DEF d
  <2> QED BY <1>1, <2>1, <2>2, <2>3, <2>4, <2>5, LocalStep
<1> QED BY <1>2, <1>3

(* The actions that move one link and leave the runtime's books alone.     *)
LEMMA LinkInv ==
  ASSUME IInv, NEW l \in Link,
         Answer(l) \/ Heartbeat(l) \/ RtcConnected(l) \/ Tick(l) \/ Wake(l)
  PROVE  IInv'
<1> DEFINE c == connection[l]
<1>1. c \in Connection /\ Coherent(c) /\ relay \in Link \cup {NoLink} /\ sessions \subseteq Peer
  BY DEF IInv, TypeOK, LinksCoherent
<1>2. relay = l => Waiting(c)
  BY RuntimeAssumption DEF IInv, RelayWaits
<1>3. remotePeerId[l] # NoPeer
  BY MadeFor DEF Answer, Heartbeat, Hears, RtcConnected, Tick, Wake
<1>4. UNCHANGED <<started, remotePeerId, peerConnections, directory, sessions, relay, silent>>
  BY DEF Answer, Heartbeat, RtcConnected, Tick, Wake
<1>5. SUFFICES ASSUME NEW d \in Connection, Coherent(d), Tracked(c) => Tracked(d),
                      relay = l => Waiting(d),
                      connection' = [connection EXCEPT ![l] = d]
               PROVE  IInv'
  <2>1. CASE Answer(l)
    <3>1. relay = l /\ c.rtc = "new" /\ connection' = [connection EXCEPT ![l] = AnswerReceived(c)]
      BY <2>1 DEF Answer, Hears
    <3> QED BY <1>1, <1>2, <1>5, <3>1, AnswerFacts
  <2>2. CASE Heartbeat(l)
    <3> DEFINE d == [c EXCEPT !.missed = 0]
    <3>1. 0 \in 0 .. MaxMissed + 1
      BY ConnectionAssumption
    <3>2. d \in Connection
      BY <1>1, <3>1 DEF Connection
    <3>3. Coherent(d) /\ (Tracked(c) => Tracked(d)) /\ (Waiting(c) => Waiting(d))
      BY <1>1 DEF Connection, Coherent, Tracked, Waiting
    <3>4. connection' = [connection EXCEPT ![l] = d]
      BY <2>2 DEF Heartbeat
    <3> HIDE DEF d
    <3> QED BY <1>2, <1>5, <3>2, <3>3, <3>4
  <2>3. CASE RtcConnected(l)
    <3>1. /\ c.rtc \in {"answered", "lost"}
          /\ connection' = [connection EXCEPT ![l] = StartHeartbeat(c)]
      BY <2>3 DEF RtcConnected
    <3> QED BY <1>1, <1>5, <3>1, UpFacts
  <2>4. CASE Tick(l)
    <3> DEFINE d == Beat(c)
    <3>1. /\ d \in Connection /\ Coherent(d) /\ d.rtc = c.rtc /\ d.state = c.state
      BY <1>1, BeatFacts
    <3>2. (Tracked(c) => Tracked(d)) /\ (Waiting(c) => Waiting(d))
      BY <3>1 DEF Tracked, Waiting
    <3>3. connection' = [connection EXCEPT ![l] = d]
      BY <2>4 DEF Tick
    <3> HIDE DEF d
    <3> QED BY <1>2, <1>5, <3>1, <3>2, <3>3
  <2>5. CASE Wake(l)
    <3> DEFINE d == ConnectAsOfferer(c, "reopening")
    <3>1. c.task = "sleeping" /\ connection' = [connection EXCEPT ![l] = d]
      BY <2>5 DEF Wake
    <3>2. d \in Connection /\ Coherent(d) /\ d.rtc = "new"
      BY <1>1, <3>1, ConnectFacts
    <3>3. Tracked(d)
      BY <3>2 DEF Tracked
    <3>4. relay # l
      BY <1>1, <1>2, <3>1 DEF Coherent, Waiting
    <3> HIDE DEF d
    <3> QED BY <1>5, <3>1, <3>2, <3>3, <3>4
  <2> QED BY <2>1, <2>2, <2>3, <2>4, <2>5
<1> QED BY <1>1, <1>3, <1>4, <1>5, LocalStep

LEMMA RtcLostInv ==
  ASSUME IInv, NEW l \in Link, RtcLost(l)
  PROVE  IInv'
<1> DEFINE c    == connection[l]
           d    == [TimedOut(c) EXCEPT !.rtc = "lost"]
           lost == [connection EXCEPT ![l] = d]
           p    == remotePeerId[l]
<1>1. /\ c \in Connection /\ Coherent(c) /\ c.rtc \in {"answered", "up"}
      /\ relay \in Link \cup {NoLink} /\ sessions \subseteq Peer
  BY DEF IInv, TypeOK, LinksCoherent, RtcLost
<1>2. d \in Connection /\ Coherent(d) /\ Waiting(d)
  BY <1>1, LostFacts
<1>3. p \in Peer /\ p # NoPeer
  BY <1>1, MadeFor
<1>4. /\ lost \in [Link -> Connection]
      /\ \A k \in Link : Coherent(lost[k])
      /\ \A k \in Link : k # l => lost[k] = connection[k]
      /\ relay # NoLink => Waiting(lost[relay])
  BY <1>2 DEF IInv, TypeOK, LinksCoherent, RelayWaits
<1>5. UNCHANGED <<started, remotePeerId, silent>>
  BY DEF RtcLost
<1>6. CASE Valid(c.state, "heartbeat_timeout")
  <2>1. connection' = AfterDrop(lost, p) /\ relay' = RelayAfterDrop(p) /\ Forget(p)
    BY <1>6 DEF RtcLost
  <2>2. /\ AfterDrop(lost, p) \in [Link -> Connection]
        /\ \A k \in Link : Coherent(AfterDrop(lost, p)[k])
        /\ \A k \in Link : remotePeerId[k] # p => AfterDrop(lost, p)[k] = lost[k]
        /\ p \notin Kept => AfterDrop(lost, p) = lost
    BY <1>3, <1>4, DroppedFacts
  <2>3. relay' \in {relay, NoLink} /\ (relay' # NoLink => Waiting(connection'[relay]))
    BY <1>4, <2>1, <2>2 DEF RelayAfterDrop
  <2> HIDE DEF lost
  <2> QED BY <1>3, <1>4, <1>5, <2>1, <2>2, <2>3, DropStep
<1>7. CASE ~Valid(c.state, "heartbeat_timeout")
  <2>1. /\ connection' = lost
        /\ UNCHANGED <<peerConnections, directory, sessions, relay>>
    BY <1>7 DEF RtcLost
  <2>2. c.state = "disconnected"
    BY <1>1, <1>7, AfterFacts DEF Coherent
  <2>3. ~Tracked(c)
    BY <1>1, <2>2 DEF Tracked
  <2> HIDE DEF d
  <2> QED BY <1>1, <1>2, <1>3, <1>5, <2>1, <2>3, LocalStep
<1> QED BY <1>6, <1>7

LEMMA TickFailsInv ==
  ASSUME IInv, NEW l \in Link, TickFails(l)
  PROVE  IInv'
<1> DEFINE c      == connection[l]
           d      == TimedOut(Beat(c))
           beaten == [connection EXCEPT ![l] = d]
           p      == remotePeerId[l]
<1>1. /\ c \in Connection /\ Coherent(c) /\ c.heartbeat
      /\ relay \in Link \cup {NoLink} /\ sessions \subseteq Peer
  BY DEF IInv, TypeOK, LinksCoherent, TickFails
<1>2. /\ d \in Connection /\ Coherent(d) /\ Waiting(d)
      /\ d.state = "disconnected" /\ d.attempts = c.attempts
  BY <1>1, TimedOutFacts
<1>3. p \in Peer /\ p # NoPeer
  BY <1>1, MadeFor
<1>4. /\ beaten \in [Link -> Connection]
      /\ \A k \in Link : Coherent(beaten[k])
      /\ \A k \in Link : k # l => beaten[k] = connection[k]
      /\ relay # NoLink => Waiting(beaten[relay])
      /\ beaten[l] = d
  BY <1>2 DEF IInv, TypeOK, LinksCoherent, RelayWaits
<1>5. UNCHANGED <<started, remotePeerId, silent>>
  BY DEF TickFails
<1>6. CASE Valid(c.state, "heartbeat_timeout")
  <2> DEFINE dropped == AfterDrop(beaten, p)
             r       == Reconnect(dropped[l])
  <2>1. /\ connection' = [dropped EXCEPT ![l] = r]
        /\ relay' = IF c.attempts < MaxAttempts THEN NoLink ELSE RelayAfterDrop(p)
        /\ Forget(p)
    BY <1>6 DEF TickFails
  <2>2. /\ dropped \in [Link -> Connection]
        /\ \A k \in Link : Coherent(dropped[k])
        /\ \A k \in Link : remotePeerId[k] # p => dropped[k] = beaten[k]
        /\ p \notin Kept => dropped = beaten
        /\ dropped[l].attempts = c.attempts /\ dropped[l].state = "disconnected"
    BY <1>2, <1>3, <1>4, DroppedFacts
  <2>3. /\ r \in Connection /\ Coherent(r)
        /\ c.attempts >= MaxAttempts => r = dropped[l]
    <3>1. ~(c.attempts < MaxAttempts) <=> c.attempts >= MaxAttempts
      BY <1>1, ConnectionAssumption DEF Connection
    <3> HIDE DEF dropped
    <3> QED BY <2>2, <3>1, ReconnectFacts
  <2>4. relay' \in {relay, NoLink} /\ (relay' # NoLink => Waiting(connection'[relay]))
    <3>1. SUFFICES ASSUME relay' # NoLink PROVE relay' = relay /\ Waiting(connection'[relay])
      BY <2>1 DEF RelayAfterDrop
    <3>2. c.attempts >= MaxAttempts /\ p \notin Kept /\ relay' = relay
      <4>1. ~(c.attempts < MaxAttempts)
        BY <2>1, <3>1
      <4>2. c.attempts >= MaxAttempts
        BY <4>1, <1>1, ConnectionAssumption DEF Connection
      <4> QED BY <2>1, <3>1, <4>1, <4>2 DEF RelayAfterDrop
    <3>3. connection' = beaten
      <4> HIDE DEF dropped, r, beaten
      <4> QED BY <1>4, <2>1, <2>2, <2>3, <3>2
    <3> QED BY <1>4, <3>1, <3>2, <3>3
  <2>5. /\ connection' \in [Link -> Connection]
        /\ \A k \in Link : Coherent(connection'[k])
        /\ \A k \in Link : remotePeerId[k] # p => connection'[k] = connection[k]
    <3> HIDE DEF dropped, r, beaten
    <3> QED BY <1>4, <2>1, <2>2, <2>3
  <2> QED BY <1>3, <1>5, <2>1, <2>4, <2>5, DropStep
<1>7. CASE ~Valid(c.state, "heartbeat_timeout")
  <2> DEFINE r == Reconnect(d)
  <2>1. /\ connection' = [beaten EXCEPT ![l] = Reconnect(beaten[l])]
        /\ relay' = IF c.attempts < MaxAttempts THEN NoLink ELSE relay
        /\ UNCHANGED <<peerConnections, directory, sessions>>
    BY <1>7 DEF TickFails
  <2>2. connection' = [connection EXCEPT ![l] = r]
    <3> HIDE DEF d, r
    <3> QED BY <1>4, <2>1 DEF r
  <2>3. /\ r \in Connection /\ Coherent(r)
        /\ IF c.attempts < MaxAttempts THEN r.rtc = "none" ELSE r = d
    <3> HIDE DEF d
    <3> QED BY <1>2, ReconnectFacts
  <2>4. ~Tracked(c)
    <3>1. c.rtc \in {"up", "lost"} /\ c.state = "disconnected"
      BY <1>1, <1>7, AfterFacts DEF Coherent
    <3> QED BY <3>1 DEF Tracked
  <2>5. relay' \in {relay, l, NoLink} /\ (relay' = l => Waiting(r))
    <3> HIDE DEF d, r
    <3> QED BY <1>2, <2>1, <2>3, RuntimeAssumption
  <2> HIDE DEF r
  <2> QED BY <1>1, <1>3, <1>5, <2>1, <2>2, <2>3, <2>4, <2>5, LocalStep
<1> QED BY <1>6, <1>7

LEMMA PeerLeftInv ==
  ASSUME IInv, NEW p \in Peer, PeerLeft(p)
  PROVE  IInv'
<1>1. /\ connection \in [Link -> Connection] /\ \A k \in Link : Coherent(connection[k])
      /\ relay # NoLink => Waiting(connection[relay])
  BY DEF IInv, TypeOK, LinksCoherent, RelayWaits
<1>2. /\ connection' = AfterDrop(connection, p) /\ relay' = RelayAfterDrop(p) /\ Forget(p)
      /\ UNCHANGED <<started, remotePeerId, silent>>
  BY DEF PeerLeft
<1>3. /\ AfterDrop(connection, p) \in [Link -> Connection]
      /\ \A k \in Link : Coherent(AfterDrop(connection, p)[k])
      /\ \A k \in Link : remotePeerId[k] # p => AfterDrop(connection, p)[k] = connection[k]
      /\ p \notin Kept => AfterDrop(connection, p) = connection
  BY <1>1, DroppedFacts
<1>4. relay' \in {relay, NoLink} /\ (relay' # NoLink => Waiting(connection'[relay]))
  BY <1>1, <1>2, <1>3 DEF RelayAfterDrop
<1> QED BY <1>2, <1>3, <1>4, DropStep

LEMMA StopInv ==
  ASSUME IInv, Stop
  PROVE  IInv'
<1>1. \A l \in Link : /\ connection'[l] \in Connection /\ Coherent(connection'[l])
                      /\ remotePeerId[l] = NoPeer => connection'[l] = connection[l]
  <2> SUFFICES ASSUME NEW l \in Link
               PROVE  /\ connection'[l] \in Connection /\ Coherent(connection'[l])
                      /\ remotePeerId[l] = NoPeer => connection'[l] = connection[l]
    OBVIOUS
  <2>1. connection[l] \in Connection /\ Coherent(connection[l])
    BY DEF IInv, TypeOK, LinksCoherent
  <2>2. CASE \E p \in Peer : peerConnections[p] = l
    <3>1. remotePeerId[l] \in Peer
      BY <2>2, RuntimeAssumption DEF IInv, KeptTracked
    <3>2. connection'[l] = Disconnect(connection[l])
      BY <2>2 DEF Stop
    <3> QED BY <2>1, <3>1, <3>2, DisconnectFacts, RuntimeAssumption
  <2>3. CASE ~\E p \in Peer : peerConnections[p] = l
    <3>1. connection'[l] = connection[l]
      BY <2>3 DEF Stop
    <3> QED BY <2>1, <3>1
  <2> QED BY <2>2, <2>3
<1>2. connection' \in [Link -> Connection]
  <2>1. connection' = [l \in Link |-> connection'[l]]
    BY DEF Stop
  <2> QED BY <1>1, <2>1
<1>3. TypeOK'
  BY <1>2 DEF IInv, TypeOK, Stop
<1>4. LinksCoherent'
  BY <1>1 DEF LinksCoherent
<1>5. UnmadeAreNew'
  BY <1>1 DEF IInv, UnmadeAreNew, Stop
<1>6. KeptTracked' /\ RelayWaits' /\ OnlineIsKept'
  BY DEF KeptTracked, RelayWaits, OnlineIsKept, Stop
<1> QED BY <1>3, <1>4, <1>5, <1>6 DEF IInv

(* Nothing the invariant speaks of but started and silent changes.         *)
LEMMA QuietInv ==
  ASSUME IInv, Start \/ (\E p \in Peer : Crash(p)) \/ UNCHANGED vars
  PROVE  IInv'
<1>1. UNCHANGED <<remotePeerId, connection, peerConnections, directory, sessions, relay>>
  BY DEF Start, Crash, vars
<1>2. started' \in BOOLEAN /\ silent' \subseteq Peer
  BY DEF IInv, TypeOK, Start, Crash, vars
<1> QED
  BY <1>1, <1>2
     DEF IInv, TypeOK, LinksCoherent, UnmadeAreNew, KeptTracked, RelayWaits, OnlineIsKept
-----------------------------------------------------------------------------
THEOREM RuntimeInvariant == Spec => []IInv
<1>1. IInv /\ [Next]_vars => IInv'
  <2> SUFFICES ASSUME IInv, [Next]_vars PROVE IInv'
    OBVIOUS
  <2>1. CASE Stop
    BY <2>1, StopInv
  <2>2. ASSUME NEW p \in Peer, Join(p) PROVE IInv'
    BY <2>2, JoinInv
  <2>3. ASSUME NEW p \in Peer, PeerLeft(p) PROVE IInv'
    BY <2>3, PeerLeftInv
  <2>4. ASSUME NEW l \in Link, OfferMade(l) \/ OfferFails(l) PROVE IInv'
    BY <2>4, OfferInv
  <2>5. ASSUME NEW l \in Link,
               Answer(l) \/ Heartbeat(l) \/ RtcConnected(l) \/ Tick(l) \/ Wake(l)
        PROVE  IInv'
    BY <2>5, LinkInv
  <2>6. ASSUME NEW l \in Link, RtcLost(l) PROVE IInv'
    BY <2>6, RtcLostInv
  <2>7. ASSUME NEW l \in Link, TickFails(l) PROVE IInv'
    BY <2>7, TickFailsInv
  <2>8. CASE Start \/ (\E p \in Peer : Crash(p)) \/ UNCHANGED vars
    BY <2>8, QuietInv
  <2> QED BY <2>1, <2>2, <2>3, <2>4, <2>5, <2>6, <2>7, <2>8 DEF Next
<1> QED BY <1>1, InitInv, PTL DEF Spec

(* The state of the runtime, of all its links and of what it has written   *)
(* down stays within its types.                                            *)
THEOREM TypeCorrect == Spec => []TypeOK
<1>1. IInv => TypeOK
  BY DEF IInv
<1> QED BY <1>1, RuntimeInvariant, PTL

(* Whatever joins, leaves, fails and reconnects, the directory shows as    *)
(* online exactly the peers the runtime keeps a connection for.            *)
THEOREM DirectoryTrue == Spec => []DirectoryFollows
<1>1. IInv => DirectoryFollows
  BY DEF IInv, OnlineIsKept, DirectoryFollows, Kept
<1> QED BY <1>1, RuntimeInvariant, PTL

(* What getConnectedPeerCount counts is open, and what is up is counted.   *)
THEOREM CountTrue == Spec => []CountIsHonest
<1>1. IInv => CountIsHonest
  <2> SUFFICES ASSUME IInv, NEW p \in Kept
               PROVE  LET c == connection[peerConnections[p]]
                      IN  /\ IsConnected(c) => c.rtc # "none"
                          /\ c.rtc = "up" => IsConnected(c)
    BY DEF CountIsHonest
  <2> DEFINE c == connection[peerConnections[p]]
  <2>1. Coherent(c) /\ Tracked(c)
    BY DEF IInv, TypeOK, Kept, LinksCoherent, KeptTracked
  <2> QED BY <2>1 DEF Coherent, Tracked, IsConnected
<1> QED BY <1>1, RuntimeInvariant, PTL

(* No path out of a connection leaves its heartbeat timer running.         *)
THEOREM TimersTrue == Spec => []TimersAreLive
<1>1. IInv => TimersAreLive
  BY DEF IInv, LinksCoherent, Coherent, TimersAreLive
<1> QED BY <1>1, RuntimeInvariant, PTL

(* No path out of a connection leaves its relay handler registered.        *)
THEOREM RelayTrue == Spec => []RelayIsLive
<1>1. IInv => RelayIsLive
  BY DEF IInv, RelayWaits, Waiting, RelayIsLive
<1> QED BY <1>1, RuntimeInvariant, PTL

(* A running runtime ends the sync session of a peer in the step in which  *)
(* it stops keeping its connection.                                        *)
THEOREM SessionsTrue == Spec => SessionsEndWithPeers
<1> DEFINE Ends == \A p \in Peer : started' /\ p \in Kept /\ peerConnections'[p] = NoLink
                                  => p \notin sessions'
<1>1. ASSUME IInv, [Next]_vars PROVE Ends \/ UNCHANGED vars
  <2>1. SUFFICES ASSUME NEW p \in Peer, started', peerConnections[p] # NoLink,
                        peerConnections'[p] = NoLink, p \in sessions'
                 PROVE  FALSE
    BY DEF Kept
  <2>2. peerConnections \in [Peer -> Link \cup {NoLink}]
    BY <1>1 DEF IInv, TypeOK
  <2>3. ASSUME NEW q \in Peer, Forget(q) PROVE FALSE
    BY <2>1, <2>2, <2>3 DEF Forget
  <2>4. ASSUME NEW q \in Peer, Join(q) PROVE FALSE
    BY <2>1, <2>2, <2>4, RuntimeAssumption DEF Join
  <2>5. ASSUME NEW l \in Link, RtcLost(l) \/ TickFails(l) PROVE FALSE
    <3>1. peerConnections' = peerConnections \/ Forget(remotePeerId[l])
      BY <2>5 DEF RtcLost, TickFails
    <3>2. remotePeerId[l] \in Peer
      BY <1>1, <2>5, MadeFor DEF RtcLost, TickFails
    <3> QED BY <2>1, <2>3, <3>1, <3>2
  <2>6. peerConnections' # peerConnections /\ ~Stop
    BY <2>1 DEF Stop
  <2> QED
    BY <1>1, <2>3, <2>4, <2>5, <2>6
       DEF Next, vars, Start, PeerLeft, Crash, OfferMade, OfferFails, Answer, Heartbeat,
           RtcConnected, Tick, Wake
<1>2. IInv /\ [Next]_vars => [Ends]_vars
  BY <1>1
<1>3. Spec => [][Ends]_vars
  BY <1>2, RuntimeInvariant, PTL DEF Spec
<1> QED BY <1>3 DEF SessionsEndWithPeers
=============================================================================
