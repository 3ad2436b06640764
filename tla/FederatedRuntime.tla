-------------------------- MODULE FederatedRuntime --------------------------
(***************************************************************************)
(* A FederatedRuntime (federation/src/runtime/federated-runtime.ts) and    *)
(* the peer connections it opens: which peers it keeps a connection for,   *)
(* what its PeerDirectory and its SyncProtocol believe about them, and the *)
(* relay handler its connections register with the SignalingServer.        *)
(*                                                                         *)
(* A link is one PeerConnectionManager object.  The runtime forgets a link *)
(* when it drops it, but the object lives on: its timer, its reconnection  *)
(* and its events still run.                                               *)
(*                                                                         *)
(* Outside the program are the remote peers and the browser: they join,    *)
(* leave, answer and fall silent, and a WebRTC connection comes up or is   *)
(* lost, at any moment their protocol allows.                              *)
(***************************************************************************)
EXTENDS FiniteSets, PeerConnection

CONSTANTS Peer,      \* the remote peers
          Link,      \* the PeerConnectionManager objects; bounds how often a peer is joined
          NoLink,    \* not a link
          NoPeer,    \* not a peer
          MaxPeers   \* config.maxPeers

ASSUME RuntimeAssumption ==
  /\ NoLink \notin Link
  /\ NoPeer \notin Peer
  /\ IsFiniteSet(Peer)
  /\ MaxPeers \in Nat

VARIABLES
  started,          \* FederatedRuntime.started
  remotePeerId,     \* the peer a link was made for, or NoPeer while it does not exist
  connection,       \* the state of every link
  peerConnections,  \* peer -> the link the runtime keeps for it, or NoLink
  directory,        \* the status of a peer in the PeerDirectory, or "absent"
  sessions,         \* the peers with a session in the SyncProtocol
  relay,            \* the link whose handler is registered as `<localPeerId>:relay`, or NoLink
  silent            \* the peers that have crashed and send nothing any more

vars == <<started, remotePeerId, connection, peerConnections, directory, sessions, relay, silent>>

TypeOK ==
  /\ started \in BOOLEAN
  /\ remotePeerId \in [Link -> Peer \cup {NoPeer}]
  /\ connection \in [Link -> Connection]
  /\ peerConnections \in [Peer -> Link \cup {NoLink}]
  /\ directory \in [Peer -> {"absent", "online", "offline"}]
  /\ sessions \subseteq Peer
  /\ relay \in Link \cup {NoLink}
  /\ silent \subseteq Peer

Kept == {p \in Peer : peerConnections[p] # NoLink}

Init ==
  /\ started = FALSE
  /\ remotePeerId = [l \in Link |-> NoPeer]
  /\ connection = [l \in Link |-> NewConnection]
  /\ peerConnections = [p \in Peer |-> NoLink]
  /\ directory = [p \in Peer |-> "absent"]
  /\ sessions = {}
  /\ relay = NoLink
  /\ silent = {}
-----------------------------------------------------------------------------
(* handlePeerDisconnect(p), when the connections are as in conns.  A       *)
(* connection that was connected reports 'disconnected' while it is being  *)
(* closed, which calls handlePeerDisconnect again: the inner call finds    *)
(* the link still kept and does all of the work, so the pair has the       *)
(* effect of one.                                                          *)
AfterDrop(conns, p) ==
  IF p \in Kept
  THEN [conns EXCEPT ![peerConnections[p]] = Disconnect(@)]
  ELSE conns

(* Mutant: disconnect leaves the handler registered.                       *)
RelayStays(p) == relay

(* Every disconnect removes the one relay handler, whoever registered it.  *)
RelayAfterDrop(p) == IF p \in Kept THEN NoLink ELSE relay

(* Mutant: the directory is not told.                                      *)
ForgetQuietly(p) ==
  /\ peerConnections' = [peerConnections EXCEPT ![p] = NoLink]
  /\ sessions' = sessions \ {p}
  /\ UNCHANGED directory

(* Mutant: the session is not removed.                                     *)
ForgetButSync(p) ==
  /\ peerConnections' = [peerConnections EXCEPT ![p] = NoLink]
  /\ directory' = [directory EXCEPT ![p] = IF @ = "absent" THEN @ ELSE "offline"]
  /\ UNCHANGED sessions

Forget(p) ==
  /\ peerConnections' = [peerConnections EXCEPT ![p] = NoLink]
  /\ directory' = [directory EXCEPT ![p] = IF @ = "absent" THEN @ ELSE "offline"]
  /\ sessions' = sessions \ {p}
-----------------------------------------------------------------------------
Start ==
  /\ ~started
  /\ started' = TRUE
  /\ UNCHANGED <<remotePeerId, connection, peerConnections, directory, sessions, relay, silent>>

(* stop: only a connection that was connected reports 'disconnected' and   *)
(* so has its session removed.  The awaits of its loop are on methods that *)
(* have none, so no timer and no event comes between.                      *)
Stop ==
  /\ started
  /\ started' = FALSE
  /\ connection' = [l \in Link |-> IF \E p \in Peer : peerConnections[p] = l
                                   THEN Disconnect(connection[l])
                                   ELSE connection[l]]
  /\ peerConnections' = [p \in Peer |-> NoLink]
  /\ sessions' = {p \in sessions : p \in Kept => ~IsConnected(connection[peerConnections[p]])}
  /\ directory' = [p \in Peer |-> "absent"]
  /\ relay' = NoLink
  /\ UNCHANGED <<remotePeerId, silent>>

(* 'peer_joined' reaches initiatePeerConnection, which runs to the first   *)
(* await of connectAsOfferer.                                              *)
Join(p) ==
  /\ started
  /\ p \notin Kept
  /\ Cardinality(Kept) < MaxPeers
  /\ \E l \in Link :
       /\ remotePeerId[l] = NoPeer
       /\ remotePeerId' = [remotePeerId EXCEPT ![l] = p]
       /\ connection' = [connection EXCEPT ![l] = ConnectAsOfferer(@, "joining")]
       /\ peerConnections' = [peerConnections EXCEPT ![p] = l]
  /\ directory' = [directory EXCEPT ![p] = "online"]
  /\ UNCHANGED <<started, sessions, relay, silent>>

(* The awaits of connectAsOfferer resolve.  Its caller was                 *)
(* initiatePeerConnection, which goes on to initiateSync, or reconnect.    *)
OfferMade(l) ==
  /\ connection[l].task \in {"joining", "reopening"}
  /\ connection' = [connection EXCEPT ![l] = OfferSent(@)]
  /\ relay' = l
  /\ sessions' = IF connection[l].task = "joining" THEN sessions \cup {remotePeerId[l]} ELSE sessions
  /\ UNCHANGED <<started, remotePeerId, peerConnections, directory, silent>>

(* createOffer or setLocalDescription rejects: the error is reported, and  *)
(* the runtime keeps the link.                                             *)
OfferFails(l) ==
  /\ connection[l].task \in {"joining", "reopening"}
  /\ connection' = [connection EXCEPT ![l].task = "none"]
  /\ UNCHANGED <<started, remotePeerId, peerConnections, directory, sessions, relay, silent>>

(* The relay hands the runtime a message of the peer of the link whose     *)
(* handler is registered; the handler ignores the other peers' messages.   *)
Hears(l) == relay = l /\ connection[l].rtc # "none" /\ remotePeerId[l] \notin silent

Answer(l) ==
  /\ Hears(l)
  /\ connection[l].rtc = "new"
  /\ connection' = [connection EXCEPT ![l] = AnswerReceived(@)]
  /\ UNCHANGED <<started, remotePeerId, peerConnections, directory, sessions, relay, silent>>

(* A heartbeat of the peer.                                                *)
Heartbeat(l) ==
  /\ Hears(l)
  /\ connection[l].missed > 0
  /\ connection' = [connection EXCEPT ![l].missed = 0]
  /\ UNCHANGED <<started, remotePeerId, peerConnections, directory, sessions, relay, silent>>

RtcConnected(l) ==
  /\ connection[l].rtc \in {"answered", "lost"}
  /\ remotePeerId[l] \notin silent
  /\ connection' = [connection EXCEPT ![l] = StartHeartbeat(@)]
  /\ UNCHANGED <<started, remotePeerId, peerConnections, directory, sessions, relay, silent>>

(* onStateChange sees 'disconnected' exactly when the table has a          *)
(* heartbeat_timeout for the state, and then drops the link the runtime    *)
(* keeps for that peer, be it this one or a later one.                     *)
RtcLost(l) ==
  /\ connection[l].rtc \in {"answered", "up"}
  /\ LET lost == [connection EXCEPT ![l] = [TimedOut(@) EXCEPT !.rtc = "lost"]]
     IN IF Valid(connection[l].state, "heartbeat_timeout")
        THEN /\ connection' = AfterDrop(lost, remotePeerId[l])
             /\ relay' = RelayAfterDrop(remotePeerId[l])
             /\ Forget(remotePeerId[l])
        ELSE /\ connection' = lost
             /\ UNCHANGED <<peerConnections, directory, sessions, relay>>
  /\ UNCHANGED <<started, remotePeerId, silent>>
-----------------------------------------------------------------------------
(* The timer: a heartbeat goes out, and the peer is still within its       *)
(* allowance.                                                              *)
Tick(l) ==
  /\ connection[l].heartbeat
  /\ connection[l].missed < MaxMissed
  /\ connection' = [connection EXCEPT ![l] = Beat(@)]
  /\ UNCHANGED <<started, remotePeerId, peerConnections, directory, sessions, relay, silent>>

(* The timer: the signaling server did not take the heartbeat, which may   *)
(* happen at any tick, or too many were missed.  The connection first      *)
(* times out, which drops the link kept for its peer, and then the timer   *)
(* reconnects the link it belongs to.                                      *)
TickFails(l) ==
  /\ connection[l].heartbeat
  /\ LET p         == remotePeerId[l]
         beaten    == [connection EXCEPT ![l] = TimedOut(Beat(@))]
         reopening == connection[l].attempts < MaxAttempts
     IN IF Valid(connection[l].state, "heartbeat_timeout")
        THEN /\ connection' = [AfterDrop(beaten, p) EXCEPT ![l] = Reconnect(@)]
             /\ relay' = IF reopening THEN NoLink ELSE RelayAfterDrop(p)
             /\ Forget(p)
        ELSE /\ connection' = [beaten EXCEPT ![l] = Reconnect(@)]
             /\ relay' = IF reopening THEN NoLink ELSE relay
             /\ UNCHANGED <<peerConnections, directory, sessions>>
  /\ UNCHANGED <<started, remotePeerId, silent>>

(* The delay of reconnect ends and it calls connectAsOfferer.              *)
Wake(l) ==
  /\ connection[l].task = "sleeping"
  /\ connection' = [connection EXCEPT ![l] = ConnectAsOfferer(@, "reopening")]
  /\ UNCHANGED <<started, remotePeerId, peerConnections, directory, sessions, relay, silent>>
-----------------------------------------------------------------------------
(* 'peer_left' reaches handlePeerDisconnect.                               *)
PeerLeft(p) ==
  /\ started
  /\ connection' = AfterDrop(connection, p)
  /\ relay' = RelayAfterDrop(p)
  /\ Forget(p)
  /\ UNCHANGED <<started, remotePeerId, silent>>

(* A remote peer crashes; nobody announces it.                             *)
Crash(p) ==
  /\ p \notin silent
  /\ silent' = silent \cup {p}
  /\ UNCHANGED <<started, remotePeerId, connection, peerConnections, directory, sessions, relay>>

Next ==
  \/ Start
  \/ Stop
  \/ \E p \in Peer : Join(p) \/ PeerLeft(p) \/ Crash(p)
  \/ \E l \in Link :
       \/ OfferMade(l) \/ OfferFails(l)
       \/ Answer(l) \/ Heartbeat(l)
       \/ RtcConnected(l) \/ RtcLost(l)
       \/ Tick(l) \/ TickFails(l) \/ Wake(l)

(* setInterval and setTimeout fire whatever happens.  Nothing is assumed   *)
(* of the peers, the relay or the browser.                                 *)
Fairness == \A l \in Link : WF_vars(Tick(l) \/ TickFails(l)) /\ WF_vars(Wake(l))

Spec == Init /\ [][Next]_vars /\ Fairness
-----------------------------------------------------------------------------
(* The directory shows a peer online exactly as long as the runtime keeps  *)
(* a connection for it, whichever of the handlers dropped it, and although *)
(* a drop reenters the handler (handlePeerDisconnect, disconnect and stop  *)
(* each do a part of the bookkeeping).                                     *)
DirectoryFollows == \A p \in Peer : directory[p] = "online" <=> p \in Kept

(* getConnectedPeerCount counts a kept connection by the state of the      *)
(* table, and the table agrees with WebRTC: a connection counted is open,  *)
(* and one that is up is counted.                                          *)
CountIsHonest ==
  \A p \in Kept :
    LET c == connection[peerConnections[p]]
    IN  /\ IsConnected(c) => c.rtc # "none"
        /\ c.rtc = "up" => IsConnected(c)

(* A heartbeat timer runs only over a connection that has come up and has  *)
(* not been closed: no path out of a connection forgets stopHeartbeat.     *)
TimersAreLive == \A l \in Link : connection[l].heartbeat => connection[l].rtc \in {"up", "lost"}

(* The relay handler never belongs to a closed connection: disconnect      *)
(* removes it on every path, the reconnection's included.                  *)
RelayIsLive == relay # NoLink => connection[relay].rtc # "none"

(* While the runtime runs, a peer it stops keeping loses its sync session  *)
(* in the same step.                                                       *)
SessionsEndWithPeers ==
  [][\A p \in Peer : started' /\ p \in Kept /\ peerConnections'[p] = NoLink
                       => p \notin sessions']_vars

(* A peer that crashes while its connection is up is noticed by the        *)
(* heartbeats alone, and the runtime stops keeping that connection.        *)
DeadPeersAreDropped ==
  \A p \in Peer :
    LET UpTo == p \in Kept /\ connection[peerConnections[p]].rtc = "up"
    IN  (p \in silent /\ UpTo) ~> ~UpTo

(* FEDERATION.md:204: maxPeers is the maximum of concurrent peer           *)
(* connections.                                                            *)
OpenWithinMax == Cardinality({l \in Link : connection[l].rtc # "none"}) <= MaxPeers
=============================================================================
