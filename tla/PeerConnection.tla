--------------------------- MODULE PeerConnection ---------------------------
(***************************************************************************)
(* A PeerConnectionManager (federation/src/connection/index.ts) in the     *)
(* role the federated runtime gives it, the offerer, as a value with one   *)
(* operator per method.  The state machine it drives is the table of       *)
(* federation/src/topology/index.ts.                                       *)
(*                                                                         *)
(* rtc is the RTCPeerConnection behind the private field pc: "none" while  *)
(* the field is null, "new" until an answer is applied, "answered" until   *)
(* the browser reports a connectionState, then "up" or "lost".             *)
(*                                                                         *)
(* task is the asynchronous method of the connection that is suspended at  *)
(* an await: "joining" and "reopening" are connectAsOfferer, called by the *)
(* runtime and by reconnect, waiting for the local offer; "sleeping" is    *)
(* reconnect waiting for its delay.                                        *)
(***************************************************************************)
EXTENDS Naturals

CONSTANTS MaxMissed,    \* maxMissedHeartbeats, 3 in the code
          MaxAttempts   \* maxReconnectAttempts, 5 in the code

ASSUME ConnectionAssumption == MaxMissed \in Nat /\ MaxAttempts \in Nat

PeerConnectionState ==
  {"idle", "connecting", "awaiting_answer", "connected", "syncing", "synced",
   "disconnecting", "disconnected", "error"}

TRANSITIONS ==
  [idle            |-> [connect_requested |-> "connecting"],
   connecting      |-> [offer_sent        |-> "awaiting_answer",
                        error_occurred    |-> "error"],
   awaiting_answer |-> [answer_received   |-> "connected",
                        error_occurred    |-> "error",
                        heartbeat_timeout |-> "disconnected"],
   connected       |-> [sync_started      |-> "syncing",
                        disconnect_requested |-> "disconnecting",
                        heartbeat_timeout |-> "disconnected",
                        error_occurred    |-> "error"],
   syncing         |-> [sync_completed    |-> "synced",
                        sync_failed       |-> "connected",
                        error_occurred    |-> "error"],
   synced          |-> [sync_started      |-> "syncing",
                        disconnect_requested |-> "disconnecting",
                        heartbeat_timeout |-> "disconnected",
                        error_occurred    |-> "error"],
   disconnecting   |-> [disconnected      |-> "disconnected",
                        error_occurred    |-> "error"],
   disconnected    |-> [connect_requested |-> "connecting"],
   error           |-> [connect_requested |-> "connecting",
                        disconnect_requested |-> "disconnected"]]

Valid(state, event) == event \in DOMAIN TRANSITIONS[state]

(* transition: an event the table does not list throws inside transition,  *)
(* which hands the error to onError and leaves the state as it was.        *)
After(state, event) ==
  IF Valid(state, event) THEN TRANSITIONS[state][event] ELSE state

IsConnected(c) == c.state \in {"connected", "syncing", "synced"}

Connection ==
  [state : PeerConnectionState,
   rtc : {"none", "new", "answered", "up", "lost"},
   heartbeat : BOOLEAN,          \* heartbeatInterval # null
   missed : 0 .. MaxMissed + 1,  \* missedHeartbeats, which is only compared with its maximum
   attempts : 0 .. MaxAttempts,  \* reconnectAttempts, never reset by the code
   task : {"none", "joining", "reopening", "sleeping"}]

NewConnection ==
  [state |-> "idle", rtc |-> "none", heartbeat |-> FALSE, missed |-> 0,
   attempts |-> 0, task |-> "none"]

(* connectAsOfferer up to its first await.  Whether RTCPeerConnection can   *)
(* be constructed depends on the host and the configuration alone: here it *)
(* can.                                                                    *)
ConnectAsOfferer(c, task) ==
  [c EXCEPT !.state = After(c.state, "connect_requested"), !.rtc = "new", !.task = task]

(* connectAsOfferer after its awaits: the offer goes to the signaling      *)
(* server, whether or not somebody there takes it.                         *)
OfferSent(c) == [c EXCEPT !.state = After(c.state, "offer_sent"), !.task = "none"]

(* Mutant: the answer is applied and the table not told.                   *)
AnswerApplied(c) == [c EXCEPT !.rtc = "answered"]

(* handleRelayedMessage, 'federation.answer'.                              *)
AnswerReceived(c) ==
  [c EXCEPT !.state = After(c.state, "answer_received"), !.rtc = "answered"]

(* Mutant: no timer is started.                                            *)
ConnectedSilently(c) == [c EXCEPT !.rtc = "up", !.missed = 0]

(* onconnectionstatechange, 'connected': startHeartbeat.                   *)
StartHeartbeat(c) == [c EXCEPT !.rtc = "up", !.heartbeat = TRUE, !.missed = 0]

(* The timer's callback counts the heartbeat as missed until told better.  *)
Beat(c) == [c EXCEPT !.missed = IF @ > MaxMissed THEN @ ELSE @ + 1]

TimedOut(c) == [c EXCEPT !.state = After(c.state, "heartbeat_timeout")]

(* Mutant: disconnect without stopHeartbeat.                               *)
DisconnectTicking(c) ==
  [c EXCEPT !.state = After(After(c.state, "disconnect_requested"), "disconnected"),
            !.rtc = "none", !.task = "none"]

(* disconnect, which has no await.  A connection that is still connecting  *)
(* or waiting for its answer has no transition for either event: it is     *)
(* closed and keeps its state.  Closing an RTCPeerConnection leaves its    *)
(* pending createOffer or setLocalDescription unsettled, so a suspended    *)
(* connectAsOfferer never goes on.                                         *)
Disconnect(c) ==
  [c EXCEPT !.state = After(After(c.state, "disconnect_requested"), "disconnected"),
            !.rtc = "none", !.heartbeat = FALSE, !.task = "none"]

(* Mutant: one attempt too many.                                           *)
ReconnectOnceMore(c) ==
  IF c.attempts > MaxAttempts
  THEN c
  ELSE [Disconnect(c) EXCEPT !.attempts = @ + 1, !.task = "sleeping"]

(* reconnect up to its delay; past the last attempt it only reports an     *)
(* error, and stops neither the timer nor the connection.                  *)
Reconnect(c) ==
  IF c.attempts >= MaxAttempts
  THEN c
  ELSE [Disconnect(c) EXCEPT !.attempts = @ + 1, !.task = "sleeping"]
=============================================================================
