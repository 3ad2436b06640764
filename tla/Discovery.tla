----------------------------- MODULE Discovery -----------------------------
(***************************************************************************)
(* The DiscoveryServices (federation/src/discovery/discovery-service.ts)   *)
(* of several runtimes that share one in-memory SignalingServer            *)
(* (federation/src/signaling/index.ts).  Every call is synchronous: the    *)
(* handler of the receiver runs inside the send.                           *)
(*                                                                         *)
(* A join is answered with a join, which is answered in its turn: between  *)
(* two registered services this recurses until the stack overflows.  The   *)
(* exception is caught by one of the sends on the stack, or several if the *)
(* catch or the log behind it overflows again; each one takes the peer it  *)
(* was sending to off the server.  So at least one of the two goes.        *)
(***************************************************************************)
EXTENDS Lists, SequencesExt

CONSTANT Service

VARIABLES registered,   \* SignalingServer.peers, in the order of the Map
          known,        \* knownPeers of each service
          started       \* the services whose intervals run

discoveryVars == <<registered, known, started>>

DiscoveryInit ==
  /\ registered = <<>>
  /\ known = [s \in Service |-> {}]
  /\ started = {}

Without(peers, gone) == Only(peers, Service \ gone)

\* The join of s reaches r, which answers it: the registers that may be left.
Join(s, r, state) ==
  IF s \notin ToSet(state.registered)
    THEN {[state EXCEPT !.known[r] = @ \cup {s}]}
    ELSE {[registered |-> Without(state.registered, gone),
           known |-> [state.known EXCEPT ![r] = @ \cup {s}, ![s] = @ \cup {r}]] :
            gone \in {{s}, {r}, {s, r}}}

\* broadcast of a join, to each registered service but the sender, in turn.
BroadcastJoin(s, peers) ==
  LET told == Without(peers, {s})
      after[n \in 0..Len(told)] ==
        IF n = 0 THEN {[registered |-> peers, known |-> known]}
        ELSE UNION {Join(s, told[n], state) : state \in after[n - 1]}
  IN \E state \in after[Len(told)] : registered' = state.registered /\ known' = state.known

\* start: register, then broadcast.  The runtime starts no service twice.
StartDiscovery(s) ==
  /\ s \notin started
  /\ started' = started \cup {s}
  /\ BroadcastJoin(s, Append(registered, s))

AnnouncePresence(s) ==
  /\ s \in started
  /\ BroadcastJoin(s, registered)
  /\ UNCHANGED started

\* Mutant: the leave goes to the peers that are known and not to all.
StopTellingKnown(s) ==
  /\ s \in started
  /\ started' = started \ {s}
  /\ registered' = Without(registered, {s})
  /\ known' = [r \in Service |->
       IF r = s THEN {} ELSE IF r \in known[s] THEN known[r] \ {s} ELSE known[r]]

\* stop: the leave is broadcast, so each registered service forgets the sender.
StopDiscovery(s) ==
  /\ s \in started
  /\ started' = started \ {s}
  /\ registered' = Without(registered, {s})
  /\ known' = [r \in Service |->
       IF r = s THEN {} ELSE IF r \in ToSet(registered) THEN known[r] \ {s} ELSE known[r]]

DiscoveryNext ==
  \E s \in Service : StartDiscovery(s) \/ AnnouncePresence(s) \/ StopDiscovery(s)

DiscoverySpec == DiscoveryInit /\ [][DiscoveryNext]_discoveryVars

(***************************************************************************)
(* A service that is on the signaling server knows running services only:  *)
(* it has heard every leave since it came, whoever was thrown off the      *)
(* server meanwhile.  (A service that was thrown off keeps what it knew.)  *)
(***************************************************************************)
HeardEveryGoodbye ==
  \A s \in ToSet(registered) : s \in started /\ known[s] \subseteq started

=============================================================================
