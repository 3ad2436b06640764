---------------------------- MODULE DataChannels ----------------------------
(***************************************************************************)
(* DataChannelManager (federation/src/connection/data-channel.ts) at both  *)
(* ends of a connection: per purpose one channel, and one bounded buffer   *)
(* for what is sent while its channel is not open.  The buffer is flushed  *)
(* when a channel is registered and at no other time.  Whether a channel   *)
(* that is registered is open is the browser's affair and may be asked at  *)
(* any send: each gets any answer.                                         *)
(*                                                                         *)
(* wire is what a peer has sent and the other has not received: ordered    *)
(* within a channel, and given up after maxRetransmits.  lost collects     *)
(* the copies envelopes that are gone for good carried; it is the model's. *)
(***************************************************************************)
EXTENDS Lists, SequencesExt

CONSTANTS Peer, Purpose,
          MaxBuffer,     \* maxBufferSize, 500 in the code
          MaxWire        \* bound of the model: what a channel holds

ASSUME BufferAssumption == MaxBuffer \in Nat

VARIABLES channels,      \* the purposes with a channel, per peer
          buffer,        \* pendingBuffer
          wire, lost

channelVars == <<channels, buffer, wire, lost>>

ChannelsInit ==
  /\ channels = [p \in Peer |-> {}]
  /\ buffer   = [p \in Peer |-> <<>>]
  /\ wire     = [p \in Peer |-> [u \in Purpose |-> <<>>]]
  /\ lost     = [p \in Peer |-> {}]

For(u, envelopes)    == Only(envelopes, {e \in ToSet(envelopes) : e.purpose = u})
NotFor(u, envelopes) == Only(envelopes, {e \in ToSet(envelopes) : e.purpose # u})

GiveUp(p, copies) == lost' = [lost EXCEPT ![p] = @ \cup copies]

\* send, of envelopes e of one purpose u in one synchronous piece of code: on the
\* channel if it is open, else to the buffer as far as there is room, else nowhere.
SendAll(p, u, e) ==
  \/ /\ u \in channels[p] /\ Len(wire[p][u] \o e) <= MaxWire
     /\ wire' = [wire EXCEPT ![p][u] = @ \o e]
     /\ UNCHANGED <<channels, buffer, lost>>
  \/ LET kept == Min({MaxBuffer - Len(buffer[p]), Len(e)})
     IN /\ buffer' = [buffer EXCEPT ![p] = @ \o SubSeq(e, 1, kept)]
        /\ GiveUp(p, UNION {e[n].copies : n \in kept + 1 .. Len(e)})
        /\ UNCHANGED <<channels, wire>>

\* Mutant: what is for another purpose is not put back.
FlushAndForget(p, u) ==
  /\ wire' = [wire EXCEPT ![p][u] = @ \o For(u, buffer[p])]
  /\ buffer' = [buffer EXCEPT ![p] = <<>>]

FlushPending(p, u) ==
  /\ wire' = [wire EXCEPT ![p][u] = @ \o For(u, buffer[p])]
  /\ buffer' = [buffer EXCEPT ![p] = NotFor(u, buffer[p])]

\* A channel that is not open yet leaves the buffer as it is.
RegisterChannel(p, u) ==
  /\ channels' = [channels EXCEPT ![p] = @ \cup {u}]
  /\ \/ FlushPending(p, u) /\ Len(wire'[p][u]) <= MaxWire
     \/ UNCHANGED <<wire, buffer>>
  /\ UNCHANGED lost

UnregisterChannel(p, u) ==
  /\ u \in channels[p]
  /\ channels' = [channels EXCEPT ![p] = @ \ {u}]
  /\ UNCHANGED <<buffer, wire, lost>>

CloseAll(p) ==
  /\ channels' = [channels EXCEPT ![p] = {}]
  /\ buffer' = [buffer EXCEPT ![p] = <<>>]
  /\ GiveUp(p, UNION {e.copies : e \in ToSet(buffer[p])})
  /\ UNCHANGED wire

\* The first envelope of a channel arrives, or is given up.
Receive(p, u) ==
  /\ wire[p][u] # <<>>
  /\ wire' = [wire EXCEPT ![p][u] = Tail(@)]
  /\ UNCHANGED <<channels, buffer, lost>>

Lose(p, u) ==
  /\ wire[p][u] # <<>>
  /\ wire' = [wire EXCEPT ![p][u] = Tail(@)]
  /\ GiveUp(p, Head(wire[p][u]).copies)
  /\ UNCHANGED <<channels, buffer>>

OnTheWay(p) == UNION {e.copies : e \in ToSet(buffer[p]) \cup UNION {ToSet(wire[p][u]) : u \in Purpose}}

=============================================================================
