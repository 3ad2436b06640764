----------------------------- MODULE MCServices -----------------------------
(***************************************************************************)
(* The services of the federation, of the runtime and its hosts, each under *)
(* a workload of its own, chosen at the start: they share no state but the *)
(* data channels, so that their interleavings would show nothing.          *)
(***************************************************************************)
EXTENDS ProvenanceExchange, Discovery, TrustMigration, ServiceIndexes, SnapshotTiers,
        VoiceSession, VoiceActivity, IntentCatalogue

CONSTANTS p, q, r,          \* peers and runtimes
          x, y, z,          \* entities
          n1, n2, n3,       \* annotations
          a, b              \* adapters

VARIABLE workload

vars == <<exchangeVars, discoveryVars, directoryVars, trustVars, graphVars, collabVars,
          memoryVars, tierVars, voiceVars, workload>>

MCAboutOf == (n1 :> x) @@ (n2 :> x) @@ (n3 :> y)

Strict  == [signature |-> TRUE, maxDepth |-> 3, allowed |-> {"user", "agent"}, approval |-> TRUE, minimum |-> 50]
Shallow == [signature |-> FALSE, maxDepth |-> 1, allowed |-> {"agent"}, approval |-> TRUE, minimum |-> None]
MCPolicies == {Strict, Shallow}

MCInit ==
  /\ ExchangeInit /\ DiscoveryInit /\ DirectoriesInit /\ TrustInit /\ GraphInit /\ CollabInit /\ MemoryInit
  /\ TiersInit /\ VoiceInit
  /\ workload \in {"exchange", "sync", "discovery", "registry", "bridge", "trust", "graph", "notes", "talk",
                  "memory", "snapshot", "voice"}

\* Two envelopes of provenance fit on a channel, one of a graph.
FewSnapshots == \A s \in Peer : Len(wire'[s]["sync"]) <= 1

\* Both peers record and export; the snapshots of one compete for its buffer.
Exchange ==
  \/ \E s \in Peer : BridgeStep(s) \/ ChannelStep(s)
  \/ (InitiateSync(p) \/ HandleSyncMessage(p)) /\ UNCHANGED bridgeVars

\* The one that sends no snapshots needs no channel for them, and exports to one peer.
OneSnapshots ==
  /\ FewSnapshots /\ "sync" \notin channels'[q]
  /\ \A c \in exported'[q] : c[2] <= 1

\* The graphs alone: nothing is sent for another purpose.
Sync ==
  \E s \in Peer :
    \/ GraphStep(s)
    \/ /\ RegisterChannel(s, "sync") \/ UnregisterChannel(s, "sync") \/ Lose(s, "sync") \/ CloseAll(s)
       /\ UNCHANGED <<syncVars, bridgeVars>>

\* Of agents, whose nodes a policy may want signed or approved, and of others.
MCNodesOf ==
  [id \in NodeId |->
     {[actor |-> kind[1], signed |-> kind[2], authorization |-> "pending", parents |-> parents] :
        kind \in {<<"agent", TRUE>>, IF id = 2 THEN <<"system", FALSE>> ELSE <<"agent", FALSE>>},
        parents \in {<<>>} \cup (CASE id = 1 -> {<<2>>, <<2, 3>>} [] id = 2 -> {<<3>>} [] OTHER -> {})}]

FederationNext ==
  \/ workload = "exchange"  /\ Exchange /\ OneSnapshots /\ UNCHANGED <<discoveryVars, directoryVars, trustVars>>
  \/ workload = "sync"      /\ Sync /\ FewSnapshots /\ UNCHANGED <<discoveryVars, directoryVars, trustVars>>
  \/ workload = "discovery" /\ DiscoveryNext /\ UNCHANGED <<exchangeVars, directoryVars, trustVars>>
  \/ workload = "registry"  /\ RegistryNext /\ UNCHANGED <<exchangeVars, discoveryVars, trustVars>>
  \/ workload = "bridge"    /\ BridgeNext   /\ UNCHANGED <<exchangeVars, discoveryVars, trustVars>>
  \/ workload = "trust"     /\ TrustNext    /\ UNCHANGED <<exchangeVars, discoveryVars, directoryVars>>

\* One entity changes its role, the other one keeps it.
OneRole == y \notin g'.byRole["file"]

SharedNext ==
  \/ workload = "graph"  /\ GraphNext /\ OneRole /\ UNCHANGED <<collabVars, memoryVars, tierVars, voiceVars>>
  \/ workload = "notes"  /\ (Environment \/ NotesNext) /\ UNCHANGED <<graphVars, memoryVars, tierVars, voiceVars>>
  \/ workload = "talk"   /\ (Environment \/ TalkNext) /\ UNCHANGED <<graphVars, memoryVars, tierVars, voiceVars>>
  \/ workload = "memory" /\ MemoryNext /\ UNCHANGED <<graphVars, collabVars, tierVars, voiceVars>>
  \/ workload = "snapshot" /\ TiersNext /\ UNCHANGED <<graphVars, collabVars, memoryVars, voiceVars>>
  \/ workload = "voice" /\ VoiceNext /\ UNCHANGED <<graphVars, collabVars, memoryVars, tierVars>>

MCNext ==
  /\ \/ FederationNext /\ UNCHANGED <<graphVars, collabVars, memoryVars, tierVars, voiceVars>>
     \/ SharedNext /\ UNCHANGED <<exchangeVars, discoveryVars, directoryVars, trustVars>>
  /\ UNCHANGED workload

\* Both captures of speech, over recordings of up to six frames.
ASSUME SpeechIsCaptured == \A length \in 0..6 : CapturesSendUtterances(length)

\* What the tables of tiers come to, for every intent and for plans of up to three.
ASSUME TiersGuard ==
  /\ ChangesAreGuarded /\ RouterIsLaxer
  /\ \A length \in 0..3 : PlansAreGuarded(length)

MCSpec == MCInit /\ [][MCNext]_vars

=============================================================================
