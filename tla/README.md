# USIR in TLA+

A verification project kept beside the code of the Universal Semantic
Interaction Runtime (`src/USIR_REPO`, TypeScript). It holds TLA+ modules that
model parts of the runtime, TLC configurations that check them on small
instances, and TLAPS proofs of what matters most for every instance.

Every definition is translated from the source; `PROJECT.json` maps each one to
the lines it stands for. Paths below are relative to `src/USIR_REPO/`, and
`runtime/`, `federation/`, `registry/`, `protocol/` stand for
`packages/<name>/src/`.

## 1. The system

USIR turns an instruction into a plan of tool calls, runs the plan, lets worker
agents do the same under a trust gate, logs who did what, and shares its graph
with other runtimes. It is JavaScript: one thread, run-to-completion between
`await`s, so what can interleave is what lies on two sides of an `await`, a
timer, or a message.

| Component | State | Operations | Talks to |
|---|---|---|---|
| Circuit breaker (`runtime/executor/circuit-breaker.ts`) | state, failure count, time of the last failure, probes let through | `allowRequest`, `recordSuccess`, `recordFailure`, `reset` | called by executor steps |
| Topological executor (`runtime/executor/topological-executor.ts`) | breakers by tool; per `execute()`: completed, failed, in flight | `execute`, `resetCircuitBreakers` | tools, callbacks, breakers |
| A2U dispatcher, trust classifier (`runtime/a2u/`) | none of its own; calls under way | `dispatch` | provenance store, executor |
| Provenance store (`runtime/provenance/`, `protocol/provenance/`) | nodes, three indexes | `record`, `approve`, `reject`, `save`, `load`, listings | dispatcher, user, disk |
| Interaction memory, tool and capability registries, LLM router (`runtime/memory`, `disambiguation`, `router`) | bounded history, maps | push/resolve, register/find, route | extension |
| Peer connection, data channels (`federation/connection`, `topology`) | connection state, heartbeat timer, reconnect count, channel buffer | connect (offer/answer), disconnect, reconnect, send | signaling, WebRTC |
| Federated runtime (`federation/runtime`) | lifecycle state, connections by peer | `start`, `stop`, joins, losses, messages | everything in federation |
| Signaling, discovery, directory (`federation/signaling`, `discovery`) | registered peers, known peers, directory | register/send/broadcast, announce, join/leave | peers |
| Graph sync (`federation/graph`) | sessions, Yjs document | `initiateSync`, `handleSyncMessage`, local changes | channels |
| Provenance bridge, trust migration (`federation/provenance-bridge`) | anchors, export queue, trust chains | record, handle remote, export, request/approve/chain | channels, directory |
| Collaboration handlers (`federation/collaboration`) | shares, threads, annotations, remote turns | share/discuss/annotate/broadcast | channels |
| Registry billing (`registry/invoicing.ts` and others) | invoices, checkouts, payouts, usage | generate, send, pay, compute/schedule/process payouts, mark overdue | payment provider |
| Registry store, server, trust (`registry/`) | capabilities and indexes, attestations, health | publish, unpublish, delete, attest, recompute | HTTP |
| Registry client (`packages/registry-client`) | cached listings, last sync | sync, update, remove | server |
| Audio pipeline (`packages/audio-pipeline`) | VAD state, capture flag, buffers | start, stop, frames, utterance end | microphone, transcription |
| Adapters (`adapters/`, `packages/adapters-*`) | snapshots in tiers, connections to devices | snapshot, tools | editor, page, OS, devices |
| VS Code extension (`apps/vscode-extension`) | one of each of the above | commands, instructions, audio | user |

What is hard, and what would make each part correct:

* **Executor and breakers.** Several `execute()` calls (the user's instruction,
  agents' intents) share one executor and so the breaker of each tool. Steps
  settle while a batch is launched; calls let through a CLOSED breaker report
  after it opened; callbacks throw between the two halves of a breaker
  transaction. Correct: steps respect dependencies and run once; a call returns,
  and only when nothing is left; a breaker keeps its threshold and its probe
  limit and is not left without anyone to decide a probe.
* **Dispatcher and provenance.** Concurrent dispatches meet at the awaits on
  hashing, logging and execution; the user decides meanwhile; the process may
  end. Correct: nothing runs unlogged or unpermitted; the log, its indexes and
  the answers agree; a decision stands; what was saved comes back.
* **Federation.** Timers, reconnection after a sleep, callbacks that re-enter the
  runtime, one relay key for all connections, answers that answer answers.
  Correct: one live connection per peer, none after a stop or a disconnect, the
  directory and the sessions follow the connections, messages terminate.
* **Registry.** Payments and syncs in flight at the same time; status fields any
  operation overwrites; indexes beside maps. Correct: what counts as
  paid was charged, payouts of disjoint periods are covered by charges, lookups
  find what there is, the client's cache converges to the server. (That an invoice
  is charged only once is not what the code ensures, nor what a document says.)
* **Federation's services.** One buffer for the envelopes of all purposes,
  answers to answers, ids that get a prefix at each crossing, entities that go
  and come back between two snapshots. Correct: an exported node has one fate;
  goodbyes are heard; both ends walk the same causes; trust is earned.
* **Memory, hosts.** Histories that move an entry to the front, files older than
  the memory, debounce timers, a session of listening that is started twice.
  Correct: what is there is found by role, by entity and by source, and by tool
  (which the code does not keep: `tools_found`); a change is counted in time; the
  stop command reaches the microphone (of a second session it does not:
  `stop_listening`).

`PROJECT.json` lists 40 such hazards at their lines with the properties that
cover them; those without a property have a note that says why.

## 2. Modules

| Module | Models |
|---|---|
| `CircuitBreaker` | the breaker as a value, and its methods as functions on that value |
| `BreakerCallers` | any number of calls sharing one breaker: admitted, reporting in any order, never reporting; the breaker replaced |
| `TopologicalExecutor` | the executor: concurrent `execute()` calls, plans, batches, retries, callbacks, breakers by tool |
| `PlanExecution` | abstract specification of `execute()`: what a caller may rely on |
| `ProvenanceGraph` | the provenance graph as a value, with its indexes |
| `AgentDispatch` | dispatcher, classifier and store; its executor is `PlanExecution` |
| `PeerConnection` | one WebRTC connection as a value, its transition table, and its methods as functions on that value |
| `FederatedRuntime` | a runtime's connections by peer with its directory, sync sessions and relay handler; the peers and WebRTC around it |
| `RegistryStore` | listings, publishers, the three indexes, search |
| `ReputationOracle` | attestations, their expiry, aggregates; the trust score |
| `Invoicing` | usage, rate cards, invoices, checkouts, payments and payouts, the provider's answers |
| `RegistryServer` | the routes over those three, with verification |
| `RegistryClient` | requests in flight, the cache and its index, the sync timer, against `RegistryServer` |
| `DataChannels` | channels by purpose at both ends, the one buffer, the wire |
| `GraphSync` | Yjs documents, sync sessions, local transactions |
| `ProvenanceExchange` | the provenance bridges, anchors, the causal walk, over the same channels |
| `Discovery` | joins and leaves on one signaling server |
| `CapabilityDirectories` | adapters by tool and role, local and remote |
| `TrustMigration` | trust policies, chains, approvals |
| `SemanticGraph` | the graph with its indexes, the walk, diffs, trimming, conflicts |
| `Collaboration` | shares, annotations, threads, broadcasts |
| `InteractionMemory` | history, references, conversation, file; the turns of other peers |
| `SnapshotTiers` | the editor's snapshot in three tiers with their timers |
| `VoiceActivity` | both voice detectors, from frames to utterances, as folds |
| `VoiceSession` | start and end of listening, the way of an utterance |
| `IntentCatalogue` | the intents, and the tiers the router and the classifier give them |
| `Lists` | `Array.filter` on a list, by what it keeps, and a sum by `reduce` |
| `ServiceIndexes` | the four services that keep indexes, one at a time, and what is said of all of them |
| `ListProofs` | lemmas on numbers, recursive functions, lists and sums that the proofs share |
| `BreakerCallersProofs`, `TopologicalExecutorProofs`, `AgentDispatchProofs`, `FederatedRuntimeProofs`, `RegistryProofs`, `FederationProofs`, `ServicesProofs` | the theorems |
| `MC*` | instances for TLC |

```
CircuitBreaker <- BreakerCallers <-(refinement, per tool)- TopologicalExecutor
                                                              |
                      PlanExecution <-------(refinement)------'
                            ^
                            '--(INSTANCE, as its executor)-- AgentDispatch -> ProvenanceGraph

PeerConnection <- FederatedRuntime

RegistryStore, ReputationOracle, Invoicing <- RegistryServer <- RegistryClient
DataChannels <- GraphSync <- ProvenanceExchange -> ProvenanceGraph
CapabilityDirectories, SemanticGraph, Collaboration, InteractionMemory <- ServiceIndexes
```

### CircuitBreaker, BreakerCallers

`CircuitBreaker` has one function per method: `Allows`/`AfterAllow` for the answer
and the effect of `allowRequest()`, `AfterSuccess`, `AfterFailure`, and
`AfterCooldown`. `lastFailureTime` is compared with the clock only while the
breaker is OPEN, so it is kept as the bit `cooled`, which the passing of
`cooldownMs` sets and the failure that (re)opens the breaker clears.

`BreakerCallers` gives every caller a *grant* that says under which state it was
let through; a report may come late, from a call let through before the breaker
opened or after it was replaced (`detached`), or never (`Abandon`).
`resetCircuitBreakers()` drops the object: `Replace`.

### TopologicalExecutor, PlanExecution

A plan is a set of steps with dependencies, an optional flag and a tool each; step
ids are unique (`runtime/router/types.ts`). Per call `r` the model keeps what the
function keeps in its closure: which steps are in flight, and the result of each
that was collected. JavaScript runs `execute()` from launching a batch to
`Promise.race` without interruption; the model launches one step at a time but
holds the thread (`Quiet` says that no call holds it) until the batch is
launched. `resetCircuitBreakers()` and the passing of a cooldown may happen
inside a batch too, since a callback may call the one and the clock does not
stop. A step is: `Launch` (asks the breaker once), `Trip` (refused),
`StartThrows` (`onStepStart` throws, after the breaker was asked), `CallTool`,
`ToolSucceeds`, `ToolFails`/`ToolFailsForNow` (retries, after a backoff),
`CannotCall` (no tool). `Collect` and `Reject` are the loop after
`Promise.race`.

Left out: durations, outputs, error texts, lengths of sleeps; `execute()` called
from inside a callback of the same executor.

`PlanExecution` forgets breakers, retries and promises: a step begins only when
what it waits for has ended in its favour, ends once, and the result comes in the
very step after which nothing is active or can begin.

### ProvenanceGraph, AgentDispatch

The graph is a record of four maps, as in `protocol/provenance/index.ts`;
`RecordProvenance` updates all four. A node keeps the intent, the actor, the
entity and the authorization. In `AgentDispatch` each call of `dispatch()` goes
`idle -> hashing -> logged -> executing | answered`; `Record` is the end of
`ProvenanceStore.record()` once the hashes are computed, `RouteToExecutor` calls
`execute()` (`PlanExecution!Open`) with the one-step plan of
`executeImmediate()`, `RouteToUser` answers with a waypoint. `UserDecides` is
`approve()`/`reject()`; nobody tells the dispatcher, so an approved intent is
never run by this code (the worker has to send it again). `Save` and `Restart`
are `save()` and a new process that calls `load()`.

Left out: hashes, diffs, the wording of waypoints, `causalParents`. On the last:
`dispatch()` stores the id of the parent *intent* there (`dispatcher.ts:80`), and
`walkCausalChain()` looks its entries up as *provenance* ids, so a walk that
starts at an agent's node ends there.

### PeerConnection, FederatedRuntime

A connection is a record of the fields its methods decide by: the state of the
table in `federation/topology`, what its `RTCPeerConnection` has reported, the
timer, the counters, and the asynchronous method that is suspended. `After` is
`transition()`: an event the table has no entry for is reported and changes
nothing. That is the usual case: `disconnect()` of a connection that still waits
for its answer has no entry for either of its events and leaves the state as it
was.

In `FederatedRuntime` a *link* is one `PeerConnectionManager` object, which
outlives its place in `peerConnections`. `Join` is `initiatePeerConnection` up to
its await, `OfferMade` the rest; `OfferFails` the rejection; `Answer` and
`Heartbeat` are what the relay handler does; `RtcConnected` and `RtcLost` the
events of WebRTC; `Tick` and `TickFails` the heartbeat timer; `Wake` the end of
`reconnect()`'s delay; `PeerLeft` and `Crash` a peer that goes, with and without
a word. `handlePeerDisconnect()` is `AfterDrop` (the links) and `Forget` (the books).
It is called back from inside `disconnect()`, and from inside the timer before
`reconnect()` goes on; both are one step, as they are in the program.

What the model shows of the code, beyond the finding below:

* A reconnected connection is never in the map again: the timeout that starts the
  reconnection drops it first. It comes up, beats and times out uncounted, and
  its next timeout drops the *new* connection to the same peer. `stop()` does not
  reach it either.
* The relay key is `<localPeerId>:relay` for every connection. The last one to
  send its offer gets the answers; any `disconnect()` removes the handler.
* Past the last attempt `reconnect()` returns at once: the timer goes on.
* `answer_sent` is in no row of the table, so a connection made by
  `connectAsAnswerer()` could not get connected; nothing calls that method.
* `stop()` leaves the sync sessions of connections that wait for an answer.

Not part of the model, but of the code: the `DataChannelManager` that
`FederatedRuntime` gives to its services never gets a channel. The channels are
registered on the manager each `PeerConnectionManager` makes for itself
(`connection/index.ts:23`, `:200`), so as it is wired what the services send stays
in the buffer. `DataChannels` and what is built on it model the manager as its
methods and tests have it, for a program that registers channels on it.

Left out: ICE candidates, channels and their messages, `isOfferer` (always true),
`heartbeatSeq` (echoed, never compared). Each `FederatedRuntime` makes a
`SignalingServer` of its own; that joins and answers get there from other machines
is what FEDERATION.md asks of a relay put in its place, so they are inputs here.
The handler of a link takes any answer of its peer, whichever link's offer it
answers. Whether `new RTCPeerConnection` throws depends on the host and the
configuration; here it does not. A closed `RTCPeerConnection` leaves its pending
promises unsettled, as the WebRTC specification says.

### RegistryStore, ReputationOracle, Invoicing, RegistryServer, RegistryClient

A handler of the server runs in one piece from the end of the request's body to
the response, so a route is one action, guarded by what it would answer 400, 404
or 422 to. The exception is the payment provider: `StartPayment` and
`StartPayout` are the handlers up to the await, which add an entry to `calls`;
`ProviderSettles` is the provider, in its own books; `Resume` is what stands
behind the await. Nothing between them looks at the record again, so any number
of calls for one record are under way together. Methods that no route calls
(`sendInvoice`, `markOverdue`, `delete`, `pruneExpired`) are actions of the program
that embeds the server. Money is in thousandths, so that `Math.round` is modelled
by what it does. The clock of the oracle is abstracted to an `Expire` step per
attestation.

An index of the store or of the client's cache is a list to which ids are pushed
without a look whether they are there, and from which a removal takes one
occurrence. The models count occurrences.

A request of `RegistryClient` takes a slot from the call to its settling; it may
fail before or after the server has handled it, and its reply may arrive after
that of a later one, or after `stop()`.

The pricing engine counts the units of a tier as `to - from + 1` and takes them off
what remains, wherever the tier begins: of tiers that start at 0, as in
`pricing-engine.test.ts:60`, the first is one unit too wide. Tiers that follow on
from 1 without a gap are checked.

### DataChannels, GraphSync, ProvenanceExchange

`SendAll`, `FlushPending`, `RegisterChannel` and the closing of channels are
`DataChannelManager`'s; whether a registered channel is open is asked again at
every send, so each send gets either answer. An envelope is what it is about;
`lost` collects the copies that are gone for good.

`GraphSync` shows what FEDERATION.md (lines 5, 141 and 187, CRDT merge) does not: a
full snapshot goes out as decimal digits and is decoded as if each digit were a
byte, so that the Yjs update throws, and patches are not looked at. No document
ever changes because of the other peer. There is no invariant to state beyond
that, and the module serves as the traffic that competes with the exports for
the buffer.

In `ProvenanceExchange` an id is a base and the number of `remote:` prefixes before
it. Every import adds one, the walk takes off one, so a node that comes back to
its author is a stranger there: `ChainsAgree` holds for the causes of one
crossing and says so. An export is one envelope for each peer the directory lists
as online, and all of them go to the one manager of the bridge; nobody compares
`targetId` with its own id. So the model keeps *copies*: a node and the number of
the envelope (0 when nobody was online, and the queue is emptied all the same).
All that arrive, arrive at the other end of the connection that the channels lead
to, where the second copy of a node is recorded over the first, and its id pushed
on the lists of the provenance graph's indexes once more. The two peers of the
model are the ends of that connection; how many peers are online is a constant
(`MaxOnline`).

### Discovery, CapabilityDirectories, TrustMigration

`Discovery` has the recursion of joins answered with joins, which the stack ends: of
two services that can hear each other at least one is thrown off the server by
the exception. `CapabilityDirectories` has both directories with the entry of a
tool that another adapter took over and is removed with the first, which is what
`tools_found` shows. `PeerDiscovered` is told before the peer is entered in the
directory, and enters it or not (not beyond `maxPeers`, which is
`FederatedRuntime`'s business); `StopRuntime` clears the directory. In
`TrustMigration` nodes appear as they are recorded or imported (`NodesOf`); the
chain is walked to `maxDepth` causes.

### SemanticGraph, Collaboration, InteractionMemory

`SemanticGraph` holds the graph as a value and the functions the federation
computes from it, checked against reference definitions: the walk against the
ball of paths (`Ball`), the diff against the state it leads to. `Collaboration`
has the four handlers with what they send and to whom; annotations and
messages that come in are handed to it by the embedding program.
`InteractionMemory` may be saved, and lost and loaded, at any time. Its resolver
gives the newest entity for "previous" as for "most recent", and for a reference by
time whatever the time or the event (`interaction-memory.ts:95-107`), where
`protocol/memory/index.ts:14` and `:44-51` tell these apart ("compare it with the
previous one"). `ResolveConversational` models it as it is; `MemoryIsCoherent` speaks
of "most recent" only.

### SnapshotTiers, VoiceActivity, VoiceSession, IntentCatalogue

Time in `SnapshotTiers` passes in ticks and not past a timer that is due. The hot
and the warm tier start their timer anew with every change, so a change may wait
as long as changes go on: `VersionKeepsUp` promises the delay for the newest
change there and for the oldest of the cold tier. In `VoiceSession`, `startListening`
registers its cancel command at each start: the second registration throws, and
the panel opened before it stays open with nobody holding it, until it is closed
by hand or the extension is deactivated. That the stop commands reach whatever
listens is `StopReachesEveryMicrophone`, which `stop_listening` refutes;
`FirstSessionCanBeStopped` is what is left of it. `VoiceActivity` and
`IntentCatalogue` are pure: what a recording comes to, what tier an intent has.
They add no behaviour, and are mainly there for the assumptions on them that TLC
evaluates. The router is the laxer of the two: for a deletion, and
for opening, closing and navigating.

## 3. Runs

| Run | Question | Bounds | Result |
|---|---|---|---|
| `executor` | what `execute()` owes to a plan, and its breakers to their callers | one call with every dependency relation over three steps, or two calls of two steps each on one tool, with resets; threshold 2, one retry | passes |
| `executor_live` | every call ends, breakers recover, refusals have a reason | ordered plans over two calls | passes |
| `executor_settled` | every step of a plan is completed or failed | one call, two steps | violated: finding |
| `executor_optional` | an optional step's failure is tolerated | one call | violated: finding |
| `executor_wedge` | breakers recover when callbacks may throw | one probe | violated: finding |
| `runtimes` | the dispatcher: the gate, the log, the decisions, restarts; the breaker under concurrent callers; the federated runtime: books, timers and handler follow the connections | two calls, seven envelopes; six callers, threshold 2, two probes; two links to one or two peers, one missed heartbeat, one attempt | passes |
| `agent_executed` | "executed" means run | two calls | violated: finding |
| `federation_max` | no more open connections than `maxPeers` | one peer allowed | violated: finding |
| `registry` | a registry with a client, attestations and payments in flight | two ids, one of them in two versions; two requests at a time; one invoice, two payouts, two calls of the provider, two days | passes |
| `federation_services` | the federation's services, the memory, the hosts | two ends with two channels and a buffer of one, two peers online; three services; two entities; three ticks | passes |
| `tools_found` | the tool of a registered adapter is found | two adapters | violated: finding |
| `stop_listening` | the stop command reaches what listens | three sessions | violated: finding |

Why the bounds are enough. A breaker with threshold 2 and two probes has every
phase (below, at the threshold; first, second, no slot left), and six callers are
one more than can be inside it at once from both sides of an opening. Three steps
give chains, forks, joins, cycles and missing dependencies; two concurrent calls
give every meeting in a breaker, below the threshold of 2 and at it. (In
`executor` the call with three steps runs alone and without retries, which is an
action constraint, `AloneWithoutRetries`; the two calls that meet do retry.) Two dispatches with each pair of envelopes give
every meeting in the indexes (same worker, same intent, both) and in the
executor; the seven envelopes take each branch of the classifier and of the
routing. Two links meet in
every way two can: two peers sharing the relay key, or a link that was dropped and
its successor for the same peer; one allowed heartbeat and one attempt give each
counter a value below, at and past its limit. The safety properties that matter
most are also proved without bounds.

The three runs over several parts choose one of them, a *workload*, at the start
(`runtimes` calls it the `system`). The parts of `runtimes` share nothing; callers of
a breaker are alike, so there they ask in the order of their numbers (`InOrder`). The
other workloads share no state that both change but the data channels (and, in the
registry, the listings), so their product would multiply states and show no
meeting that one of them lacks. In `registry` two slots are enough for a reply
that overtakes another, a page of one listing leaves a second one outside, two
payouts and two calls meet for one record and for two, in the same period and in
disjoint ones. (With two invoices, 1.3 million states, everything holds as well; the
run would take longer than is useful.) In `federation_services` a buffer of one is full at once, with
two peers online and two envelopes on a channel (`MaxWire`) both copies of an export
can arrive, or one of them be lost (one end exports to one peer, `OneSnapshots`), two
records make a chain (the graphs are synchronized in a workload of their
own, with nothing sent for another purpose), three services let a third one watch two throw
each other off, three nodes are one more than the shallow policy looks at, of two entities of the
graph one changes its role and the other keeps it (`OneRole`), and
the histories of two overflow at the third entity.

`ASSUME`s of the MC modules check pure functions on every input in a range:
`TiersChargeEachUnit` (metered prices against the price of each unit),
`TrustScoreIsAScore` (0 to 100, and monotone), `SpeechIsCaptured` (both captures,
all recordings of up to six frames, against the definition of an utterance),
`TiersGuard` (nothing that changes something is of tier 1, what cannot be undone
is asked for, and where the two tables differ).

### The properties

* `ClosedBelowThreshold`, `SpellWithinLimit`, `NoShortcutToClosed`,
  `SomebodyWillDecide`: the breaker's promises under late, stale and missing
  reports. The last one is the reason a breaker is not stuck in HALF_OPEN: a
  probe is out, or a caller left without a report.
* `DependencyOrder`, `RunAtMostOnce`, `ReturnIsFinal`, `SuccessMeansDone`: what
  `execute()` owes to a plan. `ReturnIsFinal` says that a result comes when nothing
  is in flight and nothing more can run, which is less than the code's own comment
  promises: `EveryStepSettled` states that, and is refuted. `KeepsThePromise` is refinement of `PlanExecution`;
  `StepsAreBreakerCallers` is refinement of `BreakerCallers` for each tool, which
  carries the breaker's properties over to the executor.
* `RefusedForAReason`, `ExecuteEnds`, `BreakersRecover`: no refusal because of a
  slot nobody holds, and liveness.
* `RunIsAuthorized` (MASTER-SPEC.md:163, "the agent never mutates state without
  an entry in the provenance log"), `AnswerMatchesLog`, `IndexesAgree`,
  `SavedIsKept`, `DecisionsStand`, `EveryDispatchAnswered`.
* `DirectoryFollows`, `SessionsEndWithPeers`: what the runtime has written down
  about a peer changes with its connection, on every path. `CountIsHonest`,
  `TimersAreLive`, `RelayIsLive`: the table, the timer and the handler agree with
  WebRTC. `DeadPeersAreDropped`: heartbeats alone notice a crashed peer.

* `PaidIsCharged`, `DisjointPayoutsAreCovered`: dates of payment and payouts
  against the provider's own books. `AggregatesAreOfAMoment`: an aggregate is of
  a set that was valid, or is. `LookupsFind`: indexes lead to all there is.
  `CacheConverges`: left alone, the cache becomes the page and stays it.
* `ExactlyOneFate`: a node is pending or exported, every copy of an exported node is
  in one place, whatever shares its buffer, and the other end knows a node if and
  only if a copy arrived.
  `ChainsAgree`, `HeardEveryGoodbye`, `TrustIsEarned`, `GraphsAgree`, `IndexesLead`
  (four modules' indexes, without those by tool), `VersionKeepsUp`,
  `FirstSessionCanBeStopped`: see the modules.

Each has a mutant in `PROJECT.json`: a plausible bug in a definition that models
code, under which the run refutes it.

### Fairness

Weak fairness on the steps of the event loop (a launched batch is finished, a
settled promise is collected, `Promise.all` of hashes resolves), on the sleeps
between retries and on tool calls: **tools are assumed to
settle**, since the executor has no deadline. No fairness is put on a cooldown: a breaker
nobody calls has no reason to leave OPEN. In `FederatedRuntime` only the
timers are fair: heartbeats and the delay of a reconnection. In `RegistryClient` the
sync timer fires and the server handles a write it has (weak fairness), and of
the searches sent again and again some are answered and delivered (strong
fairness: a network that loses every one converges to nothing). Nothing is assumed of
the user, of saving, of restarts or of remote peers. `executor_live` takes callbacks to return: `executor_wedge`
shows what happens when one throws.

### Findings

1. `executor_wedge`: `onStepStart` throwing for a HALF_OPEN probe
   (`topological-executor.ts:131`) leaves the slot taken for good.
2. `executor_settled`: after a failed step that is not optional, what waits for it is
   in neither set when the loop breaks (`topological-executor.ts:80`), for proper
   DAGs too, against the invariant of `:4-6` and "should never happen for a valid
   plan" of `:81`.
3. `executor_optional`: the loop looks at the `optional` flag of the step that
   waits, not of the one that failed (`topological-executor.ts:77`).
4. `agent_executed`: an intent with `dependsOn` is put into a plan of its own, in
   which its dependency cannot be completed; it is answered "executed" and not
   run (`dispatcher.ts:112`).
5. `federation_max`: a connection that timed out is dropped from the map
   `maxPeers` is compared with, and reconnects all the same
   (`connection/index.ts:152`).
6. `tools_found`: `unregisterAdapter()` takes the tools of the adapter that goes off
   the index, also those another adapter owns by then
   (`adapter-capability-registry.ts:39`).
7. `stop_listening`: from the second start on, registering the cancel command throws
   and the handler lets go of a microphone that listens (`extension.ts:225`).

## 4. Proofs

All for arbitrary constants, from the named assumptions on them, which TLC
evaluates in the runs. Most say what type a constant has (`OptionsAssumption` and
the executor's own, `EnvelopeAssumption`, `ConnectionAssumption`,
`RuntimeAssumption`, `OutcomeAssumption`, `DelayAssumption`, `SessionAssumption`,
`BufferAssumption`, `LimitAssumption`, `AboutAssumption`, `CapabilityAssumption`,
`ClientAssumption`, `EntityAssumption`, `EntityIdAssumption`,
`RecordsAssumption`, `OnlineAssumption`). Three say more: `PeerAssumption`, that a
channel has two ends (any number of peers may be online); `PurposeAssumption`, that exports and graph
messages are among the purposes of the one buffer, which may have any others; and
`PricingAssumption` with `BillingAssumption`, that no price and no quantity is
negative and no tier ends before it begins (`IsRateCard`), which the code leaves to
whoever sets a rate card.

* **`ListProofs`.** The library's induction theorems take an operator as a
  parameter, which the installed provers cannot instantiate; the least element of
  a set of numbers (`LeastElement`, from the well-foundedness of <) does without one: what holds at 0 and goes on from n to n + 1 holds up to
  any bound, stated of a *set* of numbers (`UpTo`), and the same by the size of a
  finite set (`BySize`). With it a recursive function
  has the value its rounds give (`Loop`), and `Only(list, set)`, which the modules
  use for `Array.filter`, has the elements, the order and the injectivity one
  expects (`OnlyElements`, `OnlyPlaces`, `OnlyInjective`). A fold over a finite set
  has one value (`AFold`, `OneFold`), so a sum can take its elements in any order
  (`SumWithout`), goes over to an image (`SumOfImage`) and is at least that of parts
  that do not meet (`SumOfParts`).
* **`BreakerCallersProofs`.** `TypeCorrect`, `BelowThreshold`, `SpellLimit`,
  `DecisionComes`, `NoShortcut`. The strengthening counts: in a HALF_OPEN spell
  the callers that hold a probe's grant, or abandoned one, are tied to the
  breaker's own counter.
* **`TopologicalExecutorProofs`.** The inductive invariant is `LoopInv`: types
  (`TypeOK`); a batch waits for nobody else (`BatchWaits`); only a running call
  launches (`OnlyRunningLaunches`); what is in flight or collected had its
  dependencies collected (`DependencyOrder`); and what has returned is over
  (`ReturnedIsOver`). Neither order nor finality is inductive alone: both need to
  know that nothing is launched behind a call that returned or rejected. From it
  come `Ordered`, `Final`, `Done` and `AtMostOnce`. `Implements`: with statuses and
  outcomes read off the executor's state, its initial states are
  `PlanExecution`'s and each step is one of its steps or a stutter.
  `BreakerInv` adds what a step holds of the breaker in each phase (`GrantsFit`)
  and, when callbacks return, that a HALF_OPEN breaker has a probe out
  (`ProbeIsOut`). `Refused`: where `CallbacksThrow` is false, no step is refused
  for a slot nobody holds. `AreCallers`: for every tool the steps that use it are
  the callers of `BreakerCallers`; the instance has the tool as a parameter, the
  only part of a step that another tool's breaker sees is none of its business
  (`Regrants`), and a grant that fits its phase (`GrantsFit`) is what makes
  each action of the executor the caller's action of the same name.
* **`AgentDispatchProofs`.** The inductive invariant is `LogInv`: every node, in the
  store and in the file, is still that of the envelope it was recorded for
  (`GraphOfCalls`), the node of a call past `record()` is there (`NodeIsThere`),
  what the executor has begun belongs to a call that needs no approval
  (`OnlyPermittedRuns`), answers follow the classification (`AnswersOfTheGate`),
  and saved nodes are kept. It gives `Authorized`, `AnswersAgree`, `Kept` and
  `Stand`. `KeptTransitive` is the lemma that a decision is final. `Indexed`
  (`IndexInv`): a record that is new puts its id last on the three lists it
  belongs to (`PutsLast`) and on no other.
* **`FederatedRuntimeProofs`.** The inductive invariant is `IInv`. Of every link,
  kept or dropped, it says how state, `RTCPeerConnection`, timer and suspended
  method go together (`Coherent`): a dropped link still acts, and its timeouts
  reach the books of its peer. Of a kept link, that it is that peer's and that
  the table has followed it (`Tracked`): this is why the timeout of a kept link
  always has a row in the table and so always drops it. Of the owner of the relay
  handler, that it waits or is open (`Waiting`), without which an answer could
  come to a link the table takes no answer for. One lemma per method says what
  it does to the three; `LocalStep` and `DropStep` are the two shapes of a step.
  It gives `TypeCorrect`, `DirectoryTrue`, `CountTrue`, `TimersTrue`,
  `RelayTrue` and, with a case per action, `SessionsTrue`.
* **`RegistryProofs`.** About the whole server (`ServerSpec`), for any
  capabilities, attestors, prices and bounds; `RoutesKeepApart` says that a route
  touches one of the three parts, so each has an inductive invariant of its own.
  `OracleInv` gives `AggregatesHold`; the step that matters is a submission,
  which replaces an attestation an aggregate may still count, and so has to
  recompute it. `BillingInv` gives `PaidHolds`: it adds that a call is for a
  record that exists and of that record's amount (`CallsMatch`), which stays true
  because totals and amounts never change, and without which an answer could
  date an invoice nothing was charged for. `CoverInv` gives `PayoutsCovered`. The
  records forget too much for it: a second payment overwrites the date that an
  earlier payout counted. So `Covered` keeps what they forget, when each answer
  came and which payments each payout was for, as values that exist; a payout is at
  most the sum of its payments (`NewPayoutCovered`), and those of periods that do
  not meet are different payments. That totals are not negative (`MoneyInv`) takes
  the loop over the tiers (`MeteredIsNat`). `StoreInv` gives `ListingsAreIndexed`
  (the store's half of `LookupsFind`): it adds that an id is listed once
  (`UniqueIds`), without which a deletion would take the index entries of a
  listing that stays. `Found` is `LookupsFind` whole, for the client with the
  registry behind it (`ClientSpec`): a search gives each match its own place
  (`EveryRankIsTaken`: an injection of n places into n is onto), so its answer
  has every match once (`SearchFinds`), and `ClientInv` takes it from there to
  the cache: an answer under way has each id once (`OneOfEach`), without which
  the list of an intent would not be that of the entries.
* **`FederationProofs`.** `GoodbyesHeard`, for any number of services. `OneFate`,
  for the two ends of a connection, any number of peers online and any bounds and
  purposes. The inductive invariant `ExchangeInv` balances three accounts: the ids a
  peer recorded are pending or exported; the copies it made of them are on their way,
  arrived or lost; the ids of what arrived are those the other end imported. Of the
  channels it says what makes this stay so: no copy is in two envelopes (`Apart`),
  only envelopes of provenance carry any, and a buffered or sent one is still whole
  after a flush has sorted the buffer (`SortInTwo`). An export makes one envelope per
  peer, with the same ids and copies of their own (`EnvelopeForFacts`,
  `OneForEach`). The lemmas follow the envelopes through the channels (`PutOnWire`,
  `PutInBuffer`, `FlushMoves`, `TakeFromWire`, `Truncate`).
  `ChainsAreOne`, for walks of any depth: `ChainInv` says of the envelopes of a
  peer that they carry what it recorded (`SentAsRecorded`), of what it recorded
  that the causes are known to it, of what was imported that it has the same
  causes behind a prefix (`CopiesAreTrue`), and of an anchor that it leads to a
  node of the other peer. Then from ids that are foreign to a peer its walk
  reaches only foreign ids (`CausesAre`), so that the walk at the receiver can
  follow it node by node (`WalksKeepStep`).
  `Earned` is `TrustIsEarned`, for any finite set of nodes (`TrustSpec`), cycles of
  causes included: only the number of a node's causes is bounded. `AncestryIs` says
  that the ancestry is the least set with the node that has the causes of its own
  (what is added by n steps has n members at least, so it is complete after as many
  steps as there are ids); `IsChained` that the chain is what counts of the visited,
  each once, and that their causes are visited or queued; `ChainLeft` falls in every
  round, so that at the end the queue is empty or the chain as long as the policy
  lets it grow (`ChainNames`).
* **`ServicesProofs`.** `IndexesTrue`, from an invariant for each of the four
  services: `DirectoryInv` (an adapter's roles lead to it as often as it was
  registered; of its tools nothing can be said, see `tools_found`), `NotesInv`, `MemoryInv` (moving an entry to the front of a list
  without repetitions leaves one without, so the limit cuts off the oldest), and
  `SemanticInv`. `GraphsCompute`, from `SemanticInv` and two lemmas:
  `DiffRestoresEntities` about diffs and `BfsIsBall` about walks, for any finite
  set of entities and any depth. The queue stays in order of depth, over two
  levels (`InLevels`), so what is nearer than its head has been visited
  (`NearerIsVisited`) and a node is never expanded too deep to queue its
  neighbours; `RoundsLeft` falls in every round, so the queue is empty at the end.
  `KeepsUp`, for any delays: the inductive invariant `TiersInv`
  says that what a tier's change has waited and its timer has yet to go are the
  delay at most together, which a tick keeps and which is why the cold tier may
  let its timer run. `FirstSessionStops`, for any number of sessions: `VoiceInv` adds
  that the cancel command is registered once the first session was used, so that no
  later start comes to hold anything: the reason of the finding, and why nothing can
  take the place of the first session while its panel is open.

The type invariants `CallersTypeOK` and `DispatchTypeOK` are proved (`TypeCorrect`)
and not run again.

Only model-checked: the liveness properties (`ExecuteEnds`, `BreakersRecover`,
`EveryDispatchAnswered`, `DeadPeersAreDropped`, `CacheConverges`: liveness under
fairness is outside the prover's reach). Every safety property the runs check of
every state or step is stated by a theorem; assumptions that TLC evaluates for the
pure functions (`SpeechIsCaptured`, `TiersGuard`) are not.

## 5. What is left

Worth modelling next: `connectAsAnswerer` once something calls it; what
`handleIncomingMessage` hands to the other components, so that `FederatedRuntime`
and the services become one system.

Not modelled, and why: I/O adapters (OS, IoT, XR, browser, Playwright, the editor's
tools), storage back ends, prompts and the parsing of a model's answers, the JSON
of the routes and those that only read, type declarations and builders,
documentation, tutorials, ideation notes and examples. What they do is input and
output of the parts that are modelled, and those take any input of the right
shape. Of a save that is cut short (`persist.ts:13`), a tool that never settles, and
two steps with one id, the code says nothing that could be checked; the hazards
say so.
