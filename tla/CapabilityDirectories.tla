----------------------- MODULE CapabilityDirectories -----------------------
(***************************************************************************)
(* Who offers which tool and serves which role: the runtime's              *)
(* AdapterCapabilityRegistry (runtime/src/disambiguation), with the        *)
(* adapters the federation bridge (runtime/src/federation-bridge.ts) adds  *)
(* and drops as peers come and go, and the RemoteCapabilityBridge of the   *)
(* federation (federation/src/discovery).                                  *)
(*                                                                         *)
(* Both enter a registration in an index by tool, where the last one wins, *)
(* and in lists by role, where each registration adds its id once more.    *)
(* The order of a list is left out: a count per role and id stands for it. *)
(***************************************************************************)
EXTENDS Integers, FiniteSets

CONSTANTS Adapter, RemoteId,       \* local adapter ids, and peers
          Tool, Role,
          MaxListed,                  \* bound of the model: occurrences in a list
          Nobody

VARIABLES adapters,              \* id -> {registration}, {} if there is none
          toolOwner, roleCount,  \* toolToAdapter, roleToAdapters
          inDirectory, caps,     \* peerDirectory.entries and .capabilities
          remotes,               \* the bridge's adapters
          remoteTool, remoteRole \* toolIndex, roleIndex

localDirVars  == <<adapters, toolOwner, roleCount>>
peerDirVars   == <<inDirectory, caps>>
remoteDirVars == <<remotes, remoteTool, remoteRole>>
directoryVars == <<localDirVars, peerDirVars, remoteDirVars>>

Registration == [tools : SUBSET Tool, roles : SUBSET Role]
AdapterIds   == Adapter \cup RemoteId       \* "remote:peer" stands as the peer
Keys         == RemoteId \X Adapter         \* "peer:adapter"

DirectoriesInit ==
  /\ adapters   = [id \in AdapterIds |-> {}]
  /\ toolOwner  = [t \in Tool |-> Nobody]
  /\ roleCount  = [e \in Role \X AdapterIds |-> 0]
  /\ inDirectory = {}
  /\ caps       = [p \in RemoteId |-> {}]
  /\ remotes    = [k \in Keys |-> {}]
  /\ remoteTool = [t \in Tool |-> Nobody]
  /\ remoteRole = [e \in Role \X Keys |-> 0]

Pushed(count, roles, id) ==
  [e \in DOMAIN count |-> IF e[1] \in roles /\ e[2] = id THEN count[e] + 1 ELSE count[e]]

Fits(count, roles, id) == \A r \in roles : count[<<r, id>>] < MaxListed

Owned(owner, tools, id) == [t \in Tool |-> IF t \in tools THEN id ELSE owner[t]]

RegisterAdapter(id, reg) ==
  /\ Fits(roleCount, reg.roles, id)
  /\ adapters'  = [adapters EXCEPT ![id] = {reg}]
  /\ toolOwner' = Owned(toolOwner, reg.tools, id)
  /\ roleCount' = Pushed(roleCount, reg.roles, id)
  /\ UNCHANGED remoteDirVars

\* findTool: the owner in the index, if it still is there and still has the tool.
FindTool(t) ==
  IF \E reg \in (IF toolOwner[t] = Nobody THEN {} ELSE adapters[toolOwner[t]]) : t \in reg.tools
    THEN toolOwner[t] ELSE Nobody

\* unregisterAdapter: each role loses one occurrence, the tools whoever owns them.
UnregisterAdapter(id) ==
  /\ IF adapters[id] = {} THEN UNCHANGED localDirVars
     ELSE /\ adapters'  = [adapters EXCEPT ![id] = {}]
          /\ toolOwner' = Owned(toolOwner, UNION {reg.tools : reg \in adapters[id]}, Nobody)
          /\ roleCount' = [e \in DOMAIN roleCount |->
                             IF e[2] = id /\ roleCount[e] > 0 THEN roleCount[e] - 1 ELSE roleCount[e]]
  /\ UNCHANGED remoteDirVars

\* getAdaptersForRole: an id that is listed and has no adapter is skipped.
AdaptersForRole(r) == {id \in AdapterIds : roleCount[<<r, id>>] > 0 /\ adapters[id] # {}}

\* peer_discovered, which is notified before the peer is in the directory: the
\* first join of a peer registers no adapter, each later one does.  The runtime then
\* enters the peer, unless it has as many connections as maxPeers allows.
PeerDiscovered(p) ==
  /\ IF p \in inDirectory
       THEN RegisterAdapter(p, [tools |-> {}, roles |-> UNION caps[p]])
       ELSE UNCHANGED <<localDirVars, remoteDirVars>>
  /\ inDirectory' \in {inDirectory, inDirectory \cup {p}}
  /\ UNCHANGED caps

\* handleCapabilityMessage and updateCapabilities
HandleCapability(p, roles) ==
  /\ caps' = [caps EXCEPT ![p] = {roles}]
  /\ UNCHANGED <<localDirVars, remoteDirVars, inDirectory>>

\* peer_disconnected: the directory keeps the peer as offline.
PeerDisconnected(p) ==
  /\ UnregisterAdapter(p)
  /\ UNCHANGED peerDirVars

\* stop() of the federated runtime, after the connected peers were disconnected: the
\* directory is cleared, and the adapters of the other peers stay.
StopRuntime ==
  /\ inDirectory' = {} /\ caps' = [p \in RemoteId |-> {}]
  /\ UNCHANGED <<localDirVars, remoteDirVars>>

RegisterRemoteAdapter(k, reg) ==
  /\ Fits(remoteRole, reg.roles, k)
  /\ remotes'    = [remotes EXCEPT ![k] = {reg}]
  /\ remoteTool' = Owned(remoteTool, reg.tools, k[1])
  /\ remoteRole' = Pushed(remoteRole, reg.roles, k)
  /\ UNCHANGED localDirVars

ToolsOf(keys) == UNION {reg.tools : reg \in UNION {remotes[k] : k \in keys}}

\* unregisterRemoteAdapter leaves the lists by role as they are.
UnregisterRemoteAdapter(k) ==
  /\ remotes'    = [remotes EXCEPT ![k] = {}]
  /\ remoteTool' = Owned(remoteTool, ToolsOf({k}), Nobody)
  /\ UNCHANGED <<remoteRole, localDirVars>>

\* unregisterPeer takes its adapters, and only those, off the lists.
UnregisterPeer(p) ==
  LET gone == {k \in Keys : k[1] = p /\ remotes[k] # {}}
  IN /\ remotes'    = [k \in Keys |-> IF k \in gone THEN {} ELSE remotes[k]]
     /\ remoteTool' = Owned(remoteTool, ToolsOf(gone), Nobody)
     /\ remoteRole' = [e \in DOMAIN remoteRole |-> IF e[2] \in gone THEN 0 ELSE remoteRole[e]]
     /\ UNCHANGED localDirVars

RemoteAdaptersForRole(r) == {k \in Keys : remoteRole[<<r, k>>] > 0 /\ remotes[k] # {}}

\* The runtime's registry and the peers, and the bridge of the federation.
RegistryNext ==
  \/ \E p \in RemoteId :
       \/ PeerDiscovered(p) \/ PeerDisconnected(p)
       \/ \E roles \in SUBSET Role : HandleCapability(p, roles)
  \/ StopRuntime
  \/ /\ \E id \in Adapter : UnregisterAdapter(id) \/ \E reg \in Registration : RegisterAdapter(id, reg)
     /\ UNCHANGED peerDirVars

BridgeNext ==
  /\ \/ \E k \in Keys : \/ \E reg \in Registration : RegisterRemoteAdapter(k, reg)
                        \/ UnregisterRemoteAdapter(k)
     \/ \E p \in RemoteId : UnregisterPeer(p)
  /\ UNCHANGED peerDirVars

DirectoriesSpec == DirectoriesInit /\ [][RegistryNext \/ BridgeNext]_directoryVars

(***************************************************************************)
(* An adapter that is registered is found by every role it serves, however *)
(* often it was registered, with whatever roles, and dropped before: the   *)
(* lists never lose an occurrence too many.                                *)
(***************************************************************************)
RolesCover ==
  /\ \A id \in AdapterIds : \A reg \in adapters[id] : \A r \in reg.roles : id \in AdaptersForRole(r)
  /\ \A k \in Keys : \A reg \in remotes[k] : \A r \in reg.roles : k \in RemoteAdaptersForRole(r)

(***************************************************************************)
(* What the documentation says and the code does not do.  The registry is  *)
(* there to "discover which adapter can handle a given tool call"          *)
(* (adapter-capability-registry.ts:14-15): a tool that a registered        *)
(* adapter has is found.  But the adapter that goes takes its tools off    *)
(* the index, whoever has registered them since.                           *)
(***************************************************************************)
ToolsFound ==
  \A id \in AdapterIds : \A reg \in adapters[id] : \A t \in reg.tools : FindTool(t) # Nobody

=============================================================================
