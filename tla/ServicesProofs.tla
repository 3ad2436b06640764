--------------------------- MODULE ServicesProofs ---------------------------
(***************************************************************************)
(* Proofs about the services of one host, for any sets of ids, roles and   *)
(* files, any limits and delays: every index leads to what it is an index  *)
(* of, a diff restores the graph it was computed from, a walk of the      *)
(* graph visits what paths of its depth lead to and nothing else, no       *)
(* change waits for a version longer than its tier allows, and the stop    *)
(* commands reach the right microphone.                                    *)
(***************************************************************************)
EXTENDS ServiceIndexes, SnapshotTiers, VoiceSession, ListProofs

-----------------------------------------------------------------------------
(* The directories of capabilities                                         *)

LocalInv ==
  /\ adapters \in [AdapterIds -> SUBSET Registration]
  /\ roleCount \in [Role \X AdapterIds -> Nat]
  /\ \A id \in AdapterIds : \A reg \in adapters[id] : \A r \in reg.roles : roleCount[<<r, id>>] > 0

RemoteInv ==
  /\ remotes \in [Keys -> SUBSET Registration]
  /\ remoteRole \in [Role \X Keys -> Nat]
  /\ \A k \in Keys : \A reg \in remotes[k] : \A r \in reg.roles : remoteRole[<<r, k>>] > 0

CapsType == caps \in [RemoteId -> SUBSET SUBSET Role]

DirectoryInv == LocalInv /\ RemoteInv /\ CapsType

\* A registration adds its id to the list of each of its roles.
LEMMA PushedFacts ==
  ASSUME NEW Ids, NEW count \in [Role \X Ids -> Nat], NEW roles \in SUBSET Role, NEW id \in Ids
  PROVE  /\ Pushed(count, roles, id) \in [Role \X Ids -> Nat]
         /\ \A e \in Role \X Ids : Pushed(count, roles, id)[e] >= count[e]
         /\ \A r \in roles : Pushed(count, roles, id)[<<r, id>>] > 0
<1>1. \A e \in Role \X Ids :
        /\ Pushed(count, roles, id)[e] = IF e[1] \in roles /\ e[2] = id THEN count[e] + 1 ELSE count[e]
        /\ count[e] \in Nat
  BY DEF Pushed
<1>2. Pushed(count, roles, id) \in [Role \X Ids -> Nat] BY <1>1 DEF Pushed
<1>3. \A r \in roles : <<r, id>> \in Role \X Ids /\ <<r, id>>[1] = r /\ <<r, id>>[2] = id OBVIOUS
<1> QED BY <1>1, <1>2, <1>3

\* A registration in place of an older one is found by each of its roles.
LEMMA RegisterKeepsRoles ==
  ASSUME DirectoryInv, NEW id \in AdapterIds, NEW reg \in Registration, RegisterAdapter(id, reg)
  PROVE  LocalInv' /\ RemoteInv'
<1>1. /\ adapters' = [adapters EXCEPT ![id] = {reg}] /\ UNCHANGED <<remotes, remoteRole>>
      /\ roleCount' = Pushed(roleCount, reg.roles, id) /\ reg.roles \in SUBSET Role
  BY DEF RegisterAdapter, remoteDirVars, Registration
<1>2. adapters \in [AdapterIds -> SUBSET Registration] /\ roleCount \in [Role \X AdapterIds -> Nat]
  BY DEF DirectoryInv, LocalInv
<1>3. /\ roleCount' \in [Role \X AdapterIds -> Nat]
      /\ \A e \in Role \X AdapterIds : roleCount'[e] >= roleCount[e]
      /\ \A r \in reg.roles : roleCount'[<<r, id>>] > 0
  BY <1>1, <1>2, PushedFacts
<1>4. ASSUME NEW i \in AdapterIds, NEW old \in adapters'[i], NEW r \in old.roles
      PROVE  roleCount'[<<r, i>>] > 0
  <2>1. CASE i = id BY <1>1, <1>2, <1>3, <1>4, <2>1
  <2>2. CASE i # id
    <3>1. old \in adapters[i] /\ old \in Registration BY <1>1, <1>2, <1>4, <2>2
    <3>2. roleCount[<<r, i>>] > 0 /\ <<r, i>> \in Role \X AdapterIds
      BY <1>4, <3>1 DEF DirectoryInv, LocalInv, Registration
    <3>3. roleCount[<<r, i>>] \in Nat /\ roleCount'[<<r, i>>] \in Nat BY <1>2, <1>3, <3>2
    <3>4. roleCount'[<<r, i>>] >= roleCount[<<r, i>>] BY <1>3, <3>2
    <3> QED BY <3>2, <3>3, <3>4
  <2> QED BY <2>1, <2>2
<1>5. adapters' \in [AdapterIds -> SUBSET Registration] BY <1>1, <1>2
<1>6. LocalInv' BY <1>3, <1>4, <1>5 DEF LocalInv
<1> QED BY <1>1, <1>6 DEF DirectoryInv, RemoteInv

\* Each list of roles gives up one entry of the adapter, and the adapter is gone.
LEMMA UnregisterKeepsRoles ==
  ASSUME DirectoryInv, NEW id \in AdapterIds, UnregisterAdapter(id)
  PROVE  LocalInv' /\ RemoteInv'
<1>1. RemoteInv' BY DEF UnregisterAdapter, remoteDirVars, DirectoryInv, RemoteInv
<1>2. CASE adapters[id] = {} BY <1>1, <1>2 DEF UnregisterAdapter, localDirVars, DirectoryInv, LocalInv
<1>3. CASE adapters[id] # {}
  <2>1. /\ adapters' = [adapters EXCEPT ![id] = {}]
        /\ roleCount' = [e \in DOMAIN roleCount |->
                           IF e[2] = id /\ roleCount[e] > 0 THEN roleCount[e] - 1 ELSE roleCount[e]]
    BY <1>3 DEF UnregisterAdapter
  <2>2. adapters \in [AdapterIds -> SUBSET Registration] /\ roleCount \in [Role \X AdapterIds -> Nat]
    BY DEF DirectoryInv, LocalInv
  <2>3. adapters' \in [AdapterIds -> SUBSET Registration] /\ roleCount' \in [Role \X AdapterIds -> Nat]
    <3>1. \A e \in Role \X AdapterIds : roleCount[e] \in Nat BY <2>2
    <3>2. \A e \in Role \X AdapterIds : roleCount[e] > 0 => roleCount[e] - 1 \in Nat BY <3>1
    <3> QED BY <2>1, <2>2, <3>1, <3>2
  <2>4. ASSUME NEW i \in AdapterIds, NEW old \in adapters'[i], NEW r \in old.roles
        PROVE  roleCount'[<<r, i>>] > 0
    <3>1. i # id /\ old \in adapters[i] /\ old \in Registration BY <2>1, <2>2, <2>4
    <3>2. roleCount[<<r, i>>] > 0 /\ <<r, i>> \in Role \X AdapterIds
      BY <2>4, <3>1 DEF DirectoryInv, LocalInv, Registration
    <3>3. roleCount'[<<r, i>>] = roleCount[<<r, i>>] BY <2>1, <2>2, <3>1, <3>2
    <3> QED BY <3>2, <3>3
  <2> QED BY <1>1, <2>3, <2>4 DEF LocalInv
<1> QED BY <1>2, <1>3

\* So does what a peer advertises, and its leaving.
LEMMA PeersKeepRoles ==
  ASSUME DirectoryInv, NEW p \in RemoteId,
         PeerDiscovered(p) \/ PeerDisconnected(p) \/ \E roles \in SUBSET Role : HandleCapability(p, roles)
  PROVE  DirectoryInv'
<1>1. p \in AdapterIds /\ caps[p] \in SUBSET SUBSET Role /\ CapsType
  BY DEF AdapterIds, DirectoryInv, CapsType
<1>2. CASE PeerDiscovered(p)
  <2> DEFINE reg == [tools |-> {}, roles |-> UNION caps[p]]
  <2>1. reg \in Registration BY <1>1 DEF Registration
  <2>2. CapsType' BY <1>1, <1>2 DEF PeerDiscovered, CapsType
  <2>3. CASE RegisterAdapter(p, reg)
    <3> HIDE DEF reg
    <3> QED BY <1>1, <2>1, <2>2, <2>3, RegisterKeepsRoles DEF DirectoryInv
  <2>4. CASE UNCHANGED <<localDirVars, remoteDirVars>>
    BY <2>2, <2>4 DEF localDirVars, remoteDirVars, DirectoryInv, LocalInv, RemoteInv
  <2> QED BY <1>2, <2>3, <2>4 DEF PeerDiscovered
<1>3. CASE PeerDisconnected(p)
  <2>1. UnregisterAdapter(p) /\ UNCHANGED caps BY <1>3 DEF PeerDisconnected, peerDirVars
  <2>2. CapsType' BY <1>1, <2>1 DEF CapsType
  <2> QED BY <1>1, <2>1, <2>2, UnregisterKeepsRoles DEF DirectoryInv
<1>4. ASSUME NEW roles \in SUBSET Role, HandleCapability(p, roles) PROVE DirectoryInv'
  BY <1>1, <1>4 DEF HandleCapability, localDirVars, remoteDirVars, DirectoryInv, LocalInv, RemoteInv, CapsType
<1> QED BY <1>2, <1>3, <1>4

\* The bridge keeps its remote adapters in the same way, under peer and name.
LEMMA BridgeKeepsRoles ==
  ASSUME DirectoryInv, BridgeNext
  PROVE  DirectoryInv'
<1>1. /\ remotes \in [Keys -> SUBSET Registration] /\ remoteRole \in [Role \X Keys -> Nat]
      /\ \A k \in Keys : \A reg \in remotes[k] : \A r \in reg.roles : remoteRole[<<r, k>>] > 0
  BY DEF DirectoryInv, RemoteInv
<1>2. CapsType' BY DEF BridgeNext, peerDirVars, DirectoryInv, CapsType
<1>3. ASSUME NEW k \in Keys, NEW reg \in Registration, RegisterRemoteAdapter(k, reg) PROVE DirectoryInv'
  <2>1. /\ remotes' = [remotes EXCEPT ![k] = {reg}] /\ UNCHANGED <<adapters, roleCount>>
        /\ remoteRole' = Pushed(remoteRole, reg.roles, k) /\ reg.roles \in SUBSET Role
    BY <1>3 DEF RegisterRemoteAdapter, localDirVars, Registration
  <2>2. /\ remoteRole' \in [Role \X Keys -> Nat]
        /\ \A e \in Role \X Keys : remoteRole'[e] >= remoteRole[e]
        /\ \A r \in reg.roles : remoteRole'[<<r, k>>] > 0
    BY <1>1, <2>1, PushedFacts
  <2>3. ASSUME NEW i \in Keys, NEW old \in remotes'[i], NEW r \in old.roles
        PROVE  remoteRole'[<<r, i>>] > 0
    <3>1. CASE i = k BY <1>1, <2>1, <2>2, <2>3, <3>1
    <3>2. CASE i # k
      <4>1. old \in remotes[i] /\ old \in Registration BY <1>1, <2>1, <2>3, <3>2
      <4>2. remoteRole[<<r, i>>] > 0 /\ <<r, i>> \in Role \X Keys
        BY <1>1, <2>3, <4>1 DEF Registration
      <4>3. remoteRole[<<r, i>>] \in Nat /\ remoteRole'[<<r, i>>] \in Nat BY <1>1, <2>2, <4>2
      <4>4. remoteRole'[<<r, i>>] >= remoteRole[<<r, i>>] BY <2>2, <4>2
      <4> QED BY <4>2, <4>3, <4>4
    <3> QED BY <3>1, <3>2
  <2>4. remotes' \in [Keys -> SUBSET Registration] BY <1>1, <2>1
  <2>5. RemoteInv' BY <2>2, <2>3, <2>4 DEF RemoteInv
  <2>6. LocalInv' BY <2>1 DEF DirectoryInv, LocalInv
  <2> QED BY <1>2, <2>5, <2>6 DEF DirectoryInv
<1>4. ASSUME NEW k \in Keys, UnregisterRemoteAdapter(k) PROVE DirectoryInv'
  <2>1. remotes' = [remotes EXCEPT ![k] = {}] /\ UNCHANGED <<remoteRole, adapters, roleCount>>
    BY <1>4 DEF UnregisterRemoteAdapter, localDirVars
  <2>2. \A i \in Keys : remotes'[i] \subseteq remotes[i] BY <1>1, <2>1
  <2>3. RemoteInv' BY <1>1, <2>1, <2>2 DEF RemoteInv
  <2>4. LocalInv' BY <2>1 DEF DirectoryInv, LocalInv
  <2> QED BY <1>2, <2>3, <2>4 DEF DirectoryInv
<1>5. ASSUME NEW p \in RemoteId, UnregisterPeer(p) PROVE DirectoryInv'
  <2> DEFINE gone == {k \in Keys : k[1] = p /\ remotes[k] # {}}
  <2>1. /\ remotes' = [k \in Keys |-> IF k \in gone THEN {} ELSE remotes[k]]
        /\ remoteRole' = [e \in DOMAIN remoteRole |-> IF e[2] \in gone THEN 0 ELSE remoteRole[e]]
        /\ UNCHANGED <<adapters, roleCount>>
    BY <1>5 DEF UnregisterPeer, localDirVars
  <2> HIDE DEF gone
  <2>2. remotes' \in [Keys -> SUBSET Registration] /\ remoteRole' \in [Role \X Keys -> Nat]
    BY <1>1, <2>1
  <2>3. ASSUME NEW i \in Keys, NEW old \in remotes'[i], NEW r \in old.roles
        PROVE  remoteRole'[<<r, i>>] > 0
    <3>1. i \notin gone /\ old \in remotes[i] /\ old \in Registration BY <1>1, <2>1, <2>3
    <3>2. remoteRole[<<r, i>>] > 0 /\ <<r, i>> \in Role \X Keys BY <1>1, <2>3, <3>1 DEF Registration
    <3>3. remoteRole'[<<r, i>>] = remoteRole[<<r, i>>] BY <1>1, <2>1, <3>1, <3>2
    <3> QED BY <3>2, <3>3
  <2>4. RemoteInv' BY <2>2, <2>3 DEF RemoteInv
  <2>5. LocalInv' BY <2>1 DEF DirectoryInv, LocalInv
  <2> QED BY <1>2, <2>4, <2>5 DEF DirectoryInv
<1> QED BY <1>3, <1>4, <1>5 DEF BridgeNext

\* RolesCover: an adapter that is registered is found by every role it serves.
THEOREM RolesFound == DirectoriesSpec => []RolesCover
<1>1. DirectoriesInit => DirectoryInv
  BY DEF DirectoriesInit, DirectoryInv, LocalInv, RemoteInv, CapsType
<1>2. DirectoryInv /\ [RegistryNext \/ BridgeNext]_directoryVars => DirectoryInv'
  <2> SUFFICES ASSUME DirectoryInv, [RegistryNext \/ BridgeNext]_directoryVars PROVE DirectoryInv'
    OBVIOUS
  <2>1. ASSUME NEW id \in Adapter, UNCHANGED peerDirVars,
               UnregisterAdapter(id) \/ \E reg \in Registration : RegisterAdapter(id, reg)
        PROVE  DirectoryInv'
    <3>1. id \in AdapterIds /\ CapsType' BY <2>1 DEF AdapterIds, peerDirVars, DirectoryInv, CapsType
    <3> QED BY <2>1, <3>1, RegisterKeepsRoles, UnregisterKeepsRoles DEF DirectoryInv
  <2>2. CASE UNCHANGED directoryVars
    BY <2>2 DEF directoryVars, localDirVars, peerDirVars, remoteDirVars, DirectoryInv, LocalInv, RemoteInv, CapsType
  <2>3. CASE StopRuntime
    BY <2>3 DEF StopRuntime, localDirVars, remoteDirVars, DirectoryInv, LocalInv, RemoteInv, CapsType
  <2> QED BY <2>1, <2>2, <2>3, PeersKeepRoles, BridgeKeepsRoles DEF RegistryNext
<1>3. DirectoryInv => RolesCover
  <2> SUFFICES ASSUME DirectoryInv PROVE RolesCover OBVIOUS
  <2>1. ASSUME NEW id \in AdapterIds, NEW reg \in adapters[id], NEW r \in reg.roles
        PROVE  id \in AdaptersForRole(r)
    BY <2>1 DEF DirectoryInv, LocalInv, AdaptersForRole
  <2>2. ASSUME NEW k \in Keys, NEW reg \in remotes[k], NEW r \in reg.roles
        PROVE  k \in RemoteAdaptersForRole(r)
    BY <2>2 DEF DirectoryInv, RemoteInv, RemoteAdaptersForRole
  <2> QED BY <2>1, <2>2 DEF RolesCover
<1> QED BY <1>1, <1>2, <1>3, PTL DEF DirectoriesSpec

-----------------------------------------------------------------------------
(* The annotations                                                         *)

NotesInv ==
  /\ annotations \subseteq Note
  /\ noteLists \in [SharedEntity \X Note -> Nat]
  /\ \A e \in SharedEntity, n \in Note :
       noteLists[<<e, n>>] > 0 <=> n \in annotations /\ AboutOf[n] = e

\* A note is put on the list of what it is about, and on no other.
LEMMA WithNoteFacts ==
  ASSUME NotesInv, NEW n \in Note
  PROVE  /\ WithNote(noteLists, n) \in [SharedEntity \X Note -> Nat]
         /\ \A e \in SharedEntity, m \in Note :
              WithNote(noteLists, n)[<<e, m>>] > 0 <=> m \in annotations \cup {n} /\ AboutOf[m] = e
<1>1. AboutOf[n] \in SharedEntity BY AboutAssumption DEF Note
<1>2. \A x \in SharedEntity \X Note : noteLists[x] \in Nat BY DEF NotesInv
<1>3. \A x \in SharedEntity \X Note :
        WithNote(noteLists, n)[x] = IF x = <<AboutOf[n], n>> THEN noteLists[x] + 1 ELSE noteLists[x]
  BY <1>1 DEF WithNote, NotesInv
<1>4. WithNote(noteLists, n) \in [SharedEntity \X Note -> Nat] BY <1>1, <1>2 DEF WithNote, NotesInv
<1>5. ASSUME NEW e \in SharedEntity, NEW m \in Note
      PROVE  WithNote(noteLists, n)[<<e, m>>] > 0 <=> m \in annotations \cup {n} /\ AboutOf[m] = e
  <2>1. <<e, m>> \in SharedEntity \X Note OBVIOUS
  <2>2. noteLists[<<e, m>>] \in Nat BY <1>2, <2>1
  <2>3. noteLists[<<e, m>>] > 0 <=> m \in annotations /\ AboutOf[m] = e BY DEF NotesInv
  <2>4. CASE e = AboutOf[n] /\ m = n BY <1>3, <2>1, <2>2, <2>4
  <2>5. CASE ~(e = AboutOf[n] /\ m = n)
    <3>1. <<e, m>> # <<AboutOf[n], n>> BY <2>5
    <3>2. WithNote(noteLists, n)[<<e, m>>] = noteLists[<<e, m>>] BY <1>3, <2>1, <3>1
    <3> QED BY <2>3, <2>5, <3>2
  <2> QED BY <2>4, <2>5
<1> QED BY <1>4, <1>5

\* AnnotationsAreListed: the list of an entity holds the annotations about it.
THEOREM NotesListed == CollabSpec => []AnnotationsAreListed
<1>1. CollabInit => NotesInv BY DEF CollabInit, NotesInv
<1>2. NotesInv /\ [Environment \/ NotesNext \/ TalkNext]_collabVars => NotesInv'
  <2> SUFFICES ASSUME NotesInv, [Environment \/ NotesNext \/ TalkNext]_collabVars PROVE NotesInv'
    OBVIOUS
  <2>1. CASE UNCHANGED <<annotations, noteLists>> BY <2>1 DEF NotesInv
  <2>2. ASSUME NEW n \in Note, Annotate(n) \/ HandleIncomingAnnotation(n) PROVE NotesInv'
    <3>1. annotations' = annotations \cup {n} /\ noteLists' = WithNote(noteLists, n)
      BY <2>2 DEF Annotate, HandleIncomingAnnotation
    <3> QED BY <3>1, WithNoteFacts DEF NotesInv
  <2>3. ASSUME NEW n \in Note, RemoveAnnotation(n) PROVE NotesInv'
    <3>1. /\ annotations' = annotations \ {n} /\ AboutOf[n] \in SharedEntity
          /\ noteLists' = [noteLists EXCEPT ![<<AboutOf[n], n>>] = 0]
      BY <2>3, AboutAssumption DEF RemoveAnnotation, Note
    <3>2. noteLists' \in [SharedEntity \X Note -> Nat] BY <3>1 DEF NotesInv
    <3>3. ASSUME NEW e \in SharedEntity, NEW m \in Note
          PROVE  noteLists'[<<e, m>>] > 0 <=> m \in annotations' /\ AboutOf[m] = e
      <4>1. noteLists'[<<e, m>>] = IF e = AboutOf[n] /\ m = n THEN 0 ELSE noteLists[<<e, m>>]
        BY <3>1 DEF NotesInv
      <4> QED BY <3>1, <4>1 DEF NotesInv
    <3> QED BY <3>1, <3>2, <3>3 DEF NotesInv
  <2>4. ASSUME NEW e \in SharedEntity, ClearEntityAnnotations(e) PROVE NotesInv'
    <3>1. /\ annotations' = annotations \ OnList(e)
          /\ noteLists' = [x \in DOMAIN noteLists |-> IF x[1] = e THEN 0 ELSE noteLists[x]]
      BY <2>4 DEF ClearEntityAnnotations
    <3>2. noteLists' \in [SharedEntity \X Note -> Nat] BY <3>1 DEF NotesInv
    <3>3. ASSUME NEW f \in SharedEntity, NEW m \in Note
          PROVE  noteLists'[<<f, m>>] > 0 <=> m \in annotations' /\ AboutOf[m] = f
      <4>1. noteLists'[<<f, m>>] = IF f = e THEN 0 ELSE noteLists[<<f, m>>]
        BY <3>1 DEF NotesInv
      <4>2. m \in OnList(e) <=> m \in annotations /\ AboutOf[m] = e BY DEF OnList, NotesInv
      <4> QED BY <3>1, <4>1, <4>2 DEF NotesInv
    <3> QED BY <3>1, <3>2, <3>3 DEF NotesInv
  <2>5. ASSUME TalkNext PROVE UNCHANGED <<annotations, noteLists>>
    BY <2>5 DEF TalkNext, Share, RevokeShare, TimePasses, HandleIncomingMessage, CleanExpired, Discuss,
                Broadcast, SharesBecome
  <2>6. ASSUME Environment PROVE UNCHANGED <<annotations, noteLists>> BY <2>6 DEF Environment
  <2> QED BY <2>1, <2>2, <2>3, <2>4, <2>5, <2>6 DEF NotesNext, collabVars
<1>3. NotesInv => AnnotationsAreListed BY DEF NotesInv, AnnotationsAreListed, OnList
<1> QED BY <1>1, <1>2, <1>3, PTL DEF CollabSpec

-----------------------------------------------------------------------------
(* The interaction memory                                                  *)

\* A history and what was discussed last, in memory or in the file.
Remembered(h, last) == h \in Seq(Thing) /\ Coherent(h, last)

MemoryInv ==
  /\ Remembered(history, lastDiscussed)
  /\ file # Nothing => Remembered(file.history, file.last)

\* The history with something in front is within its limit and names it once.
LEMMA InFrontFacts ==
  ASSUME NEW h, NEW last, Remembered(h, last), NEW e \in Thing
  PROVE  Remembered(InFront(h, e), e)
<1> DEFINE rest == Only(h, Thing \ {e})
           all == <<e>> \o rest
           k == Len(rest)
<1>1. h \in Seq(Thing) /\ Len(h) <= HistoryLimit /\ IsInjective(h) /\ Len(h) \in Nat
  BY DEF Remembered, Coherent
<1>2. rest \in Seq(Thing) /\ k <= Len(h) /\ ToSet(rest) = ToSet(h) \cap (Thing \ {e}) /\ IsInjective(rest)
  <2>1. rest \in Seq(Thing) /\ k <= Len(h) BY <1>1, OnlyPlaces
  <2>2. ToSet(rest) = ToSet(h) \cap (Thing \ {e}) BY <1>1, OnlyElements
  <2>3. IsInjective(rest) BY <1>1, OnlyInjective
  <2> QED BY <2>1, <2>2, <2>3
<1> HIDE DEF rest
<1>3. k \in Nat /\ DOMAIN rest = 1..k BY <1>2
<1>4. /\ all \in Seq(Thing) /\ Len(all) = k + 1 /\ DOMAIN all = 1..(k + 1) /\ all[1] = e
      /\ \A i \in 2..(k + 1) : i - 1 \in 1..k /\ all[i] = rest[i - 1]
  BY <1>2, <1>3
<1>5. \A i \in 1..k : rest[i] # e BY <1>2, <1>3 DEF ToSet
<1> HIDE DEF all, k
<1>6. IsInjective(all)
  <2> SUFFICES ASSUME NEW i \in 1..(k + 1), NEW j \in 1..(k + 1), all[i] = all[j] PROVE i = j
    BY <1>4 DEF IsInjective
  <2>1. CASE i = 1 /\ j = 1 BY <2>1
  <2>2. CASE i = 1 /\ j # 1
    <3>1. j \in 2..(k + 1) BY <1>3, <2>2
    <3> QED BY <1>4, <1>5, <2>2, <3>1
  <2>3. CASE i # 1 /\ j = 1
    <3>1. i \in 2..(k + 1) BY <1>3, <2>3
    <3> QED BY <1>4, <1>5, <2>3, <3>1
  <2>4. CASE i # 1 /\ j # 1
    <3>1. i \in 2..(k + 1) /\ j \in 2..(k + 1) BY <1>3, <2>4
    <3>2. i - 1 \in DOMAIN rest /\ j - 1 \in DOMAIN rest /\ rest[i - 1] = rest[j - 1]
      BY <1>3, <1>4, <3>1
    <3>3. i - 1 = j - 1 BY <1>2, <3>2 DEF IsInjective
    <3> QED BY <3>3
  <2> QED BY <2>1, <2>2, <2>3, <2>4
<1>a. InFront(h, e) = IF k + 1 > HistoryLimit THEN Front(all) ELSE all
  <2>1. InFront(h, e) = IF Len(all) > HistoryLimit THEN Front(all) ELSE all BY DEF InFront, all, rest
  <2> QED BY <1>4, <2>1
<1>b. k \in Nat /\ HistoryLimit \in Nat /\ HistoryLimit >= 1 /\ k <= HistoryLimit
  <2>1. k <= Len(h) BY <1>2 DEF k
  <2> QED BY <1>1, <1>3, <2>1, LimitAssumption
<1>7. CASE k + 1 <= HistoryLimit
  <2>1. InFront(h, e) = all BY <1>a, <1>b, <1>7
  <2>2. 1 \in DOMAIN all BY <1>3, <1>4
  <2> QED BY <1>4, <1>6, <1>7, <2>1, <2>2 DEF Remembered, Coherent, At
<1>8. CASE ~(k + 1 <= HistoryLimit)
  <2> DEFINE front == Front(all)
  <2>1. InFront(h, e) = front BY <1>a, <1>b, <1>8
  <2>2. k = HistoryLimit /\ k >= 1 BY <1>b, <1>8
  <2>3. front = SubSeq(all, 1, k) BY <1>3, <1>4 DEF Front
  <2>4. /\ front \in Seq(Thing) /\ Len(front) = k /\ DOMAIN front = 1..k
        /\ \A i \in 1..k : front[i] = all[i] /\ i \in 1..(k + 1)
    BY <1>3, <1>4, <2>2, <2>3
  <2> HIDE DEF front
  <2>5. IsInjective(front) BY <1>4, <1>6, <2>4 DEF IsInjective
  <2>6. 1 \in 1..k /\ front[1] = e BY <1>3, <1>4, <2>2, <2>4
  <2> QED BY <2>1, <2>2, <2>4, <2>5, <2>6 DEF Remembered, Coherent, At
<1> QED BY <1>7, <1>8

\* A memory that starts or is cleared.
LEMMA NothingRemembered == Remembered(<<>>, Nothing)
BY LimitAssumption DEF Remembered, Coherent, At, IsInjective

\* MemoryIsCoherent: the newest of the history is what was discussed last, also
\* in one that is loaded.
THEOREM MemoryCoherent == MemorySpec => []MemoryIsCoherent
<1>1. MemoryInit => MemoryInv BY NothingRemembered DEF MemoryInit, MemoryInv
<1>2. MemoryInv /\ [MemoryNext]_memoryVars => MemoryInv'
  <2> SUFFICES ASSUME MemoryInv, [MemoryNext]_memoryVars PROVE MemoryInv' OBVIOUS
  <2>1. CASE UNCHANGED <<history, lastDiscussed, file>> BY <2>1 DEF MemoryInv
  <2>2. ASSUME NEW e \in Thing, NEW raw \in BOOLEAN, PushToHistory(e, raw) PROVE MemoryInv'
    BY <2>2, InFrontFacts DEF MemoryInv, PushToHistory
  <2>3. CASE Clear \/ Restart BY <2>3, NothingRemembered DEF Clear, Restart, MemoryInv
  <2>4. CASE Save
    <3>1. /\ file'.history = history /\ file'.last = lastDiscussed
          /\ UNCHANGED <<history, lastDiscussed>>
      BY <2>4 DEF Save
    <3> QED BY <3>1 DEF MemoryInv
  <2>5. CASE Load BY <2>5 DEF Load, MemoryInv
  <2>6. ASSUME NEW e \in Thing, RecordRemoteTurn(e) PROVE MemoryInv' BY <2>1, <2>6 DEF RecordRemoteTurn
  <2> QED BY <2>1, <2>2, <2>3, <2>4, <2>5, <2>6 DEF MemoryNext, memoryVars
<1>3. MemoryInv => MemoryIsCoherent
  BY DEF MemoryInv, Remembered, Coherent, MemoryIsCoherent, ResolveConversational
<1> QED BY <1>1, <1>2, <1>3, PTL DEF MemorySpec

-----------------------------------------------------------------------------
(* The semantic graph                                                      *)

EntityType == [role : EntityRole, source : Source, rels : SUBSET EntityId, at : Nat]
NodeOfEntity == [entity : EntityType, out : SUBSET EntityId, in : SUBSET EntityId]

SemanticType(graph) ==
  /\ {"nodes", "version"} \subseteq DOMAIN graph
  /\ DOMAIN graph.nodes \subseteq EntityId
  /\ \A x \in DOMAIN graph.nodes : graph.nodes[x] \in NodeOfEntity
  /\ graph.version \in Nat
  /\ graph.byRole \in [EntityRole -> SUBSET EntityId]
  /\ graph.bySource \in [Source -> SUBSET EntityId]

SemanticInv == SemanticType(g) /\ SemanticType(base) /\ IsIndexed(g)

\* The index of a role has the ids of its nodes after one has come to it.
LEMMA IndexedFacts ==
  ASSUME NEW K, NEW index \in [K -> SUBSET EntityId], NEW key \in K, NEW id \in EntityId
  PROVE  /\ Indexed(index, key, id) \in [K -> SUBSET EntityId]
         /\ id \in Indexed(index, key, id)[key]
         /\ \A k \in K : index[k] \subseteq Indexed(index, key, id)[k]
BY DEF Indexed

\* An entity that comes, or comes again with another role, is in the indexes of its own.
LEMMA AddKeepsIndexed ==
  ASSUME SemanticInv, NEW id \in EntityId, NEW role \in EntityRole, NEW source \in Source,
         NEW rels \in SUBSET EntityId, AddToGraph(id, role, source, rels)
  PROVE  SemanticInv'
<1> DEFINE entity == [role |-> role, source |-> source, rels |-> rels, at |-> g.version + 1]
           placed == [x \in DOMAIN g.nodes \cup {id} |->
                        IF x = id THEN [entity |-> entity, out |-> rels, in |-> {}] ELSE g.nodes[x]]
           nodes == [x \in DOMAIN placed |->
                       IF x \in rels THEN [placed[x] EXCEPT !.in = @ \cup {id}] ELSE placed[x]]
<1>0. /\ SemanticType(g) /\ SemanticType(base) /\ IsIndexed(g) /\ g.version + 1 \in Nat
      /\ g.byRole \in [EntityRole -> SUBSET EntityId] /\ g.bySource \in [Source -> SUBSET EntityId]
  BY DEF SemanticInv, SemanticType
<1>1. /\ g'.nodes = nodes /\ g'.version = g.version + 1
      /\ g'.byRole = Indexed(g.byRole, role, id) /\ g'.bySource = Indexed(g.bySource, source, id)
      /\ base' = base
  BY DEF AddToGraph
<1>2. entity \in EntityType BY <1>0 DEF EntityType
<1> HIDE DEF entity
<1>3. /\ DOMAIN placed = DOMAIN g.nodes \cup {id} /\ placed[id].entity = entity
      /\ \A x \in DOMAIN g.nodes : x # id => placed[x] = g.nodes[x]
      /\ \A x \in DOMAIN placed : placed[x] \in NodeOfEntity
  BY <1>0, <1>2 DEF NodeOfEntity, SemanticType
<1> HIDE DEF placed
<1>4. /\ DOMAIN nodes = DOMAIN g.nodes \cup {id}
      /\ \A x \in DOMAIN nodes : nodes[x] \in NodeOfEntity /\ nodes[x].entity = placed[x].entity
  <2>1. DOMAIN nodes = DOMAIN g.nodes \cup {id} BY <1>3
  <2>2. ASSUME NEW x \in DOMAIN nodes
        PROVE  nodes[x] \in NodeOfEntity /\ nodes[x].entity = placed[x].entity
    <3>1. placed[x] \in NodeOfEntity BY <1>3
    <3>2. CASE x \in rels
      <4>1. nodes[x] = [placed[x] EXCEPT !.in = @ \cup {id}] BY <3>2
      <4> QED BY <3>1, <4>1 DEF NodeOfEntity
    <3>3. CASE x \notin rels
      <4>1. nodes[x] = placed[x] BY <3>3
      <4> QED BY <3>1, <4>1
    <3> QED BY <3>2, <3>3
  <2> QED BY <2>1, <2>2
<1> HIDE DEF nodes
<1>5. /\ g'.byRole \in [EntityRole -> SUBSET EntityId] /\ id \in g'.byRole[role]
      /\ \A k \in EntityRole : g.byRole[k] \subseteq g'.byRole[k]
  BY <1>0, <1>1, IndexedFacts
<1>6. /\ g'.bySource \in [Source -> SUBSET EntityId] /\ id \in g'.bySource[source]
      /\ \A k \in Source : g.bySource[k] \subseteq g'.bySource[k]
  BY <1>0, <1>1, IndexedFacts
<1>7. SemanticType(g)'
  <2>1. DOMAIN nodes \subseteq EntityId BY <1>0, <1>4 DEF SemanticType
  <2>2. {"nodes", "version"} \subseteq DOMAIN g' BY DEF AddToGraph
  <2> QED BY <1>0, <1>1, <1>4, <1>5, <1>6, <2>1, <2>2 DEF SemanticType
<1>8. ASSUME NEW x \in DOMAIN nodes
      PROVE  /\ x \in g'.byRole[nodes[x].entity.role]
             /\ x \in g'.bySource[nodes[x].entity.source]
  <2>1. CASE x = id BY <1>3, <1>4, <1>5, <1>6, <2>1 DEF entity
  <2>2. CASE x # id
    <3>1. x \in DOMAIN g.nodes /\ nodes[x].entity = g.nodes[x].entity BY <1>3, <1>4, <2>2
    <3>2. g.nodes[x].entity.role \in EntityRole /\ g.nodes[x].entity.source \in Source
      BY <1>0, <3>1 DEF SemanticType, NodeOfEntity, EntityType
    <3> QED BY <1>0, <1>5, <1>6, <3>1, <3>2 DEF IsIndexed
  <2> QED BY <2>1, <2>2
<1>9. IsIndexed(g)' BY <1>1, <1>8 DEF IsIndexed
<1> QED BY <1>0, <1>1, <1>7, <1>9 DEF SemanticInv

\* An entity that goes leaves the indexes of its last role and source.
LEMMA RemoveKeepsIndexed ==
  ASSUME SemanticInv, NEW id \in EntityId, RemoveFromGraph(id)
  PROVE  SemanticInv'
<1> DEFINE nodes == [x \in DOMAIN g.nodes \ {id} |-> [g.nodes[x] EXCEPT !.out = @ \ {id}, !.in = @ \ {id}]]
           role == g.nodes[id].entity.role
           source == g.nodes[id].entity.source
<1>0. /\ SemanticType(g) /\ SemanticType(base) /\ IsIndexed(g) /\ g.version + 1 \in Nat
      /\ g.byRole \in [EntityRole -> SUBSET EntityId] /\ g.bySource \in [Source -> SUBSET EntityId]
  BY DEF SemanticInv, SemanticType
<1>1. /\ id \in DOMAIN g.nodes
      /\ g'.nodes = nodes /\ g'.version = g.version + 1 /\ base' = base
      /\ g'.byRole = [g.byRole EXCEPT ![role] = @ \ {id}]
      /\ g'.bySource = [g.bySource EXCEPT ![source] = @ \ {id}]
  BY DEF RemoveFromGraph
<1>2. /\ DOMAIN nodes = DOMAIN g.nodes \ {id}
      /\ \A x \in DOMAIN nodes : nodes[x] \in NodeOfEntity /\ nodes[x].entity = g.nodes[x].entity
  <2>1. DOMAIN nodes = DOMAIN g.nodes \ {id} OBVIOUS
  <2>2. ASSUME NEW x \in DOMAIN nodes
        PROVE  nodes[x] \in NodeOfEntity /\ nodes[x].entity = g.nodes[x].entity
    <3>1. g.nodes[x] \in NodeOfEntity BY <1>0 DEF SemanticType
    <3>2. nodes[x] = [g.nodes[x] EXCEPT !.out = @ \ {id}, !.in = @ \ {id}] OBVIOUS
    <3> QED BY <3>1, <3>2 DEF NodeOfEntity
  <2> QED BY <2>1, <2>2
<1> HIDE DEF nodes, role, source
<1>3. /\ g'.byRole \in [EntityRole -> SUBSET EntityId]
      /\ \A k \in EntityRole : g.byRole[k] \ {id} \subseteq g'.byRole[k]
  BY <1>0, <1>1
<1>4. /\ g'.bySource \in [Source -> SUBSET EntityId]
      /\ \A k \in Source : g.bySource[k] \ {id} \subseteq g'.bySource[k]
  BY <1>0, <1>1
<1>5. SemanticType(g)'
  <2>1. DOMAIN nodes \subseteq EntityId BY <1>0, <1>2 DEF SemanticType
  <2>2. {"nodes", "version"} \subseteq DOMAIN g' BY DEF RemoveFromGraph
  <2> QED BY <1>0, <1>1, <1>2, <1>3, <1>4, <2>1, <2>2 DEF SemanticType
<1>6. ASSUME NEW x \in DOMAIN nodes
      PROVE  /\ x \in g'.byRole[nodes[x].entity.role]
             /\ x \in g'.bySource[nodes[x].entity.source]
  <2>1. x \in DOMAIN g.nodes /\ x # id /\ nodes[x].entity = g.nodes[x].entity BY <1>2
  <2>2. g.nodes[x].entity.role \in EntityRole /\ g.nodes[x].entity.source \in Source
    BY <1>0, <2>1 DEF SemanticType, NodeOfEntity, EntityType
  <2> QED BY <1>0, <1>3, <1>4, <2>1, <2>2 DEF IsIndexed
<1>7. IsIndexed(g)' BY <1>1, <1>6 DEF IsIndexed
<1> QED BY <1>0, <1>1, <1>5, <1>7 DEF SemanticInv

\* A trimmed graph is indexed anew, or it is the graph.
LEMMA TrimKeepsIndexed ==
  ASSUME NEW graph, SemanticType(graph), IsIndexed(graph), NEW max
  PROVE  IsIndexed(Trim(graph, max))
<1>1. CASE Cardinality(DOMAIN graph.nodes) <= max BY <1>1 DEF Trim
<1>2. CASE ~(Cardinality(DOMAIN graph.nodes) <= max)
  <2> DEFINE Newer(x) == {y \in DOMAIN graph.nodes : graph.nodes[y].entity.at > graph.nodes[x].entity.at}
             kept == {x \in DOMAIN graph.nodes : Cardinality(Newer(x)) < max}
             trimmed == Trim(graph, max)
  <2>1. kept \subseteq DOMAIN graph.nodes OBVIOUS
  <2>2. /\ trimmed.nodes = [x \in kept |-> graph.nodes[x]]
        /\ trimmed.byRole = [r \in EntityRole |-> {x \in kept : graph.nodes[x].entity.role = r}]
        /\ trimmed.bySource = [s \in Source |-> {x \in kept : graph.nodes[x].entity.source = s}]
    BY <1>2 DEF Trim
  <2> HIDE DEF kept, trimmed
  <2>3. \A x \in kept : graph.nodes[x].entity.role \in EntityRole /\ graph.nodes[x].entity.source \in Source
    BY <2>1 DEF SemanticType, NodeOfEntity, EntityType
  <2>4. IsIndexed(trimmed) BY <2>2, <2>3 DEF IsIndexed
  <2> QED BY <2>4 DEF trimmed
<1> QED BY <1>1, <1>2

\* The invariant of the semantic graph.
THEOREM GraphIndexed == GraphSpec => []SemanticInv
<1>1. GraphInit => SemanticInv
  BY DEF GraphInit, EmptySemanticGraph, SemanticInv, SemanticType, IsIndexed
<1>2. SemanticInv /\ [GraphNext]_graphVars => SemanticInv'
  <2> SUFFICES ASSUME SemanticInv, [GraphNext]_graphVars PROVE SemanticInv' OBVIOUS
  <2>1. CASE UNCHANGED graphVars BY <2>1 DEF graphVars, SemanticInv
  <2>2. CASE TakeBase BY <2>2 DEF TakeBase, SemanticInv
  <2> QED BY <2>1, <2>2, AddKeepsIndexed, RemoveKeepsIndexed DEF GraphNext
<1> QED BY <1>1, <1>2, PTL DEF GraphSpec

\* IndexesLead: adapters are found by role, annotations by entity, nodes of the
\* semantic graph by role and source, and the newest of the history by what was
\* discussed last.  (Adapters by tool are not: see ToolsFound.)
THEOREM IndexesTrue == IndexesSpec => []IndexesLead
<1>1. SemanticInv => IsIndexed(g) /\ IsIndexed(Trim(g, 1)) BY TrimKeepsIndexed DEF SemanticInv
<1> QED BY <1>1, RolesFound, NotesListed, MemoryCoherent, GraphIndexed, PTL DEF IndexesSpec, IndexesLead

\* The diff of two graphs applied to the first has the entities of the second.
LEMMA DiffRestoresEntities ==
  ASSUME SemanticType(g), SemanticType(base)
  PROVE  DiffRestores
<1> DEFINE diff == ComputeDiff(base, g)
           copy == ApplyDiff(base, diff)
           differ == {x \in DOMAIN base.nodes \cap DOMAIN g.nodes :
                        Changed(base.nodes[x].entity, g.nodes[x].entity) # {}}
<1>1. /\ diff.added = [x \in DOMAIN g.nodes \ DOMAIN base.nodes |-> g.nodes[x].entity]
      /\ diff.removed = DOMAIN base.nodes \ DOMAIN g.nodes
      /\ diff.updated = [x \in differ |-> [f \in Changed(base.nodes[x].entity, g.nodes[x].entity) |->
                                             g.nodes[x].entity[f]]]
      /\ diff.version = g.version
  BY DEF ComputeDiff
<1>2. /\ copy.version = diff.version
      /\ copy.nodes = [x \in (DOMAIN base.nodes \cup DOMAIN diff.added) \ diff.removed |->
           IF x \in DOMAIN diff.added THEN [entity |-> diff.added[x], out |-> {}, in |-> {}]
           ELSE IF x \in DOMAIN diff.updated
             THEN [base.nodes[x] EXCEPT !.entity =
                     [f \in Fields |-> IF f \in DOMAIN diff.updated[x] THEN diff.updated[x][f] ELSE @[f]]]
           ELSE base.nodes[x]]
  BY DEF ApplyDiff, SemanticType
<1> HIDE DEF diff, copy, differ
<1>3. (DOMAIN base.nodes \cup DOMAIN diff.added) \ diff.removed = DOMAIN g.nodes BY <1>1
<1>4. ASSUME NEW x \in DOMAIN g.nodes PROVE copy.nodes[x].entity = g.nodes[x].entity
  <2> DEFINE new == g.nodes[x].entity
             old == base.nodes[x].entity
  <2>1. new \in EntityType BY DEF SemanticType, NodeOfEntity
  <2>2. new = [f \in Fields |-> new[f]] BY <2>1 DEF EntityType, Fields
  <2>3. CASE x \notin DOMAIN base.nodes
    <3>1. x \in DOMAIN diff.added /\ diff.added[x] = new BY <1>1, <2>3
    <3>2. copy.nodes[x] = [entity |-> diff.added[x], out |-> {}, in |-> {}] BY <1>2, <1>3, <3>1
    <3> QED BY <3>1, <3>2
  <2>4. CASE x \in DOMAIN base.nodes
    <3>1. x \notin DOMAIN diff.added BY <1>1, <2>4
    <3>2. base.nodes[x] \in NodeOfEntity /\ old \in EntityType
      BY <2>4 DEF SemanticType, NodeOfEntity
    <3>3. old = [f \in Fields |-> old[f]] BY <3>2 DEF EntityType, Fields
    <3>4. CASE x \in differ
      <4>1. /\ x \in DOMAIN diff.updated
            /\ diff.updated[x] = [f \in Changed(old, new) |-> new[f]]
        BY <1>1, <3>4
      <4> DEFINE merged == [f \in Fields |-> IF f \in DOMAIN diff.updated[x] THEN diff.updated[x][f] ELSE old[f]]
      <4>2. copy.nodes[x] = [base.nodes[x] EXCEPT !.entity = merged] BY <1>2, <1>3, <3>1, <4>1
      <4>3. merged = new
        <5>1. \A f \in Fields : merged[f] = new[f] BY <4>1 DEF Changed
        <5> QED BY <2>2, <5>1
      <4> HIDE DEF merged
      <4>4. copy.nodes[x].entity = merged BY <3>2, <4>2 DEF NodeOfEntity
      <4> QED BY <4>3, <4>4
    <3>5. CASE x \notin differ
      <4>1. Changed(old, new) = {} BY <2>4, <3>5 DEF differ
      <4>2. \A f \in Fields : old[f] = new[f] BY <4>1 DEF Changed
      <4>3. old = new BY <2>2, <3>3, <4>2
      <4>4. copy.nodes[x] = base.nodes[x] BY <1>1, <1>2, <1>3, <3>1, <3>5
      <4> QED BY <4>3, <4>4
    <3> QED BY <3>4, <3>5
  <2> QED BY <2>3, <2>4
<1>5. DOMAIN copy.nodes = DOMAIN g.nodes BY <1>2, <1>3
<1>6. Entities(copy) = Entities(g) BY <1>4, <1>5 DEF Entities
<1>7. copy.version = g.version BY <1>1, <1>2
<1> QED BY <1>6, <1>7 DEF DiffRestores, copy, diff

-----------------------------------------------------------------------------
(* The snapshot.                                                           *)

\* The change by which a tier is judged: its oldest, or its newest.
Judged(t) == IF t = "cold" THEN Head(uncounted[t]) ELSE Last(uncounted[t])

\* A timer is off or has at most the delay to go.
TimerType ==
  timer \in [Tier -> Nat \cup {Off}] /\ \A t \in Tier : timer[t] # Off => timer[t] <= Delay[t]

\* What a change has waited and has yet to wait is the delay of its tier at most.
InTime(t) ==
  uncounted[t] # <<>> => timer[t] # Off /\ Judged(t) + timer[t] <= Delay[t]

TiersInv ==
  /\ TimerType
  /\ uncounted \in [Tier -> Seq(Nat)]
  /\ \A t \in Tier : InTime(t)

LEMMA DelayType == \A t \in Tier : Delay[t] \in Nat
BY DelayAssumption DEF Tier, Delay

\* The ends of a list of ages that gets a new one.
LEMMA EndsOfAppend ==
  ASSUME NEW s \in Seq(Nat)
  PROVE  /\ Append(s, 0) \in Seq(Nat) /\ Append(s, 0) # <<>>
         /\ Last(Append(s, 0)) = 0
         /\ Head(Append(s, 0)) = IF s = <<>> THEN 0 ELSE Head(s)
  BY DEF Last

\* The ends of a list of ages after a tick.
LEMMA EndsAfterTick ==
  ASSUME NEW s \in Seq(Nat), s # <<>>
  PROVE  LET older == [n \in DOMAIN s |-> s[n] + 1]
         IN  older \in Seq(Nat) /\ Head(older) = Head(s) + 1 /\ Last(older) = Last(s) + 1
             /\ Head(s) \in Nat /\ Last(s) \in Nat
  <1> DEFINE older == [n \in DOMAIN s |-> s[n] + 1]
  <1>1. Len(s) \in Nat \ {0} /\ DOMAIN s = 1..Len(s) /\ \A n \in 1..Len(s) : s[n] \in Nat
    OBVIOUS
  <1>2. older \in Seq(Nat) /\ Len(older) = Len(s)
    BY <1>1
  <1>3. QED
    BY <1>1, <1>2 DEF Last

\* A change sets the timer of a tier anew, or finds the cold tier's running.
LEMMA TouchKeeps ==
  ASSUME TiersInv, NEW tiers \in SUBSET Tier, Touch(tiers)
  PROVE  TiersInv'
  <1>1. \A t \in Tier : Scheduled(t) \in Nat /\ Scheduled(t) <= Delay[t] /\ Scheduled(t) # Off
    BY DelayType, DelayAssumption DEF TiersInv, TimerType, Scheduled
  <1>2. TimerType'
    BY <1>1 DEF TiersInv, TimerType, Touch
  <1>3. \A t \in Tier : uncounted[t] \in Seq(Nat)
    BY DEF TiersInv
  <1>4. uncounted' \in [Tier -> Seq(Nat)]
    BY <1>3, EndsOfAppend DEF Touch
  <1>5. ASSUME NEW t \in Tier PROVE InTime(t)'
    <2>1. CASE t \notin tiers
      BY <2>1 DEF Touch, TiersInv, InTime, Judged
    <2>2. CASE t \in tiers
      <3>1. timer'[t] = Scheduled(t) /\ uncounted'[t] = Append(uncounted[t], 0)
        BY <2>2 DEF Touch
      <3>2. CASE t # "cold" \/ uncounted[t] = <<>>
        <4>1. Judged(t)' = 0
          BY <1>3, <3>1, <3>2, EndsOfAppend DEF Judged
        <4>2. QED
          BY <1>1, <3>1, <4>1 DEF InTime
      <3>3. CASE t = "cold" /\ uncounted[t] # <<>>
        <4>1. Judged(t)' = Judged(t)
          BY <1>3, <3>1, <3>3, EndsOfAppend DEF Judged
        <4>2. timer[t] # Off /\ Judged(t) + timer[t] <= Delay[t]
          BY <3>3 DEF TiersInv, InTime
        <4>3. Scheduled(t) = timer[t]
          BY <3>3, <4>2 DEF Scheduled
        <4>4. QED
          BY <1>1, <3>1, <4>1, <4>2, <4>3 DEF InTime
      <3>4. QED
        BY <3>2, <3>3
    <2>3. QED
      BY <2>1, <2>2
  <1>6. QED
    BY <1>2, <1>4, <1>5 DEF TiersInv

LEMMA FireKeeps ==
  ASSUME TiersInv, NEW t \in Tier, Fire(t)
  PROVE  TiersInv'
  <1>1. TimerType'
    BY DelayAssumption DEF TiersInv, TimerType, Fire
  <1>2. uncounted' \in [Tier -> Seq(Nat)] /\ \A u \in Tier : uncounted'[u] = <<>>
    BY DEF Fire
  <1>3. QED
    BY <1>1, <1>2 DEF TiersInv, InTime

\* No timer is due, so each that runs has a tick to give to the ages.
LEMMA TickKeeps ==
  ASSUME TiersInv, TimePassesBy
  PROVE  TiersInv'
  <1>1. \A t \in Tier : timer[t] # Off => timer[t] \in Nat \ {0} /\ timer[t] <= Delay[t]
    BY DEF TiersInv, TimerType, TimePassesBy
  <1>2. \A t \in Tier : timer'[t] = IF timer[t] = Off THEN Off ELSE timer[t] - 1
    BY DEF TimePassesBy
  <1>3. \A t \in Tier : timer[t] # Off =>
          timer[t] - 1 \in Nat /\ timer[t] - 1 <= Delay[t] /\ timer[t] - 1 # Off
    BY <1>1, DelayType, DelayAssumption
  <1>4. TimerType'
    BY <1>2, <1>3 DEF TimerType, TimePassesBy
  <1>5. ASSUME NEW t \in Tier PROVE uncounted'[t] \in Seq(Nat) /\ InTime(t)'
    <2>1. uncounted[t] \in Seq(Nat)
      BY DEF TiersInv
    <2>2. uncounted'[t] = [n \in DOMAIN uncounted[t] |-> uncounted[t][n] + 1]
      BY DEF TimePassesBy
    <2>3. CASE uncounted[t] = <<>>
      BY <2>2, <2>3 DEF InTime
    <2>4. CASE uncounted[t] # <<>>
      <3>1. /\ uncounted'[t] \in Seq(Nat)
            /\ Judged(t) \in Nat /\ Judged(t)' = Judged(t) + 1
        BY <2>1, <2>2, <2>4, EndsAfterTick DEF Judged
      <3>2. timer[t] # Off /\ Judged(t) + timer[t] <= Delay[t]
        BY <2>4 DEF TiersInv, InTime
      <3>3. QED
        BY <1>1, <1>2, <1>3, <3>1, <3>2, DelayType DEF InTime
    <2>5. QED
      BY <2>3, <2>4
  <1>6. uncounted' \in [Tier -> Seq(Nat)]
    BY <1>5 DEF TimePassesBy
  <1>7. QED
    BY <1>4, <1>5, <1>6 DEF TiersInv

\* scheduleUpdate, bumpVersion: whatever changes in whatever order, a change that
\* no version counts has a timer, and of the cold tier the oldest, of the others
\* the newest one has not waited longer than the delay of its tier.
THEOREM KeepsUp == TiersSpec => []VersionKeepsUp
  <1>1. TiersInit => TiersInv
    BY DelayAssumption DEF TiersInit, TiersInv, TimerType, InTime
  <1>2. TiersInv /\ [TiersNext]_tierVars => TiersInv'
    <2> SUFFICES ASSUME TiersInv, [TiersNext]_tierVars PROVE TiersInv'
      OBVIOUS
    <2>1. CASE UNCHANGED <<timer, uncounted>>
      BY <2>1 DEF TiersInv, TimerType, InTime, Judged
    <2>2. CASE \E tiers \in SUBSET Tier : Touch(tiers)
      BY <2>2, TouchKeeps
    <2>3. {"hot"} \in SUBSET Tier /\ {"cold"} \in SUBSET Tier /\ {"warm", "cold"} \in SUBSET Tier
      BY DEF Tier
    <2>4. ASSUME NEW f \in File,
                 \/ ActiveEditorChanges(f) \/ DocumentOpens(f) \/ DocumentChanges(f)
                 \/ StartRemoval(f) \/ FinishRemoval(f)
          PROVE  TiersInv'
      BY <2>1, <2>2, <2>3, <2>4
         DEF ActiveEditorChanges, DocumentOpens, DocumentChanges, StartRemoval, FinishRemoval
    <2>5. CASE SelectionChanges
      BY <2>2, <2>3, <2>5 DEF SelectionChanges
    <2>6. QED
      BY <2>1, <2>4, <2>5, FireKeeps, TickKeeps DEF TiersNext, tierVars
  <1>3. TiersInv => VersionKeepsUp
    <2> SUFFICES ASSUME TiersInv, NEW t \in Tier, uncounted[t] # <<>>
                 PROVE  timer[t] # Off /\ Judged(t) <= Delay[t]
      BY DEF VersionKeepsUp, Judged
    <2>1. timer[t] # Off /\ Judged(t) + timer[t] <= Delay[t] /\ timer[t] \in Nat
      BY DEF TiersInv, InTime, TimerType
    <2>2. Judged(t) \in Nat
      <3>1. uncounted[t] \in Seq(Nat)
        BY DEF TiersInv
      <3>2. QED
        BY <3>1, EndsAfterTick DEF Judged
    <2>3. QED
      BY <2>1, <2>2, DelayType
  <1>4. QED
    BY <1>1, <1>2, <1>3, PTL DEF TiersSpec

-----------------------------------------------------------------------------
(* Listening.                                                              *)

PanelStates == {"unused", "loading", "starting", "capturing", "denied", "closed"}

\* The first start after an activation is the one that registers the command,
\* and it takes the first session.
VoiceInv ==
  /\ panel \in [Session -> PanelStates]
  /\ cancelRegistered \in BOOLEAN
  /\ cancelRegistered => panel[1] # "unused"
  /\ ~cancelRegistered => held = 0 /\ \A s \in Session : panel[s] = "unused"
  /\ held \in {0, 1}
  /\ FirstSessionCanBeStopped

LEMMA FirstSession == 1 \in Session
BY SessionAssumption DEF Session

LEMMA StartKeeps ==
  ASSUME VoiceInv, StartListening
  PROVE  VoiceInv'
  <1>1. PICK s \in Session :
          /\ panel[s] = "unused" /\ \A t \in 1 .. s - 1 : panel[t] # "unused"
          /\ panel' = [panel EXCEPT ![s] = "loading"]
          /\ held' = IF cancelRegistered THEN 0 ELSE s
    BY DEF StartListening
  <1>2. held = 0 /\ ~IsOpen(1) /\ panel \in [Session -> PanelStates]
    BY DEF StartListening, VoiceInv, FirstSessionCanBeStopped
  <1>3. panel' \in [Session -> PanelStates] /\ cancelRegistered' = TRUE
    BY <1>1, <1>2 DEF PanelStates, StartListening
  <1>4. CASE cancelRegistered
    <2>1. s # 1 /\ panel'[1] = panel[1]
      BY <1>1, <1>2, <1>4, FirstSession DEF VoiceInv
    <2>2. QED
      BY <1>1, <1>2, <1>3, <1>4, <2>1 DEF VoiceInv, FirstSessionCanBeStopped, IsOpen
  <1>5. CASE ~cancelRegistered
    <2>1. s = 1
      <3>1. s \in Nat \ {0}
        BY SessionAssumption DEF Session
      <3>2. panel[1] = "unused"
        BY <1>5, FirstSession DEF VoiceInv
      <3>3. QED
        BY <1>1, <3>1, <3>2
    <2>2. panel'[1] = "loading"
      BY <1>1, <1>2, <2>1, FirstSession
    <2>3. QED
      BY <1>1, <1>3, <1>5, <2>1, <2>2 DEF VoiceInv, FirstSessionCanBeStopped, IsOpen
  <1>6. QED
    BY <1>3, <1>4, <1>5 DEF VoiceInv

\* A panel that changes was open, and a first one that stays open is held still.
LEMMA PanelKeeps ==
  ASSUME VoiceInv, NEW s \in Session, NEW state \in PanelStates \ {"unused"},
         IsOpen(s), panel' = [panel EXCEPT ![s] = state],
         UNCHANGED <<held, cancelRegistered>>
  PROVE  VoiceInv'
  <1>1. panel \in [Session -> PanelStates] /\ cancelRegistered
    BY DEF VoiceInv, IsOpen
  <1>2. panel' \in [Session -> PanelStates]
    BY <1>1
  <1>3. panel'[1] = (IF s = 1 THEN state ELSE panel[1])
    BY <1>1, FirstSession
  <1>4. IsOpen(1)' => IsOpen(1)
    BY <1>3 DEF IsOpen
  <1>5. panel'[1] # "unused"
    BY <1>1, <1>3 DEF VoiceInv
  <1>6. QED
    BY <1>1, <1>2, <1>4, <1>5 DEF VoiceInv, FirstSessionCanBeStopped

\* FirstSessionCanBeStopped: in any order of starts, stops, activations and panels
\* closed by hand, the stop commands reach the first session for as long as its
\* panel is open (startListening, stopListening).
THEOREM FirstSessionStops == VoiceSpec => []FirstSessionCanBeStopped
  <1>1. VoiceInit => VoiceInv
    BY FirstSession DEF VoiceInit, VoiceInv, FirstSessionCanBeStopped, IsOpen, PanelStates
  <1>2. VoiceInv /\ [VoiceNext]_voiceVars => VoiceInv'
    <2> SUFFICES ASSUME VoiceInv, [VoiceNext]_voiceVars PROVE VoiceInv'
      OBVIOUS
    <2>1. CASE UNCHANGED <<held, cancelRegistered, panel>>
      BY <2>1 DEF VoiceInv, FirstSessionCanBeStopped, IsOpen
    <2>2. CASE StopListening
      <3>1. held = 1 /\ cancelRegistered /\ panel \in [Session -> PanelStates] /\ held' = 0
        BY <2>2 DEF StopListening, VoiceInv, FirstSessionCanBeStopped
      <3>2. panel' \in [Session -> PanelStates] /\ panel'[1] # "unused" /\ ~IsOpen(1)'
        BY <2>2, <3>1, FirstSession DEF StopListening, Stopped, IsOpen, PanelStates, VoiceInv
      <3>3. QED
        BY <2>2, <3>1, <3>2 DEF StopListening, VoiceInv, FirstSessionCanBeStopped
    <2>3. CASE Deactivate
      BY <2>3, FirstSession DEF Deactivate, VoiceInv, FirstSessionCanBeStopped, IsOpen, PanelStates
    <2>4. ASSUME NEW s \in Session, ClosePanel(s) \/ PanelReady(s) \/ StartCapture(s) PROVE VoiceInv'
      BY <2>4, PanelKeeps DEF ClosePanel, PanelReady, StartCapture, IsOpen, PanelStates
    <2>5. ASSUME NEW s \in Session, PostUtterance(s) PROVE VoiceInv'
      BY <2>1, <2>5 DEF PostUtterance
    <2>6. ASSUME NEW u \in DOMAIN utterances, Advance(u) PROVE VoiceInv'
      BY <2>1, <2>6 DEF Advance
    <2>7. QED
      BY <2>1, <2>2, <2>3, <2>4, <2>5, <2>6, StartKeeps DEF VoiceNext, voiceVars
  <1>3. VoiceInv => FirstSessionCanBeStopped
    BY DEF VoiceInv
  <1>4. QED
    BY <1>1, <1>2, <1>3, PTL DEF VoiceSpec

-----------------------------------------------------------------------------
(* The walk over the semantic graph                                        *)

\* The ball around start, by its radius.
GrowsBall(ball, graph, start, depth) ==
  /\ ball[0] = {start}
  /\ \A d \in 1..depth :
       ball[d] = ball[d - 1] \cup UNION {graph.nodes[x].out : x \in ball[d - 1] \cap DOMAIN graph.nodes}

LEMMA BallIs ==
  ASSUME NEW graph, NEW start, NEW depth \in Nat
  PROVE  \E ball : GrowsBall(ball, graph, start, depth) /\ Ball(graph, start, depth) = ball[depth]
<1> DEFINE All == {start} \cup (UNION {graph.nodes[x].out : x \in DOMAIN graph.nodes})
           S == SUBSET All
           Wider(set) == set \cup UNION {graph.nodes[x].out : x \in set \cap DOMAIN graph.nodes}
           IsBall(f) == f = [d \in 0..depth |-> IF d = 0 THEN {start} ELSE Wider(f[d - 1])]
           ball == CHOOSE f : IsBall(f)
           Round == [e \in S \X (1..depth) |-> Wider(e[1])]
<1>1. \A set \in S : Wider(set) \in S OBVIOUS
<1>2. {start} \in S OBVIOUS
<1> HIDE DEF All
<1>3. Round \in [S \X (1..depth) -> S]
  <2> HIDE DEF S, Wider
  <2> QED BY <1>1
<1> HIDE DEF S, Wider
<1>4. PICK f \in [0..depth -> S] : IsLoop(f, depth, {start}, Round)
  <2> HIDE DEF Round
  <2> QED BY <1>2, <1>3, Loop
<1>5. IsBall(f)
  <2>1. \A d \in 0..depth : d # 0 => Round[<<f[d - 1], d>>] = Wider(f[d - 1])
    <3> SUFFICES ASSUME NEW d \in 0..depth, d # 0 PROVE Round[<<f[d - 1], d>>] = Wider(f[d - 1])
      OBVIOUS
    <3>1. d \in 1..depth /\ d - 1 \in 0..depth OBVIOUS
    <3>2. f[d - 1] \in S BY <3>1
    <3> QED BY <3>1, <3>2
  <2> HIDE DEF Round
  <2> QED BY <1>4, <2>1 DEF IsLoop
<1>6. IsBall(ball) BY <1>5
<1>7. Ball(graph, start, depth) = ball[depth] BY DEF Ball, ball, Wider
<1> HIDE DEF ball
<1>8. ball[0] = {start} /\ \A d \in 1..depth : ball[d] = Wider(ball[d - 1])
  <2>1. 0 \in 0..depth /\ \A d \in 1..depth : d \in 0..depth /\ d # 0 OBVIOUS
  <2> QED BY <1>6, <2>1
<1> QED BY <1>7, <1>8 DEF GrowsBall, Wider

\* A graph to walk over.
Linked(graph) == DOMAIN graph.nodes \subseteq EntityId /\ \A x \in DOMAIN graph.nodes : graph.nodes[x].out \subseteq EntityId

Entry == [id : EntityId, depth : Nat]

\* The queue is in order of depth, over two levels at most.
InLevels(queue) ==
  \A i, j \in DOMAIN queue : i <= j => /\ queue[i].depth <= queue[j].depth
                                       /\ queue[j].depth <= queue[1].depth + 1

\* Everything queued or visited is in the ball of its depth.
IsSound(ball, depth, entries, visited) ==
  /\ \A e \in entries : e.depth <= depth /\ e.id \in ball[e.depth]
  /\ \A x \in visited : \E d \in 0..depth : x \in ball[d]

\* What lies next to a visited node is visited, or queued for its depth.
IsComplete(graph, start, ball, depth, entries, visited) ==
  /\ start \in visited \/ \E e \in entries : e.id = start /\ e.depth = 0
  /\ \A d \in 0..depth : d < depth => \A y \in visited \cap ball[d] \cap DOMAIN graph.nodes :
       \A z \in graph.nodes[y].out : z \in visited \/ \E e \in entries : e.id = z /\ e.depth <= d + 1

\* Then all that is nearer than what is queued is visited.
LEMMA NearerIsVisited ==
  ASSUME NEW graph, NEW start, NEW depth \in Nat, NEW ball, GrowsBall(ball, graph, start, depth),
         NEW entries \in SUBSET Entry, NEW visited, IsComplete(graph, start, ball, depth, entries, visited),
         NEW near \in Nat, \A e \in entries : near <= e.depth
  PROVE  \A d \in 0..depth : d < near => ball[d] \subseteq visited
<1> DEFINE T == {d \in 0..depth : d < near => ball[d] \subseteq visited}
<1>1. 0 \in T
  <2>1. ASSUME 0 < near PROVE start \in visited
    <3>1. \A e \in entries : e.depth # 0 BY <2>1 DEF Entry
    <3> QED BY <3>1 DEF IsComplete
  <2> QED BY <2>1 DEF GrowsBall
<1>2. ASSUME NEW d \in 1..depth, d - 1 \in T PROVE d \in T
  <2> SUFFICES ASSUME d < near, NEW z \in ball[d] PROVE z \in visited OBVIOUS
  <2>1. /\ d \in Nat /\ d - 1 \in 0..depth /\ d - 1 < depth /\ d - 1 < near /\ (d - 1) + 1 = d
        /\ ball[d - 1] \subseteq visited
    BY <1>2
  <2>2. CASE z \in ball[d - 1] BY <2>1, <2>2
  <2>3. CASE z \notin ball[d - 1]
    <3>1. PICK y \in ball[d - 1] \cap DOMAIN graph.nodes : z \in graph.nodes[y].out BY <2>3 DEF GrowsBall
    <3>2. z \in visited \/ \E e \in entries : e.id = z /\ e.depth <= d
      BY <2>1, <3>1 DEF IsComplete
    <3>3. \A e \in entries : ~(e.depth <= d) BY <2>1 DEF Entry
    <3> QED BY <3>2, <3>3
  <2> QED BY <2>2, <2>3
<1> HIDE DEF T
<1>3. \A d \in 1..depth : d - 1 \in T => d \in T BY <1>2
<1>4. \A d \in 0..depth : d \in T BY <1>1, <1>3, UpTo
<1> QED BY <1>4 DEF T

\* A queue stays in order when its head goes and entries one level down come.
LEMMA LevelsKept ==
  ASSUME NEW queue \in Seq(Entry), queue # <<>>, InLevels(queue),
         NEW more \in Seq(Entry), \A e \in ToSet(more) : e.depth = Head(queue).depth + 1
  PROVE  InLevels(Tail(queue) \o more)
<1> DEFINE rest == Tail(queue)
           all == rest \o more
           near == Head(queue).depth
<1>1. /\ rest \in Seq(Entry) /\ Head(queue) = queue[1] /\ Head(queue) \in Entry /\ Len(queue) \in Nat /\ Len(queue) > 0
      /\ \A i \in DOMAIN rest : i + 1 \in DOMAIN queue /\ rest[i] = queue[i + 1]
  BY WithoutHead
<1>2. near \in Nat /\ 1 \in DOMAIN queue /\ DOMAIN queue = 1..Len(queue) BY <1>1 DEF Entry
<1>3. \A i \in DOMAIN rest : /\ rest[i].depth \in Nat /\ near <= rest[i].depth /\ rest[i].depth <= near + 1
  <2> SUFFICES ASSUME NEW i \in DOMAIN rest
               PROVE  /\ rest[i].depth \in Nat /\ near <= rest[i].depth /\ rest[i].depth <= near + 1
    OBVIOUS
  <2>1. i + 1 \in DOMAIN queue /\ rest[i] = queue[i + 1] /\ rest[i] \in Entry BY <1>1
  <2>2. 1 <= i + 1 BY <1>2, <2>1
  <2>3. queue[1].depth <= queue[i + 1].depth /\ queue[i + 1].depth <= queue[1].depth + 1
    BY <1>2, <2>1, <2>2 DEF InLevels
  <2> QED BY <1>1, <2>1, <2>3 DEF Entry
<1>4. \A i, j \in DOMAIN rest : i <= j => rest[i].depth <= rest[j].depth
  <2> SUFFICES ASSUME NEW i \in DOMAIN rest, NEW j \in DOMAIN rest, i <= j
               PROVE  rest[i].depth <= rest[j].depth
    OBVIOUS
  <2>1. i \in Int /\ j \in Int BY <1>1
  <2>2. i + 1 <= j + 1 BY <2>1
  <2> QED BY <1>1, <2>2 DEF InLevels
<1>5. \A i \in DOMAIN more : more[i].depth = near + 1 BY DEF ToSet
<1>6. /\ all \in Seq(Entry) /\ Len(rest) \in Nat /\ DOMAIN rest = 1..Len(rest)
      /\ \A i \in DOMAIN all : \/ i \in DOMAIN rest /\ all[i] = rest[i]
                               \/ i > Len(rest) /\ i - Len(rest) \in DOMAIN more /\ all[i] = more[i - Len(rest)]
  BY <1>1, Concatenated
<1> HIDE DEF all, rest, near
<1>7. \A i \in DOMAIN all : i \in Int /\ all[i].depth \in Nat /\ near <= all[i].depth /\ all[i].depth <= near + 1
  <2> SUFFICES ASSUME NEW i \in DOMAIN all
               PROVE  i \in Int /\ all[i].depth \in Nat /\ near <= all[i].depth /\ all[i].depth <= near + 1
    OBVIOUS
  <2>1. i \in Int BY <1>6
  <2>2. CASE i \in DOMAIN rest /\ all[i] = rest[i] BY <1>3, <2>1, <2>2
  <2>3. CASE i - Len(rest) \in DOMAIN more /\ all[i] = more[i - Len(rest)] BY <1>2, <1>5, <2>1, <2>3
  <2> QED BY <1>6, <2>2, <2>3
<1> SUFFICES ASSUME NEW i \in DOMAIN all, NEW j \in DOMAIN all, i <= j
             PROVE  all[i].depth <= all[j].depth /\ all[j].depth <= all[1].depth + 1
  BY DEF InLevels, all, rest
<1>8. all[i].depth <= all[j].depth
  <2>1. CASE j \in DOMAIN rest /\ all[j] = rest[j]
    <3>1. i \in DOMAIN rest /\ all[i] = rest[i] BY <1>6, <1>7, <2>1
    <3> QED BY <1>4, <2>1, <3>1
  <2>2. CASE all[j].depth = near + 1 BY <1>7, <2>2
  <2> QED BY <1>5, <1>6, <2>1, <2>2
<1>9. 1 \in DOMAIN all BY <1>6
<1>10. near <= all[1].depth /\ all[j].depth <= near + 1 /\ all[1].depth \in Nat /\ all[j].depth \in Nat BY <1>7, <1>9
<1> QED BY <1>2, <1>8, <1>10

WalkState == [queue : Seq(Entry), visited : SUBSET EntityId]

IsWalk(graph, start, ball, depth, s) ==
  /\ s \in WalkState /\ InLevels(s.queue)
  /\ IsSound(ball, depth, ToSet(s.queue), s.visited)
  /\ IsComplete(graph, start, ball, depth, ToSet(s.queue), s.visited)

\* More rounds than this there are not.
RoundsLeft(s) == Len(s.queue) + Cardinality(EntityId) * Cardinality(EntityId \ s.visited)

\* An entry whose node was visited is dropped.
LEMMA SkipKeeps ==
  ASSUME NEW graph, NEW start, NEW depth \in Nat, NEW ball,
         NEW s, IsWalk(graph, start, ball, depth, s), s.queue # <<>>, Head(s.queue).id \in s.visited
  PROVE  LET t == BfsStep(graph, depth, s)
         IN IsWalk(graph, start, ball, depth, t) /\ RoundsLeft(t) + 1 <= RoundsLeft(s)
<1> DEFINE t == BfsStep(graph, depth, s)
<1>1. s \in WalkState /\ s.queue \in Seq(Entry) /\ s.visited \subseteq EntityId /\ InLevels(s.queue)
  BY DEF IsWalk, WalkState
<1>2. t.queue = Tail(s.queue) /\ t.visited = s.visited /\ t \in WalkState
  <2>1. t = [s EXCEPT !.queue = Tail(s.queue)] BY DEF BfsStep
  <2>2. Tail(s.queue) \in Seq(Entry) BY <1>1
  <2> QED BY <1>1, <2>1, <2>2 DEF WalkState
<1> HIDE DEF t
<1>3. /\ Len(t.queue) = Len(s.queue) - 1 /\ Len(s.queue) \in Nat
      /\ ToSet(s.queue) = {Head(s.queue)} \cup ToSet(t.queue)
  BY <1>1, <1>2, WithoutHead
<1>4. InLevels(t.queue)
  <2> DEFINE more == <<>>
  <2>1. more \in Seq(Entry) /\ ToSet(more) = {} BY DEF ToSet
  <2>2. Tail(s.queue) \o more = Tail(s.queue) BY <1>1
  <2> HIDE DEF more
  <2>3. InLevels(Tail(s.queue) \o more) BY <1>1, <2>1, LevelsKept
  <2> QED BY <1>2, <2>2, <2>3
<1>5. IsSound(ball, depth, ToSet(t.queue), t.visited) BY <1>2, <1>3 DEF IsWalk, IsSound
<1>6. IsComplete(graph, start, ball, depth, ToSet(t.queue), t.visited)
  <2>1. \A e \in ToSet(s.queue) : e \in ToSet(t.queue) \/ e.id \in t.visited BY <1>2, <1>3
  <2>2. IsComplete(graph, start, ball, depth, ToSet(s.queue), t.visited) BY <1>2 DEF IsWalk
  <2> QED BY <2>1, <2>2 DEF IsComplete
<1>7. RoundsLeft(t) + 1 <= RoundsLeft(s)
  <2>1. Cardinality(EntityId) \in Nat BY EntityIdAssumption, FS_CardinalityType
  <2>2. Cardinality(EntityId \ s.visited) \in Nat BY EntityIdAssumption, FS_Subset, FS_CardinalityType
  <2>3. Cardinality(EntityId) * Cardinality(EntityId \ s.visited) \in Nat BY <2>1, <2>2
  <2> QED BY <1>2, <1>3, <2>3 DEF RoundsLeft
<1> QED BY <1>2, <1>4, <1>5, <1>6, <1>7 DEF IsWalk, t

\* A node is visited and its neighbours are queued.
LEMMA VisitKeeps ==
  ASSUME NEW graph, Linked(graph), NEW start, NEW depth \in Nat, NEW ball, GrowsBall(ball, graph, start, depth),
         NEW s, IsWalk(graph, start, ball, depth, s), s.queue # <<>>, Head(s.queue).id \notin s.visited
  PROVE  LET t == BfsStep(graph, depth, s)
         IN IsWalk(graph, start, ball, depth, t) /\ RoundsLeft(t) + 1 <= RoundsLeft(s)
<1> DEFINE t == BfsStep(graph, depth, s)
           at == Head(s.queue)
           next == IF at.depth >= depth \/ at.id \notin DOMAIN graph.nodes THEN {}
                   ELSE graph.nodes[at.id].out \ (s.visited \cup {at.id})
           set == {[id |-> x, depth |-> at.depth + 1] : x \in next}
           more == SetToSeq(set)
<1>1. /\ s \in WalkState /\ s.queue \in Seq(Entry) /\ s.visited \subseteq EntityId /\ InLevels(s.queue)
  BY DEF IsWalk, WalkState
<1>2. /\ at \in Entry /\ at.id \in EntityId /\ at.depth \in Nat
      /\ Tail(s.queue) \in Seq(Entry) /\ Len(Tail(s.queue)) = Len(s.queue) - 1 /\ Len(s.queue) \in Nat
      /\ ToSet(s.queue) = {at} \cup ToSet(Tail(s.queue))
  <2>1. /\ at \in Entry /\ Len(s.queue) \in Nat
        /\ Tail(s.queue) \in Seq(Entry) /\ Len(Tail(s.queue)) = Len(s.queue) - 1
        /\ ToSet(s.queue) = {at} \cup ToSet(Tail(s.queue))
    BY <1>1, WithoutHead
  <2> QED BY <2>1 DEF Entry
<1>3. next \subseteq EntityId BY DEF Linked
<1>4. t = [queue |-> Tail(s.queue) \o more, visited |-> s.visited \cup {at.id}] BY DEF BfsStep
<1> HIDE DEF t
<1>5. /\ \A z \in next : [id |-> z, depth |-> at.depth + 1] \in set
      /\ \A e \in set : e \in Entry /\ e.depth = at.depth + 1 /\ e.id \in next
  BY <1>2, <1>3 DEF Entry
<1>6. IsFiniteSet(set) /\ Cardinality(set) <= Cardinality(EntityId) /\ Cardinality(set) \in Nat
  <2> DEFINE f == [e \in set |-> e.id]
  <2>1. \A d, e \in set : d.id = e.id => d = e OBVIOUS
  <2>2. f \in [set -> EntityId] BY <1>3, <1>5
  <2>3. IsInjective(f) BY <2>1 DEF IsInjective
  <2>4. f \in Injection(set, EntityId) BY <2>2, <2>3 DEF Injection
  <2> HIDE DEF f, set
  <2>5. IsFiniteSet(set) /\ Cardinality(set) <= Cardinality(EntityId)
    BY <2>4, EntityIdAssumption, FS_Injection
  <2> QED BY <2>5, FS_CardinalityType
<1> HIDE DEF set
<1>7. more \in Seq(Entry) /\ Len(more) = Cardinality(set) /\ ToSet(more) = set
  <2>1. /\ more \in Seq(set) /\ Len(more) = Cardinality(set) /\ ToSet(more) \subseteq set
        /\ set \subseteq ToSet(more)
    BY <1>6, SetToSeqFacts
  <2>2. set \subseteq Entry BY <1>5
  <2> HIDE DEF more
  <2> QED BY <2>1, <2>2
<1> HIDE DEF more
<1>8. /\ t \in WalkState /\ t.visited = s.visited \cup {at.id} /\ t.queue = Tail(s.queue) \o more
      /\ Len(t.queue) = Len(s.queue) - 1 + Len(more) /\ ToSet(t.queue) = ToSet(Tail(s.queue)) \cup set
  <2> DEFINE all == Tail(s.queue) \o more
  <2>1. /\ all \in Seq(Entry) /\ Len(all) = Len(Tail(s.queue)) + Len(more)
        /\ ToSet(all) = ToSet(Tail(s.queue)) \cup ToSet(more)
    <3> DEFINE rest == Tail(s.queue)
    <3>1. rest \in Seq(Entry) /\ more \in Seq(Entry) BY <1>2, <1>7
    <3> HIDE DEF rest
    <3>2. /\ rest \o more \in Seq(Entry) /\ Len(rest \o more) = Len(rest) + Len(more)
          /\ ToSet(rest \o more) = ToSet(rest) \cup ToSet(more)
      BY <3>1, Concatenated
    <3> QED BY <3>2 DEF rest
  <2> HIDE DEF all
  <2>2. t = [queue |-> all, visited |-> s.visited \cup {at.id}] BY <1>4 DEF all
  <2> QED BY <1>1, <1>2, <1>7, <2>1, <2>2 DEF WalkState, all
<1>9. InLevels(t.queue)
  <2>1. \A e \in ToSet(more) : e.depth = Head(s.queue).depth + 1 BY <1>5, <1>7
  <2> QED BY <1>1, <1>7, <1>8, <2>1, LevelsKept
<1>10. \A e \in ToSet(s.queue) : at.depth <= e.depth
  <2> SUFFICES ASSUME NEW e \in ToSet(s.queue) PROVE at.depth <= e.depth OBVIOUS
  <2>1. PICK i \in DOMAIN s.queue : e = s.queue[i] BY DEF ToSet
  <2>2. DOMAIN s.queue = 1..Len(s.queue) /\ 1 \in DOMAIN s.queue /\ at = s.queue[1] BY <1>1, <2>1, WithoutHead
  <2>3. 1 <= i BY <2>1, <2>2
  <2> QED BY <1>1, <2>1, <2>2, <2>3 DEF InLevels
<1>11. \A d \in 0..depth : d < at.depth => ball[d] \subseteq s.visited
  <2>1. ToSet(s.queue) \in SUBSET Entry BY <1>1 DEF ToSet
  <2>2. IsComplete(graph, start, ball, depth, ToSet(s.queue), s.visited) BY DEF IsWalk
  <2> HIDE DEF at
  <2> QED BY <1>2, <1>10, <2>1, <2>2, NearerIsVisited
<1>12. at.depth <= depth /\ at.id \in ball[at.depth] /\ at.depth \in 0..depth
  BY <1>2 DEF IsWalk, IsSound
<1>13. IsSound(ball, depth, ToSet(t.queue), t.visited)
  <2>1. ASSUME NEW e \in set PROVE e.depth <= depth /\ e.id \in ball[e.depth]
    <3>1. e.depth = at.depth + 1 /\ e.id \in next BY <1>5
    <3>2. at.depth < depth /\ at.id \in DOMAIN graph.nodes /\ e.id \in graph.nodes[at.id].out
      BY <1>2, <3>1
    <3>3. at.depth + 1 \in 1..depth /\ (at.depth + 1) - 1 = at.depth BY <1>2, <3>2
    <3>4. e.id \in ball[at.depth + 1] BY <1>12, <3>2, <3>3 DEF GrowsBall
    <3> QED BY <1>2, <3>1, <3>3, <3>4
  <2>2. \A e \in ToSet(Tail(s.queue)) : e.depth <= depth /\ e.id \in ball[e.depth] BY <1>2 DEF IsWalk, IsSound
  <2>3. \A x \in s.visited : \E d \in 0..depth : x \in ball[d] BY DEF IsWalk, IsSound
  <2> HIDE DEF at
  <2> QED BY <1>8, <1>12, <2>1, <2>2, <2>3 DEF IsSound
<1>14. IsComplete(graph, start, ball, depth, ToSet(t.queue), t.visited)
  <2>1. \A e \in ToSet(s.queue) : e \in ToSet(t.queue) \/ e.id \in t.visited BY <1>2, <1>8
  <2>2. IsComplete(graph, start, ball, depth, ToSet(s.queue), s.visited) /\ s.visited \subseteq t.visited
    BY <1>8 DEF IsWalk
  <2>3. start \in t.visited \/ \E e \in ToSet(t.queue) : e.id = start /\ e.depth = 0
    BY <2>1, <2>2 DEF IsComplete
  <2>4. ASSUME NEW d \in 0..depth, d < depth, NEW y \in t.visited \cap ball[d] \cap DOMAIN graph.nodes,
               NEW z \in graph.nodes[y].out
        PROVE  z \in t.visited \/ \E e \in ToSet(t.queue) : e.id = z /\ e.depth <= d + 1
    <3>1. CASE y \in s.visited
      <4>1. z \in s.visited \/ \E e \in ToSet(s.queue) : e.id = z /\ e.depth <= d + 1
        BY <2>2, <2>4, <3>1 DEF IsComplete
      <4> QED BY <2>1, <2>2, <4>1
    <3>2. CASE y \notin s.visited
      <4>1. y = at.id BY <1>8, <3>2
      <4>2. at.depth <= d /\ at.depth < depth BY <1>2, <1>11, <2>4, <3>2
      <4>3. z \in t.visited \/ z \in next BY <1>2, <1>8, <2>4, <4>1, <4>2
      <4>4. ASSUME z \in next PROVE \E e \in ToSet(t.queue) : e.id = z /\ e.depth <= d + 1
        <5> DEFINE e == [id |-> z, depth |-> at.depth + 1]
        <5>1. e \in ToSet(t.queue) BY <1>5, <1>8, <4>4
        <5>2. e.id = z /\ e.depth <= d + 1 BY <1>2, <4>2
        <5> QED BY <5>1, <5>2
      <4> QED BY <4>3, <4>4
    <3> QED BY <3>1, <3>2
  <2> HIDE DEF at
  <2> QED BY <2>3, <2>4 DEF IsComplete
<1>15. RoundsLeft(t) + 1 <= RoundsLeft(s)
  <2> DEFINE all == Cardinality(EntityId)
             left == Cardinality(EntityId \ s.visited)
             after == Cardinality(EntityId \ t.visited)
  <2>1. all \in Nat BY EntityIdAssumption, FS_CardinalityType
  <2>2. left \in Nat /\ IsFiniteSet(EntityId \ s.visited)
    BY EntityIdAssumption, FS_Subset, FS_CardinalityType
  <2>3. after = left - 1
    <3>1. EntityId \ t.visited = (EntityId \ s.visited) \ {at.id} BY <1>8
    <3>2. at.id \in EntityId \ s.visited BY <1>2
    <3> DEFINE U == EntityId \ s.visited
    <3>3. IsFiniteSet(U) /\ at.id \in U /\ EntityId \ t.visited = U \ {at.id} BY <2>2, <3>1, <3>2
    <3> HIDE DEF U, at
    <3>4. Cardinality(U \ {at.id}) = Cardinality(U) - 1 BY <3>3, FS_RemoveElement
    <3> QED BY <3>3, <3>4 DEF U
  <2>4. RoundsLeft(s) = Len(s.queue) + all * left /\ RoundsLeft(t) = Len(t.queue) + all * after BY DEF RoundsLeft
  <2>5. Len(more) <= all /\ Len(more) \in Nat BY <1>6, <1>7
  <2> HIDE DEF all, left, after
  <2>6. all * after = all * left - all BY <2>1, <2>2, <2>3
  <2>7. all * left \in Nat BY <2>1, <2>2
  <2> QED BY <1>2, <1>8, <2>1, <2>4, <2>5, <2>6, <2>7
<1> QED BY <1>8, <1>9, <1>13, <1>14, <1>15 DEF IsWalk, t

\* The walk visits the ball, for any depth.
LEMMA BfsIsBall ==
  ASSUME NEW graph, Linked(graph), NEW start \in EntityId, NEW depth \in Nat
  PROVE  Bfs(graph, start, depth) = Ball(graph, start, depth)
<1>1. PICK ball : GrowsBall(ball, graph, start, depth) /\ Ball(graph, start, depth) = ball[depth] BY BallIs
<1> DEFINE rounds == 1 + Cardinality(EntityId) * Cardinality(EntityId)
           first == [queue |-> <<[id |-> start, depth |-> 0]>>, visited |-> {}]
           S == {s \in WalkState : IsWalk(graph, start, ball, depth, s)}
           Next1(s) == IF s.queue = <<>> THEN s ELSE BfsStep(graph, depth, s)
           IsWalked(f) == f = [n \in 0..rounds |-> IF n = 0 THEN first ELSE Next1(f[n - 1])]
           walk == CHOOSE f : IsWalked(f)
           Round == [e \in S \X (1..rounds) |-> Next1(e[1])]
<1>2. Cardinality(EntityId) \in Nat /\ rounds \in Nat
  <2>1. Cardinality(EntityId) \in Nat BY EntityIdAssumption, FS_CardinalityType
  <2> QED BY <2>1
<1>3. first \in S /\ RoundsLeft(first) = rounds
  <2> DEFINE entry == [id |-> start, depth |-> 0]
             queue == <<entry>>
  <2>1. entry \in Entry /\ entry.id = start /\ entry.depth = 0 BY DEF Entry
  <2>2. first = [queue |-> queue, visited |-> {}] OBVIOUS
  <2> HIDE DEF entry
  <2>3. queue \in Seq(Entry) /\ Len(queue) = 1 /\ DOMAIN queue = {1} /\ queue[1] = entry BY <2>1
  <2>4. ToSet(queue) = {entry} BY <2>3 DEF ToSet
  <2> HIDE DEF queue
  <2>5. first \in WalkState /\ first.queue = queue /\ first.visited = {} BY <2>2, <2>3 DEF WalkState
  <2> HIDE DEF first
  <2>6. InLevels(queue) BY <2>1, <2>3 DEF InLevels
  <2>7. IsSound(ball, depth, {entry}, {}) BY <1>1, <2>1 DEF IsSound, GrowsBall
  <2>8. IsComplete(graph, start, ball, depth, {entry}, {}) BY <2>1 DEF IsComplete
  <2>9. IsWalk(graph, start, ball, depth, first) BY <2>4, <2>5, <2>6, <2>7, <2>8 DEF IsWalk
  <2>10. EntityId \ {} = EntityId OBVIOUS
  <2>11. RoundsLeft(first) = 1 + Cardinality(EntityId) * Cardinality(EntityId)
    BY <2>3, <2>5, <2>10 DEF RoundsLeft
  <2> QED BY <2>5, <2>9, <2>11
<1>4. \A s \in S : s.queue # <<>> => /\ BfsStep(graph, depth, s) \in S
                                     /\ RoundsLeft(BfsStep(graph, depth, s)) + 1 <= RoundsLeft(s)
  <2> SUFFICES ASSUME NEW s \in S, s.queue # <<>>
               PROVE  /\ BfsStep(graph, depth, s) \in S
                      /\ RoundsLeft(BfsStep(graph, depth, s)) + 1 <= RoundsLeft(s)
    OBVIOUS
  <2>1. IsWalk(graph, start, ball, depth, s) OBVIOUS
  <2>2. /\ IsWalk(graph, start, ball, depth, BfsStep(graph, depth, s))
        /\ RoundsLeft(BfsStep(graph, depth, s)) + 1 <= RoundsLeft(s)
    BY <1>1, <2>1, SkipKeeps, VisitKeeps
  <2> QED BY <2>2 DEF IsWalk
<1>5. \A s \in S : RoundsLeft(s) \in Nat /\ (s.queue # <<>> => RoundsLeft(s) > 0)
  <2> SUFFICES ASSUME NEW s \in S PROVE RoundsLeft(s) \in Nat /\ (s.queue # <<>> => RoundsLeft(s) > 0) OBVIOUS
  <2>1. s.queue \in Seq(Entry) BY DEF WalkState
  <2>2. Len(s.queue) \in Nat /\ (s.queue # <<>> => Len(s.queue) > 0) BY <2>1
  <2>3. Cardinality(EntityId \ s.visited) \in Nat BY EntityIdAssumption, FS_Subset, FS_CardinalityType
  <2>4. Cardinality(EntityId) * Cardinality(EntityId \ s.visited) \in Nat BY <1>2, <2>3
  <2> QED BY <2>2, <2>4 DEF RoundsLeft
<1> HIDE DEF rounds, first, S
<1>6. Round \in [S \X (1..rounds) -> S] BY <1>4
<1>7. PICK f \in [0..rounds -> S] : IsLoop(f, rounds, first, Round)
  <2> HIDE DEF Round
  <2> QED BY <1>2, <1>3, <1>6, Loop
<1>8. IsWalked(f)
  <2>1. \A n \in 0..rounds : n # 0 => Round[<<f[n - 1], n>>] = Next1(f[n - 1])
    <3> SUFFICES ASSUME NEW n \in 0..rounds, n # 0 PROVE Round[<<f[n - 1], n>>] = Next1(f[n - 1])
      OBVIOUS
    <3>1. n \in 1..rounds /\ n - 1 \in 0..rounds BY <1>2
    <3>2. f[n - 1] \in S BY <3>1
    <3> QED BY <3>1, <3>2
  <2> HIDE DEF Round, Next1
  <2> QED BY <1>7, <2>1 DEF IsLoop
<1>9. IsWalked(walk) BY <1>8
<1>10. Bfs(graph, start, depth) = walk[rounds].visited BY DEF Bfs, walk, rounds, first
<1> HIDE DEF walk
<1>11. walk[0] = first /\ \A n \in 1..rounds : walk[n] = Next1(walk[n - 1])
  <2> HIDE DEF Next1
  <2>1. 0 \in 0..rounds /\ \A n \in 1..rounds : n \in 0..rounds /\ n # 0 BY <1>2
  <2> QED BY <1>9, <2>1
<1> DEFINE T == {n \in 0..rounds : /\ walk[n] \in S
                                   /\ walk[n].queue # <<>> => RoundsLeft(walk[n]) + n <= rounds}
<1>12. 0 \in T BY <1>2, <1>3, <1>11
<1>13. ASSUME NEW n \in 1..rounds, n - 1 \in T PROVE n \in T
  <2> DEFINE old == walk[n - 1]
             new == walk[n]
  <2>1. /\ old \in S /\ (old.queue # <<>> => RoundsLeft(old) + (n - 1) <= rounds)
        /\ n \in 0..rounds /\ new = Next1(old)
    BY <1>2, <1>11, <1>13
  <2> HIDE DEF old, new, T
  <2>2. new \in S /\ (new.queue # <<>> => RoundsLeft(new) + n <= rounds)
    <3>1. CASE old.queue = <<>> BY <2>1, <3>1
    <3>2. CASE old.queue # <<>>
      <4>1. new \in S /\ RoundsLeft(new) + 1 <= RoundsLeft(old) BY <1>4, <2>1, <3>2
      <4>2. RoundsLeft(new) \in Nat /\ RoundsLeft(old) \in Nat BY <1>5, <2>1, <4>1
      <4> QED BY <1>2, <2>1, <3>2, <4>1, <4>2
    <3> QED BY <3>1, <3>2
  <2> QED BY <2>1, <2>2 DEF T, new
<1>14. rounds \in T
  <2> HIDE DEF T
  <2>1. \A n \in 1..rounds : n - 1 \in T => n \in T BY <1>13
  <2>2. \A n \in 0..rounds : n \in T BY <1>2, <1>12, <2>1, UpTo
  <2> QED BY <1>2, <2>2
<1> DEFINE last == walk[rounds]
<1>15. last \in S /\ last.queue = <<>> /\ Bfs(graph, start, depth) = last.visited
  <2>1. last \in S /\ (last.queue # <<>> => RoundsLeft(last) + rounds <= rounds) BY <1>14
  <2>2. Bfs(graph, start, depth) = last.visited BY <1>10
  <2> HIDE DEF last
  <2> QED BY <1>2, <1>5, <2>1, <2>2
<1>16. /\ IsSound(ball, depth, {}, last.visited)
       /\ IsComplete(graph, start, ball, depth, {}, last.visited)
  <2>1. ToSet(last.queue) = {} BY <1>15 DEF ToSet
  <2> QED BY <1>15, <2>1 DEF S, IsWalk
<1> HIDE DEF last
<1>17. ball[depth] \subseteq last.visited
  <2>1. \A d \in 0..depth : d < depth + 1 => ball[d] \subseteq last.visited
    <3> DEFINE near    == depth + 1
               entries == {}
               visited == last.visited
    <3>1. entries \in SUBSET Entry /\ near \in Nat /\ \A e \in entries : near <= e.depth OBVIOUS
    <3>2. IsComplete(graph, start, ball, depth, entries, visited) BY <1>16
    <3> HIDE DEF near, entries, visited
    <3>3. \A d \in 0..depth : d < near => ball[d] \subseteq visited BY <1>1, <3>1, <3>2, NearerIsVisited
    <3> QED BY <3>3 DEF near, visited
  <2> QED BY <2>1
<1>18. last.visited \subseteq ball[depth]
  <2>1. \A d \in 0..depth : ball[d] \subseteq ball[depth]
    <3> SUFFICES ASSUME NEW d \in 0..depth PROVE ball[d] \subseteq ball[depth] OBVIOUS
    <3> DEFINE U == {n \in 0..depth : n < d \/ ball[d] \subseteq ball[n]}
    <3>1. 0 \in U OBVIOUS
    <3>2. \A n \in 1..depth : n - 1 \in U => n \in U
      <4> SUFFICES ASSUME NEW n \in 1..depth, n - 1 \in U PROVE n \in U OBVIOUS
      <4>1. n \in 0..depth /\ (n < d \/ n = d \/ ~(n - 1 < d)) OBVIOUS
      <4>2. ball[n - 1] \subseteq ball[n] BY <1>1 DEF GrowsBall
      <4> QED BY <4>1, <4>2
    <3> HIDE DEF U
    <3>3. \A n \in 0..depth : n \in U BY <3>1, <3>2, UpTo
    <3>4. depth \in U BY <3>3
    <3> QED BY <3>4 DEF U
  <2> QED BY <1>16, <2>1 DEF IsSound
<1>19. last.visited = ball[depth] BY <1>17, <1>18
<1>20. Bfs(graph, start, depth) = last.visited /\ Ball(graph, start, depth) = ball[depth] BY <1>1, <1>15
<1> QED BY <1>19, <1>20

\* GraphsAgree: in every graph that comes about a diff restores what it was
\* computed from, and the walk visits what a path leads to and nothing else.
THEOREM GraphsCompute == GraphSpec => []GraphsAgree
<1>1. SemanticInv => GraphsAgree
  <2> SUFFICES ASSUME SemanticInv PROVE GraphsAgree OBVIOUS
  <2>1. SemanticType(g) /\ SemanticType(base) BY DEF SemanticInv
  <2>2. DiffRestores BY <2>1, DiffRestoresEntities
  <2>3. Linked(g) BY <2>1 DEF SemanticType, NodeOfEntity, Linked
  <2>4. BfsVisitsTheBall BY <2>3, BfsIsBall DEF BfsVisitsTheBall
  <2> QED BY <2>2, <2>4 DEF GraphsAgree
<1> QED BY <1>1, GraphIndexed, PTL

=============================================================================
