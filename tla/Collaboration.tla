--------------------------- MODULE Collaboration ---------------------------
(***************************************************************************)
(* The collaboration handlers of a federated runtime                       *)
(* (federation/src/collaboration): share, annotate, discuss, broadcast,    *)
(* behind the four tools of L8ToolRegistry.  What a handler gives to the   *)
(* data channels is added to outbox; whether it arrives is DataChannels'   *)
(* affair, and no code hands what arrives to handleIncomingAnnotation or   *)
(* handleIncomingMessage: the embedding program does, or nobody.           *)
(*                                                                         *)
(* The entities of the graph, the directory and the passing of expiry      *)
(* times are the environment's.  A thread is known by its entity, as its   *)
(* id is made from it at both ends.                                        *)
(***************************************************************************)
EXTENDS Naturals, FiniteSets

CONSTANTS Local, RemotePeer, SharedEntity,
          OwnNote, PeerNote,        \* annotation ids made here, and elsewhere
          AboutOf,                  \* the entity an annotation is about
          Permission,
          MaxNotes                  \* bound of the model: an id in one list

ASSUME AboutAssumption == AboutOf \in [OwnNote \cup PeerNote -> SharedEntity]

VARIABLES present,                  \* the entities the graph has
          status,                   \* peerDirectory: online, offline or unknown
          shares,                   \* sharedEntities, by entity and peer
          annotations, noteLists,   \* annotations, entityAnnotations
          threads,                  \* entity -> {participants}, {} if there is none
          outbox

collabVars == <<present, status, shares, annotations, noteLists, threads, outbox>>

Note == OwnNote \cup PeerNote

CollabInit ==
  /\ present = {} /\ shares = {} /\ annotations = {} /\ outbox = {}
  /\ status = [p \in RemotePeer |-> "unknown"]
  /\ noteLists = [x \in SharedEntity \X Note |-> 0]
  /\ threads = [e \in SharedEntity |-> {}]

Online == {p \in RemotePeer : status[p] = "online"}

Environment ==
  /\ \/ \E e \in SharedEntity : present' \in {present \cup {e}, present \ {e}} /\ UNCHANGED status
     \/ \E p \in RemotePeer, s \in {"online", "offline"} :
          status' = [status EXCEPT ![p] = s] /\ UNCHANGED present
  /\ UNCHANGED <<shares, annotations, noteLists, threads, outbox>>

Sends(kind, recipients) == outbox' = outbox \cup {<<kind, p>> : p \in recipients}

\* ShareHandler.execute, to a peer the directory has, online or not.
Share(targets, p, permissions, expires) ==
  LET shared == targets \cap present
  IN /\ status[p] # "unknown"
     /\ shares' = {s \in shares : ~(s.entity \in shared /\ s.peer = p)}
          \cup {[entity |-> e, peer |-> p, permissions |-> permissions,
                 expires |-> expires, expired |-> FALSE] : e \in shared}
     /\ Sends("share", IF shared = {} THEN {} ELSE {p})
     /\ UNCHANGED <<present, status, annotations, noteLists, threads>>

SharesBecome(new) ==
  shares' = new /\ UNCHANGED <<present, status, annotations, noteLists, threads, outbox>>

RevokeShare(e, p) == SharesBecome({s \in shares : ~(s.entity = e /\ s.peer = p)})

TimePasses(e, p) ==
  SharesBecome({IF s.entity = e /\ s.peer = p /\ s.expires THEN [s EXCEPT !.expired = TRUE] ELSE s : s \in shares})

CleanExpired == SharesBecome({s \in shares : ~s.expired})

\* hasPermission: a share that has expired grants until it is cleaned.
HasPermission(e, p, permission) ==
  \E s \in shares : s.entity = e /\ s.peer = p /\ permission \in s.permissions

WithNote(lists, n) == [lists EXCEPT ![<<AboutOf[n], n>>] = @ + 1]

\* AnnotateHandler.execute: the id is new, and every peer online is told.  It also
\* updates the entity in the graph, which is GraphSync's UpdateEntity.
Annotate(n) ==
  /\ n \in OwnNote /\ AboutOf[n] \in present
  /\ \A e \in SharedEntity : noteLists[<<e, n>>] = 0
  /\ annotations' = annotations \cup {n}
  /\ noteLists' = WithNote(noteLists, n)
  /\ Sends("annotate", Online)
  /\ UNCHANGED <<present, status, shares, threads>>

\* An annotation that comes again is listed again.
HandleIncomingAnnotation(n) ==
  /\ n \in PeerNote /\ noteLists[<<AboutOf[n], n>>] < MaxNotes
  /\ annotations' = annotations \cup {n}
  /\ noteLists' = WithNote(noteLists, n)
  /\ UNCHANGED <<present, status, shares, threads, outbox>>

\* Mutant: one occurrence leaves the list.
RemoveOne(n) ==
  /\ n \in annotations
  /\ annotations' = annotations \ {n}
  /\ noteLists' = [noteLists EXCEPT ![<<AboutOf[n], n>>] = @ - 1]
  /\ UNCHANGED <<present, status, shares, threads, outbox>>

RemoveAnnotation(n) ==
  /\ n \in annotations
  /\ annotations' = annotations \ {n}
  /\ noteLists' = [noteLists EXCEPT ![<<AboutOf[n], n>>] = 0]
  /\ UNCHANGED <<present, status, shares, threads, outbox>>

OnList(e) == {n \in Note : noteLists[<<e, n>>] > 0}

ClearEntityAnnotations(e) ==
  /\ annotations' = annotations \ OnList(e)
  /\ noteLists' = [x \in DOMAIN noteLists |-> IF x[1] = e THEN 0 ELSE noteLists[x]]
  /\ UNCHANGED <<present, status, shares, threads, outbox>>

\* getAnnotations: ids that have no annotation any more are skipped.
GetAnnotations(e) == OnList(e) \cap annotations

Participants(e) == UNION threads[e]

\* DiscussHandler.execute: those who took part and are online are told, on the
\* first message of a thread the author at most.
Discuss(e, actor) ==
  LET those == actor \cup (IF threads[e] = {} THEN {Local} ELSE Participants(e))
  IN /\ threads' = [threads EXCEPT ![e] = {those}]
     /\ Sends("discuss", those \cap Online)
     /\ UNCHANGED <<present, status, shares, annotations, noteLists>>

HandleIncomingMessage(e, author) ==
  /\ threads' = [threads EXCEPT ![e] = {Participants(e) \cup {author}}]
  /\ UNCHANGED <<present, status, shares, annotations, noteLists, outbox>>

\* BroadcastHandler.execute: to those named who are online, or to all online.
Broadcast(recipients) ==
  /\ Sends("broadcast", IF recipients = {} THEN Online ELSE recipients \cap Online)
  /\ UNCHANGED <<present, status, shares, annotations, noteLists, threads>>

\* What concerns annotations, and what concerns shares and talk.
NotesNext ==
  \/ \E n \in Note : Annotate(n) \/ HandleIncomingAnnotation(n) \/ RemoveAnnotation(n)
  \/ \E e \in SharedEntity : ClearEntityAnnotations(e)

TalkNext ==
  \/ \E p \in RemotePeer :
       \/ \E targets \in SUBSET SharedEntity, expires \in BOOLEAN : Share(targets, p, Permission, expires)
       \/ \E e \in SharedEntity : RevokeShare(e, p) \/ TimePasses(e, p) \/ HandleIncomingMessage(e, p)
  \/ CleanExpired
  \/ \E e \in SharedEntity, actor \in RemotePeer \cup {Local} : Discuss(e, {actor})
  \/ \E recipients \in SUBSET RemotePeer : Broadcast(recipients)

CollabSpec == CollabInit /\ [][Environment \/ NotesNext \/ TalkNext]_collabVars

(***************************************************************************)
(* The list of an entity holds the annotations about it and no id of one   *)
(* that is gone, however often one arrived, was removed, or came back.     *)
(***************************************************************************)
AnnotationsAreListed ==
  \A e \in SharedEntity : OnList(e) = {n \in annotations : AboutOf[n] = e}

=============================================================================
