------------------------- MODULE InteractionMemory -------------------------
(***************************************************************************)
(* InteractionMemory (runtime/src/memory/interaction-memory.ts): what the  *)
(* user turned to last, the conversation, and how a reference resolves; in *)
(* a process that may stop at any time and start again with or without the *)
(* file.  And MultiPeerMemory (federation/src/collaboration), which keeps  *)
(* the turns of other peers and is not saved.                              *)
(*                                                                         *)
(* A turn is the entity it touched; texts and times are left out.          *)
(***************************************************************************)
EXTENDS Integers, Lists, SequencesExt

CONSTANTS Thing,             \* entity ids
          Nothing,           \* null or undefined
          HistoryLimit,      \* HISTORY_LIMIT, 50 in the code
          RemoteLimit,       \* maxHistory, 200 in the code
          MaxTurns           \* bound of the model: the conversation has none

ASSUME LimitAssumption == HistoryLimit \in Nat \ {0} /\ RemoteLimit \in Nat \ {0}

VARIABLES history, lastDiscussed, conversation,
          file,              \* what was saved, Nothing if there is no file
          remoteTurns

memoryVars == <<history, lastDiscussed, conversation, file, remoteTurns>>

MemoryInit ==
  /\ history = <<>> /\ lastDiscussed = Nothing /\ conversation = <<>>
  /\ file = Nothing
  /\ remoteTurns = <<>>

\* Mutant: the limit is held before the entity is pushed.
InFrontLate(h, e) ==
  LET rest == Only(h, Thing \ {e})
  IN <<e>> \o IF Len(rest) > HistoryLimit THEN Front(rest) ELSE rest

\* The history with e in front, as before it was nowhere else, within its limit.
InFront(h, e) ==
  LET all == <<e>> \o Only(h, Thing \ {e})
  IN IF Len(all) > HistoryLimit THEN Front(all) ELSE all

PushToHistory(e, raw) ==
  /\ raw => Len(conversation) < MaxTurns
  /\ history' = InFront(history, e)
  /\ lastDiscussed' = e
  /\ conversation' = IF raw THEN Append(conversation, e) ELSE conversation
  /\ UNCHANGED <<file, remoteTurns>>

Clear ==
  /\ history' = <<>> /\ lastDiscussed' = Nothing /\ conversation' = <<>>
  /\ UNCHANGED <<file, remoteTurns>>

Save ==
  /\ file' = [history |-> history, last |-> lastDiscussed, conversation |-> conversation]
  /\ UNCHANGED <<history, lastDiscussed, conversation, remoteTurns>>

Load ==
  /\ file # Nothing
  /\ history' = file.history /\ lastDiscussed' = file.last /\ conversation' = file.conversation
  /\ UNCHANGED <<file, remoteTurns>>

Restart ==
  /\ history' = <<>> /\ lastDiscussed' = Nothing /\ conversation' = <<>> /\ remoteTurns' = <<>>
  /\ UNCHANGED file

RecordRemoteTurn(e) ==
  /\ remoteTurns' = LET all == Append(remoteTurns, e)
                    IN IF Len(all) > RemoteLimit THEN Tail(all) ELSE all
  /\ UNCHANGED <<history, lastDiscussed, conversation, file>>

MemoryNext ==
  \/ \E e \in Thing : RecordRemoteTurn(e) \/ \E raw \in BOOLEAN : PushToHistory(e, raw)
  \/ Clear \/ Save \/ Load \/ Restart

MemorySpec == MemoryInit /\ [][MemoryNext]_memoryVars

At(s, n) == IF n \in DOMAIN s THEN s[n] ELSE Nothing

\* resolveConversational and resolveTemporal: every position is the newest but
\* for these two, the previous one too, and stepsBack is never read.
ResolveConversational(position) ==
  CASE position = "next"  -> At(history, 2)
    [] position = "first" -> At(history, Len(history))
    [] OTHER              -> At(history, 1)

ResolveTemporal == At(history, 1)

\* resolveRemoteReference
ResolveRemote(position, stepsBack) ==
  CASE position = "most_recent" \/ stepsBack = 0   -> At(remoteTurns, Len(remoteTurns))
    [] position = "previous" /\ stepsBack # 0      ->
         At(remoteTurns, Len(remoteTurns) - (IF stepsBack = Nothing THEN 1 ELSE stepsBack))
    [] position = "first" /\ stepsBack = Nothing   -> At(remoteTurns, 1)
    [] position = "last" /\ stepsBack = Nothing    -> At(remoteTurns, Len(remoteTurns))
    [] stepsBack # Nothing /\ stepsBack # 0 /\ position # "previous"
                                                   -> At(remoteTurns, Len(remoteTurns) - stepsBack)
    [] OTHER                                       -> Nothing

-----------------------------------------------------------------------------
(* A reference by place: boxes are [x, y, width, height].                  *)

IsSpatialMatch(a, b, direction) ==
  CASE direction = "below"   -> b.y > a.y + a.height
    [] direction = "above"   -> b.y + b.height < a.y
    [] direction = "left"    -> b.x + b.width < a.x
    [] direction = "right"   -> b.x > a.x + a.width
    [] direction = "next_to" -> -50 < b.y - a.y /\ b.y - a.y < 50
    [] direction = "inside"  -> /\ b.x >= a.x /\ b.x + b.width <= a.x + a.width
                                /\ b.y >= a.y /\ b.y + b.height <= a.y + a.height
    [] direction = Nothing   -> TRUE
    [] OTHER                 -> FALSE     \* "overlapping"

Area(a) == a.width * a.height

MatchesSizeRelation(a, b, relation) ==
  CASE relation = "wider"              -> b.width > a.width
    [] relation = "taller"             -> b.height > a.height
    [] relation = "smaller"            -> Area(b) < Area(a)
    [] relation \in {"larger", "bigger"} -> Area(b) > Area(a)

\* resolveSpatial among boxes in order, the anchor's place first.
ResolveSpatial(boxes, anchor, direction, size) ==
  LET matches == {n \in DOMAIN boxes \ {anchor} : IsSpatialMatch(boxes[anchor], boxes[n], direction)}
      sized   == {n \in matches : size # Nothing /\ MatchesSizeRelation(boxes[anchor], boxes[n], size)}
      First(set) == CHOOSE n \in set : \A m \in set : n <= m
  IN IF matches = {} THEN Nothing ELSE First(IF sized = {} THEN matches ELSE sized)

-----------------------------------------------------------------------------

Coherent(h, last) ==
  /\ Len(h) <= HistoryLimit /\ IsInjective(h)
  /\ last = At(h, 1)

(***************************************************************************)
(* What was discussed last is at the front of the history and what the     *)
(* most recent resolves to, the history is within its limit and names      *)
(* nothing twice, in the memory and in the file, so that a process that    *)
(* stopped anywhere and loads the file goes on with such a memory.         *)
(***************************************************************************)
MemoryIsCoherent ==
  /\ Coherent(history, lastDiscussed)
  /\ file # Nothing => Coherent(file.history, file.last)
  /\ ResolveConversational("most_recent") = lastDiscussed

=============================================================================
