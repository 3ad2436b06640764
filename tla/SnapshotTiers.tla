--------------------------- MODULE SnapshotTiers ---------------------------
(***************************************************************************)
(* The semantic snapshot of the VS Code adapter (adapters/vscode/src/      *)
(* snapshot): three tiers that change at once and move the version of the  *)
(* whole when a timer of theirs fires.  The hot and the warm tier start    *)
(* their timer anew with every change; the cold one lets it run.  The      *)
(* events are those the extension listens to (apps/vscode-extension).      *)
(*                                                                         *)
(* Time passes in ticks, and not past a timer that is due: timers fire on  *)
(* time, those due together in any order.  What a tier keeps of a change   *)
(* is the files it is about, in lists that drop the oldest.                *)
(***************************************************************************)
EXTENDS Integers, SequencesExt

CONSTANTS File,
          HotDelay, WarmDelay, ColdDelay,   \* 16, 150 and 1000 ms in the code
          Recent,                           \* 50 and 100 in the code
          MaxChangesPending,                \* bound of the model: changes no version counts
          Off                               \* no timer

ASSUME DelayAssumption ==
  HotDelay \in Nat /\ WarmDelay \in Nat /\ ColdDelay \in Nat /\ Off \notin Nat

VARIABLES hot,        \* activeEntity, pointerTarget, ephemeral
          changed,    \* warm.recentlyChanged
          entities,      \* the cold graph
          removing,   \* removals that wait for their import
          timer,      \* ticks until it fires, by tier
          uncounted   \* by tier: the ages of the changes no version counts yet

tierVars == <<hot, changed, entities, removing, timer, uncounted>>

Tier  == {"hot", "warm", "cold"}
Delay == [hot |-> HotDelay, warm |-> WarmDelay, cold |-> ColdDelay]

TiersInit ==
  /\ hot \in {[active |-> f, pointer |-> Off, ephemeral |-> <<>>] : f \in File}
  /\ changed = <<>> /\ entities = {} /\ removing = {}
  /\ timer = [t \in Tier |-> Off]
  /\ uncounted = [t \in Tier |-> <<>>]

Kept(list, f) == IF Len(list) >= Recent THEN Append(Tail(list), f) ELSE Append(list, f)

\* Mutant: the cold tier starts its timer anew like the others.
AlwaysAnew(t) == Delay[t]

\* scheduleUpdate: what the timer of a tier is set to by a change.
Scheduled(t) == IF t = "cold" /\ timer[t] # Off THEN timer[t] ELSE Delay[t]

Touch(tiers) ==
  /\ \A t \in tiers : Len(uncounted[t]) < MaxChangesPending
  /\ timer' = [t \in Tier |-> IF t \in tiers THEN Scheduled(t) ELSE timer[t]]
  /\ uncounted' = [t \in Tier |-> IF t \in tiers THEN Append(uncounted[t], 0) ELSE uncounted[t]]

\* onDidChangeActiveTextEditor: the pointer stays where it was.  When the window
\* gets the focus the active file is set once more (onDidChangeWindowState).
ActiveEditorChanges(f) ==
  /\ hot' = [hot EXCEPT !.active = f, !.ephemeral = Kept(@, f)]
  /\ Touch({"hot"})
  /\ UNCHANGED <<changed, entities, removing>>

\* onDidChangeTextEditorSelection, of the active editor: updateSelection, then
\* updatePointerTarget.
SelectionChanges ==
  /\ hot' = [hot EXCEPT !.pointer = hot.active, !.ephemeral = Kept(@, hot.active)]
  /\ Touch({"hot"})
  /\ UNCHANGED <<changed, entities, removing>>

DocumentOpens(f) ==
  /\ entities' = entities \cup {f}
  /\ Touch({"cold"})
  /\ UNCHANGED <<hot, changed, removing>>

DocumentChanges(f) ==
  /\ entities' = entities \cup {f}
  /\ changed' = Kept(changed, f)
  /\ Touch({"warm", "cold"})
  /\ UNCHANGED <<hot, removing>>

\* ColdTier.removeEntity imports the module first; the entity goes when it is
\* there, also one that has been added again meanwhile.
StartRemoval(f) ==
  /\ removing' = removing \cup {f}
  /\ UNCHANGED <<hot, changed, entities, timer, uncounted>>

FinishRemoval(f) ==
  /\ f \in removing
  /\ removing' = removing \ {f}
  /\ entities' = entities \ {f}
  /\ Touch({"cold"})
  /\ UNCHANGED <<hot, changed>>

\* bumpVersion: the version is that of all three tiers.
Fire(t) ==
  /\ timer[t] = 0
  /\ timer' = [timer EXCEPT ![t] = Off]
  /\ uncounted' = [u \in Tier |-> <<>>]
  /\ UNCHANGED <<hot, changed, entities, removing>>

TimePassesBy ==
  /\ \A t \in Tier : timer[t] # 0
  /\ \E t \in Tier : timer[t] # Off
  /\ timer' = [t \in Tier |-> IF timer[t] = Off THEN Off ELSE timer[t] - 1]
  /\ uncounted' = [t \in Tier |-> [n \in DOMAIN uncounted[t] |-> uncounted[t][n] + 1]]
  /\ UNCHANGED <<hot, changed, entities, removing>>

TiersNext ==
  \/ \E f \in File : \/ ActiveEditorChanges(f) \/ DocumentOpens(f) \/ DocumentChanges(f)
                     \/ StartRemoval(f) \/ FinishRemoval(f)
  \/ SelectionChanges
  \/ \E t \in Tier : Fire(t)
  \/ TimePassesBy

TiersSpec == TiersInit /\ [][TiersNext]_tierVars

(***************************************************************************)
(* No change is forgotten, and none waits long: what the version does not  *)
(* count yet has a timer, and the oldest such change of the cold tier and  *)
(* the newest of the others are no older than the delay of the tier.       *)
(* (Older ones of the hot and warm tier may be: each change puts off all.) *)
(***************************************************************************)
VersionKeepsUp ==
  \A t \in Tier : uncounted[t] # <<>> =>
    /\ timer[t] # Off
    /\ (IF t = "cold" THEN Head(uncounted[t]) ELSE Last(uncounted[t])) <= Delay[t]

=============================================================================
