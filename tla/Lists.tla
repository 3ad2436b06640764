------------------------------- MODULE Lists -------------------------------
(***************************************************************************)
(* Array.filter and Array.reduce as the models use them.  Only is a        *)
(* recursive function: SelectSeq is built into the proof system, which     *)
(* knows no facts about it.                                                *)
(***************************************************************************)
EXTENDS Naturals, Sequences, FiniteSetsExt

\* The elements of the list that are in the set, in the order of the list.
Only(list, set) ==
  LET kept[n \in 0..Len(list)] ==
        IF n = 0 THEN <<>>
        ELSE IF list[n] \in set THEN Append(kept[n - 1], list[n]) ELSE kept[n - 1]
  IN kept[Len(list)]

\* What w says of the elements of S, added up: S is of places in a list.
SumOver(w, S) == MapThenSumSet(LAMBDA x : w[x], S)

=============================================================================
