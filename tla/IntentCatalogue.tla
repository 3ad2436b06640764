-------------------------- MODULE IntentCatalogue --------------------------
(***************************************************************************)
(* The intents of the protocol (protocol/src/intents) and the two places   *)
(* that say how much trust one needs: the router, for the plan of a user's *)
(* instruction (router/llm-router.ts), and the classifier, for the intent  *)
(* of an agent (a2u/trust-classifier.ts).                                  *)
(***************************************************************************)
EXTENDS Integers, Sequences, SequencesExt, FiniteSetsExt

MetaVerbs  == [meta |-> {"cancel", "repeat", "help", "undo", "redo"}]
ReadVerbs  == [navigation  |-> {"locate", "open", "close", "navigate"},
               attention   |-> {"focus", "select", "highlight"},
               information |-> {"explain", "summarize", "compare", "search"}]
WriteVerbs == [manipulation |-> {"edit", "move", "delete", "create"},   \* CreateIntent of L5 among them
               execution    |-> {"run", "schedule"}]
ShareVerbs == [delegation    |-> {"plan", "delegate", "checkpoint"},
               collaboration |-> {"share", "discuss", "annotate", "broadcast"}]

Verbs  == MetaVerbs @@ ReadVerbs @@ WriteVerbs @@ ShareVerbs
Intent == UNION {{d} \X Verbs[d] : d \in DOMAIN Verbs}

IntentLayer == [meta |-> 0, navigation |-> 1, attention |-> 2, information |-> 3, manipulation |-> 4,
                creation |-> 5, execution |-> 6, delegation |-> 7, collaboration |-> 8]

IsMutating(i)   == IntentLayer[i[1]] >= 4
IsReversible(i) == i \notin {<<"manipulation", "delete">>, <<"execution", "run">>, <<"collaboration", "share">>}

\* classifyTrustTier of the router: by the kind of intent alone.
RouterTier(i) ==
  CASE i[1] \in {"information", "navigation"} -> 1
    [] i[1] \in {"execution", "collaboration", "delegation"} -> 3
    [] OTHER -> 2

Tier1 == ({"information"} \X Verbs["information"])
           \cup {<<"navigation", "locate">>, <<"attention", "focus">>, <<"attention", "highlight">>}
Tier2 == {"manipulation"} \X {"edit", "move", "create"}
Tier3 == {<<"manipulation", "delete">>, <<"collaboration", "share">>, <<"collaboration", "broadcast">>}
           \cup ({"execution"} \X Verbs["execution"])

\* classify, by whether the agent's confidence reaches the threshold.
Classify(i, confident) ==
  CASE i \in Tier1 -> [tier |-> 1, approval |-> FALSE, reversible |-> TRUE]
    [] i \in Tier2 -> [tier |-> 2, approval |-> ~confident, reversible |-> TRUE]
    [] i \in Tier3 -> [tier |-> 3, approval |-> TRUE, reversible |-> FALSE]
    [] OTHER -> [tier |-> 2, approval |-> TRUE, reversible |-> TRUE]

\* classifyDelegatePlan: the first of the highest tier, each taken for confident.
ClassifyDelegatePlan(intents) ==
  FoldLeft(LAMBDA max, i : IF Classify(i, TRUE).tier > max.tier THEN Classify(i, TRUE) ELSE max,
           [tier |-> 1, approval |-> FALSE, reversible |-> TRUE], intents)

(***************************************************************************)
(* Nothing that changes something is ever of tier 1, for either; what      *)
(* cannot be undone is of tier 3 for the classifier and always asked for.  *)
(***************************************************************************)
ChangesAreGuarded ==
  \A i \in Intent, confident \in BOOLEAN :
    /\ IsMutating(i) => RouterTier(i) > 1 /\ Classify(i, confident).tier > 1
    /\ ~IsReversible(i) => Classify(i, confident) = [tier |-> 3, approval |-> TRUE, reversible |-> FALSE]

(***************************************************************************)
(* The tiers differ: the router asks less for a deletion and for opening,  *)
(* closing and navigating.                                                 *)
(***************************************************************************)
RouterIsLaxer ==
  {i \in Intent : RouterTier(i) < Classify(i, TRUE).tier} =
    {<<"manipulation", "delete">>} \cup ({"navigation"} \X {"open", "close", "navigate"})

(***************************************************************************)
(* A plan has the highest tier of its steps, and waits for approval if one *)
(* of them cannot be undone; among steps of tier 2 the first one decides,  *)
(* also where a later one alone would have to be approved.                 *)
(***************************************************************************)
PlansAreGuarded(length) ==
  \A intents \in [1..length -> {<<"meta", "undo">>, <<"information", "search">>, <<"manipulation", "edit">>,
                                <<"manipulation", "delete">>}] :
    LET plan  == ClassifyDelegatePlan(intents)
        tiers == {Classify(intents[n], TRUE).tier : n \in 1..length}
        first == SelectInSeq(intents, LAMBDA i : Classify(i, TRUE).tier = plan.tier)
    IN /\ plan.tier = Max(tiers \cup {1})
       /\ (\E n \in 1..length : ~IsReversible(intents[n])) => plan.approval
       /\ plan.approval <=> first # 0 /\ Classify(intents[first], TRUE).approval

=============================================================================
