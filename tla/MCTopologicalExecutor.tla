----------------------- MODULE MCTopologicalExecutor -----------------------
(* Finite instances of TopologicalExecutor for TLC. *)
EXTENDS TopologicalExecutor, TLC

\* Every dependency relation on the steps, cycles included; any of
\* the steps may be optional, and one of them may be missing from the plan.
AllShapes ==
  [steps    : {S \in SUBSET Step : Cardinality(Step \ S) <= 1},
   deps     : [Step -> SUBSET Step],
   optional : {[s \in Step |-> s \in O] : O \in SUBSET Step},
   tool     : [Step -> Tool]]

\* Plans without order: what the breakers see of concurrent plans.
Unordered ==
  [steps    : {S \in SUBSET Step : Cardinality(S) = 2},
   deps     : {[s \in Step |-> {}]},
   optional : {[s \in Step |-> FALSE]},
   tool     : [Step -> Tool]]

\* A call that is not made.
NoPlan == [steps |-> {}, deps |-> [s \in Step |-> {}], optional |-> [s \in Step |-> FALSE],
           tool |-> [s \in Step |-> CHOOSE t \in Tool : TRUE]]

ShapesAndUnordered == AllShapes \union Unordered \union {NoPlan}

\* Either one call, with a plan of any shape, or all calls with a plan of
\* two steps each, which meet in the breakers.
Alone == \E r \in Run : Steps(r) = {}

MCInit ==
  /\ \/ \E r \in Run, p \in AllShapes : plan = [q \in Run |-> IF q = r THEN p ELSE NoPlan]
     \/ \E p \in Unordered : plan = [q \in Run |-> p]
  /\ Init

MCSpec == MCInit /\ [][Next]_vars

\* The call that is alone does without retries, and the other is not made: its
\* own plan is the question.
AloneWithoutRetries ==
  Alone => attempt' = attempt /\ \A r \in Run : Steps(r) = {} => pc'[r] = "idle"

\* A step b that waits for a; the plan may be without a, and either step
\* may be optional.
Pairs(a, b) ==
  [steps    : {{a, b}, {b}},
   deps     : {[s \in Step |-> IF s = b THEN {a} ELSE {}]},
   optional : [Step -> BOOLEAN],
   tool     : [Step -> Tool]]
SomePairs == LET a == CHOOSE s \in Step : TRUE
             IN  Pairs(a, CHOOSE s \in Step : s # a)
PlainPairs == {p \in SomePairs : \A s \in Step : ~p.optional[s]}
FewPairs == {p \in SomePairs : \A s, u \in Step : p.optional[s] = p.optional[u]}

Symmetry == Permutations(Run) \union Permutations(Step)

=============================================================================
