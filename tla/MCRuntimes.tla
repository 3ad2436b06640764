----------------------------- MODULE MCRuntimes -----------------------------
(***************************************************************************)
(* Three parts of a runtime for TLC: AgentDispatch, BreakerCallers and     *)
(* FederatedRuntime.  They share no state, so that a behaviour is of one   *)
(* of them, chosen at the start.                                           *)
(*                                                                         *)
(* The dispatcher: two calls of dispatch(), two workers and two intents.   *)
(* The envelopes cover every branch of the classifier and of the routing,  *)
(* an intent that waits for another one, and one intent that is sent by    *)
(* both workers, surely and not; both calls may carry the same.            *)
(*                                                                         *)
(* The breaker: more callers than its threshold and its probes take.       *)
(*                                                                         *)
(* The federated runtime: two remote peers and two links.  Either both     *)
(* peers are joined, or one of them twice, so that a link the runtime has  *)
(* dropped and that reconnects meets the link of another peer or its own   *)
(* successor.                                                              *)
(***************************************************************************)
EXTENDS AgentDispatch, BreakerCallers, FederatedRuntime

CONSTANTS c1, c2, i1, i2, w1, w2,     \* calls, intents, workers
          p1, p2, a, b                \* peers, links

VARIABLE system                       \* which of the three behaves

Letter(intent, kind, confident, urgency, worker, dependsOn) ==
  [intent |-> intent, kind |-> kind, confident |-> confident, urgency |-> urgency,
   worker |-> worker, dependsOn |-> dependsOn]

MCEnvelope ==
  {Letter(i1, "edit",         TRUE,  "background", w1, {}),
   Letter(i1, "edit",         FALSE, "checkpoint", w2, {}),
   Letter(i2, "irreversible", TRUE,  "blocker",    w1, {}),
   Letter(i2, "read",         FALSE, "blocker",    w1, {i1}),
   Letter(i2, "irreversible", FALSE, "background", w2, {}),
   Letter(i2, "read",         FALSE, "checkpoint", w1, {}),
   Letter(i1, "other",        TRUE,  "background", w2, {})}

\* The callers of a breaker are alike: they are numbered as they ask.
InOrder == \A c, d \in Caller : c < d /\ grant[c] = "none" => grant'[d] = "none"

\* When no call is dispatched its envelope does not matter.
MCInit ==
  /\ system \in {"dispatcher", "breaker", "federation"}
  /\ system # "dispatcher" => sent = [c \in Call |-> CHOOSE e \in Envelope : TRUE]
  /\ DispatchInit /\ CallersInit /\ Init

MCNext ==
  /\ \/ system = "dispatcher" /\ DispatchNext /\ UNCHANGED <<callersVars, vars>>
     \/ system = "breaker"    /\ CallersNext /\ InOrder /\ UNCHANGED <<dispatchVars, vars>>
     \/ system = "federation" /\ Next /\ UNCHANGED <<dispatchVars, callersVars>>
  /\ UNCHANGED system

MCSpec == /\ MCInit /\ [][MCNext]_<<dispatchVars, callersVars, vars, system>>
          /\ DispatchFairness /\ Fairness

=============================================================================
