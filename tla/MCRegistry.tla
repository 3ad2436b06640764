----------------------------- MODULE MCRegistry -----------------------------
(***************************************************************************)
(* A small registry under one of four workloads, chosen at the start: a    *)
(* client that publishes and syncs, attestations, invoices, or payments    *)
(* and payouts.  Their state is apart but for the listings, so that their  *)
(* interleavings would multiply states and show nothing.                   *)
(***************************************************************************)
EXTENDS RegistryClient

CONSTANTS a, b, t, pub, x, y

VARIABLE workload

vars == <<registryVars, workload>>

MCPublishers   == {[id |-> pub, wellFormed |-> TRUE]}
MCCapabilities == {[id |-> a, intents |-> {"i"}, trust |-> 40, wellFormed |-> TRUE],
                   [id |-> a, intents |-> {"j"}, trust |-> 60, wellFormed |-> TRUE],
                   [id |-> b, intents |-> {"i"}, trust |-> 60, wellFormed |-> FALSE],
                   [id |-> b, intents |-> {"i"}, trust |-> 50, wellFormed |-> TRUE]}

PerCall  == [model |-> "per-call", cost |-> 3500, tiers |-> <<>>, subscription |-> 0]
Tiered   == [model |-> "metered", cost |-> 0, subscription |-> 0,
             tiers |-> <<[from |-> 1, to |-> 1, cost |-> 5000], [from |-> 2, to |-> Unset, cost |-> 1004]>>]
Monthly  == [model |-> "subscription", cost |-> 0, tiers |-> <<>>, subscription |-> 9000]
NoCharge == [model |-> "free", cost |-> 0, tiers |-> <<>>, subscription |-> 0]

MCPricingOf  == [c \in Capability |-> IF c = a THEN PerCall ELSE NoCharge]
MCProviderOf == [c \in Capability |-> pub]
MCCards      == {Tiered}
MCPeriods    == {<<1, 1>>, <<2, 2>>}

MCInit ==
  /\ ServerInit /\ ClientInit
  /\ workload \in {"catalogue", "reputation", "invoices", "payments"}

\* The other workloads run on a server that has published what they are about.
Publish ==
  /\ listings = <<>>
  /\ HandlePublish(CHOOSE c \in Capabilities : c.id = a /\ c.trust = 40, "data",
                   CHOOSE p \in Publishers : TRUE, None, "none")

Catalogue == workload = "catalogue" /\ CatalogueNext

Reputation ==
  /\ workload = "reputation"
  /\ ReputationStep \/ Publish \/ Start
  /\ UNCHANGED clientVars

\* Rate cards and checkouts are left to the one, payments to the other.
Invoices ==
  /\ workload = "invoices"
  /\ \/ HandleRecordUsage \/ HandleSetRateCard \/ HandleGenerateInvoice \/ HandleCreateCheckout
     \/ SendAnInvoice \/ SweepOverdue \/ ClockTick \/ Publish \/ Start
  /\ UNCHANGED clientVars

Payments ==
  /\ workload = "payments"
  /\ \/ HandleRecordUsage \/ HandleGenerateInvoice \/ HandlePayInvoice
     \/ HandleComputePayout \/ HandleSchedulePayout \/ HandleProcessPayout
     \/ ProviderStep \/ SendAnInvoice \/ ClockTick \/ Publish \/ Start
  /\ UNCHANGED clientVars

MCNext == (Catalogue \/ Reputation \/ Invoices \/ Payments) /\ UNCHANGED workload

MCSpec == MCInit /\ [][MCNext]_vars /\ SyncFairness

\* A tier is charged for the units it names: the cost of each unit by itself.
CostOfUnit(tiers, u) ==
  LET of == {i \in DOMAIN tiers : tiers[i].from <= u /\ (tiers[i].to = Unset \/ u <= tiers[i].to)}
  IN IF of = {} THEN 0 ELSE tiers[CHOOSE i \in of : TRUE].cost

ContiguousTiers ==
  {<<[from |-> 1, to |-> m, cost |-> c], [from |-> m + 1, to |-> top, cost |-> d]>> :
     m \in 1..3, top \in {5, Unset}, c \in {20, 50}, d \in {10, 40}}

(***************************************************************************)
(* Tiers that follow on from 1 without a gap charge every unit at the cost *)
(* of the tier it lies in.                                                 *)
(***************************************************************************)
ASSUME TiersChargeEachUnit ==
  \A tiers \in ContiguousTiers, q \in 0..7 :
    MeteredTotal(tiers, q) = MapThenSumSet(LAMBDA u : CostOfUnit(tiers, u), 1..q)

(***************************************************************************)
(* A trust score is from 0 to 100 and never falls when a factor rises.     *)
(***************************************************************************)
ASSUME TrustScoreIsAScore ==
  \A base, attested \in {0, 1, 49, 50, 99, 100}, v \in DOMAIN VerificationBonus,
     up \in {0, 1, 7, 30, 90}, old \in {0, 2, 8, 31, 91} :
    LET score == TrustScore(base, v, attested, up, old)
    IN /\ score \in 0..100
       /\ score <= TrustScore(100, v, attested, up, old)
       /\ score <= TrustScore(base, v, 100, up, old)
       /\ score <= TrustScore(base, v, attested, up + 60, old)
       /\ score <= TrustScore(base, v, attested, up, 0)

=============================================================================
