--------------------------- MODULE RegistryServer ---------------------------
(***************************************************************************)
(* RegistryServer (registry/src/registry-server.ts): the routes over the   *)
(* store, the reputation oracle and the billing.  A handler runs in one    *)
(* piece from the end of the request's body to the response, except where  *)
(* it awaits the payment provider (see Invoicing).  A handler that answers *)
(* 400, 404 or 422 changes nothing: what it asks for first is the guard of *)
(* its action.  The routes that only read, and the JSON, are left out.     *)
(*                                                                         *)
(* The methods no route calls are actions of the program that embeds the   *)
(* server and reaches its public fields.                                   *)
(***************************************************************************)
EXTENDS RegistryStore, ReputationOracle, Invoicing

CONSTANTS RequireVerification, Signatures, Quantities, Cards, Periods

ASSUME ServerAssumption ==
  /\ RequireVerification \in BOOLEAN
  /\ Signatures \subseteq {"none", "match", "mismatch"}

ASSUME BillingAssumption ==
  /\ Quantities \subseteq Nat /\ Periods \subseteq Nat \X Nat
  /\ \A card \in Cards : IsRateCard(card)

VARIABLE listening

serverVars == <<listening, storeVars, oracleVars, billingVars>>

\* verifyCapabilitySchema and verifyPublisherIdentity ask for fields that are there.
VerifyCapabilitySchema(c)    == c.wellFormed
VerifyPublisherIdentity(p)   == p.wellFormed

\* fullVerification: a request with no signature passes.
FullVerification(c, p, signature) ==
  /\ VerifyCapabilitySchema(c)
  /\ VerifyPublisherIdentity(p)
  /\ signature # "mismatch"

ServerInit == listening = FALSE /\ StoreInit /\ OracleInit /\ BillingInit

Start ==
  /\ ~listening
  /\ listening' = TRUE
  /\ UNCHANGED <<storeVars, oracleVars, billingVars>>

\* stop closes the socket; what the server holds stays.
Stop ==
  /\ listening
  /\ listening' = FALSE
  /\ UNCHANGED <<storeVars, oracleVars, billingVars>>

Accepts(c, p, signature) == RequireVerification => FullVerification(c, p, signature)

HandlePublish(c, category, p, tags, signature) ==
  /\ listening
  /\ Accepts(c, p, signature)
  /\ StorePublish(c, category, p, tags)
  /\ UNCHANGED <<listening, oracleVars, billingVars>>

HandleUnpublish(id) ==
  /\ listening
  /\ StoreUnpublish(id)
  /\ UNCHANGED <<listening, oracleVars, billingVars>>

DeleteListing(id) ==
  /\ StoreDelete(id)
  /\ UNCHANGED <<listening, oracleVars, billingVars>>

HandleAttest(s, attestor, score) ==
  /\ listening /\ Listed(s)
  /\ SubmitAttestation(s, attestor, score)
  /\ UNCHANGED <<listening, storeVars, billingVars>>

\* The dashboard asks for the aggregate of every listing, the detail for one.
HandleTrustDetail(s) ==
  /\ listening /\ Listed(s)
  /\ GetAggregate(s)
  /\ UNCHANGED <<listening, storeVars, billingVars>>

HandleTrustDashboard ==
  /\ listening
  /\ aggregates' = [s \in Subjects |->
       IF Listed(s) /\ aggregates[s] = {} THEN Aggregate(Valid(s)) ELSE aggregates[s]]
  /\ UNCHANGED <<attestations, expired, listening, storeVars, billingVars>>

OracleMaintenance ==
  /\ PruneExpired \/ \E s \in Subjects, attestor \in Attestors : Expire(s, attestor)
  /\ UNCHANGED <<listening, storeVars, billingVars>>

Route(handler) == listening /\ handler /\ UNCHANGED <<listening, storeVars, oracleVars>>

HandleRecordUsage ==
  Route(\E c \in Capability, consumer \in Consumer, q \in Quantities : RecordUsage(c, consumer, q))

HandleSetRateCard ==
  Route(\E c \in Capability, card \in Cards : Listed(c) /\ SetRateCard(c, card))

HandleGenerateInvoice ==
  Route(\E c \in Capability, consumer \in Consumer, period \in Periods :
          Listed(c) /\ GenerateInvoice(c, consumer, period))

HandlePayInvoice     == Route(\E i \in DOMAIN invoices : StartPayment(i))
HandleCreateCheckout == Route(\E i \in DOMAIN invoices : CreateCheckout(i))
HandleComputePayout  ==
  Route(\E p \in {ProviderOf[c] : c \in Capability}, period \in Periods : ComputePayout(p, period))
HandleSchedulePayout == Route(\E p \in DOMAIN payouts : SchedulePayout(p))
HandleProcessPayout  == Route(\E p \in DOMAIN payouts : StartPayout(p))

\* Suspended handlers go on whether or not the socket is open.
ProviderStep ==
  /\ \E n \in DOMAIN calls : ProviderSettles(n) \/ Resume(n)
  /\ UNCHANGED <<listening, storeVars, oracleVars>>

SendAnInvoice == (\E i \in DOMAIN invoices : SendInvoice(i)) /\ UNCHANGED <<listening, storeVars, oracleVars>>
SweepOverdue  == MarkOverdue /\ UNCHANGED <<listening, storeVars, oracleVars>>
ClockTick     == Tick /\ UNCHANGED <<listening, storeVars, oracleVars>>

CatalogueStep ==
  \/ \E c \in Capabilities, category \in Categories, p \in Publishers,
        tags \in (SUBSET Tags) \cup {None}, signature \in Signatures :
       HandlePublish(c, category, p, tags, signature)
  \/ \E id \in Ids : HandleUnpublish(id) \/ DeleteListing(id)
  \/ Start \/ Stop

ReputationStep ==
  \/ \E s \in Subjects, attestor \in Attestors, score \in Scores : HandleAttest(s, attestor, score)
  \/ \E s \in Subjects : HandleTrustDetail(s)
  \/ HandleTrustDashboard \/ OracleMaintenance

BillingStep ==
  \/ HandleRecordUsage \/ HandleSetRateCard \/ HandleGenerateInvoice \/ HandlePayInvoice
  \/ HandleCreateCheckout \/ HandleComputePayout \/ HandleSchedulePayout \/ HandleProcessPayout
  \/ ProviderStep \/ SendAnInvoice \/ SweepOverdue \/ ClockTick

ServerNext == CatalogueStep \/ ReputationStep \/ BillingStep
ServerSpec == ServerInit /\ [][ServerNext]_serverVars

=============================================================================
