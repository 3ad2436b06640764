----------------------------- MODULE Invoicing -----------------------------
(***************************************************************************)
(* The registry's billing: UsageTracker, PricingEngine and Invoicing       *)
(* (registry/src) against a PaymentProvider that may decline.  An amount   *)
(* is in thousandths of the currency unit; Math.round rounds to whole      *)
(* units (tax, fee) or to hundredths (a tier).                             *)
(*                                                                         *)
(* processPayment and processPayout read the record, await the provider    *)
(* and write its answer into the record.  calls lists those calls in the   *)
(* order they were made: outcome is the provider's, in its own books, and  *)
(* resumed says that the code behind the await has run.  Invoices and      *)
(* payouts are never deleted, so an id is a place in a sequence.           *)
(***************************************************************************)
EXTENDS Lists, Integers, FiniteSets, SequencesExt

CONSTANTS Capability,     \* capability ids
          ProviderOf,     \* provider.id of each capability
          PricingOf,      \* the pricing of each capability, as a rate card
          Consumer,
          Unset,          \* undefined
          OverdueAfter,   \* 30 days in the code
          MaxTime, MaxUsage, MaxInvoices, MaxPayouts, MaxCalls  \* bounds of the model

ASSUME OutcomeAssumption == Unset \notin {"success", "declined"}

\* A rate card: no price is negative, and no tier ends before it begins.
IsRateCard(card) ==
  /\ card.model \in {"free", "per-call", "metered", "subscription"}
  /\ card.cost \in Nat /\ card.subscription \in Nat
  /\ card.tiers \in Seq([from : Nat, to : {Unset} \cup Nat, cost : Nat])
  /\ \A i \in DOMAIN card.tiers :
       card.tiers[i].to # Unset => card.tiers[i].from <= card.tiers[i].to + 1

ASSUME PricingAssumption == \A c \in Capability : IsRateCard(PricingOf[c])

VARIABLES now,
          usage,          \* UsageTracker.records
          cards,          \* PricingEngine.rateCards, {} where there is none
          invoices, payouts,
          checkouts,      \* the checkout sessions
          calls

billingVars == <<now, usage, cards, invoices, payouts, checkouts, calls>>

\* getUsage: by capability and time, whoever the consumer was.
Within(t, period) == period[1] <= t /\ t <= period[2]
GetUsage(c, period) ==
  SumOver([u \in DOMAIN usage |-> usage[u].quantity],
          {u \in DOMAIN usage : usage[u].capability = c /\ Within(usage[u].at, period)})

\* One round of the loop over the tiers: what is left, and what the lines add up to.
ChargeTier(acc, tier) ==
  LET width == tier.to - tier.from + 1
      units == IF tier.to = Unset \/ acc.left < width THEN acc.left ELSE width
  IN IF acc.left <= 0 THEN acc
     ELSE [left |-> acc.left - units, total |-> acc.total + 10 * ((units * tier.cost + 5) \div 10)]

MeteredTotal(tiers, quantity) ==
  FoldLeft(ChargeTier, [left |-> quantity, total |-> 0], tiers).total

\* The total of computeInvoiceLines: by the capability's card, or its own pricing.
LinesTotal(card, quantity) ==
  CASE card.model = "free"         -> 0
    [] card.model = "per-call"     -> quantity * card.cost
    [] card.model = "metered"      -> IF card.tiers = <<>> THEN quantity * card.cost
                                      ELSE MeteredTotal(card.tiers, quantity)
    [] card.model = "subscription" -> card.subscription

CardOf(c) == IF cards[c] = {} THEN PricingOf[c] ELSE CHOOSE card \in cards[c] : TRUE

Rounded(x) == 1000 * ((x + 500) \div 1000)
Tax(subtotal) == Rounded((8 * subtotal) \div 100)
Fee(earnings) == Rounded(earnings \div 10)

BillingInit ==
  /\ now = 1
  /\ usage = <<>>
  /\ cards = [c \in Capability |-> {}]
  /\ invoices = <<>> /\ payouts = <<>> /\ checkouts = {}
  /\ calls = <<>>

RecordUsage(c, consumer, quantity) ==
  /\ Len(usage) < MaxUsage
  /\ usage' = Append(usage, [capability |-> c, consumer |-> consumer, quantity |-> quantity, at |-> now])
  /\ UNCHANGED <<now, cards, invoices, payouts, checkouts, calls>>

SetRateCard(c, card) ==
  /\ cards' = [cards EXCEPT ![c] = {card}]
  /\ UNCHANGED <<now, usage, invoices, payouts, checkouts, calls>>

GenerateInvoice(c, consumer, period) ==
  LET subtotal == LinesTotal(CardOf(c), GetUsage(c, period))
  IN /\ Len(invoices) < MaxInvoices
     /\ invoices' = Append(invoices,
          [publisher |-> ProviderOf[c], consumer |-> consumer, total |-> subtotal + Tax(subtotal),
           status |-> "draft", issuedAt |-> now, paidAt |-> 0])
     /\ UNCHANGED <<now, usage, cards, payouts, checkouts, calls>>

SendInvoice(i) ==
  /\ i \in DOMAIN invoices
  /\ invoices' = [invoices EXCEPT ![i].status = "sent"]
  /\ UNCHANGED <<now, usage, cards, payouts, checkouts, calls>>

MarkOverdue ==
  /\ invoices' = [i \in DOMAIN invoices |->
       IF invoices[i].status = "sent" /\ now - invoices[i].issuedAt > OverdueAfter
         THEN [invoices[i] EXCEPT !.status = "overdue"] ELSE invoices[i]]
  /\ UNCHANGED <<now, usage, cards, payouts, checkouts, calls>>

\* A call of the provider's processPayment.
Call(kind, id, amount) ==
  /\ Len(calls) < MaxCalls
  /\ calls' = Append(calls, [kind |-> kind, id |-> id, amount |-> amount,
                             outcome |-> Unset, resumed |-> FALSE])

\* processPayment until its await: nothing asks whether the invoice is paid.
StartPayment(i) ==
  /\ i \in DOMAIN invoices
  /\ Call("invoice", i, invoices[i].total)
  /\ UNCHANGED <<now, usage, cards, invoices, payouts, checkouts>>

CreateCheckout(i) ==
  /\ i \in DOMAIN invoices
  /\ checkouts' = checkouts \cup {[invoice |-> i, amount |-> invoices[i].total]}
  /\ UNCHANGED <<now, usage, cards, invoices, payouts, calls>>

\* Mutant: an invoice of the publisher counts whatever became of its payment.
EarnedWhenIssued(i, publisher, period) ==
  invoices[i].publisher = publisher /\ Within(invoices[i].issuedAt, period)

Earned(i, publisher, period) ==
  /\ invoices[i].publisher = publisher
  /\ invoices[i].status = "paid"
  /\ Within(invoices[i].paidAt, period)

ComputePayout(publisher, period) ==
  LET counted  == {i \in DOMAIN invoices : Earned(i, publisher, period)}
      earnings == SumOver([i \in DOMAIN invoices |-> invoices[i].total], counted)
  IN /\ Len(payouts) < MaxPayouts
     /\ payouts' = Append(payouts,
          [publisher |-> publisher, amount |-> earnings - Fee(earnings), period |-> period,
           count |-> Cardinality(counted), status |-> "pending"])
     /\ UNCHANGED <<now, usage, cards, invoices, checkouts, calls>>

SchedulePayout(p) ==
  /\ p \in DOMAIN payouts
  /\ payouts' = [payouts EXCEPT ![p].status = "scheduled"]
  /\ UNCHANGED <<now, usage, cards, invoices, checkouts, calls>>

StartPayout(p) ==
  /\ p \in DOMAIN payouts
  /\ Call("payout", p, payouts[p].amount)
  /\ UNCHANGED <<now, usage, cards, invoices, payouts, checkouts>>

\* The provider takes the money, or declines.
ProviderSettles(n) ==
  /\ n \in DOMAIN calls /\ calls[n].outcome = Unset
  /\ \E outcome \in {"success", "declined"} : calls' = [calls EXCEPT ![n].outcome = outcome]
  /\ UNCHANGED <<now, usage, cards, invoices, payouts, checkouts>>

\* Mutant: the invoice is paid whatever the provider answered.
MarkPaidAnyway(call) ==
  /\ invoices' = [invoices EXCEPT ![call.id].status = "paid", ![call.id].paidAt = now]
  /\ UNCHANGED payouts

MarkPaid(call) ==
  /\ invoices' = IF call.outcome = "success"
                 THEN [invoices EXCEPT ![call.id].status = "paid", ![call.id].paidAt = now]
                 ELSE invoices
  /\ UNCHANGED payouts

MarkPayout(call) ==
  /\ payouts' = [payouts EXCEPT ![call.id].status =
                   IF call.outcome = "success" THEN "paid" ELSE "failed"]
  /\ UNCHANGED invoices

\* The rest of processPayment or processPayout, after the await.
Resume(n) ==
  /\ n \in DOMAIN calls /\ calls[n].outcome # Unset /\ ~calls[n].resumed
  /\ calls' = [calls EXCEPT ![n].resumed = TRUE]
  /\ IF calls[n].kind = "invoice" THEN MarkPaid(calls[n]) ELSE MarkPayout(calls[n])
  /\ UNCHANGED <<now, usage, cards, checkouts>>

Tick ==
  /\ now < MaxTime
  /\ now' = now + 1
  /\ UNCHANGED <<usage, cards, invoices, payouts, checkouts, calls>>

(***************************************************************************)
(* The provider charged this much for the record, and the code knows.      *)
(***************************************************************************)
Charged(kind, id, amount) ==
  \E n \in DOMAIN calls :
    /\ calls[n].kind = kind /\ calls[n].id = id /\ calls[n].amount = amount
    /\ calls[n].outcome = "success" /\ calls[n].resumed

(***************************************************************************)
(* However the calls of the provider overlap and whatever it answers, an   *)
(* invoice has a date of payment exactly if exactly its total was charged, *)
(* a paid one has a date, and a payout is paid only if its amount was.     *)
(***************************************************************************)
PaidIsCharged ==
  /\ \A i \in DOMAIN invoices :
       /\ invoices[i].paidAt # 0 <=> Charged("invoice", i, invoices[i].total)
       /\ invoices[i].status = "paid" => invoices[i].paidAt # 0
  /\ \A p \in DOMAIN payouts :
       payouts[p].status = "paid" => Charged("payout", p, payouts[p].amount)

ChargedFor(publisher) ==
  SumOver([n \in DOMAIN calls |-> calls[n].amount],
          {n \in DOMAIN calls : /\ calls[n].kind = "invoice" /\ calls[n].outcome = "success"
                                /\ invoices[calls[n].id].publisher = publisher})

Disjoint(p, q) == p[2] < q[1] \/ q[2] < p[1]

(***************************************************************************)
(* Payouts of a publisher for periods that do not meet never add up to     *)
(* more than was charged for its invoices, even if an invoice is charged   *)
(* twice and its date of payment moves from one period to the other.       *)
(* Payouts for periods that share a day may: both count its payments.      *)
(***************************************************************************)
DisjointPayoutsAreCovered ==
  \A set \in SUBSET (DOMAIN payouts) :
    ( /\ set # {}
      /\ \A p, q \in set : /\ payouts[p].publisher = payouts[q].publisher
                           /\ p = q \/ Disjoint(payouts[p].period, payouts[q].period) )
    => SumOver([p \in DOMAIN payouts |-> payouts[p].amount], set)
         <= ChargedFor(payouts[CHOOSE p \in set : TRUE].publisher)

=============================================================================
