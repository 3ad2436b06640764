--------------------------- MODULE RegistryProofs ---------------------------
(***************************************************************************)
(* Proofs about the registry and a client of it, for any capabilities,     *)
(* publishers, attestors, rate cards, periods, requests at a time and      *)
(* bounds: the aggregates are of a moment, what is paid has been charged,  *)
(* payouts for periods that do not meet are covered by what was charged,   *)
(* and the indexes of the store and of the cache lead to what they hold.   *)
(***************************************************************************)
EXTENDS RegistryClient, ListProofs, FiniteSetTheorems

-----------------------------------------------------------------------------
(* The reputation oracle.                                                  *)

\* The oracle's variables are functions of the capability.
OracleShape ==
  /\ attestations = [s \in Subjects |-> attestations[s]]
  /\ expired      = [s \in Subjects |-> expired[s]]
  /\ aggregates   = [s \in Subjects |-> aggregates[s]]

OracleInv == OracleShape /\ AggregatesAreOfAMoment

\* An aggregate of a set between the valid attestations and the stored ones.
OfAMoment(s) ==
  \E set \in SUBSET attestations[s] : Valid(s) \subseteq set /\ aggregates[s] = Aggregate(set)

LEMMA ValidIsOfNow ==
  ASSUME NEW s, aggregates[s] = Aggregate(Valid(s))
  PROVE  OfAMoment(s)
  BY DEF OfAMoment, Valid

LEMMA SubmitKeeps ==
  ASSUME OracleInv, NEW s \in Subjects, NEW attestor, NEW score,
         SubmitAttestation(s, attestor, score)
  PROVE  OracleInv'
  <1>1. OracleShape'
    BY DEF OracleInv, OracleShape, SubmitAttestation, Stored
  <1>2. ASSUME NEW t \in Subjects PROVE OfAMoment(t)'
    <2>1. CASE t = s
      <3>1. (aggregates[t] = Aggregate(Valid(t)))'
        BY <2>1 DEF OracleInv, OracleShape, SubmitAttestation
      <3>2. QED
        BY <3>1 DEF OfAMoment, Valid
    <2>2. CASE t # s
      <3>1. OfAMoment(t)
        BY DEF OracleInv, AggregatesAreOfAMoment, OfAMoment
      <3>2. /\ attestations'[t] = attestations[t] /\ expired'[t] = expired[t]
            /\ aggregates'[t] = aggregates[t]
        BY <2>2 DEF OracleInv, OracleShape, SubmitAttestation, Stored
      <3>3. QED
        BY <3>1, <3>2 DEF OfAMoment, Valid
    <2>3. QED
      BY <2>1, <2>2
  <1>3. QED
    BY <1>1, <1>2 DEF OracleInv, AggregatesAreOfAMoment, OfAMoment

\* getAggregate of one capability, of many, or of none.
LEMMA AskingKeeps ==
  ASSUME OracleInv, UNCHANGED <<attestations, expired>>,
         aggregates' = [s \in Subjects |-> aggregates'[s]],
         \A s \in Subjects : \/ aggregates'[s] = aggregates[s]
                             \/ aggregates'[s] = Aggregate(Valid(s))
  PROVE  OracleInv'
  <1>1. OracleShape'
    BY DEF OracleInv, OracleShape
  <1>2. ASSUME NEW s \in Subjects PROVE OfAMoment(s)'
    BY DEF OracleInv, AggregatesAreOfAMoment, OfAMoment, Valid
  <1>3. QED
    BY <1>1, <1>2 DEF OracleInv, AggregatesAreOfAMoment, OfAMoment

LEMMA PruneKeeps ==
  ASSUME OracleInv, PruneExpired
  PROVE  OracleInv'
  <1>1. OracleShape'
    BY DEF OracleInv, OracleShape, PruneExpired
  <1>2. ASSUME NEW s \in Subjects PROVE OfAMoment(s)'
    <2>1. /\ attestations'[s] = Valid(s) /\ expired'[s] = {}
          /\ aggregates'[s] = Aggregate(Valid(s))
      BY DEF PruneExpired
    <2>2. QED
      BY <2>1 DEF OfAMoment, Valid
  <1>3. QED
    BY <1>1, <1>2 DEF OracleInv, AggregatesAreOfAMoment, OfAMoment

\* What expires was stored and is stored still: fewer are valid, the rest is as it was.
LEMMA ExpireKeeps ==
  ASSUME OracleInv, NEW s \in Subjects, NEW attestor, Expire(s, attestor)
  PROVE  OracleInv'
  <1>1. OracleShape'
    BY DEF OracleInv, OracleShape, Expire
  <1>2. ASSUME NEW t \in Subjects PROVE OfAMoment(t)'
    <2>1. PICK set \in SUBSET attestations[t] :
            Valid(t) \subseteq set /\ aggregates[t] = Aggregate(set)
      BY DEF OracleInv, AggregatesAreOfAMoment
    <2>2. /\ attestations'[t] = attestations[t] /\ expired[t] \subseteq expired'[t]
          /\ aggregates'[t] = aggregates[t]
      BY DEF OracleInv, OracleShape, Expire
    <2>3. QED
      BY <2>1, <2>2 DEF OfAMoment, Valid
  <1>3. QED
    BY <1>1, <1>2 DEF OracleInv, AggregatesAreOfAMoment, OfAMoment

LEMMA ReputationKeeps ==
  ASSUME OracleInv, ReputationStep
  PROVE  OracleInv'
  <1>1. ASSUME NEW s \in Subjects, NEW attestor \in Attestors, NEW score \in Scores,
               HandleAttest(s, attestor, score)
        PROVE  OracleInv'
    BY <1>1, SubmitKeeps DEF HandleAttest
  <1>2. ASSUME NEW s \in Subjects, HandleTrustDetail(s) PROVE OracleInv'
    <2>1. aggregates' = [t \in Subjects |-> aggregates'[t]]
      BY <1>2 DEF HandleTrustDetail, GetAggregate, OracleInv, OracleShape
    <2>2. \A t \in Subjects : \/ aggregates'[t] = aggregates[t]
                              \/ aggregates'[t] = Aggregate(Valid(t))
      BY <1>2 DEF HandleTrustDetail, GetAggregate, OracleInv, OracleShape
    <2>3. QED
      BY <2>1, <2>2, <1>2, AskingKeeps DEF HandleTrustDetail, GetAggregate
  <1>3. CASE HandleTrustDashboard
    <2>1. aggregates' = [t \in Subjects |-> aggregates'[t]]
      BY <1>3 DEF HandleTrustDashboard
    <2>2. \A t \in Subjects : \/ aggregates'[t] = aggregates[t]
                              \/ aggregates'[t] = Aggregate(Valid(t))
      BY <1>3 DEF HandleTrustDashboard
    <2>3. QED
      BY <2>1, <2>2, <1>3, AskingKeeps DEF HandleTrustDashboard
  <1>4. CASE OracleMaintenance
    BY <1>4, PruneKeeps, ExpireKeeps DEF OracleMaintenance
  <1>5. QED
    BY <1>1, <1>2, <1>3, <1>4 DEF ReputationStep

-----------------------------------------------------------------------------
(* Billing.                                                                *)

\* The shapes of the records and of the sequences that hold them.
IsInvoice(r) ==
  r = [publisher |-> r.publisher, consumer |-> r.consumer, total |-> r.total,
       status |-> r.status, issuedAt |-> r.issuedAt, paidAt |-> r.paidAt]

IsPayout(r) ==
  r = [publisher |-> r.publisher, amount |-> r.amount, period |-> r.period,
       count |-> r.count, status |-> r.status]

IsCall(r) ==
  r = [kind |-> r.kind, id |-> r.id, amount |-> r.amount, outcome |-> r.outcome, resumed |-> r.resumed]

IsList(s) == s \in Seq({s[i] : i \in DOMAIN s})

BillingShape ==
  /\ now \in Nat \ {0}
  /\ IsList(invoices) /\ \A i \in DOMAIN invoices : IsInvoice(invoices[i])
  /\ IsList(payouts)  /\ \A p \in DOMAIN payouts : IsPayout(payouts[p])
  /\ IsList(calls)    /\ \A n \in DOMAIN calls : IsCall(calls[n])

\* A call is for a record that exists, of the amount of that record.
CallsMatch ==
  \A n \in DOMAIN calls :
    /\ \/ /\ calls[n].kind = "invoice" /\ calls[n].id \in DOMAIN invoices
          /\ calls[n].amount = invoices[calls[n].id].total
       \/ /\ calls[n].kind = "payout" /\ calls[n].id \in DOMAIN payouts
          /\ calls[n].amount = payouts[calls[n].id].amount
    /\ calls[n].resumed => calls[n].outcome # Unset

BillingInv == BillingShape /\ CallsMatch /\ PaidIsCharged

\* Appending to a list.
LEMMA AppendToList ==
  ASSUME NEW s, IsList(s), NEW e
  PROVE  /\ IsList(Append(s, e))
         /\ DOMAIN Append(s, e) = DOMAIN s \cup {Len(s) + 1}
         /\ Len(s) + 1 \notin DOMAIN s
         /\ \A i \in DOMAIN s : Append(s, e)[i] = s[i]
         /\ Append(s, e)[Len(s) + 1] = e
  <1> DEFINE S == {s[i] : i \in DOMAIN s} \cup {e}
  <1>1. s \in Seq(S) /\ e \in S
    BY DEF IsList
  <1>2. /\ DOMAIN Append(s, e) = DOMAIN s \cup {Len(s) + 1}
        /\ Len(s) + 1 \notin DOMAIN s
        /\ \A i \in DOMAIN s : Append(s, e)[i] = s[i]
        /\ Append(s, e)[Len(s) + 1] = e
    BY <1>1
  <1>3. {Append(s, e)[i] : i \in DOMAIN Append(s, e)} = S
    BY <1>2
  <1>4. Append(s, e) \in Seq(S)
    BY <1>1
  <1>5. QED
    BY <1>2, <1>3, <1>4 DEF IsList

\* Replacing elements of a list.
LEMMA SameLengthIsList ==
  ASSUME NEW s, IsList(s), NEW t, t = [i \in DOMAIN s |-> t[i]]
  PROVE  IsList(t) /\ DOMAIN t = DOMAIN s
  <1> DEFINE T == {t[i] : i \in DOMAIN t}
  <1>1. Len(s) \in Nat /\ DOMAIN s = 1..Len(s)
    BY DEF IsList
  <1>2. DOMAIN t = 1..Len(s) /\ \A i \in 1..Len(s) : t[i] \in T
    BY <1>1
  <1>3. t \in [1..Len(s) -> T]
    BY <1>2
  <1>4. t \in Seq(T)
    BY <1>1, <1>3
  <1>5. QED
    BY <1>2, <1>4, <1>1 DEF IsList

\* Steps that touch neither records nor calls.
LEMMA RecordsUntouched ==
  ASSUME BillingInv, UNCHANGED <<invoices, payouts, calls>>, now' \in Nat \ {0}
  PROVE  BillingInv'
  BY DEF BillingInv, BillingShape, IsList, IsInvoice, IsPayout, IsCall, CallsMatch, PaidIsCharged, Charged

\* A new invoice has no call, as every call is for an invoice that was there.
LEMMA NewInvoice ==
  ASSUME BillingInv, NEW r, IsInvoice(r), r.status = "draft", r.paidAt = 0,
         invoices' = Append(invoices, r), UNCHANGED <<now, payouts, calls>>
  PROVE  BillingInv'
  <1> DEFINE new == Len(invoices) + 1
  <1>1. /\ IsList(invoices')
        /\ DOMAIN invoices' = DOMAIN invoices \cup {new} /\ new \notin DOMAIN invoices
        /\ \A i \in DOMAIN invoices : invoices'[i] = invoices[i]
        /\ invoices'[new] = r
    BY AppendToList DEF BillingInv, BillingShape
  <1> HIDE DEF new
  <1>2. BillingShape'
    BY <1>1 DEF BillingInv, BillingShape, IsList, IsInvoice, IsPayout, IsCall
  <1>3. CallsMatch'
    BY <1>1 DEF BillingInv, CallsMatch
  <1>4. PaidIsCharged'
    <2>1. \A k, i, m : Charged(k, i, m)' <=> Charged(k, i, m)
      BY DEF Charged
    <2>2. ~Charged("invoice", new, r.total)
      BY <1>1 DEF BillingInv, CallsMatch, Charged
    <2>3. QED
      BY <1>1, <2>1, <2>2 DEF BillingInv, PaidIsCharged
  <1>5. QED
    BY <1>2, <1>3, <1>4 DEF BillingInv

\* Invoices whose status alone changes, and not to "paid".
LEMMA InvoiceStatus ==
  ASSUME BillingInv, UNCHANGED <<now, payouts, calls>>,
         invoices' = [i \in DOMAIN invoices |-> invoices'[i]],
         \A i \in DOMAIN invoices :
           /\ IsInvoice(invoices'[i])
           /\ invoices'[i].total = invoices[i].total
           /\ invoices'[i].paidAt = invoices[i].paidAt
           /\ invoices'[i].status = "paid" => invoices[i].status = "paid"
  PROVE  BillingInv'
  <1>1. IsList(invoices') /\ DOMAIN invoices' = DOMAIN invoices
    BY SameLengthIsList DEF BillingInv, BillingShape
  <1>2. BillingShape'
    BY <1>1 DEF BillingInv, BillingShape, IsList, IsInvoice, IsPayout, IsCall
  <1>3. CallsMatch'
    BY <1>1 DEF BillingInv, CallsMatch
  <1>4. PaidIsCharged'
    BY <1>1 DEF BillingInv, PaidIsCharged, Charged
  <1>5. QED
    BY <1>2, <1>3, <1>4 DEF BillingInv

LEMMA NewPayout ==
  ASSUME BillingInv, NEW r, IsPayout(r), r.status = "pending",
         payouts' = Append(payouts, r), UNCHANGED <<now, invoices, calls>>
  PROVE  BillingInv'
  <1> DEFINE new == Len(payouts) + 1
  <1>1. /\ IsList(payouts')
        /\ DOMAIN payouts' = DOMAIN payouts \cup {new} /\ new \notin DOMAIN payouts
        /\ \A i \in DOMAIN payouts : payouts'[i] = payouts[i]
        /\ payouts'[new] = r
    BY AppendToList DEF BillingInv, BillingShape
  <1> HIDE DEF new
  <1>2. BillingShape'
    BY <1>1 DEF BillingInv, BillingShape, IsList, IsInvoice, IsPayout, IsCall
  <1>3. CallsMatch'
    BY <1>1 DEF BillingInv, CallsMatch
  <1>4. PaidIsCharged'
    BY <1>1 DEF BillingInv, PaidIsCharged, Charged
  <1>5. QED
    BY <1>2, <1>3, <1>4 DEF BillingInv

\* Payouts whose status alone changes, to "paid" only if their amount is charged.
LEMMA PayoutStatus ==
  ASSUME BillingInv, UNCHANGED <<now, invoices>>, UNCHANGED calls,
         payouts' = [p \in DOMAIN payouts |-> payouts'[p]],
         \A p \in DOMAIN payouts :
           /\ IsPayout(payouts'[p])
           /\ payouts'[p].amount = payouts[p].amount
           /\ payouts'[p].status = "paid" => payouts[p].status = "paid"
  PROVE  BillingInv'
  <1>1. IsList(payouts') /\ DOMAIN payouts' = DOMAIN payouts
    BY SameLengthIsList DEF BillingInv, BillingShape
  <1>2. BillingShape'
    BY <1>1 DEF BillingInv, BillingShape, IsList, IsInvoice, IsPayout, IsCall
  <1>3. CallsMatch'
    BY <1>1 DEF BillingInv, CallsMatch
  <1>4. PaidIsCharged'
    BY <1>1 DEF BillingInv, PaidIsCharged, Charged
  <1>5. QED
    BY <1>2, <1>3, <1>4 DEF BillingInv

\* A call that is made has no outcome yet.
LEMMA NewCall ==
  ASSUME BillingInv, NEW kind, NEW id, NEW amount, Call(kind, id, amount),
         UNCHANGED <<now, invoices, payouts>>,
         \/ kind = "invoice" /\ id \in DOMAIN invoices /\ amount = invoices[id].total
         \/ kind = "payout" /\ id \in DOMAIN payouts /\ amount = payouts[id].amount
  PROVE  BillingInv'
  <1> DEFINE new == Len(calls) + 1
             r   == [kind |-> kind, id |-> id, amount |-> amount, outcome |-> Unset, resumed |-> FALSE]
  <1>1. /\ IsList(calls')
        /\ DOMAIN calls' = DOMAIN calls \cup {new} /\ new \notin DOMAIN calls
        /\ \A n \in DOMAIN calls : calls'[n] = calls[n]
        /\ calls'[new] = r
    BY AppendToList DEF BillingInv, BillingShape, Call
  <1> HIDE DEF new
  <1>2. BillingShape'
    BY <1>1 DEF BillingInv, BillingShape, IsList, IsInvoice, IsPayout, IsCall
  <1>3. CallsMatch'
    BY <1>1 DEF BillingInv, CallsMatch
  <1>4. \A k, i, m : Charged(k, i, m)' <=> Charged(k, i, m)
    BY <1>1 DEF Charged
  <1>5. PaidIsCharged'
    BY <1>4 DEF BillingInv, PaidIsCharged
  <1>6. QED
    BY <1>2, <1>3, <1>5 DEF BillingInv

\* The shape is kept if that of what changes is.
LEMMA ShapeOfCalls ==
  ASSUME BillingInv, UNCHANGED <<now, invoices, payouts>>,
         IsList(calls'), \A m \in DOMAIN calls' : IsCall(calls'[m])
  PROVE  BillingShape'
  BY DEF BillingInv, BillingShape, IsList, IsInvoice, IsPayout, IsCall

LEMMA ShapeOfInvoices ==
  ASSUME BillingInv, UNCHANGED <<now, payouts>>,
         IsList(invoices'), \A i \in DOMAIN invoices' : IsInvoice(invoices'[i]),
         IsList(calls'), \A m \in DOMAIN calls' : IsCall(calls'[m])
  PROVE  BillingShape'
  BY DEF BillingInv, BillingShape, IsList, IsInvoice, IsPayout, IsCall

LEMMA ShapeOfPayouts ==
  ASSUME BillingInv, UNCHANGED <<now, invoices>>,
         IsList(payouts'), \A p \in DOMAIN payouts' : IsPayout(payouts'[p]),
         IsList(calls'), \A m \in DOMAIN calls' : IsCall(calls'[m])
  PROVE  BillingShape'
  BY DEF BillingInv, BillingShape, IsList, IsInvoice, IsPayout, IsCall

\* Only a call without an outcome gets one, and that one is not charged before.
LEMMA SettlingKeeps ==
  ASSUME BillingInv, NEW n, ProviderSettles(n)
  PROVE  BillingInv'
  <1>1. PICK outcome \in {"success", "declined"} : calls' = [calls EXCEPT ![n].outcome = outcome]
    BY DEF ProviderSettles
  <1>2. n \in DOMAIN calls /\ calls[n].outcome = Unset /\ IsCall(calls[n])
        /\ UNCHANGED <<now, invoices, payouts>>
    BY DEF ProviderSettles, BillingInv, BillingShape
  <1>3. calls' = [m \in DOMAIN calls |-> calls'[m]]
    BY <1>1
  <1>4. IsList(calls') /\ DOMAIN calls' = DOMAIN calls
    BY <1>3, SameLengthIsList DEF BillingInv, BillingShape
  <1>5. /\ \A m \in DOMAIN calls : m # n => calls'[m] = calls[m]
        /\ calls'[n] = [calls[n] EXCEPT !.outcome = outcome]
    BY <1>1, <1>2
  <1>6. /\ IsCall(calls'[n]) /\ calls'[n].kind = calls[n].kind /\ calls'[n].id = calls[n].id
        /\ calls'[n].amount = calls[n].amount /\ calls'[n].outcome = outcome
        /\ calls'[n].resumed = calls[n].resumed
    BY <1>2, <1>5 DEF IsCall
  <1>7. ~calls[n].resumed
    BY <1>2 DEF BillingInv, CallsMatch
  <1>8. BillingShape'
    <2>1. \A m \in DOMAIN calls' : IsCall(calls'[m])
      BY <1>4, <1>5, <1>6 DEF BillingInv, BillingShape
    <2>2. QED
      BY <1>2, <1>4, <2>1, ShapeOfCalls
  <1>9. CallsMatch'
    <2>1. ASSUME NEW m \in DOMAIN calls, m # n
          PROVE  calls'[m] = calls[m]
      BY <2>1, <1>5
    <2>2. QED
      BY <1>2, <1>4, <1>6, <1>7, <2>1 DEF BillingInv, CallsMatch
  <1>10. \A k, i, m : Charged(k, i, m)' <=> Charged(k, i, m)
    BY <1>2, <1>4, <1>5, <1>6, <1>7 DEF Charged
  <1>11. PaidIsCharged'
    BY <1>2, <1>10 DEF BillingInv, PaidIsCharged
  <1>12. QED
    BY <1>8, <1>9, <1>11 DEF BillingInv

\* The code behind the await: what was charged becomes known, and the record of a
\* call that was charged is marked.
LEMMA ResumingKeeps ==
  ASSUME BillingInv, NEW n, Resume(n)
  PROVE  BillingInv'
  <1> DEFINE call == calls[n]
  <1>1. /\ n \in DOMAIN calls /\ call.outcome # Unset /\ ~call.resumed /\ IsCall(call)
        /\ calls' = [calls EXCEPT ![n].resumed = TRUE] /\ now' = now
    BY DEF Resume, BillingInv, BillingShape
  <1>2. calls' = [m \in DOMAIN calls |-> calls'[m]]
    BY <1>1
  <1>3. IsList(calls') /\ DOMAIN calls' = DOMAIN calls
    BY <1>2, SameLengthIsList DEF BillingInv, BillingShape
  <1>4. /\ \A m \in DOMAIN calls : m # n => calls'[m] = calls[m]
        /\ IsCall(calls'[n]) /\ calls'[n].kind = call.kind /\ calls'[n].id = call.id
        /\ calls'[n].amount = call.amount /\ calls'[n].outcome = call.outcome
        /\ calls'[n].resumed = TRUE
    BY <1>1 DEF IsCall
  <1>5. \A k, i, m : Charged(k, i, m)' <=>
          \/ Charged(k, i, m)
          \/ call.kind = k /\ call.id = i /\ call.amount = m /\ call.outcome = "success"
    BY <1>1, <1>3, <1>4 DEF Charged
  <1>6. now # 0 /\ now' = now /\ \A m \in DOMAIN calls' : IsCall(calls'[m])
    BY <1>1, <1>3, <1>4 DEF BillingInv, BillingShape
  <1>7. CASE call.kind = "invoice"
    <2>1. /\ call.id \in DOMAIN invoices /\ call.amount = invoices[call.id].total
          /\ IsInvoice(invoices[call.id]) /\ UNCHANGED payouts
          /\ MarkPaid(call)
      BY <1>7, <1>1 DEF BillingInv, BillingShape, CallsMatch, Resume, MarkPaid
    <2>2. CASE call.outcome = "success"
      <3>1. invoices' = [invoices EXCEPT ![call.id].status = "paid", ![call.id].paidAt = now]
        BY <2>1, <2>2 DEF MarkPaid
      <3>2. invoices' = [i \in DOMAIN invoices |-> invoices'[i]]
        BY <3>1
      <3>3. IsList(invoices') /\ DOMAIN invoices' = DOMAIN invoices
        BY <3>2, SameLengthIsList DEF BillingInv, BillingShape
      <3>4. /\ \A i \in DOMAIN invoices : i # call.id => invoices'[i] = invoices[i]
            /\ IsInvoice(invoices'[call.id])
            /\ invoices'[call.id].total = invoices[call.id].total
            /\ invoices'[call.id].paidAt = now
        BY <2>1, <3>1 DEF IsInvoice
      <3>5. BillingShape'
        <4>1. \A i \in DOMAIN invoices' : IsInvoice(invoices'[i])
          BY <3>3, <3>4 DEF BillingInv, BillingShape
        <4>2. QED
          BY <1>3, <1>6, <2>1, <3>3, <4>1, ShapeOfInvoices
      <3>6. CallsMatch'
        BY <1>1, <1>3, <1>4, <2>1, <3>3, <3>4 DEF BillingInv, CallsMatch
      <3>7. PaidIsCharged'
        BY <1>5, <1>6, <1>7, <2>1, <2>2, <3>3, <3>4 DEF BillingInv, PaidIsCharged
      <3>8. QED
        BY <3>5, <3>6, <3>7 DEF BillingInv
    <2>3. CASE call.outcome # "success"
      <3>1. UNCHANGED invoices
        BY <2>1, <2>3 DEF MarkPaid
      <3>2. BillingShape'
        BY <1>3, <1>6, <2>1, <3>1, ShapeOfCalls
      <3>3. CallsMatch'
        BY <1>1, <1>3, <1>4, <2>1, <3>1 DEF BillingInv, CallsMatch
      <3>4. PaidIsCharged'
        BY <1>5, <2>1, <2>3, <3>1 DEF BillingInv, PaidIsCharged
      <3>5. QED
        BY <3>2, <3>3, <3>4 DEF BillingInv
    <2>4. QED
      BY <2>2, <2>3
  <1>8. CASE call.kind # "invoice"
    <2>1. /\ call.kind = "payout" /\ call.id \in DOMAIN payouts
          /\ call.amount = payouts[call.id].amount
          /\ IsPayout(payouts[call.id]) /\ UNCHANGED invoices
          /\ payouts' = [payouts EXCEPT ![call.id].status =
                           IF call.outcome = "success" THEN "paid" ELSE "failed"]
      BY <1>8, <1>1 DEF BillingInv, BillingShape, CallsMatch, Resume, MarkPayout
    <2>2. payouts' = [p \in DOMAIN payouts |-> payouts'[p]]
      BY <2>1
    <2>3. IsList(payouts') /\ DOMAIN payouts' = DOMAIN payouts
      BY <2>2, SameLengthIsList DEF BillingInv, BillingShape
    <2>4. /\ \A p \in DOMAIN payouts : p # call.id => payouts'[p] = payouts[p]
          /\ IsPayout(payouts'[call.id])
          /\ payouts'[call.id].amount = payouts[call.id].amount
          /\ payouts'[call.id].status = "paid" => call.outcome = "success"
      BY <2>1 DEF IsPayout
    <2>5. BillingShape'
      <3>1. \A p \in DOMAIN payouts' : IsPayout(payouts'[p])
        BY <2>3, <2>4 DEF BillingInv, BillingShape
      <3>2. QED
        BY <1>3, <1>6, <2>1, <2>3, <3>1, ShapeOfPayouts
    <2>6. CallsMatch'
      BY <1>1, <1>3, <1>4, <2>1, <2>3, <2>4 DEF BillingInv, CallsMatch
    <2>7. PaidIsCharged'
      BY <1>5, <2>1, <2>3, <2>4 DEF BillingInv, PaidIsCharged
    <2>8. QED
      BY <2>5, <2>6, <2>7 DEF BillingInv
  <1>9. QED
    BY <1>7, <1>8

LEMMA BillingKeeps ==
  ASSUME BillingInv, BillingStep
  PROVE  BillingInv'
  <1>1. now \in Nat \ {0} /\ now + 1 \in Nat \ {0}
    BY DEF BillingInv, BillingShape
  <1>2. CASE HandleRecordUsage
    BY <1>1, <1>2, RecordsUntouched DEF HandleRecordUsage, Route, RecordUsage
  <1>3. CASE HandleSetRateCard
    BY <1>1, <1>3, RecordsUntouched DEF HandleSetRateCard, Route, SetRateCard
  <1>4. CASE HandleGenerateInvoice
    <2>1. PICK c \in Capability, consumer \in Consumer, period \in Periods :
            GenerateInvoice(c, consumer, period)
      BY <1>4 DEF HandleGenerateInvoice, Route
    <2> DEFINE subtotal == LinesTotal(CardOf(c), GetUsage(c, period))
               r == [publisher |-> ProviderOf[c], consumer |-> consumer, total |-> subtotal + Tax(subtotal),
                     status |-> "draft", issuedAt |-> now, paidAt |-> 0]
    <2>2. invoices' = Append(invoices, r) /\ UNCHANGED <<now, payouts, calls>>
      BY <2>1 DEF GenerateInvoice
    <2> HIDE DEF subtotal
    <2>3. IsInvoice(r) /\ r.status = "draft" /\ r.paidAt = 0
      BY DEF IsInvoice
    <2> HIDE DEF r
    <2>4. QED
      BY <2>2, <2>3, NewInvoice
  <1>5. CASE HandlePayInvoice
    <2>1. PICK i \in DOMAIN invoices :
            Call("invoice", i, invoices[i].total) /\ UNCHANGED <<now, invoices, payouts>>
      BY <1>5 DEF HandlePayInvoice, Route, StartPayment
    <2>2. QED
      BY <2>1, NewCall
  <1>6. CASE HandleCreateCheckout
    BY <1>1, <1>6, RecordsUntouched DEF HandleCreateCheckout, Route, CreateCheckout
  <1>7. CASE HandleComputePayout
    <2>1. PICK p \in {ProviderOf[c] : c \in Capability}, period \in Periods : ComputePayout(p, period)
      BY <1>7 DEF HandleComputePayout, Route
    <2> DEFINE counted  == {i \in DOMAIN invoices : Earned(i, p, period)}
               earnings == SumOver([i \in DOMAIN invoices |-> invoices[i].total], counted)
               r == [publisher |-> p, amount |-> earnings - Fee(earnings), period |-> period,
                     count |-> Cardinality(counted), status |-> "pending"]
    <2>2. payouts' = Append(payouts, r) /\ UNCHANGED <<now, invoices, calls>>
      BY <2>1 DEF ComputePayout
    <2> HIDE DEF counted, earnings
    <2>3. IsPayout(r) /\ r.status = "pending"
      BY DEF IsPayout
    <2> HIDE DEF r
    <2>4. QED
      BY <2>2, <2>3, NewPayout
  <1>8. CASE HandleSchedulePayout
    <2>1. PICK p \in DOMAIN payouts :
            /\ payouts' = [payouts EXCEPT ![p].status = "scheduled"]
            /\ UNCHANGED <<now, invoices>> /\ UNCHANGED calls
      BY <1>8 DEF HandleSchedulePayout, Route, SchedulePayout
    <2>2. payouts' = [q \in DOMAIN payouts |-> payouts'[q]]
      BY <2>1
    <2>3. ASSUME NEW q \in DOMAIN payouts
          PROVE  /\ IsPayout(payouts'[q]) /\ payouts'[q].amount = payouts[q].amount
                 /\ payouts'[q].status = "paid" => payouts[q].status = "paid"
      <3>1. IsPayout(payouts[q])
        BY DEF BillingInv, BillingShape
      <3>2. QED
        BY <2>1, <3>1 DEF IsPayout
    <2>4. QED
      BY <2>1, <2>2, <2>3, PayoutStatus
  <1>9. CASE HandleProcessPayout
    <2>1. PICK p \in DOMAIN payouts :
            Call("payout", p, payouts[p].amount) /\ UNCHANGED <<now, invoices, payouts>>
      BY <1>9 DEF HandleProcessPayout, Route, StartPayout
    <2>2. QED
      BY <2>1, NewCall
  <1>10. CASE ProviderStep
    BY <1>10, SettlingKeeps, ResumingKeeps DEF ProviderStep
  <1>11. CASE SendAnInvoice
    <2>1. PICK i \in DOMAIN invoices :
            invoices' = [invoices EXCEPT ![i].status = "sent"] /\ UNCHANGED <<now, payouts, calls>>
      BY <1>11 DEF SendAnInvoice, SendInvoice
    <2>2. invoices' = [j \in DOMAIN invoices |-> invoices'[j]]
      BY <2>1
    <2>3. ASSUME NEW j \in DOMAIN invoices
          PROVE  /\ IsInvoice(invoices'[j]) /\ invoices'[j].total = invoices[j].total
                 /\ invoices'[j].paidAt = invoices[j].paidAt
                 /\ invoices'[j].status = "paid" => invoices[j].status = "paid"
      <3>1. IsInvoice(invoices[j])
        BY DEF BillingInv, BillingShape
      <3>2. QED
        BY <2>1, <3>1 DEF IsInvoice
    <2>4. QED
      BY <2>1, <2>2, <2>3, InvoiceStatus
  <1>12. CASE SweepOverdue
    <2>1. /\ invoices' = [j \in DOMAIN invoices |-> invoices'[j]]
          /\ UNCHANGED <<now, payouts, calls>>
          /\ \A j \in DOMAIN invoices :
               invoices'[j] \in {invoices[j], [invoices[j] EXCEPT !.status = "overdue"]}
      BY <1>12 DEF SweepOverdue, MarkOverdue
    <2>2. ASSUME NEW j \in DOMAIN invoices
          PROVE  /\ IsInvoice(invoices'[j]) /\ invoices'[j].total = invoices[j].total
                 /\ invoices'[j].paidAt = invoices[j].paidAt
                 /\ invoices'[j].status = "paid" => invoices[j].status = "paid"
      <3>1. IsInvoice(invoices[j])
        BY DEF BillingInv, BillingShape
      <3>2. CASE invoices'[j] = invoices[j]
        BY <3>1, <3>2
      <3>3. CASE invoices'[j] = [invoices[j] EXCEPT !.status = "overdue"]
        BY <3>1, <3>3 DEF IsInvoice
      <3>4. QED
        BY <2>1, <3>2, <3>3
    <2>3. QED
      BY <2>1, <2>2, InvoiceStatus
  <1>13. CASE ClockTick
    BY <1>1, <1>13, RecordsUntouched DEF ClockTick, Tick
  <1>14. QED
    BY <1>2, <1>3, <1>4, <1>5, <1>6, <1>7, <1>8, <1>9, <1>10, <1>11, <1>12, <1>13 DEF BillingStep

-----------------------------------------------------------------------------
(* The store.                                                              *)

IsListing(l) ==
  /\ l = [capability |-> l.capability, category |-> l.category, publisher |-> l.publisher,
          status |-> l.status, tags |-> l.tags]
  /\ l.capability \in Capabilities /\ l.category \in Categories /\ l.tags \subseteq Tags

StoreShape ==
  /\ IsList(listings) /\ \A n \in DOMAIN listings : IsListing(listings[n])
  /\ index \in [IndexKeys \X Ids -> Nat]

UniqueIds ==
  \A m, n \in DOMAIN listings : listings[m].capability.id = listings[n].capability.id => m = n

StoreInv == StoreShape /\ UniqueIds /\ IndexesCover

\* Every list of a listing is an index list.
LEMMA KeysType ==
  ASSUME NEW l, IsListing(l)
  PROVE  Keys(l) \subseteq IndexKeys /\ l.capability.id \in Ids
  BY DEF IsListing, Keys, IndexKeys, Intents, Ids

LEMMA PlaceOfListed ==
  ASSUME NEW id, Listed(id)
  PROVE  Place(id) \in DOMAIN listings /\ listings[Place(id)].capability.id = id
  BY DEF Listed, Place, Places

\* What is left after one element is taken out.
LEMMA RemoveFromList ==
  ASSUME NEW s, IsList(s), NEW i \in DOMAIN s
  PROVE  /\ IsList(RemoveAt(s, i))
         /\ \A m \in DOMAIN RemoveAt(s, i) :
              IF m < i THEN m \in DOMAIN s /\ RemoveAt(s, i)[m] = s[m]
                       ELSE m + 1 \in DOMAIN s /\ RemoveAt(s, i)[m] = s[m + 1]
         /\ DOMAIN RemoveAt(s, i) \subseteq Nat
  <1> DEFINE S == {s[j] : j \in DOMAIN s}
             front == SubSeq(s, 1, i - 1)
             back == SubSeq(s, i + 1, Len(s))
  <1>1. s \in Seq(S) /\ Len(s) \in Nat /\ i \in 1..Len(s)
    BY DEF IsList
  <1> HIDE DEF S
  <1>2. front \in Seq(S) /\ Len(front) = i - 1 /\ \A m \in 1..(i - 1) : front[m] = s[m]
    BY <1>1
  <1>3. /\ back \in Seq(S) /\ Len(back) = Len(s) - i
        /\ \A m \in 1..(Len(s) - i) : back[m] = s[i + m]
    BY <1>1
  <1> HIDE DEF front, back
  <1>4. /\ front \o back \in Seq(S) /\ DOMAIN (front \o back) = 1..(Len(s) - 1)
        /\ \A m \in 1..(Len(s) - 1) :
             (front \o back)[m] = IF m <= i - 1 THEN front[m] ELSE back[m - (i - 1)]
    BY <1>1, <1>2, <1>3
  <1>5. RemoveAt(s, i) = front \o back
    BY DEF RemoveAt, front, back
  <1>6. ASSUME NEW m \in 1..(Len(s) - 1)
        PROVE  IF m < i THEN m \in DOMAIN s /\ RemoveAt(s, i)[m] = s[m]
                        ELSE m + 1 \in DOMAIN s /\ RemoveAt(s, i)[m] = s[m + 1]
    <2>1. DOMAIN s = 1..Len(s)
      BY <1>1
    <2>2. CASE m < i
      <3>1. m <= i - 1 /\ m \in 1..(i - 1) /\ m \in DOMAIN s
        BY <1>1, <2>1, <2>2
      <3>2. QED
        BY <1>2, <1>4, <1>5, <2>2, <3>1
    <2>3. CASE ~(m < i)
      <3>1. /\ ~(m <= i - 1) /\ m - (i - 1) \in 1..(Len(s) - i) /\ i + (m - (i - 1)) = m + 1
            /\ m + 1 \in DOMAIN s
        BY <1>1, <2>1, <2>3
      <3>2. back[m - (i - 1)] = s[m + 1]
        BY <1>3, <3>1
      <3>3. (front \o back)[m] = back[m - (i - 1)]
        BY <1>4, <3>1
      <3>4. QED
        BY <1>5, <2>3, <3>1, <3>2, <3>3
    <2>4. QED
      BY <2>2, <2>3
  <1>7. RemoveAt(s, i) \in Seq(S) /\ DOMAIN RemoveAt(s, i) = 1..(Len(s) - 1)
    BY <1>4, <1>5
  <1> DEFINE t == RemoveAt(s, i)
  <1>8. t \in Seq({t[j] : j \in DOMAIN t})
    <2> HIDE DEF t
    <2>1. t \in Seq(S)
      BY <1>7 DEF t
    <2>2. Len(t) \in Nat /\ DOMAIN t = 1..Len(t) /\ t = [j \in 1..Len(t) |-> t[j]]
      BY <2>1
    <2>3. QED
      BY <2>2
  <1>9. IsList(RemoveAt(s, i))
    BY <1>8 DEF IsList
  <1>10. DOMAIN RemoveAt(s, i) \subseteq Nat
    BY <1>1, <1>7
  <1>11. \A m \in DOMAIN RemoveAt(s, i) :
              IF m < i THEN m \in DOMAIN s /\ RemoveAt(s, i)[m] = s[m]
                       ELSE m + 1 \in DOMAIN s /\ RemoveAt(s, i)[m] = s[m + 1]
    BY <1>6, <1>7
  <1>12. QED
    BY <1>9, <1>10, <1>11

LEMMA PublishKeeps ==
  ASSUME StoreInv, NEW c \in Capabilities, NEW category \in Categories, NEW p,
         NEW tags \in (SUBSET Tags) \cup {None}, StorePublish(c, category, p, tags)
  PROVE  StoreInv'
  <1> DEFINE l == NewListing(c, category, p, tags)
  <1>1. IsListing(l) /\ l.capability.id = c.id
    <2>1. l.capability = c /\ l.category = category /\ l.status = "active" /\ l.publisher = p
      BY DEF NewListing
    <2>2. l = [capability |-> l.capability, category |-> l.category, publisher |-> l.publisher,
               status |-> l.status, tags |-> l.tags]
      BY DEF NewListing
    <2>3. l.tags = IF tags # None THEN tags
                   ELSE IF Listed(c.id) THEN listings[Place(c.id)].tags ELSE {}
      BY DEF NewListing
    <2>4. l.tags \subseteq Tags
      BY <2>3, PlaceOfListed DEF StoreInv, StoreShape, IsListing
    <2>5. QED
      BY <2>1, <2>2, <2>4 DEF IsListing
  <1>2. /\ index' = [e \in DOMAIN index |->
                      IF e[2] = c.id /\ e[1] \in Keys(l) THEN index[e] + 1 ELSE index[e]]
        /\ listings' = WithListing(l)
    BY DEF StorePublish
  <1> HIDE DEF l
  <1>3. index' \in [IndexKeys \X Ids -> Nat]
    BY <1>2 DEF StoreInv, StoreShape
  <1>4. ASSUME NEW e \in IndexKeys \X Ids
        PROVE  /\ index[e] \in Nat /\ index'[e] \in Nat /\ index'[e] >= index[e]
               /\ e[2] = c.id /\ e[1] \in Keys(l) => index'[e] > 0
    BY <1>2 DEF StoreInv, StoreShape
  <1>5. \A k \in Keys(l) : index'[<<k, c.id>>] > 0
    <2>1. ASSUME NEW k \in Keys(l) PROVE <<k, c.id>> \in IndexKeys \X Ids
      BY <1>1, <2>1, KeysType
    <2>2. QED
      BY <1>4, <2>1
  <1>6. ASSUME NEW n \in DOMAIN listings, NEW k \in Keys(listings[n])
        PROVE  index'[<<k, listings[n].capability.id>>] > 0
    <2>1. <<k, listings[n].capability.id>> \in IndexKeys \X Ids
      BY KeysType DEF StoreInv, StoreShape
    <2>2. index[<<k, listings[n].capability.id>>] > 0
      BY DEF StoreInv, IndexesCover
    <2>3. QED
      BY <1>4, <2>1, <2>2
  <1>7. CASE Listed(c.id)
    <2> DEFINE at == Place(c.id)
    <2>1. at \in DOMAIN listings /\ listings[at].capability.id = c.id
      BY <1>7, PlaceOfListed
    <2> HIDE DEF at
    <2>2. listings' = [listings EXCEPT ![at] = l]
      BY <1>1, <1>2, <1>7 DEF WithListing, at
    <2>3. listings' = [n \in DOMAIN listings |-> listings'[n]]
      BY <2>2
    <2>4. IsList(listings') /\ DOMAIN listings' = DOMAIN listings
      BY <2>3, SameLengthIsList DEF StoreInv, StoreShape
    <2>5. listings'[at] = l /\ \A n \in DOMAIN listings : n # at => listings'[n] = listings[n]
      BY <2>1, <2>2
    <2>6. StoreShape'
      <3>1. \A n \in DOMAIN listings' : IsListing(listings'[n])
        BY <1>1, <2>4, <2>5 DEF StoreInv, StoreShape
      <3>2. QED
        BY <1>3, <2>4, <3>1 DEF StoreShape, IsList, IsListing
    <2>7. UniqueIds'
      <3>1. \A n \in DOMAIN listings : listings'[n].capability.id = listings[n].capability.id
        BY <1>1, <2>1, <2>5
      <3>2. QED
        BY <2>4, <3>1 DEF StoreInv, UniqueIds
    <2>8. IndexesCover'
      <3>1. ASSUME NEW n \in DOMAIN listings', NEW k \in Keys(listings'[n])
            PROVE  index'[<<k, listings'[n].capability.id>>] > 0
        BY <1>1, <1>5, <1>6, <2>4, <2>5
      <3>2. QED
        BY <3>1 DEF IndexesCover, Keys
    <2>9. QED
      BY <2>6, <2>7, <2>8 DEF StoreInv
  <1>8. CASE ~Listed(c.id)
    <2> DEFINE at == Len(listings) + 1
    <2>1. listings' = Append(listings, l)
      BY <1>1, <1>2, <1>8 DEF WithListing
    <2>2. /\ IsList(listings') /\ DOMAIN listings' = DOMAIN listings \cup {at}
          /\ at \notin DOMAIN listings
          /\ listings'[at] = l /\ \A n \in DOMAIN listings : listings'[n] = listings[n]
      BY <2>1, AppendToList DEF StoreInv, StoreShape
    <2> HIDE DEF at
    <2>3. StoreShape'
      <3>1. \A n \in DOMAIN listings' : IsListing(listings'[n])
        BY <1>1, <2>2 DEF StoreInv, StoreShape
      <3>2. QED
        BY <1>3, <2>2, <3>1 DEF StoreShape, IsList, IsListing
    <2>4. UniqueIds'
      <3>1. \A n \in DOMAIN listings : listings[n].capability.id # c.id
        BY <1>8 DEF Listed, Places
      <3>2. QED
        BY <1>1, <2>2, <3>1 DEF StoreInv, UniqueIds
    <2>5. IndexesCover'
      <3>1. ASSUME NEW n \in DOMAIN listings', NEW k \in Keys(listings'[n])
            PROVE  index'[<<k, listings'[n].capability.id>>] > 0
        BY <1>1, <1>5, <1>6, <2>2
      <3>2. QED
        BY <3>1 DEF IndexesCover, Keys
    <2>6. QED
      BY <2>3, <2>4, <2>5 DEF StoreInv
  <1>9. QED
    BY <1>7, <1>8

LEMMA UnpublishKeeps ==
  ASSUME StoreInv, NEW id, StoreUnpublish(id)
  PROVE  StoreInv'
  <1> DEFINE at == Place(id)
  <1>1. at \in DOMAIN listings /\ UNCHANGED index
        /\ listings' = [listings EXCEPT ![at].status = "removed"]
    BY PlaceOfListed DEF StoreUnpublish
  <1> HIDE DEF at
  <1>2. listings' = [n \in DOMAIN listings |-> listings'[n]]
    BY <1>1
  <1>3. IsList(listings') /\ DOMAIN listings' = DOMAIN listings
    BY <1>2, SameLengthIsList DEF StoreInv, StoreShape
  <1>4. ASSUME NEW n \in DOMAIN listings
        PROVE  /\ IsListing(listings'[n])
               /\ listings'[n].capability = listings[n].capability
               /\ listings'[n].category = listings[n].category /\ listings'[n].tags = listings[n].tags
    <2>1. IsListing(listings[n])
      BY DEF StoreInv, StoreShape
    <2>2. QED
      BY <1>1, <2>1 DEF IsListing
  <1>5. StoreShape'
    BY <1>1, <1>3, <1>4 DEF StoreInv, StoreShape, IsList, IsListing
  <1>6. UniqueIds'
    BY <1>3, <1>4 DEF StoreInv, UniqueIds
  <1>7. IndexesCover'
    BY <1>1, <1>3, <1>4 DEF StoreInv, IndexesCover, Keys
  <1>8. QED
    BY <1>5, <1>6, <1>7 DEF StoreInv

\* The lists of the others lose nothing: their ids are others.
LEMMA DeleteKeeps ==
  ASSUME StoreInv, NEW id, StoreDelete(id)
  PROVE  StoreInv'
  <1> DEFINE at == Place(id)
  <1>1. /\ at \in DOMAIN listings /\ listings[at].capability.id = id
        /\ listings' = RemoveAt(listings, at)
        /\ index' = [e \in DOMAIN index |->
                       IF e[2] = id /\ e[1] \in Keys(listings[at]) /\ index[e] > 0
                         THEN index[e] - 1 ELSE index[e]]
    BY PlaceOfListed DEF StoreDelete
  <1> HIDE DEF at
  <1> DEFINE Was(m) == IF m < at THEN m ELSE m + 1
  <1>2. IsList(listings') /\ DOMAIN listings' \subseteq Nat /\ at \in Nat
        /\ \A m \in DOMAIN listings' : Was(m) \in DOMAIN listings /\ listings'[m] = listings[Was(m)]
    <2>1. IsList(listings) /\ at \in Nat
      BY <1>1 DEF StoreInv, StoreShape, IsList
    <2>2. QED
      BY <1>1, <2>1, RemoveFromList
  <1>3. \A m, n \in DOMAIN listings' : Was(m) # at /\ (Was(m) = Was(n) => m = n)
    BY <1>2
  <1> HIDE DEF Was
  <1>4. index' \in [IndexKeys \X Ids -> Nat]
    BY <1>1 DEF StoreInv, StoreShape
  <1>5. StoreShape'
    <2>1. \A n \in DOMAIN listings' : IsListing(listings'[n])
      BY <1>2 DEF StoreInv, StoreShape
    <2>2. QED
      BY <1>2, <1>4, <2>1 DEF StoreShape, IsList, IsListing
  <1>6. UniqueIds'
    <2>1. ASSUME NEW m \in DOMAIN listings', NEW n \in DOMAIN listings',
                 listings'[m].capability.id = listings'[n].capability.id
          PROVE  m = n
      <3>1. Was(m) = Was(n)
        BY <1>2, <2>1 DEF StoreInv, UniqueIds
      <3>2. QED
        BY <1>3, <3>1
    <2>2. QED
      BY <2>1 DEF UniqueIds
  <1>7. IndexesCover'
    <2>1. ASSUME NEW n \in DOMAIN listings', NEW k \in Keys(listings'[n])
          PROVE  index'[<<k, listings'[n].capability.id>>] > 0
      <3> DEFINE old == listings[Was(n)]
                 e   == <<k, old.capability.id>>
      <3>1. Was(n) \in DOMAIN listings /\ listings'[n] = old /\ k \in Keys(old)
        BY <1>2, <2>1
      <3>2. old.capability.id # id
        BY <1>1, <1>3, <3>1 DEF StoreInv, UniqueIds
      <3>3. e \in IndexKeys \X Ids /\ index[e] > 0
        BY <3>1, KeysType DEF StoreInv, StoreShape, IndexesCover
      <3>4. index'[e] = index[e]
        BY <1>1, <3>2, <3>3 DEF StoreInv, StoreShape
      <3>5. QED
        BY <3>1, <3>3, <3>4
    <2>2. QED
      BY <2>1 DEF IndexesCover, Keys
  <1>8. QED
    BY <1>5, <1>6, <1>7 DEF StoreInv

LEMMA CatalogueKeeps ==
  ASSUME StoreInv, CatalogueStep
  PROVE  StoreInv'
  <1>1. CASE UNCHANGED storeVars
    BY <1>1 DEF storeVars, StoreInv, StoreShape, UniqueIds, IndexesCover, IsList, IsListing, Keys
  <1>2. ASSUME NEW c \in Capabilities, NEW category \in Categories, NEW p \in Publishers,
               NEW tags \in (SUBSET Tags) \cup {None}, NEW signature \in Signatures,
               HandlePublish(c, category, p, tags, signature)
        PROVE  StoreInv'
    BY <1>2, PublishKeeps DEF HandlePublish
  <1>3. ASSUME NEW id \in Ids, HandleUnpublish(id) \/ DeleteListing(id) PROVE StoreInv'
    BY <1>3, UnpublishKeeps, DeleteKeeps DEF HandleUnpublish, DeleteListing
  <1>4. CASE Start \/ Stop
    BY <1>1, <1>4 DEF Start, Stop
  <1>5. QED
    BY <1>2, <1>3, <1>4 DEF CatalogueStep

-----------------------------------------------------------------------------
(* The server.  A route touches one of the three parts and leaves the      *)
(* other two alone.                                                        *)

LEMMA RoutesKeepApart ==
  ASSUME ServerNext
  PROVE  /\ CatalogueStep  \/ UNCHANGED storeVars
         /\ ReputationStep \/ UNCHANGED oracleVars
         /\ BillingStep    \/ UNCHANGED billingVars
  <1>1. CatalogueStep => UNCHANGED <<oracleVars, billingVars>>
    BY DEF CatalogueStep, HandlePublish, HandleUnpublish, DeleteListing, Start, Stop
  <1>2. ReputationStep => UNCHANGED <<storeVars, billingVars>>
    BY DEF ReputationStep, HandleAttest, HandleTrustDetail, HandleTrustDashboard, OracleMaintenance
  <1>3. BillingStep => UNCHANGED <<storeVars, oracleVars>>
    BY DEF BillingStep, HandleRecordUsage, HandleSetRateCard, HandleGenerateInvoice, HandlePayInvoice,
           HandleCreateCheckout, HandleComputePayout, HandleSchedulePayout, HandleProcessPayout, Route,
           ProviderStep, SendAnInvoice, SweepOverdue, ClockTick
  <1>4. QED
    BY <1>1, <1>2, <1>3 DEF ServerNext

\* submitAttestation, getAggregate, pruneExpired: whatever expires and whenever
\* the aggregates are asked for, an aggregate is of a set of attestations that
\* were all submitted and among which are all those that are valid now.
THEOREM AggregatesHold == ServerSpec => []AggregatesAreOfAMoment
  <1>1. ServerInit => OracleInv
    BY DEF ServerInit, OracleInit, OracleInv, OracleShape, AggregatesAreOfAMoment, Valid, Aggregate
  <1>2. OracleInv /\ [ServerNext]_serverVars => OracleInv'
    <2>1. CASE UNCHANGED oracleVars
      BY <2>1 DEF oracleVars, OracleInv, OracleShape, AggregatesAreOfAMoment, Valid
    <2>2. QED
      BY <2>1, ReputationKeeps, RoutesKeepApart DEF serverVars
  <1>3. OracleInv => AggregatesAreOfAMoment
    BY DEF OracleInv
  <1>4. QED
    BY <1>1, <1>2, <1>3, PTL DEF ServerSpec

\* processPayment, processPayout: with any number of payments that wait for the
\* provider and answers in any order, an invoice has a date of payment exactly
\* when a charge of its total succeeded, and what is marked paid was charged.
THEOREM PaidHolds == ServerSpec => []PaidIsCharged
  <1>1. ServerInit => BillingInv
    BY DEF ServerInit, BillingInit, BillingInv, BillingShape, CallsMatch, PaidIsCharged, IsList
  <1>2. BillingInv /\ [ServerNext]_serverVars => BillingInv'
    <2>1. CASE UNCHANGED billingVars
      BY <2>1 DEF billingVars, BillingInv, BillingShape, CallsMatch, PaidIsCharged, IsList,
                  IsInvoice, IsPayout, IsCall, Charged
    <2>2. QED
      BY <2>1, BillingKeeps, RoutesKeepApart DEF serverVars
  <1>3. BillingInv => PaidIsCharged
    BY DEF BillingInv
  <1>4. QED
    BY <1>1, <1>2, <1>3, PTL DEF ServerSpec

\* publish, unpublish, delete: an id is published any number of times under any
\* categories and tags, and every listing there is can be reached from the list
\* of its category, from those of its tags and from those of its intents.
THEOREM ListingsAreIndexed == ServerSpec => []IndexesCover
  <1>1. ServerInit => StoreInv
    BY DEF ServerInit, StoreInit, StoreInv, StoreShape, UniqueIds, IndexesCover, IsList
  <1>2. StoreInv /\ [ServerNext]_serverVars => StoreInv'
    <2>1. CASE UNCHANGED storeVars
      BY <2>1 DEF storeVars, StoreInv, StoreShape, UniqueIds, IndexesCover, IsList, IsListing, Keys
    <2>2. QED
      BY <2>1, CatalogueKeeps, RoutesKeepApart DEF serverVars
  <1>3. StoreInv => IndexesCover
    BY DEF StoreInv
  <1>4. QED
    BY <1>1, <1>2, <1>3, PTL DEF ServerSpec

-----------------------------------------------------------------------------
(* The search and the client's cache.                                      *)

\* Rows s[j] that come before s[i] in the order by trust, and s[i] itself.
Above(s, i) ==
  {j \in DOMAIN s : \/ s[j].capability.trust > s[i].capability.trust
                    \/ s[j].capability.trust = s[i].capability.trust /\ j <= i}

\* Every place of the sorted list is that of some row: ranks are distinct, and
\* there are as many as rows.
LEMMA EveryRankIsTaken ==
  ASSUME NEW S, NEW s \in Seq(S), \A i \in DOMAIN s : s[i].capability.trust \in Nat,
         NEW k \in DOMAIN s
  PROVE  \E i \in DOMAIN s : Rank(s, i) = k
<1> DEFINE n == Len(s)
           trust(i) == s[i].capability.trust
           f == [i \in 1..n |-> Rank(s, i)]
<1>1. n \in Nat /\ DOMAIN s = 1..n /\ \A i \in 1..n : trust(i) \in Nat OBVIOUS
<1>2. \A i, j : j \in Above(s, i) <=> j \in 1..n /\ (trust(j) > trust(i) \/ (trust(j) = trust(i) /\ j <= i))
  <2> SUFFICES ASSUME NEW i, NEW j
               PROVE  j \in Above(s, i) <=> j \in 1..n /\ (trust(j) > trust(i) \/ (trust(j) = trust(i) /\ j <= i))
    OBVIOUS
  <2>1. DOMAIN s = 1..n BY <1>1
  <2> HIDE DEF n
  <2>2. j \in Above(s, i) <=> /\ j \in DOMAIN s
                             /\ \/ s[j].capability.trust > s[i].capability.trust
                                \/ s[j].capability.trust = s[i].capability.trust /\ j <= i
    BY DEF Above
  <2> QED BY <2>1, <2>2
<1>3. \A i : Rank(s, i) = Cardinality(Above(s, i)) BY DEF Rank, Above
<1> HIDE DEF n, trust
<1>4. IsFiniteSet(1..n) /\ Cardinality(1..n) = n
  <2>1. IsFiniteSet(1..n) /\ Cardinality(1..n) = IF 1 > n THEN 0 ELSE n - 1 + 1 BY <1>1, FS_Interval
  <2> QED BY <1>1, <2>1
<1>5. \A i \in 1..n : Above(s, i) \subseteq 1..n /\ i \in Above(s, i) BY <1>1, <1>2
<1>6. \A i \in 1..n : IsFiniteSet(Above(s, i)) /\ Rank(s, i) \in 1..n
  <2> SUFFICES ASSUME NEW i \in 1..n PROVE IsFiniteSet(Above(s, i)) /\ Rank(s, i) \in 1..n OBVIOUS
  <2>1. IsFiniteSet(Above(s, i)) /\ Cardinality(Above(s, i)) <= n BY <1>4, <1>5, FS_Subset
  <2>2. Cardinality(Above(s, i)) \in Nat /\ Cardinality(Above(s, i)) # 0
    BY <1>5, <2>1, FS_CardinalityType, FS_EmptySet
  <2> QED BY <1>1, <1>3, <2>1, <2>2
<1>7. ASSUME NEW i \in 1..n, NEW j \in 1..n, i # j, trust(i) > trust(j) \/ (trust(i) = trust(j) /\ i <= j)
      PROVE  Rank(s, i) # Rank(s, j)
  <2>1. Above(s, i) \subseteq Above(s, j)
    <3> SUFFICES ASSUME NEW x \in Above(s, i) PROVE x \in Above(s, j) OBVIOUS
    <3>1. x \in 1..n /\ (trust(x) > trust(i) \/ (trust(x) = trust(i) /\ x <= i)) BY <1>2
    <3>2. trust(x) \in Nat /\ trust(i) \in Nat /\ trust(j) \in Nat BY <1>1, <3>1
    <3>3. trust(x) > trust(j) \/ (trust(x) = trust(j) /\ x <= j) BY <1>1, <1>7, <3>1, <3>2
    <3> QED BY <1>2, <3>1, <3>3
  <2>2. j \notin Above(s, i) BY <1>1, <1>2, <1>7
  <2>3. Above(s, i) # Above(s, j) BY <1>5, <2>2
  <2> QED BY <1>3, <1>6, <2>1, <2>3, FS_Subset
<1>8. f \in Injection(1..n, 1..n)
  <2>1. f \in [1..n -> 1..n] BY <1>6
  <2>2. ASSUME NEW i \in 1..n, NEW j \in 1..n, f[i] = f[j] PROVE i = j
    <3>1. Rank(s, i) = Rank(s, j) BY <2>2
    <3>2. \/ trust(i) > trust(j) \/ (trust(i) = trust(j) /\ i <= j)
          \/ trust(j) > trust(i) \/ (trust(j) = trust(i) /\ j <= i)
      <4>1. trust(i) \in Nat /\ trust(j) \in Nat /\ i \in Nat /\ j \in Nat BY <1>1
      <4>2. \A u \in Nat, v \in Nat, x \in Nat, y \in Nat :
              u > v \/ (u = v /\ x <= y) \/ v > u \/ (v = u /\ y <= x)
        OBVIOUS
      <4> QED BY <4>1, <4>2
    <3> QED BY <1>7, <3>1, <3>2
  <2> HIDE DEF f
  <2> QED BY <2>1, <2>2 DEF Injection, IsInjective
<1> HIDE DEF f
<1>9. f \in Surjection(1..n, 1..n) BY <1>4, <1>8, FS_Injection
<1>10. PICK i \in 1..n : f[i] = k BY <1>1, <1>9 DEF Surjection
<1> QED BY <1>1, <1>10 DEF f

\* A sorted list has rows of the list it was made from.
LEMMA SortedRows ==
  ASSUME NEW S, NEW s \in Seq(S), \A i \in DOMAIN s : s[i].capability.trust \in Nat
  PROVE  /\ ByTrust(s) \in Seq(S) /\ Len(ByTrust(s)) = Len(s)
         /\ \A k \in DOMAIN s : ByTrust(s)[k] \in ToSet(s)
<1>1. ASSUME NEW k \in DOMAIN s PROVE ByTrust(s)[k] \in ToSet(s) /\ ByTrust(s)[k] \in S
  <2> DEFINE i == CHOOSE j \in DOMAIN s : Rank(s, j) = k
  <2>1. i \in DOMAIN s BY EveryRankIsTaken
  <2>2. ByTrust(s)[k] = s[i] BY DEF ByTrust
  <2> HIDE DEF i
  <2> QED BY <2>1, <2>2 DEF ToSet
<1>2. DOMAIN ByTrust(s) = 1..Len(s) /\ ByTrust(s) = [k \in 1..Len(s) |-> ByTrust(s)[k]] BY DEF ByTrust
<1>3. Len(s) \in Nat /\ DOMAIN s = 1..Len(s) OBVIOUS
<1>4. ByTrust(s) \in [1..Len(s) -> S] BY <1>1, <1>2, <1>3
<1>5. ByTrust(s) \in Seq(S) BY <1>3, <1>4
<1>6. Len(ByTrust(s)) = Len(s) BY <1>2, <1>3, <1>5
<1> QED BY <1>1, <1>5, <1>6

\* The page of a search is of listings that match.
SearchedFrom(q) ==
  \A l \in ToSet(Search(q)) : (\E n \in DOMAIN listings : l = listings[n]) /\ Matches(l, q)

LEMMA SearchFinds ==
  ASSUME StoreShape, NEW q, q.offset = 0, q.limit \in Nat
  PROVE  SearchedFrom(q)
<1> DEFINE S == {listings[i] : i \in DOMAIN listings}
           good == {l \in ToSet(listings) : Matches(l, q)}
           rows == Only(listings, good)
           hits == ByTrust(rows)
           m == Min({q.offset + q.limit, Len(hits)})
<1>1. listings \in Seq(S) /\ \A l \in S : l.capability.trust \in Nat
  BY CapabilityAssumption DEF StoreShape, IsList, IsListing
<1>2. Search(q) = SubSeq(hits, 1, m)
  <2>1. q.offset + 1 = 1 OBVIOUS
  <2> QED BY <2>1 DEF Search
<1> HIDE DEF S, good
<1>3. rows \in Seq(S) /\ ToSet(rows) = ToSet(listings) \cap good BY <1>1, OnlyPlaces, OnlyElements
<1> HIDE DEF rows
<1>4. \A i \in DOMAIN rows : rows[i].capability.trust \in Nat
  <2>1. \A i \in DOMAIN rows : rows[i] \in S BY <1>3
  <2> QED BY <1>1, <2>1
<1>5. hits \in Seq(S) /\ \A k \in DOMAIN rows : hits[k] \in ToSet(rows) /\ Len(hits) = Len(rows)
  BY <1>3, <1>4, SortedRows
<1>6. Len(hits) \in Nat /\ DOMAIN hits = 1..Len(hits) /\ DOMAIN rows = 1..Len(rows) BY <1>3, <1>5
<1>7. \A k \in DOMAIN hits : hits[k] \in ToSet(rows)
  <2>1. Len(hits) = Len(rows) BY <1>3, <1>4, SortedRows
  <2> QED BY <1>5, <1>6, <2>1
<1> HIDE DEF hits
<1>8. m \in Nat /\ m <= Len(hits)
  <2>1. \A x \in Nat, y \in Nat : Min({x, y}) \in Nat /\ Min({x, y}) <= y
    <3> SUFFICES ASSUME NEW x \in Nat, NEW y \in Nat PROVE Min({x, y}) \in Nat /\ Min({x, y}) <= y
      OBVIOUS
    <3>1. \E z \in {x, y} : \A w \in {x, y} : z <= w
      <4>1. CASE x <= y BY <4>1
      <4>2. CASE ~(x <= y) BY <4>2
      <4> QED BY <4>1, <4>2
    <3>2. Min({x, y}) \in {x, y} /\ \A w \in {x, y} : Min({x, y}) <= w BY <3>1 DEF Min
    <3> QED BY <3>2
  <2>2. q.offset + q.limit \in Nat OBVIOUS
  <2> QED BY <1>6, <2>1, <2>2
<1> HIDE DEF m
<1>9. ASSUME NEW l \in ToSet(SubSeq(hits, 1, m)) PROVE l \in ToSet(rows)
  <2>1. DOMAIN SubSeq(hits, 1, m) = 1..m /\ \A k \in 1..m : SubSeq(hits, 1, m)[k] = hits[k]
    <3>1. hits \in Seq(S) BY <1>5
    <3>2. m \in 0..Len(hits) BY <1>6, <1>8
    <3> QED BY <1>6, <3>1, <3>2
  <2>2. PICK k \in 1..m : l = hits[k] BY <1>9, <2>1 DEF ToSet
  <2>3. k \in DOMAIN hits BY <1>6, <1>8
  <2> QED BY <1>7, <2>2, <2>3
<1>10. ASSUME NEW l \in ToSet(Search(q))
       PROVE  (\E n \in DOMAIN listings : l = listings[n]) /\ Matches(l, q)
  <2>1. l \in ToSet(listings) /\ Matches(l, q) BY <1>2, <1>3, <1>9, <1>10 DEF good
  <2> QED BY <2>1 DEF ToSet
<1> QED BY <1>10 DEF SearchedFrom

-----------------------------------------------------------------------------
(* The client.  Items are listings of some moment, one of each id.         *)

IsItem(l) == l.capability.id \in Ids /\ l.capability.intents \subseteq Intents

OneOfEach(items) ==
  /\ \A l \in items : IsItem(l)
  /\ \A l, m \in items : l.capability.id = m.capability.id => l = m

\* What a request in a slot carries.
IsRequest(r) ==
  /\ r.op = "search" /\ r.stage = "answered" => OneOfEach(ToSet(r.items))
  /\ r.op = "publish" => /\ r.capability \in Capabilities /\ r.category \in Categories
                         /\ r.tags \in (SUBSET Tags) \cup {None}
  /\ r.op = "unpublish" => r.id \in Ids

CacheInv ==
  /\ \A s \in Slots : IsRequest(requests[s])
  /\ OneOfEach(cached)
  /\ byIntent \in [Intents \X Ids -> 0..Many]
  /\ FindCoversCache

ClientInv == StoreInv /\ DOMAIN requests = Slots /\ CacheInv

\* The items of a page are of distinct ids.
LEMMA PageHasOneOfEach ==
  ASSUME StoreInv
  PROVE  OneOfEach(ToSet(Search(SyncQuery)))
<1>1. SearchedFrom(SyncQuery)
  <2>1. SyncQuery.offset = 0 /\ SyncQuery.limit \in Nat BY ClientAssumption DEF SyncQuery
  <2> QED BY <2>1, SearchFinds DEF StoreInv
<1>2. \A l \in ToSet(Search(SyncQuery)) : \E n \in DOMAIN listings : l = listings[n]
  BY <1>1 DEF SearchedFrom
<1>3. ASSUME NEW n \in DOMAIN listings PROVE IsItem(listings[n])
  BY <1>3 DEF StoreInv, StoreShape, IsListing, IsItem, Ids, Intents
<1>4. \A m, n \in DOMAIN listings : listings[m].capability.id = listings[n].capability.id => m = n
  BY DEF StoreInv, UniqueIds
<1> QED BY <1>2, <1>3, <1>4 DEF OneOfEach

\* A capability that is pushed again or for the first time is counted.
LEMMA RegisterCounts ==
  ASSUME byIntent \in [Intents \X Ids -> 0..Many], NEW items, NEW gone, Register(items, gone)
  PROVE  /\ byIntent' \in [Intents \X Ids -> 0..Many]
         /\ \A e \in Intents \X Ids : e[2] \notin gone /\ Pushes(e, items) => byIntent'[e] > 0
<1>1. /\ byIntent' \in [Intents \X Ids -> 0..Many]
      /\ \A e \in Intents \X Ids :
           byIntent'[e] \in IF e[2] \in gone THEN Splice(byIntent[e])
                            ELSE {Min({Many, byIntent[e] + IF Pushes(e, items) THEN 1 ELSE 0})}
  BY DEF Register
<1>2. ASSUME NEW e \in Intents \X Ids, e[2] \notin gone, Pushes(e, items) PROVE byIntent'[e] > 0
  <2>1. byIntent[e] \in Nat /\ Many \in Nat /\ Many > 0 BY ClientAssumption
  <2>2. byIntent'[e] = Min({Many, byIntent[e] + 1}) BY <1>1, <1>2
  <2> DEFINE more == byIntent[e] + 1
  <2>3. more \in Nat /\ more > 0 BY <2>1
  <2> HIDE DEF more
  <2>4. Min({Many, more}) \in {Many, more}
    <3>1. \E x \in {Many, more} : \A y \in {Many, more} : x <= y
      <4>1. CASE Many <= more BY <2>1, <2>3, <4>1
      <4>2. CASE ~(Many <= more) BY <2>1, <2>3, <4>2
      <4> QED BY <4>1, <4>2
    <3> QED BY <3>1 DEF Min
  <2>5. byIntent'[e] \in {Many, more} BY <2>2, <2>4 DEF more
  <2> QED BY <2>1, <2>3, <2>5
<1> QED BY <1>1, <1>2

\* applySyncResult, for whatever page comes, however old.
LEMMA ApplyKeepsCache ==
  ASSUME CacheInv, NEW items, OneOfEach(items), ApplySyncResult(items)
  PROVE  /\ OneOfEach(cached') /\ FindCoversCache'
         /\ byIntent' \in [Intents \X Ids -> 0..Many]
<1> DEFINE gone == {l.capability.id : l \in cached} \ {l.capability.id : l \in items}
<1>1. cached' = items /\ Register(items, gone) /\ byIntent \in [Intents \X Ids -> 0..Many]
  BY DEF ApplySyncResult, CacheInv
<1>2. \A l \in items : l.capability.id \notin gone OBVIOUS
<1> HIDE DEF gone
<1>3. /\ byIntent' \in [Intents \X Ids -> 0..Many]
      /\ \A e \in Intents \X Ids : e[2] \notin gone /\ Pushes(e, items) => byIntent'[e] > 0
  BY <1>1, RegisterCounts
<1>4. ASSUME NEW l \in cached', NEW i \in l.capability.intents
      PROVE  byIntent'[<<i, l.capability.id>>] > 0
  <2>1. l \in items /\ <<i, l.capability.id>> \in Intents \X Ids BY <1>1, <1>4 DEF OneOfEach, IsItem
  <2>2. Pushes(<<i, l.capability.id>>, items) BY <1>4, <2>1 DEF Pushes
  <2> QED BY <1>2, <1>3, <2>1, <2>2
<1>5. FindCoversCache' BY <1>4 DEF FindCoversCache
<1> QED BY <1>1, <1>3, <1>5

\* A request that is sent, answered or gone.
LEMMA RequestKeeps ==
  ASSUME ClientInv, NEW s \in Slots, NEW r, IsRequest(r), requests' = [requests EXCEPT ![s] = r]
  PROVE  DOMAIN requests' = Slots /\ \A x \in Slots : IsRequest(requests'[x])
<1>1. \A x \in Slots : requests'[x] = IF x = s THEN r ELSE requests[x] BY DEF ClientInv
<1> QED BY <1>1 DEF ClientInv, CacheInv

LEMMA FreeIsRequest == IsRequest(Free)
BY DEF IsRequest, Free

LEMMA ClientKeeps ==
  ASSUME ClientInv, CatalogueNext
  PROVE  ClientInv'
<1> DEFINE CacheRests == UNCHANGED <<cached, byIntent>>
           StoreRests == UNCHANGED storeVars
<1>1. ASSUME UNCHANGED storeVars PROVE StoreInv'
  BY <1>1 DEF ClientInv, storeVars, StoreInv, StoreShape, UniqueIds, IndexesCover, IsList, IsListing, Keys
<1>2. ASSUME StoreInv', UNCHANGED <<cached, byIntent>>, NEW s \in Slots, NEW r, IsRequest(r),
             requests' = [requests EXCEPT ![s] = r]
      PROVE  ClientInv'
  BY <1>2, RequestKeeps DEF ClientInv, CacheInv, FindCoversCache
<1>3. ASSUME StoreInv', UNCHANGED <<requests, cached, byIntent>> PROVE ClientInv'
  BY <1>3 DEF ClientInv, CacheInv, FindCoversCache
<1>4. ASSUME NEW s \in Slots, StartSync(s) \/ SyncTimer(s) PROVE ClientInv'
  <2> DEFINE r == [op |-> "search", stage |-> "sent"]
  <2>1. IsRequest(r) BY DEF IsRequest
  <2>2. /\ requests' = [requests EXCEPT ![s] = r] /\ UNCHANGED <<cached, byIntent>>
        /\ UNCHANGED storeVars
    BY <1>4 DEF StartSync, SyncTimer, SyncOnce, Send, serverVars
  <2> HIDE DEF r
  <2> QED BY <1>1, <1>2, <2>1, <2>2
<1>5. ASSUME NEW s \in Slots, SendPublish(s) PROVE ClientInv'
  <2>1. PICK c \in Capabilities, category \in Categories, p \in Publishers,
             tags \in {{t} : t \in Tags} \cup {None}, signature \in Signatures :
          Send(s, [op |-> "publish", stage |-> "sent", capability |-> c, category |-> category,
                   publisher |-> p, tags |-> tags, signature |-> signature])
    BY <1>5 DEF SendPublish
  <2> DEFINE r == [op |-> "publish", stage |-> "sent", capability |-> c, category |-> category,
                   publisher |-> p, tags |-> tags, signature |-> signature]
  <2>2. tags \in (SUBSET Tags) \cup {None} OBVIOUS
  <2>3. IsRequest(r) BY <2>2 DEF IsRequest
  <2>4. requests' = [requests EXCEPT ![s] = r] BY <2>1 DEF Send
  <2>5. UNCHANGED <<cached, byIntent>> /\ UNCHANGED storeVars BY <1>5 DEF SendPublish, serverVars
  <2> HIDE DEF r
  <2> QED BY <1>1, <1>2, <2>3, <2>4, <2>5
<1>6. ASSUME NEW s \in Slots, SendUnpublish(s) PROVE ClientInv'
  <2>1. PICK id \in Ids : Send(s, [op |-> "unpublish", stage |-> "sent", id |-> id])
    BY <1>6 DEF SendUnpublish
  <2> DEFINE r == [op |-> "unpublish", stage |-> "sent", id |-> id]
  <2>2. IsRequest(r) BY DEF IsRequest
  <2>3. requests' = [requests EXCEPT ![s] = r] BY <2>1 DEF Send
  <2>4. UNCHANGED <<cached, byIntent>> /\ UNCHANGED storeVars BY <1>6 DEF SendUnpublish, serverVars
  <2> HIDE DEF r
  <2> QED BY <1>1, <1>2, <2>2, <2>3, <2>4
<1>7. ASSUME NEW s \in Slots, AnswerSearch(s) PROVE ClientInv'
  <2> DEFINE r == [op |-> "search", stage |-> "answered", items |-> Search(SyncQuery)]
  <2>1. OneOfEach(ToSet(r.items)) BY PageHasOneOfEach DEF ClientInv
  <2>2. IsRequest(r) BY <2>1 DEF IsRequest
  <2>3. requests' = [requests EXCEPT ![s] = r] /\ UNCHANGED <<cached, byIntent>> /\ UNCHANGED storeVars
    BY <1>7 DEF AnswerSearch, serverVars
  <2> HIDE DEF r
  <2> QED BY <1>1, <1>2, <2>2, <2>3
<1>8. ASSUME NEW s \in Slots, FailSearch(s) \/ LoseWrite(s) PROVE ClientInv'
  <2>1. /\ requests' = [requests EXCEPT ![s] = Free] /\ UNCHANGED <<cached, byIntent>>
        /\ UNCHANGED storeVars
    BY <1>8 DEF FailSearch, LoseWrite, serverVars
  <2> QED BY <1>1, <1>2, <2>1, FreeIsRequest
<1>9. ASSUME NEW s \in Slots, HandleWrite(s) PROVE ClientInv'
  <2> DEFINE r == requests[s]
  <2>1. /\ requests' = [requests EXCEPT ![s] = Free] /\ UNCHANGED <<cached, byIntent>>
        /\ IsRequest(r) /\ StoreInv
    BY <1>9 DEF HandleWrite, ClientInv, CacheInv
  <2>2. CASE r.op = "publish" /\ HandlePublish(r.capability, r.category, r.publisher, r.tags, r.signature)
    <3>1. /\ r.capability \in Capabilities /\ r.category \in Categories
          /\ r.tags \in (SUBSET Tags) \cup {None}
      BY <2>1, <2>2 DEF IsRequest
    <3>2. StorePublish(r.capability, r.category, r.publisher, r.tags) BY <2>2 DEF HandlePublish
    <3>3. StoreInv' BY <2>1, <3>1, <3>2, PublishKeeps
    <3> QED BY <1>2, <2>1, <3>3, FreeIsRequest
  <2>3. CASE r.op = "unpublish" /\ HandleUnpublish(r.id)
    <3>1. r.id \in Ids /\ StoreUnpublish(r.id) BY <2>1, <2>3 DEF IsRequest, HandleUnpublish
    <3>2. StoreInv' BY <2>1, <3>1, UnpublishKeeps
    <3> QED BY <1>2, <2>1, <3>2, FreeIsRequest
  <2>4. CASE UNCHANGED serverVars
    BY <1>1, <1>2, <2>1, <2>4, FreeIsRequest DEF serverVars
  <2> QED BY <1>9, <2>2, <2>3, <2>4 DEF HandleWrite
<1>10. ASSUME NEW s \in Slots, DeliverSearch(s) PROVE ClientInv'
  <2>1. /\ requests[s].op = "search" /\ requests[s].stage = "answered"
        /\ requests' = [requests EXCEPT ![s] = Free]
        /\ ApplySyncResult(ToSet(requests[s].items)) /\ UNCHANGED storeVars
    BY <1>10 DEF DeliverSearch, serverVars
  <2>2. CacheInv /\ OneOfEach(ToSet(requests[s].items)) BY <2>1 DEF ClientInv, CacheInv, IsRequest
  <2>3. OneOfEach(cached') /\ FindCoversCache' /\ byIntent' \in [Intents \X Ids -> 0..Many]
    BY <2>1, <2>2, ApplyKeepsCache
  <2>4. DOMAIN requests' = Slots /\ \A x \in Slots : IsRequest(requests'[x])
    BY <2>1, FreeIsRequest, RequestKeeps
  <2>5. StoreInv' BY <1>1, <2>1
  <2>6. OneOfEach(cached)' BY <2>3 DEF OneOfEach, IsItem, Ids, Intents
  <2> QED BY <2>3, <2>4, <2>5, <2>6 DEF ClientInv, CacheInv
<1>11. CASE ClearCache
  <2>1. /\ cached' = {} /\ byIntent' = [e \in DOMAIN byIntent |-> 0] /\ requests' = requests
        /\ UNCHANGED storeVars
    BY <1>11 DEF ClearCache, serverVars
  <2>2. byIntent' \in [Intents \X Ids -> 0..Many] BY <2>1, ClientAssumption DEF ClientInv, CacheInv
  <2>3. OneOfEach(cached)' /\ FindCoversCache' BY <2>1 DEF OneOfEach, FindCoversCache
  <2> QED BY <1>1, <2>1, <2>2, <2>3 DEF ClientInv, CacheInv
<1>12. ASSUME NEW id \in Ids, DeleteListing(id), UNCHANGED <<requests, cached, byIntent>> PROVE ClientInv'
  <2>1. StoreInv' BY <1>12, DeleteKeeps DEF DeleteListing, ClientInv
  <2> QED BY <1>3, <1>12, <2>1
<1>13. CASE StopSync \/ ((Start \/ Stop) /\ UNCHANGED clientVars)
  BY <1>1, <1>3, <1>13 DEF StopSync, Start, Stop, serverVars, clientVars
<1> QED
  BY <1>4, <1>5, <1>6, <1>7, <1>8, <1>9, <1>10, <1>11, <1>12, <1>13 DEF CatalogueNext

\* LookupsFind: for any number of requests at a time, lost, late or overtaken,
\* the lists of the store and of the cache lead to all they hold, and neither
\* holds an id twice.
THEOREM Found == ClientSpec => []LookupsFind
<1>1. ServerInit /\ ClientInit => ClientInv
  <2> SUFFICES ASSUME ServerInit, ClientInit PROVE ClientInv OBVIOUS
  <2>1. StoreInv
    BY DEF ServerInit, StoreInit, StoreInv, StoreShape, UniqueIds, IndexesCover, IsList
  <2>2. CacheInv
    BY FreeIsRequest, ClientAssumption DEF ClientInit, CacheInv, OneOfEach, FindCoversCache
  <2> QED BY <2>1, <2>2 DEF ClientInv, ClientInit
<1>2. ClientInv /\ [ClientNext]_registryVars => ClientInv'
  <2> SUFFICES ASSUME ClientInv, [ClientNext]_registryVars PROVE ClientInv' OBVIOUS
  <2>1. CASE UNCHANGED storeVars /\ UNCHANGED clientVars
    BY <2>1 DEF storeVars, clientVars, ClientInv, CacheInv, FindCoversCache, StoreInv, StoreShape,
                UniqueIds, IndexesCover, IsList, IsListing, Keys
  <2>2. ReputationStep \/ BillingStep => UNCHANGED storeVars
    BY DEF ReputationStep, HandleAttest, HandleTrustDetail, HandleTrustDashboard, OracleMaintenance,
           BillingStep, HandleRecordUsage, HandleSetRateCard, HandleGenerateInvoice, HandlePayInvoice,
           HandleCreateCheckout, HandleComputePayout, HandleSchedulePayout, HandleProcessPayout, Route,
           ProviderStep, SendAnInvoice, SweepOverdue, ClockTick
  <2> QED BY <2>1, <2>2, ClientKeeps DEF ClientNext, registryVars, serverVars
<1>3. ClientInv => LookupsFind
  BY DEF ClientInv, CacheInv, OneOfEach, StoreInv, UniqueIds, LookupsFind, Places
<1> QED BY <1>1, <1>2, <1>3, PTL DEF ClientSpec

-----------------------------------------------------------------------------
(* What an invoice asks for                                                *)

\* Rounding to hundredths of what is not negative.
LEMMA RoundedIsNat ==
  ASSUME NEW n \in Nat
  PROVE  /\ 10 * ((n + 5) \div 10) \in Nat /\ Rounded(n) \in Nat
         /\ (8 * n) \div 100 \in Nat /\ n \div 10 \in Nat
BY DEF Rounded

CardTiers == [from : Nat, to : {Unset} \cup Nat, cost : Nat]
Charge    == [left : Nat, total : Nat]

LEMMA ChargeTierType ==
  ASSUME NEW acc \in Charge, NEW tier \in CardTiers, tier.to # Unset => tier.from <= tier.to + 1
  PROVE  ChargeTier(acc, tier) \in Charge
<1> DEFINE width == tier.to - tier.from + 1
           units == IF tier.to = Unset \/ acc.left < width THEN acc.left ELSE width
           cents == 10 * ((units * tier.cost + 5) \div 10)
<1>1. CASE acc.left <= 0 BY <1>1 DEF ChargeTier
<1>2. CASE ~(acc.left <= 0)
  <2>1. acc.left \in Nat /\ acc.total \in Nat /\ tier.cost \in Nat /\ tier.from \in Nat BY DEF Charge, CardTiers
  <2>2. units \in Nat /\ units <= acc.left
    <3>1. CASE tier.to = Unset BY <2>1, <3>1
    <3>2. CASE tier.to # Unset
      <4>1. tier.to \in Nat BY <3>2 DEF CardTiers
      <4>2. width \in Nat BY <2>1, <3>2, <4>1
      <4> HIDE DEF width
      <4> QED BY <2>1, <3>2, <4>2
    <3> QED BY <3>1, <3>2
  <2>3. ChargeTier(acc, tier) = [left |-> acc.left - units, total |-> acc.total + cents] BY <1>2 DEF ChargeTier
  <2> HIDE DEF units
  <2>4. units * tier.cost \in Nat BY <2>1, <2>2
  <2>5. cents \in Nat
    <3> DEFINE n == units * tier.cost
    <3>1. n \in Nat BY <2>4
    <3> HIDE DEF n
    <3>2. 10 * ((n + 5) \div 10) \in Nat BY <3>1, RoundedIsNat
    <3> QED BY <3>2 DEF n
  <2> HIDE DEF cents
  <2>6. acc.left - units \in Nat /\ acc.total + cents \in Nat BY <2>1, <2>2, <2>5
  <2> QED BY <2>3, <2>6 DEF Charge
<1> QED BY <1>1, <1>2

\* Max picks an element of a set of numbers up to k.
LEMMA MaxPicks ==
  ASSUME NEW k \in Nat
  PROVE  Picks([s \in SUBSET (1..k) |-> Max(s)], 1..k)
<1> SUFFICES ASSUME NEW s \in SUBSET (1..k), s # {} PROVE Max(s) \in s BY DEF Picks
<1> DEFINE T == {k - i : i \in s}
<1>0. \A i \in s : i \in Int /\ k - i \in Nat OBVIOUS
<1>1. T \in SUBSET Nat /\ T # {}
  <2>1. PICK i \in s : TRUE OBVIOUS
  <2>2. k - i \in T OBVIOUS
  <2> QED BY <1>0, <2>2
<1> HIDE DEF T
<1>2. PICK m \in T : \A n \in T : m <= n BY <1>1, LeastElement
<1>3. PICK i \in s : m = k - i BY DEF T
<1>4. \A j \in s : i >= j
  <2> SUFFICES ASSUME NEW j \in s PROVE i >= j OBVIOUS
  <2>1. k - j \in T /\ i \in Int /\ j \in Int BY <1>0 DEF T
  <2>2. m <= k - j BY <1>2, <2>1
  <2> QED BY <1>3, <2>2
<1> QED BY <1>4 DEF Max

LEMMA MeteredIsNat ==
  ASSUME NEW tiers \in Seq(CardTiers), \A i \in DOMAIN tiers : tiers[i].to # Unset => tiers[i].from <= tiers[i].to + 1,
         NEW quantity \in Nat
  PROVE  MeteredTotal(tiers, quantity) \in Nat
<1> DEFINE D == DOMAIN tiers
           base == [left |-> quantity, total |-> 0]
           IsIt(f) == f = [s \in SUBSET D |-> IF s = {} THEN base ELSE ChargeTier(f[s \ {Max(s)}], tiers[Max(s)])]
           ch == [s \in SUBSET D |-> Max(s)]
           Op == [e \in D \X Charge |-> ChargeTier(e[2], tiers[e[1]])]
           it == CHOOSE f : IsIt(f)
<1>1. D = 1..Len(tiers) /\ Len(tiers) \in Nat OBVIOUS
<1>2. IsFiniteSet(D) /\ Picks(ch, D)
  <2>1. IsFiniteSet(D) BY <1>1, FS_Interval
  <2>2. \A k \in Nat : Picks([s \in SUBSET (1..k) |-> Max(s)], 1..k) BY MaxPicks
  <2>3. Picks([s \in SUBSET (1..Len(tiers)) |-> Max(s)], 1..Len(tiers)) BY <1>1, <2>2
  <2>4. ch = [s \in SUBSET (1..Len(tiers)) |-> Max(s)] BY <1>1
  <2> QED BY <1>1, <2>1, <2>3, <2>4, Zenon
<1>3. base \in Charge BY DEF Charge
<1>4. \A i \in D : \A acc \in Charge : ChargeTier(acc, tiers[i]) \in Charge
  <2> SUFFICES ASSUME NEW i \in D, NEW acc \in Charge PROVE ChargeTier(acc, tiers[i]) \in Charge OBVIOUS
  <2>1. tiers[i] \in CardTiers /\ (tiers[i].to # Unset => tiers[i].from <= tiers[i].to + 1) BY <1>1
  <2> QED BY <2>1, ChargeTierType
<1>5. Op \in [D \X Charge -> Charge] BY <1>4
<1> HIDE DEF base
<1>6. PICK f \in [SUBSET D -> Charge] : IsFold(f, D, base, Op, ch)
  <2> HIDE DEF D, ch, Op
  <2> QED BY <1>2, <1>3, <1>5, AFold
<1>7. IsIt(f)
  <2>1. \A s \in SUBSET D : f[s] = IF s = {} THEN base ELSE ChargeTier(f[s \ {Max(s)}], tiers[Max(s)])
    <3> SUFFICES ASSUME NEW s \in SUBSET D
                 PROVE  f[s] = IF s = {} THEN base ELSE ChargeTier(f[s \ {Max(s)}], tiers[Max(s)])
      OBVIOUS
    <3>1. CASE s = {} BY <1>6, <3>1 DEF IsFold
    <3>2. CASE s # {}
      <4>1. ch[s] = Max(s) /\ ch[s] \in s BY <1>2, <3>2 DEF Picks
      <4> HIDE DEF ch
      <4>2. f[s] = Op[<<ch[s], f[s \ {ch[s]}]>>] BY <1>6, <3>2 DEF IsFold
      <4>3. ch[s] \in D /\ f[s \ {ch[s]}] \in Charge BY <4>1
      <4> HIDE DEF D
      <4>4. Op[<<ch[s], f[s \ {ch[s]}]>>] = ChargeTier(f[s \ {ch[s]}], tiers[ch[s]]) BY <4>3
      <4> QED BY <3>2, <4>1, <4>2, <4>4
    <3> QED BY <3>1, <3>2
  <2>2. f = [s \in SUBSET D |-> f[s]] OBVIOUS
  <2> HIDE DEF D
  <2> QED BY <2>1, <2>2
<1>8. IsIt(it) BY <1>7
<1>9. MeteredTotal(tiers, quantity) = it[D].total BY DEF MeteredTotal, FoldLeft, MapThenFoldSet, base
<1> HIDE DEF it
<1> DEFINE U == {s \in SUBSET D : it[s] \in Charge}
<1>10. {} \in U BY <1>3, <1>8
<1>11. ASSUME NEW s \in SUBSET D, s # {}, \A x \in s : s \ {x} \in U PROVE s \in U
  <2>1. Max(s) \in s BY <1>2, <1>11 DEF Picks
  <2>2. it[s] = ChargeTier(it[s \ {Max(s)}], tiers[Max(s)]) BY <1>8, <1>11
  <2>3. it[s \ {Max(s)}] \in Charge BY <1>11, <2>1
  <2> QED BY <1>4, <2>1, <2>2, <2>3
<1> HIDE DEF U, D
<1>12. U \in SUBSET SUBSET D BY DEF U
<1>13. \A s \in SUBSET D : s # {} /\ (\A x \in s : s \ {x} \in U) => s \in U BY <1>11
<1>14. \A s \in SUBSET D : s \in U BY <1>2, <1>10, <1>12, <1>13, BySize
<1>15. it[D] \in Charge BY <1>14 DEF U
<1> QED BY <1>9, <1>15 DEF Charge

LEMMA LinesAreNat ==
  ASSUME NEW card, IsRateCard(card), NEW quantity \in Nat
  PROVE  LinesTotal(card, quantity) \in Nat
<1>1. card.cost \in Nat /\ card.subscription \in Nat /\ quantity * card.cost \in Nat BY DEF IsRateCard
<1>2. MeteredTotal(card.tiers, quantity) \in Nat
  <2>1. card.tiers \in Seq(CardTiers) BY DEF IsRateCard, CardTiers
  <2>2. \A i \in DOMAIN card.tiers : card.tiers[i].to # Unset => card.tiers[i].from <= card.tiers[i].to + 1
    BY DEF IsRateCard
  <2> QED BY <2>1, <2>2, MeteredIsNat
<1> QED BY <1>1, <1>2 DEF LinesTotal, IsRateCard

-----------------------------------------------------------------------------
(* What covers a payout                                                    *)

UsageType == [capability : Capability, consumer : Consumer, quantity : Nat, at : Nat]

\* No amount is negative.
MoneyInv ==
  /\ usage \in Seq(UsageType)
  /\ cards \in [Capability -> SUBSET Cards]
  /\ \A i \in DOMAIN invoices : invoices[i].total \in Nat

Known(n) == calls[n].kind = "invoice" /\ calls[n].outcome = "success" /\ calls[n].resumed
Amounts  == [n \in DOMAIN calls |-> calls[n].amount]

\* A date of payment is when the answer to a payment came, and a payout is for
\* payments of its publisher whose answers came in its period: at says when an
\* answer came, which no call remembers, and by which payments a payout is for.
Covered(at, by) ==
  /\ at \in [DOMAIN calls -> Nat] /\ by \in [DOMAIN payouts -> SUBSET DOMAIN calls]
  /\ \A i \in DOMAIN invoices : invoices[i].paidAt # 0 =>
       \E n \in DOMAIN calls : Known(n) /\ calls[n].id = i /\ at[n] = invoices[i].paidAt
  /\ \A p \in DOMAIN payouts :
       /\ payouts[p].amount \in Int /\ payouts[p].period \in Nat \X Nat
       /\ payouts[p].amount <= SumOver(Amounts, by[p])
       /\ \A n \in by[p] : /\ Known(n) /\ Within(at[n], payouts[p].period)
                           /\ invoices[calls[n].id].publisher = payouts[p].publisher

CoverInv == MoneyInv /\ \E at, by : Covered(at, by)

LEMMA CallsAreFinite ==
  ASSUME BillingInv
  PROVE  IsFiniteSet(DOMAIN calls) /\ IsFiniteSet(DOMAIN payouts) /\ IsFiniteSet(DOMAIN invoices)
<1>1. /\ Len(calls) \in Nat /\ DOMAIN calls = 1..Len(calls)
      /\ Len(payouts) \in Nat /\ DOMAIN payouts = 1..Len(payouts)
      /\ Len(invoices) \in Nat /\ DOMAIN invoices = 1..Len(invoices)
  BY DEF BillingInv, BillingShape, IsList
<1> QED BY <1>1, FS_Interval

\* A payment is of the total of an invoice.
LEMMA KnownAmount ==
  ASSUME BillingInv, MoneyInv, NEW n \in DOMAIN calls, calls[n].kind = "invoice"
  PROVE  /\ calls[n].id \in DOMAIN invoices /\ calls[n].amount = invoices[calls[n].id].total
         /\ calls[n].amount \in Nat
BY DEF BillingInv, CallsMatch, MoneyInv

\* What covers the payouts goes on to cover them as long as none is added, and a
\* date of payment is new only where an answer has just come.
LEMMA CoverKept ==
  ASSUME BillingInv, CoverInv, BillingInv', MoneyInv',
         DOMAIN invoices \subseteq DOMAIN invoices',
         \A i \in DOMAIN invoices : invoices'[i].publisher = invoices[i].publisher,
         \A i \in DOMAIN invoices' : invoices'[i].paidAt # 0 =>
           \/ i \in DOMAIN invoices /\ invoices'[i].paidAt = invoices[i].paidAt
           \/ \E n \in DOMAIN calls : /\ Known(n)' /\ ~Known(n) /\ calls'[n].id = i
                                      /\ invoices'[i].paidAt = now,
         DOMAIN payouts' = DOMAIN payouts,
         \A p \in DOMAIN payouts : /\ payouts'[p].publisher = payouts[p].publisher
                                   /\ payouts'[p].period = payouts[p].period
                                   /\ payouts'[p].amount = payouts[p].amount,
         DOMAIN calls \subseteq DOMAIN calls',
         \A n \in DOMAIN calls : /\ calls'[n].id = calls[n].id /\ calls'[n].amount = calls[n].amount
                                 /\ Known(n) => Known(n)'
  PROVE  CoverInv'
<1>1. PICK at, by : Covered(at, by) BY DEF CoverInv
<1>a. PICK then : then = [n \in DOMAIN calls' |-> IF n \in DOMAIN calls /\ Known(n) THEN at[n] ELSE now]
  OBVIOUS
<1>2. MoneyInv BY DEF CoverInv
<1>3. then \in [DOMAIN calls' -> Nat]
  <2>1. now \in Nat BY DEF BillingInv, BillingShape
  <2>2. \A n \in DOMAIN calls : at[n] \in Nat BY <1>1 DEF Covered
  <2> QED BY <1>a, <2>1, <2>2
<1>4. \A n \in DOMAIN calls : n \in DOMAIN calls' /\ (Known(n) => then[n] = at[n]) /\ (~Known(n) => then[n] = now)
  BY <1>a
<1>5. by \in [DOMAIN payouts' -> SUBSET DOMAIN calls'] BY <1>1 DEF Covered
<1>6. \A i \in DOMAIN invoices' : invoices'[i].paidAt # 0 =>
        \E n \in DOMAIN calls' : Known(n)' /\ calls'[n].id = i /\ then[n] = invoices'[i].paidAt
  <2> SUFFICES ASSUME NEW i \in DOMAIN invoices', invoices'[i].paidAt # 0
               PROVE  \E n \in DOMAIN calls' : Known(n)' /\ calls'[n].id = i /\ then[n] = invoices'[i].paidAt
    OBVIOUS
  <2>1. CASE i \in DOMAIN invoices /\ invoices'[i].paidAt = invoices[i].paidAt
    <3>1. PICK n \in DOMAIN calls : Known(n) /\ calls[n].id = i /\ at[n] = invoices[i].paidAt
      BY <1>1, <2>1 DEF Covered
    <3> HIDE DEF Known
    <3> QED BY <1>4, <2>1, <3>1
  <2>2. CASE \E n \in DOMAIN calls : Known(n)' /\ ~Known(n) /\ calls'[n].id = i /\ invoices'[i].paidAt = now
    BY <1>4, <2>2
  <2> QED BY <2>1, <2>2
<1>7. ASSUME NEW p \in DOMAIN payouts'
      PROVE  /\ payouts'[p].amount \in Int /\ payouts'[p].period \in Nat \X Nat
             /\ payouts'[p].amount <= SumOver(Amounts', by[p])
             /\ \A n \in by[p] : /\ Known(n)' /\ Within(then[n], payouts'[p].period)
                                 /\ invoices'[calls'[n].id].publisher = payouts'[p].publisher
  <2>1. /\ payouts[p].amount \in Int /\ payouts[p].period \in Nat \X Nat
        /\ payouts[p].amount <= SumOver(Amounts, by[p])
        /\ by[p] \subseteq DOMAIN calls
        /\ \A n \in by[p] : /\ Known(n) /\ Within(at[n], payouts[p].period)
                            /\ invoices[calls[n].id].publisher = payouts[p].publisher
    BY <1>1, <1>7 DEF Covered
  <2>2. \A n \in by[p] : /\ Known(n)' /\ Within(then[n], payouts'[p].period)
                         /\ invoices'[calls'[n].id].publisher = payouts'[p].publisher
    <3> SUFFICES ASSUME NEW n \in by[p]
                 PROVE  /\ Known(n)' /\ Within(then[n], payouts'[p].period)
                        /\ invoices'[calls'[n].id].publisher = payouts'[p].publisher
      OBVIOUS
    <3>1. n \in DOMAIN calls /\ Known(n) /\ then[n] = at[n] BY <1>4, <2>1
    <3>2. calls[n].kind = "invoice" BY <3>1 DEF Known
    <3>3. calls[n].id \in DOMAIN invoices BY <1>2, <3>1, <3>2, KnownAmount
    <3> QED BY <1>7, <2>1, <3>1, <3>3
  <2>3. SumOver(Amounts', by[p]) = SumOver(Amounts, by[p])
    <3>1. IsFiniteSet(by[p]) BY <2>1, CallsAreFinite, FS_Subset
    <3>2. \A n \in by[p] : Amounts[n] \in Int /\ Amounts'[n] = Amounts[n]
      <4> SUFFICES ASSUME NEW n \in by[p] PROVE Amounts[n] \in Int /\ Amounts'[n] = Amounts[n] OBVIOUS
      <4>1. n \in DOMAIN calls /\ n \in DOMAIN calls' /\ calls[n].kind = "invoice" BY <2>1 DEF Known
      <4>2. calls[n].amount \in Nat BY <1>2, <4>1, KnownAmount
      <4> QED BY <4>1, <4>2 DEF Amounts
    <3> DEFINE old == Amounts
               new == Amounts'
               set == by[p]
    <3>3. IsFiniteSet(set) /\ \A n \in set : old[n] \in Int /\ new[n] = old[n] BY <3>1, <3>2
    <3> HIDE DEF old, new, set
    <3>4. SumOver(old, set) = SumOver(new, set) BY <3>3, SumsEqual
    <3> QED BY <3>4 DEF old, new, set
  <2> QED BY <1>7, <2>1, <2>2, <2>3
<1>8. \A p \in DOMAIN payouts' :
        /\ payouts'[p].amount \in Int /\ payouts'[p].period \in Nat \X Nat
        /\ payouts'[p].amount <= SumOver(Amounts', by[p])
        /\ \A n \in by[p] : /\ Known(n)' /\ Within(then[n], payouts'[p].period)
                            /\ invoices'[calls'[n].id].publisher = payouts'[p].publisher
  BY <1>7
<1>9. Covered(then, by)' BY <1>3, <1>5, <1>6, <1>8, Zenon DEF Covered
<1> QED BY <1>9 DEF CoverInv

LEMMA UsageIsNat ==
  ASSUME MoneyInv, NEW c, NEW period
  PROVE  GetUsage(c, period) \in Nat
<1> DEFINE w == [u \in DOMAIN usage |-> usage[u].quantity]
           set == {u \in DOMAIN usage : usage[u].capability = c /\ Within(usage[u].at, period)}
<1>1. DOMAIN usage = 1..Len(usage) /\ Len(usage) \in Nat /\ \A u \in DOMAIN usage : usage[u] \in UsageType
  BY DEF MoneyInv
<1>2. IsFiniteSet(set)
  <2>1. IsFiniteSet(1..Len(usage)) BY <1>1, FS_Interval
  <2>2. set \subseteq 1..Len(usage) BY <1>1
  <2> HIDE DEF set
  <2> QED BY <2>1, <2>2, FS_Subset
<1>3. \A u \in set : w[u] \in Nat BY <1>1 DEF UsageType
<1> HIDE DEF w, set
<1>4. SumOver(w, set) \in Nat BY <1>2, <1>3, SumIsNat
<1> QED BY <1>4 DEF GetUsage, w, set

LEMMA TotalIsNat ==
  ASSUME MoneyInv, NEW c \in Capability, NEW period
  PROVE  LET subtotal == LinesTotal(CardOf(c), GetUsage(c, period)) IN subtotal + Tax(subtotal) \in Nat
<1>1. IsRateCard(CardOf(c))
  <2>1. cards[c] \subseteq Cards BY DEF MoneyInv
  <2> QED BY <2>1, PricingAssumption, BillingAssumption DEF CardOf
<1> DEFINE subtotal == LinesTotal(CardOf(c), GetUsage(c, period))
<1>2. subtotal \in Nat BY <1>1, UsageIsNat, LinesAreNat
<1> HIDE DEF subtotal
<1> DEFINE eight == (8 * subtotal) \div 100
<1>3. eight \in Nat BY <1>2, RoundedIsNat
<1>4. Tax(subtotal) = Rounded(eight) BY DEF Tax
<1> HIDE DEF eight
<1>5. Tax(subtotal) \in Nat BY <1>3, <1>4, RoundedIsNat
<1>6. subtotal + Tax(subtotal) \in Nat BY <1>2, <1>5
<1> QED BY <1>6 DEF subtotal

LEMMA MoneyKept ==
  ASSUME BillingInv, MoneyInv, BillingStep
  PROVE  MoneyInv'
<1>1. CASE HandleRecordUsage
  <2>1. PICK c \in Capability, consumer \in Consumer, q \in Quantities : RecordUsage(c, consumer, q)
    BY <1>1 DEF HandleRecordUsage, Route
  <2> DEFINE r == [capability |-> c, consumer |-> consumer, quantity |-> q, at |-> now]
  <2>2. r \in UsageType BY BillingAssumption DEF UsageType, BillingInv, BillingShape
  <2>3. usage' = Append(usage, r) /\ UNCHANGED <<cards, invoices>> BY <2>1 DEF RecordUsage
  <2> HIDE DEF r
  <2> QED BY <2>2, <2>3 DEF MoneyInv
<1>2. CASE HandleSetRateCard
  <2>1. PICK c \in Capability, card \in Cards : SetRateCard(c, card) BY <1>2 DEF HandleSetRateCard, Route
  <2>2. cards' = [cards EXCEPT ![c] = {card}] /\ UNCHANGED <<usage, invoices>> BY <2>1 DEF SetRateCard
  <2> QED BY <2>2 DEF MoneyInv
<1>3. CASE HandleGenerateInvoice
  <2>1. PICK c \in Capability, consumer \in Consumer, period \in Periods : GenerateInvoice(c, consumer, period)
    BY <1>3 DEF HandleGenerateInvoice, Route
  <2> DEFINE subtotal == LinesTotal(CardOf(c), GetUsage(c, period))
             r == [publisher |-> ProviderOf[c], consumer |-> consumer, total |-> subtotal + Tax(subtotal),
                   status |-> "draft", issuedAt |-> now, paidAt |-> 0]
  <2>2. invoices' = Append(invoices, r) /\ UNCHANGED <<usage, cards>> BY <2>1 DEF GenerateInvoice
  <2>3. subtotal + Tax(subtotal) \in Nat BY TotalIsNat
  <2> HIDE DEF subtotal
  <2>4. r.total \in Nat BY <2>3
  <2> HIDE DEF r
  <2>5. IsList(invoices) BY DEF BillingInv, BillingShape
  <2>6. \A i \in DOMAIN invoices' : invoices'[i].total \in Nat BY <2>2, <2>4, <2>5, AppendToList DEF MoneyInv
  <2> QED BY <2>2, <2>6 DEF MoneyInv
<1>4. CASE UNCHANGED <<usage, cards>> /\ DOMAIN invoices' = DOMAIN invoices
           /\ \A i \in DOMAIN invoices : invoices'[i].total = invoices[i].total
  BY <1>4 DEF MoneyInv
<1>5. CASE UNCHANGED <<usage, cards, invoices>> BY <1>5 DEF MoneyInv
<1>6. CASE HandlePayInvoice BY <1>5, <1>6 DEF HandlePayInvoice, Route, StartPayment
<1>7. CASE HandleCreateCheckout BY <1>5, <1>7 DEF HandleCreateCheckout, Route, CreateCheckout
<1>8. CASE HandleComputePayout BY <1>5, <1>8 DEF HandleComputePayout, Route, ComputePayout
<1>9. CASE HandleSchedulePayout BY <1>5, <1>9 DEF HandleSchedulePayout, Route, SchedulePayout
<1>10. CASE HandleProcessPayout BY <1>5, <1>10 DEF HandleProcessPayout, Route, StartPayout
<1>11. CASE ProviderStep
  <2>1. PICK n \in DOMAIN calls : ProviderSettles(n) \/ Resume(n) BY <1>11 DEF ProviderStep
  <2>2. CASE ProviderSettles(n) BY <1>5, <2>2 DEF ProviderSettles
  <2>3. CASE Resume(n)
    <3>1. UNCHANGED <<usage, cards>> BY <2>3 DEF Resume
    <3>2. invoices' \in {invoices, [invoices EXCEPT ![calls[n].id].status = "paid", ![calls[n].id].paidAt = now]}
      BY <2>3 DEF Resume, MarkPaid, MarkPayout
    <3>3. \A i \in DOMAIN invoices : IsInvoice(invoices[i]) BY DEF BillingInv, BillingShape
    <3>4. DOMAIN invoices' = DOMAIN invoices /\ \A i \in DOMAIN invoices : invoices'[i].total = invoices[i].total
      BY <3>2, <3>3 DEF IsInvoice
    <3> QED BY <1>4, <3>1, <3>4
  <2> QED BY <2>1, <2>2, <2>3
<1>12. CASE SendAnInvoice
  <2>1. PICK i \in DOMAIN invoices : invoices' = [invoices EXCEPT ![i].status = "sent"] /\ UNCHANGED <<usage, cards>>
    BY <1>12 DEF SendAnInvoice, SendInvoice
  <2>2. \A j \in DOMAIN invoices : IsInvoice(invoices[j]) BY DEF BillingInv, BillingShape
  <2>3. DOMAIN invoices' = DOMAIN invoices /\ \A j \in DOMAIN invoices : invoices'[j].total = invoices[j].total
    BY <2>1, <2>2 DEF IsInvoice
  <2> QED BY <1>4, <2>1, <2>3
<1>13. CASE SweepOverdue
  <2>1. /\ DOMAIN invoices' = DOMAIN invoices /\ UNCHANGED <<usage, cards>>
        /\ \A j \in DOMAIN invoices : invoices'[j] \in {invoices[j], [invoices[j] EXCEPT !.status = "overdue"]}
    BY <1>13 DEF SweepOverdue, MarkOverdue
  <2>2. \A j \in DOMAIN invoices : IsInvoice(invoices[j]) BY DEF BillingInv, BillingShape
  <2>3. \A j \in DOMAIN invoices : invoices'[j].total = invoices[j].total BY <2>1, <2>2 DEF IsInvoice
  <2> QED BY <1>4, <2>1, <2>3
<1>14. CASE ClockTick BY <1>5, <1>14 DEF ClockTick, Tick
<1> QED BY <1>1, <1>2, <1>3, <1>6, <1>7, <1>8, <1>9, <1>10, <1>11, <1>12, <1>13, <1>14 DEF BillingStep

\* A new payout is for the payments that made the dates it counted.
LEMMA NewPayoutCovered ==
  ASSUME BillingInv, CoverInv, NEW publisher, NEW period \in Periods, ComputePayout(publisher, period)
  PROVE  \E at, by : Covered(at, by)'
<1>1. PICK at, by : Covered(at, by) BY DEF CoverInv
<1> DEFINE counted  == {i \in DOMAIN invoices : Earned(i, publisher, period)}
           total    == [i \in DOMAIN invoices |-> invoices[i].total]
           earnings == SumOver(total, counted)
           r == [publisher |-> publisher, amount |-> earnings - Fee(earnings), period |-> period,
                 count |-> Cardinality(counted), status |-> "pending"]
           new == Len(payouts) + 1
<1>2. payouts' = Append(payouts, r) /\ UNCHANGED <<now, invoices, calls>> BY DEF ComputePayout
<1>3. \A i \in counted : /\ total[i] = invoices[i].total /\ total[i] \in Nat
                         /\ invoices[i].publisher = publisher /\ Within(invoices[i].paidAt, period)
                         /\ \E n \in DOMAIN calls : Known(n) /\ calls[n].id = i /\ at[n] = invoices[i].paidAt
  <2> SUFFICES ASSUME NEW i \in counted
               PROVE  /\ total[i] = invoices[i].total /\ total[i] \in Nat
                      /\ invoices[i].publisher = publisher /\ Within(invoices[i].paidAt, period)
                      /\ \E n \in DOMAIN calls : Known(n) /\ calls[n].id = i /\ at[n] = invoices[i].paidAt
    OBVIOUS
  <2>1. i \in DOMAIN invoices /\ Earned(i, publisher, period) OBVIOUS
  <2>2. invoices[i].paidAt # 0 BY <2>1 DEF Earned, BillingInv, PaidIsCharged
  <2>3. total[i] = invoices[i].total /\ total[i] \in Nat BY <2>1 DEF CoverInv, MoneyInv
  <2> HIDE DEF counted, total
  <2> QED BY <1>1, <2>1, <2>2, <2>3 DEF Covered, Earned
<1>4. IsFiniteSet(counted)
  <2>1. counted \subseteq DOMAIN invoices OBVIOUS
  <2> HIDE DEF counted
  <2> QED BY <2>1, CallsAreFinite, FS_Subset
<1> HIDE DEF counted, total
<1> DEFINE of == [i \in counted |-> CHOOSE n \in DOMAIN calls : Known(n) /\ calls[n].id = i /\ at[n] = invoices[i].paidAt]
<1>5. \A i \in counted : /\ of[i] \in DOMAIN calls /\ Known(of[i])
                         /\ calls[of[i]].id = i /\ at[of[i]] = invoices[i].paidAt
  <2> SUFFICES ASSUME NEW i \in counted
               PROVE  /\ of[i] \in DOMAIN calls /\ Known(of[i])
                      /\ calls[of[i]].id = i /\ at[of[i]] = invoices[i].paidAt
    OBVIOUS
  <2>1. \E n \in DOMAIN calls : Known(n) /\ calls[n].id = i /\ at[n] = invoices[i].paidAt BY <1>3
  <2> QED BY <2>1
<1> HIDE DEF of
<1> DEFINE set == {of[i] : i \in counted}
<1>6. SumOver(Amounts, set) = earnings
  <2>1. \A i \in counted : Amounts[of[i]] = total[i]
    <3> SUFFICES ASSUME NEW i \in counted PROVE Amounts[of[i]] = total[i] OBVIOUS
    <3>1. of[i] \in DOMAIN calls /\ calls[of[i]].kind = "invoice" /\ calls[of[i]].id = i BY <1>5 DEF Known
    <3>2. calls[of[i]].amount = invoices[i].total BY <3>1, KnownAmount DEF CoverInv
    <3> QED BY <1>3, <3>1, <3>2 DEF Amounts
  <2>2. \A i, j \in counted : of[i] = of[j] => i = j BY <1>5
  <2>3. \A i \in counted : total[i] \in Int BY <1>3
  <2> QED BY <1>4, <2>1, <2>2, <2>3, SumOfImage
<1>7. earnings \in Nat BY <1>3, <1>4, SumIsNat
<1> HIDE DEF earnings
<1>8. r.amount \in Int /\ r.amount <= SumOver(Amounts, set)
  <2> DEFINE tenth == earnings \div 10
  <2>1. tenth \in Nat BY <1>7, RoundedIsNat
  <2>2. Fee(earnings) = Rounded(tenth) BY DEF Fee
  <2> HIDE DEF tenth
  <2>3. Fee(earnings) \in Nat BY <2>1, <2>2, RoundedIsNat
  <2> QED BY <1>6, <1>7, <2>3
<1>9. r.publisher = publisher /\ r.period = period /\ period \in Nat \X Nat BY BillingAssumption
<1>10. set \in SUBSET DOMAIN calls BY <1>5
<1>11. \A n \in set : /\ Known(n) /\ Within(at[n], period)
                      /\ invoices[calls[n].id].publisher = publisher
  BY <1>3, <1>5
<1> HIDE DEF r, set
<1>12. /\ DOMAIN payouts' = DOMAIN payouts \cup {new} /\ new \notin DOMAIN payouts
       /\ \A p \in DOMAIN payouts : payouts'[p] = payouts[p]
       /\ payouts'[new] = r
  <2>1. IsList(payouts) BY DEF BillingInv, BillingShape
  <2> QED BY <1>2, <2>1, AppendToList
<1> HIDE DEF new
<1>13. PICK then : then = [p \in DOMAIN payouts' |-> IF p = new THEN set ELSE by[p]] OBVIOUS
<1>14. at \in [DOMAIN calls' -> Nat] /\ then \in [DOMAIN payouts' -> SUBSET DOMAIN calls']
  <2>1. \A p \in DOMAIN payouts' : then[p] \in SUBSET DOMAIN calls
    BY <1>1, <1>10, <1>12, <1>13 DEF Covered
  <2> QED BY <1>1, <1>2, <1>13, <2>1 DEF Covered
<1>15. \A i \in DOMAIN invoices' : invoices'[i].paidAt # 0 =>
         \E n \in DOMAIN calls' : Known(n)' /\ calls'[n].id = i /\ at[n] = invoices'[i].paidAt
  BY <1>1, <1>2 DEF Covered, Known
<1>16. ASSUME NEW p \in DOMAIN payouts'
       PROVE  /\ payouts'[p].amount \in Int /\ payouts'[p].period \in Nat \X Nat
              /\ payouts'[p].amount <= SumOver(Amounts', then[p])
              /\ \A n \in then[p] : /\ Known(n)' /\ Within(at[n], payouts'[p].period)
                                    /\ invoices'[calls'[n].id].publisher = payouts'[p].publisher
  <2>1. Amounts' = Amounts /\ \A n : Known(n)' <=> Known(n) BY <1>2 DEF Amounts, Known
  <2>2. CASE p = new
    <3>1. payouts'[p] = r /\ then[p] = set BY <1>12, <1>13, <2>2
    <3> HIDE DEF Known
    <3> QED BY <1>2, <1>8, <1>9, <1>11, <2>1, <3>1
  <2>3. CASE p # new
    <3>1. p \in DOMAIN payouts /\ payouts'[p] = payouts[p] /\ then[p] = by[p] BY <1>12, <1>13, <1>16, <2>3
    <3> QED BY <1>1, <1>2, <2>1, <3>1 DEF Covered
  <2> QED BY <2>2, <2>3
<1>17. \A p \in DOMAIN payouts' :
         /\ payouts'[p].amount \in Int /\ payouts'[p].period \in Nat \X Nat
         /\ payouts'[p].amount <= SumOver(Amounts', then[p])
         /\ \A n \in then[p] : /\ Known(n)' /\ Within(at[n], payouts'[p].period)
                               /\ invoices'[calls'[n].id].publisher = payouts'[p].publisher
  BY <1>16
<1>18. Covered(at, then)' BY <1>14, <1>15, <1>17, Zenon DEF Covered
<1> QED BY <1>18

\* Steps that add no payout and pay no invoice.
LEMMA PlainStep ==
  ASSUME BillingInv, CoverInv, BillingInv', MoneyInv',
         DOMAIN invoices \subseteq DOMAIN invoices',
         \A i \in DOMAIN invoices : /\ invoices'[i].publisher = invoices[i].publisher
                                    /\ invoices'[i].paidAt = invoices[i].paidAt,
         \A i \in DOMAIN invoices' : i \notin DOMAIN invoices => invoices'[i].paidAt = 0,
         DOMAIN payouts' = DOMAIN payouts,
         \A p \in DOMAIN payouts : /\ payouts'[p].publisher = payouts[p].publisher
                                   /\ payouts'[p].period = payouts[p].period
                                   /\ payouts'[p].amount = payouts[p].amount,
         DOMAIN calls \subseteq DOMAIN calls',
         \A n \in DOMAIN calls : /\ calls'[n].id = calls[n].id /\ calls'[n].amount = calls[n].amount
                                 /\ Known(n) => Known(n)'
  PROVE  CoverInv'
BY CoverKept

LEMMA NewCallCovered ==
  ASSUME BillingInv, CoverInv, BillingInv', MoneyInv', NEW kind, NEW id, NEW amount, Call(kind, id, amount),
         UNCHANGED <<invoices, payouts>>
  PROVE  CoverInv'
<1>1. IsList(calls) BY DEF BillingInv, BillingShape
<1>2. /\ DOMAIN calls \subseteq DOMAIN calls'
      /\ \A n \in DOMAIN calls : calls'[n] = calls[n]
  BY <1>1, AppendToList DEF Call
<1> QED BY <1>2, PlainStep DEF Known

LEMMA AnswerCovered ==
  ASSUME BillingInv, CoverInv, BillingInv', MoneyInv', NEW n \in DOMAIN calls, Resume(n)
  PROVE  CoverInv'
<1> DEFINE call == calls[n]
<1>1. /\ ~call.resumed /\ IsCall(call) /\ calls' = [calls EXCEPT ![n].resumed = TRUE]
      /\ now' = now
      /\ (call.kind = "invoice" => MarkPaid(call)) /\ (call.kind # "invoice" => MarkPayout(call))
  BY DEF Resume, BillingInv, BillingShape
<1>2. /\ DOMAIN calls' = DOMAIN calls /\ \A m \in DOMAIN calls : m # n => calls'[m] = calls[m]
      /\ calls'[n].kind = call.kind /\ calls'[n].id = call.id /\ calls'[n].amount = call.amount
      /\ calls'[n].outcome = call.outcome /\ calls'[n].resumed = TRUE
  BY <1>1 DEF IsCall
<1>3. \A m \in DOMAIN calls : /\ calls'[m].id = calls[m].id /\ calls'[m].amount = calls[m].amount
                              /\ Known(m) => Known(m)'
  BY <1>1, <1>2 DEF Known
<1>4. CASE call.kind = "invoice" /\ call.outcome = "success"
  <2>1. /\ invoices' = [invoices EXCEPT ![call.id].status = "paid", ![call.id].paidAt = now]
        /\ UNCHANGED payouts
    BY <1>1, <1>4 DEF MarkPaid
  <2>2. \A i \in DOMAIN invoices : IsInvoice(invoices[i]) BY DEF BillingInv, BillingShape
  <2>3. /\ DOMAIN invoices' = DOMAIN invoices
        /\ \A i \in DOMAIN invoices : /\ invoices'[i].publisher = invoices[i].publisher
                                      /\ i # call.id => invoices'[i].paidAt = invoices[i].paidAt
                                      /\ i = call.id => invoices'[i].paidAt = now
    BY <2>1, <2>2 DEF IsInvoice
  <2>4. ~Known(n) /\ Known(n)' BY <1>1, <1>2, <1>4 DEF Known
  <2>5. \A i \in DOMAIN invoices' :
          \/ i \in DOMAIN invoices /\ invoices'[i].paidAt = invoices[i].paidAt
          \/ \E m \in DOMAIN calls : /\ Known(m)' /\ ~Known(m) /\ calls'[m].id = i
                                     /\ invoices'[i].paidAt = now
    BY <1>2, <2>3, <2>4
  <2> HIDE DEF Known
  <2> QED BY <1>2, <1>3, <2>1, <2>3, <2>5, CoverKept
<1>5. CASE call.kind = "invoice" /\ call.outcome # "success"
  <2>1. UNCHANGED <<invoices, payouts>> BY <1>1, <1>5 DEF MarkPaid
  <2> QED BY <1>2, <1>3, <2>1, PlainStep
<1>6. CASE call.kind # "invoice"
  <2>1. /\ UNCHANGED invoices
        /\ payouts' = [payouts EXCEPT ![call.id].status = IF call.outcome = "success" THEN "paid" ELSE "failed"]
    BY <1>1, <1>6 DEF MarkPayout
  <2>2. \A p \in DOMAIN payouts : IsPayout(payouts[p]) BY DEF BillingInv, BillingShape
  <2>3. /\ DOMAIN payouts' = DOMAIN payouts
        /\ \A p \in DOMAIN payouts : /\ payouts'[p].publisher = payouts[p].publisher
                                     /\ payouts'[p].period = payouts[p].period
                                     /\ payouts'[p].amount = payouts[p].amount
    BY <2>1, <2>2 DEF IsPayout
  <2> QED BY <1>2, <1>3, <2>1, <2>3, PlainStep
<1> QED BY <1>4, <1>5, <1>6

LEMMA CoverKeeps ==
  ASSUME BillingInv, CoverInv, BillingInv', MoneyInv', BillingStep
  PROVE  CoverInv'
<1>1. CASE UNCHANGED <<invoices, payouts, calls>> BY <1>1, PlainStep DEF Known
<1>2. CASE HandleRecordUsage BY <1>1, <1>2 DEF HandleRecordUsage, Route, RecordUsage
<1>3. CASE HandleSetRateCard BY <1>1, <1>3 DEF HandleSetRateCard, Route, SetRateCard
<1>4. CASE HandleGenerateInvoice
  <2>1. PICK c \in Capability, consumer \in Consumer, period \in Periods : GenerateInvoice(c, consumer, period)
    BY <1>4 DEF HandleGenerateInvoice, Route
  <2> DEFINE subtotal == LinesTotal(CardOf(c), GetUsage(c, period))
             r == [publisher |-> ProviderOf[c], consumer |-> consumer, total |-> subtotal + Tax(subtotal),
                   status |-> "draft", issuedAt |-> now, paidAt |-> 0]
             new == Len(invoices) + 1
  <2>2. invoices' = Append(invoices, r) /\ UNCHANGED <<payouts, calls>> BY <2>1 DEF GenerateInvoice
  <2>3. r.paidAt = 0 OBVIOUS
  <2> HIDE DEF r
  <2>4. IsList(invoices) BY DEF BillingInv, BillingShape
  <2>5. /\ DOMAIN invoices' = DOMAIN invoices \cup {new} /\ invoices'[new].paidAt = 0
        /\ \A i \in DOMAIN invoices : invoices'[i] = invoices[i]
    BY <2>2, <2>3, <2>4, AppendToList
  <2> HIDE DEF new
  <2> QED BY <2>2, <2>5, PlainStep DEF Known
<1>5. CASE HandlePayInvoice
  <2>1. PICK i \in DOMAIN invoices : Call("invoice", i, invoices[i].total) /\ UNCHANGED <<invoices, payouts>>
    BY <1>5 DEF HandlePayInvoice, Route, StartPayment
  <2> QED BY <2>1, NewCallCovered
<1>6. CASE HandleCreateCheckout BY <1>1, <1>6 DEF HandleCreateCheckout, Route, CreateCheckout
<1>7. CASE HandleComputePayout
  <2>1. PICK p \in {ProviderOf[c] : c \in Capability}, period \in Periods : ComputePayout(p, period)
    BY <1>7 DEF HandleComputePayout, Route
  <2>2. \E at, by : Covered(at, by)' BY <2>1, NewPayoutCovered
  <2> QED BY <2>2 DEF CoverInv
<1>8. CASE HandleSchedulePayout
  <2>1. PICK p \in DOMAIN payouts : payouts' = [payouts EXCEPT ![p].status = "scheduled"] /\ UNCHANGED <<invoices, calls>>
    BY <1>8 DEF HandleSchedulePayout, Route, SchedulePayout
  <2>2. \A q \in DOMAIN payouts : IsPayout(payouts[q]) BY DEF BillingInv, BillingShape
  <2>3. /\ DOMAIN payouts' = DOMAIN payouts
        /\ \A q \in DOMAIN payouts : /\ payouts'[q].publisher = payouts[q].publisher
                                     /\ payouts'[q].period = payouts[q].period
                                     /\ payouts'[q].amount = payouts[q].amount
    BY <2>1, <2>2 DEF IsPayout
  <2> QED BY <2>1, <2>3, PlainStep DEF Known
<1>9. CASE HandleProcessPayout
  <2>1. PICK p \in DOMAIN payouts : Call("payout", p, payouts[p].amount) /\ UNCHANGED <<invoices, payouts>>
    BY <1>9 DEF HandleProcessPayout, Route, StartPayout
  <2> QED BY <2>1, NewCallCovered
<1>10. CASE ProviderStep
  <2>1. PICK n \in DOMAIN calls : ProviderSettles(n) \/ Resume(n) BY <1>10 DEF ProviderStep
  <2>2. CASE ProviderSettles(n)
    <3>1. PICK outcome \in {"success", "declined"} : calls' = [calls EXCEPT ![n].outcome = outcome]
      BY <2>2 DEF ProviderSettles
    <3>2. IsCall(calls[n]) /\ calls[n].outcome = Unset /\ UNCHANGED <<invoices, payouts>>
      BY <2>2 DEF ProviderSettles, BillingInv, BillingShape
    <3>3. /\ DOMAIN calls' = DOMAIN calls /\ \A m \in DOMAIN calls : m # n => calls'[m] = calls[m]
          /\ calls'[n].id = calls[n].id /\ calls'[n].amount = calls[n].amount
      BY <3>1, <3>2 DEF IsCall
    <3>4. \A m \in DOMAIN calls : Known(m) => Known(m)' BY <3>2, <3>3, OutcomeAssumption DEF Known
    <3> QED BY <3>2, <3>3, <3>4, PlainStep
  <2>3. CASE Resume(n) BY <2>3, AnswerCovered
  <2> QED BY <2>1, <2>2, <2>3
<1>11. CASE SendAnInvoice
  <2>1. PICK i \in DOMAIN invoices : invoices' = [invoices EXCEPT ![i].status = "sent"] /\ UNCHANGED <<payouts, calls>>
    BY <1>11 DEF SendAnInvoice, SendInvoice
  <2>2. \A j \in DOMAIN invoices : IsInvoice(invoices[j]) BY DEF BillingInv, BillingShape
  <2>3. /\ DOMAIN invoices' = DOMAIN invoices
        /\ \A j \in DOMAIN invoices : /\ invoices'[j].publisher = invoices[j].publisher
                                      /\ invoices'[j].paidAt = invoices[j].paidAt
    BY <2>1, <2>2 DEF IsInvoice
  <2> QED BY <2>1, <2>3, PlainStep DEF Known
<1>12. CASE SweepOverdue
  <2>1. /\ DOMAIN invoices' = DOMAIN invoices /\ UNCHANGED <<payouts, calls>>
        /\ \A j \in DOMAIN invoices : invoices'[j] \in {invoices[j], [invoices[j] EXCEPT !.status = "overdue"]}
    BY <1>12 DEF SweepOverdue, MarkOverdue
  <2>2. \A j \in DOMAIN invoices : IsInvoice(invoices[j]) BY DEF BillingInv, BillingShape
  <2>3. \A j \in DOMAIN invoices : /\ invoices'[j].publisher = invoices[j].publisher
                                   /\ invoices'[j].paidAt = invoices[j].paidAt
    BY <2>1, <2>2 DEF IsInvoice
  <2> QED BY <2>1, <2>3, PlainStep DEF Known
<1>13. CASE ClockTick BY <1>1, <1>13 DEF ClockTick, Tick
<1> QED BY <1>2, <1>3, <1>4, <1>5, <1>6, <1>7, <1>8, <1>9, <1>10, <1>11, <1>12, <1>13 DEF BillingStep

LEMMA CoveredPayouts ==
  ASSUME BillingInv, CoverInv
  PROVE  DisjointPayoutsAreCovered
<1> SUFFICES ASSUME NEW set \in SUBSET (DOMAIN payouts), set # {},
                    \A p, q \in set : /\ payouts[p].publisher = payouts[q].publisher
                                      /\ p = q \/ Disjoint(payouts[p].period, payouts[q].period)
             PROVE  SumOver([p \in DOMAIN payouts |-> payouts[p].amount], set)
                      <= ChargedFor(payouts[CHOOSE p \in set : TRUE].publisher)
  BY DEF DisjointPayoutsAreCovered
<1>1. PICK at, by : Covered(at, by) BY DEF CoverInv
<1> DEFINE publisher == payouts[CHOOSE p \in set : TRUE].publisher
           v == [p \in DOMAIN payouts |-> payouts[p].amount]
           w == Amounts
           charged == {n \in DOMAIN calls : /\ calls[n].kind = "invoice" /\ calls[n].outcome = "success"
                                            /\ invoices[calls[n].id].publisher = publisher}
<1>2. \A p \in set : payouts[p].publisher = publisher OBVIOUS
<1>3. ChargedFor(publisher) = SumOver(w, charged) BY DEF ChargedFor, Amounts
<1> HIDE DEF publisher
<1>4. IsFiniteSet(set) /\ IsFiniteSet(charged)
  <2>1. charged \subseteq DOMAIN calls OBVIOUS
  <2> HIDE DEF charged
  <2> QED BY <2>1, CallsAreFinite, FS_Subset
<1>5. \A p \in set : v[p] \in Int /\ v[p] <= SumOver(w, by[p]) BY <1>1 DEF Covered
<1>6. \A p \in set : by[p] \subseteq charged BY <1>1, <1>2 DEF Covered, Known
<1>7. \A n \in charged : w[n] \in Nat
  <2> SUFFICES ASSUME NEW n \in charged PROVE w[n] \in Nat OBVIOUS
  <2>1. n \in DOMAIN calls /\ calls[n].kind = "invoice" OBVIOUS
  <2>2. calls[n].amount \in Nat BY <2>1, KnownAmount DEF CoverInv
  <2> QED BY <2>1, <2>2 DEF Amounts
<1>8. \A p, q \in set : p # q => by[p] \cap by[q] = {}
  <2> SUFFICES ASSUME NEW p \in set, NEW q \in set, p # q, NEW n \in by[p], n \in by[q] PROVE FALSE
    OBVIOUS
  <2>1. /\ payouts[p].period \in Nat \X Nat /\ Within(at[n], payouts[p].period)
        /\ payouts[q].period \in Nat \X Nat /\ Within(at[n], payouts[q].period)
        /\ n \in DOMAIN calls /\ at[n] \in Nat
    BY <1>1 DEF Covered
  <2>2. Disjoint(payouts[p].period, payouts[q].period) OBVIOUS
  <2> DEFINE a == payouts[p].period
             b == payouts[q].period
  <2>3. a[1] \in Nat /\ a[2] \in Nat /\ b[1] \in Nat /\ b[2] \in Nat BY <2>1
  <2> QED BY <2>1, <2>2, <2>3 DEF Disjoint, Within
<1> HIDE DEF v, w, charged
<1>9. SumOver(v, set) <= SumOver(w, charged) BY <1>4, <1>5, <1>6, <1>7, <1>8, SumOfParts
<1> QED BY <1>3, <1>9 DEF v, publisher

\* computePayout, processPayment: payouts of a publisher for periods that do not
\* meet add up to no more than was charged for its invoices, for any number of
\* invoices, payouts and calls, whatever is charged twice and whenever it is paid.
THEOREM PayoutsCovered == ServerSpec => []DisjointPayoutsAreCovered
<1> DEFINE Inv == BillingInv /\ CoverInv
<1>1. ServerInit => Inv
  <2> SUFFICES ASSUME ServerInit PROVE Inv OBVIOUS
  <2>1. BillingInv
    BY DEF ServerInit, BillingInit, BillingInv, BillingShape, CallsMatch, PaidIsCharged, IsList
  <2>2. MoneyInv BY DEF ServerInit, BillingInit, MoneyInv
  <2>3. Covered(<<>>, <<>>) BY DEF ServerInit, BillingInit, Covered
  <2> QED BY <2>1, <2>2, <2>3 DEF CoverInv
<1>2. Inv /\ [ServerNext]_serverVars => Inv'
  <2> SUFFICES ASSUME Inv, [ServerNext]_serverVars PROVE Inv' OBVIOUS
  <2>1. CASE UNCHANGED billingVars
    <3>1. BillingInv'
      BY <2>1 DEF billingVars, BillingInv, BillingShape, CallsMatch, PaidIsCharged, IsList,
                  IsInvoice, IsPayout, IsCall, Charged
    <3>2. MoneyInv' BY <2>1 DEF billingVars, CoverInv, MoneyInv
    <3>3. UNCHANGED <<invoices, payouts, calls>> BY <2>1 DEF billingVars
    <3> QED BY <3>1, <3>2, <3>3, PlainStep DEF Known
  <2>2. CASE BillingStep
    <3>1. BillingInv' BY <2>2, BillingKeeps
    <3>2. MoneyInv' BY <2>2, MoneyKept DEF CoverInv
    <3> QED BY <2>2, <3>1, <3>2, CoverKeeps
  <2> QED BY <2>1, <2>2, RoutesKeepApart DEF serverVars
<1>3. Inv => DisjointPayoutsAreCovered BY CoveredPayouts
<1> HIDE DEF Inv
<1> QED BY <1>1, <1>2, <1>3, PTL DEF ServerSpec

=============================================================================
