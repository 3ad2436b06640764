-------------------------- MODULE ReputationOracle --------------------------
(***************************************************************************)
(* ReputationOracle (registry/src/reputation-oracle.ts): the attestations  *)
(* of each capability, at most one per attestor, and the aggregate that is *)
(* recomputed when one is submitted or pruned, not when one expires.  The  *)
(* clock is abstracted: an attestation is valid until an Expire step,      *)
(* which no code runs.  lastAttestedAt is left out.                        *)
(*                                                                         *)
(* TrustScore is the TrustEngine's (registry/src/trust-engine.ts), with    *)
(* scores of 0..100 and the weights in percent.                            *)
(***************************************************************************)
EXTENDS Integers, FiniteSets, FiniteSetsExt

CONSTANTS Subjects,          \* capability ids
          Attestors, Scores,
          MinAttestations    \* minAttestations, 1 in the code

VARIABLES attestations,      \* Subjects -> the attestations, expired ones included
          expired,           \* those whose expiresAt has passed
          aggregates         \* Subjects -> the aggregate, {} when there is none

oracleVars == <<attestations, expired, aggregates>>

OracleInit ==
  /\ attestations = [s \in Subjects |-> {}]
  /\ expired      = [s \in Subjects |-> {}]
  /\ aggregates   = [s \in Subjects |-> {}]

\* getAttestations
Valid(s) == attestations[s] \ expired[s]

\* recomputeAggregate: Math.round of the mean, and the count.
Aggregate(list) ==
  IF list = {} THEN {}
  ELSE {[average |-> (2 * MapThenSumSet(LAMBDA a : a.score, list) + Cardinality(list))
                       \div (2 * Cardinality(list)),
         count   |-> Cardinality(list)]}

ByAttestor(attestor, list) == {a \in list : a.attestor = attestor}

Stored(s, attestor, score) ==
  /\ attestations' = [attestations EXCEPT ![s] =
       (@ \ ByAttestor(attestor, @)) \cup {[attestor |-> attestor, score |-> score]}]
  /\ expired' = [expired EXCEPT ![s] = @ \ ByAttestor(attestor, @)]

\* Mutant: the attestation is stored and the aggregate left as it was.
StoreOnly(s, attestor, score) == Stored(s, attestor, score) /\ UNCHANGED aggregates

\* submitAttestation: one that has expired is dropped, another replaces the attestor's.
SubmitAttestation(s, attestor, score) ==
  /\ Stored(s, attestor, score)
  /\ aggregates' = [aggregates EXCEPT ![s] = Aggregate(Valid(s)')]

\* getAggregate recomputes an aggregate that is missing and nothing else.
GetAggregate(s) ==
  /\ aggregates' = [aggregates EXCEPT ![s] = IF @ = {} THEN Aggregate(Valid(s)) ELSE @]
  /\ UNCHANGED <<attestations, expired>>

\* What getAggregate returns: null below minAttestations.
Answered(s) == {g \in aggregates[s] : g.count >= MinAttestations}

PruneExpired ==
  /\ attestations' = [s \in Subjects |-> Valid(s)]
  /\ expired'      = [s \in Subjects |-> {}]
  /\ aggregates'   = [s \in Subjects |-> Aggregate(Valid(s))]

\* Time passes the expiresAt of one attestation.
Expire(s, attestor) ==
  /\ ByAttestor(attestor, Valid(s)) # {}
  /\ expired' = [expired EXCEPT ![s] = @ \cup ByAttestor(attestor, attestations[s])]
  /\ UNCHANGED <<attestations, aggregates>>

UptimeScore(days) ==
  IF days >= 90 THEN 100 ELSE IF days >= 30 THEN 80 ELSE IF days >= 7 THEN 60
  ELSE IF days >= 1 THEN 40 ELSE 20

RecencyScore(days) ==
  IF days <= 1 THEN 100 ELSE IF days <= 7 THEN 80 ELSE IF days <= 30 THEN 60
  ELSE IF days <= 90 THEN 40 ELSE 20

VerificationBonus == [verified |-> 100, pending |-> 60, unverified |-> 30, none |-> 0]

\* computeScore: the weighted mean of the five factors, rounded and clamped.
TrustScore(base, verification, attested, uptime, updated) ==
  LET sum == 30 * base + 20 * VerificationBonus[verification] + 25 * attested
               + 15 * UptimeScore(uptime) + 10 * RecencyScore(updated)
      overall == (sum + 50) \div 100
  IN IF overall > 100 THEN 100 ELSE IF overall < 0 THEN 0 ELSE overall

(***************************************************************************)
(* An aggregate is that of the attestations that were valid at some moment *)
(* since the last one was submitted: of a set between those valid now and  *)
(* those stored.  So it never misses a valid attestation, never counts a   *)
(* replaced one, and is absent only if none is valid.                      *)
(***************************************************************************)
AggregatesAreOfAMoment ==
  \A s \in Subjects :
    \E set \in SUBSET attestations[s] :
      /\ Valid(s) \subseteq set
      /\ aggregates[s] = Aggregate(set)

=============================================================================
