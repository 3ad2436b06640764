------------------------ MODULE BreakerCallersProofs ------------------------
(***************************************************************************)
(* Proofs about BreakerCallers, for every set of callers and every value   *)
(* of the options.                                                         *)
(***************************************************************************)
EXTENDS BreakerCallers, FiniteSetTheorems, TLAPS

\* The methods of a breaker return a breaker.
LEMMA MethodsType ==
  ASSUME NEW b \in Breaker
  PROVE  /\ NewBreaker \in Breaker
         /\ AfterAllow(b) \in Breaker
         /\ AfterSuccess(b) \in Breaker
         /\ AfterFailure(b) \in Breaker
         /\ AfterCooldown(b) \in Breaker
  <1>1. NewBreaker \in Breaker
    BY DEF NewBreaker, Breaker, CircuitState
  <1>2. AfterAllow(b) \in Breaker
    BY DEF AfterAllow, Breaker, CircuitState
  <1>3. AfterSuccess(b) \in Breaker
    BY DEF AfterSuccess, Breaker, CircuitState
  <1>4. AfterFailure(b) \in Breaker
    BY DEF AfterFailure, Breaker, CircuitState
  <1>5. AfterCooldown(b) \in Breaker
    BY DEF AfterCooldown, Breaker
  <1>6. QED
    BY <1>1, <1>2, <1>3, <1>4, <1>5

\* The bookkeeping of grants returns grants.
LEMMA GrantsType ==
  ASSUME NEW g \in Grants, NEW b, NEW b2
  PROVE  /\ GrantOf(b) \in Grants
         /\ Aged(g, b, b2) \in Grants
         /\ Dropped(g) \in Grants
  BY DEF GrantOf, Aged, Dropped, Grants

\* Every value of the variables has its type.
THEOREM TypeCorrect == CallersSpec => []CallersTypeOK
  <1>1. CallersInit => CallersTypeOK
    BY MethodsType DEF CallersInit, CallersTypeOK, Grants, NewBreaker, Breaker, CircuitState
  <1>2. CallersTypeOK /\ [CallersNext]_callersVars => CallersTypeOK'
    <2> SUFFICES ASSUME CallersTypeOK, [CallersNext]_callersVars PROVE CallersTypeOK'
      OBVIOUS
    <2> USE DEF CallersTypeOK
    <2>1. ASSUME NEW c \in Caller, Admit(c) PROVE CallersTypeOK'
      BY <2>1, MethodsType, GrantsType DEF Admit, GrantOf, Grants
    <2>2. ASSUME NEW c \in Caller, Refuse(c) PROVE CallersTypeOK'
      BY <2>2 DEF Refuse, Grants
    <2>3. ASSUME NEW c \in Caller, NEW b2 \in Breaker, Report(c, b2)
          PROVE  CallersTypeOK'
      BY <2>3 DEF Report, Grants, Aged
    <2>4. ASSUME NEW c \in Caller, Succeed(c) \/ Fail(c) PROVE CallersTypeOK'
      BY <2>4, <2>3, MethodsType DEF Succeed, Fail
    <2>5. ASSUME NEW c \in Caller, ReportDetached(c) \/ Abandon(c) PROVE CallersTypeOK'
      BY <2>5 DEF ReportDetached, Abandon, Grants
    <2>6. CASE Cooldown
      BY <2>6, MethodsType DEF Cooldown
    <2>7. CASE Replace
      BY <2>7, MethodsType DEF Replace, Dropped, Grants
    <2>8. CASE UNCHANGED callersVars
      BY <2>8 DEF callersVars
    <2>9. QED
      BY <2>1, <2>2, <2>4, <2>5, <2>6, <2>7, <2>8 DEF CallersNext
  <1>3. QED
    BY <1>1, <1>2, PTL DEF CallersSpec

-----------------------------------------------------------------------------

\* A CLOSED breaker is below its threshold: inductive with the type alone.
THEOREM BelowThreshold == CallersSpec => []ClosedBelowThreshold
  <1>1. CallersInit => ClosedBelowThreshold
    BY OptionsAssumption DEF CallersInit, ClosedBelowThreshold, NewBreaker
  <1>2. CallersTypeOK /\ ClosedBelowThreshold /\ [CallersNext]_callersVars => ClosedBelowThreshold'
    <2> SUFFICES ASSUME CallersTypeOK, ClosedBelowThreshold, [CallersNext]_callersVars
                 PROVE  ClosedBelowThreshold'
      OBVIOUS
    <2> USE OptionsAssumption DEF CallersTypeOK, ClosedBelowThreshold, Breaker
    <2>1. ASSUME NEW c \in Caller, Admit(c) PROVE ClosedBelowThreshold'
      BY <2>1 DEF Admit, AfterAllow
    <2>2. ASSUME NEW c \in Caller, Succeed(c) PROVE ClosedBelowThreshold'
      BY <2>2 DEF Succeed, Report, AfterSuccess
    <2>3. ASSUME NEW c \in Caller, Fail(c) PROVE ClosedBelowThreshold'
      BY <2>3 DEF Fail, Report, AfterFailure
    <2>4. CASE UNCHANGED breaker
      BY <2>4
    <2>5. CASE Cooldown
      BY <2>5 DEF Cooldown, Cooling, AfterCooldown
    <2>6. CASE Replace
      BY <2>6 DEF Replace, NewBreaker
    <2>7. QED
      BY <2>1, <2>2, <2>3, <2>4, <2>5, <2>6
         DEF CallersNext, Refuse, ReportDetached, Abandon, callersVars
  <1>3. QED
    BY <1>1, <1>2, TypeCorrect, PTL DEF CallersSpec

-----------------------------------------------------------------------------

\* Any report ends the spell, and with it every probe's claim to be one.
LEMMA ReportEndsTheSpell ==
  ASSUME CallersTypeOK, NEW c \in Caller, Succeed(c) \/ Fail(c),
         breaker.state # "HALF_OPEN" => Probes = {}
  PROVE  /\ breaker'.state # "HALF_OPEN"
         /\ Probes' = {}
  <1>1. PICK b2 \in {AfterSuccess(breaker), AfterFailure(breaker)} : Report(c, b2)
    BY DEF Succeed, Fail
  <1>2. b2.state # "HALF_OPEN"
    BY DEF AfterSuccess, AfterFailure, CallersTypeOK, Breaker, CircuitState
  <1>3. breaker' = b2
    BY <1>1 DEF Report
  <1>4. ASSUME NEW d \in Caller PROVE grant'[d] # "probe"
    <2>1. CASE breaker.state = "HALF_OPEN"
      BY <1>1, <1>2, <2>1 DEF Report, Aged
    <2>2. CASE breaker.state # "HALF_OPEN"
      <3>1. grant[d] # "probe"
        BY <2>2 DEF Probes
      <3>2. QED
        BY <1>1, <2>2, <3>1 DEF Report, Aged
    <2>3. QED
      BY <2>1, <2>2
  <1>5. QED
    BY <1>2, <1>3, <1>4 DEF Probes

\* Letting a caller through in a HALF_OPEN spell, or by beginning one, adds
\* that caller to the probes; while CLOSED it adds none.
LEMMA AdmitAddsAProbe ==
  ASSUME CallersTypeOK, NEW c \in Caller, Admit(c)
  PROVE  Probes' = IF breaker.state = "CLOSED" THEN Probes ELSE Probes \union {c}
  <1>1. grant' = [grant EXCEPT ![c] = GrantOf(breaker)]
    BY DEF Admit
  <1>2. grant[c] = "none" /\ grant \in [Caller -> Grants]
    BY DEF Admit, CallersTypeOK
  <1>3. \A d \in Caller : grant'[d] = IF d = c THEN GrantOf(breaker) ELSE grant[d]
    BY <1>1, <1>2
  <1>4. CASE breaker.state = "CLOSED"
    BY <1>2, <1>3, <1>4 DEF Probes, GrantOf
  <1>5. CASE breaker.state # "CLOSED"
    BY <1>2, <1>3, <1>5 DEF Probes, GrantOf
  <1>6. QED
    BY <1>4, <1>5

LEMMA ProbesFinite == IsFiniteSet(Probes) /\ Cardinality(Probes) \in Nat
  BY CallersAssumption, FS_Subset, FS_CardinalityType DEF Probes

\* The counter bounds the probes that are out, in every spell.
THEOREM SpellLimit == CallersSpec => []SpellWithinLimit
  <1>1. CallersInit => SpellWithinLimit
    BY DEF CallersInit, SpellWithinLimit, NewBreaker, Probes
  <1>2. CallersTypeOK /\ SpellWithinLimit /\ [CallersNext]_callersVars => SpellWithinLimit'
    <2> SUFFICES ASSUME CallersTypeOK, SpellWithinLimit, [CallersNext]_callersVars
                 PROVE  SpellWithinLimit'
      OBVIOUS
    <2>1. ASSUME NEW c \in Caller, Admit(c) PROVE SpellWithinLimit'
      <3>1. Probes' = IF breaker.state = "CLOSED" THEN Probes ELSE Probes \union {c}
        BY <2>1, AdmitAddsAProbe
      <3>2. CASE breaker.state = "CLOSED"
        BY <2>1, <3>1, <3>2 DEF Admit, AfterAllow, SpellWithinLimit
      <3>3. CASE breaker.state = "OPEN"
        <4>1. Probes' = {c}
          BY <3>1, <3>3 DEF SpellWithinLimit
        <4>2. Cardinality({c}) = 1
          BY FS_Singleton
        <4>3. breaker'.state = "HALF_OPEN" /\ breaker'.halfOpenAccepted = 1
          BY <2>1, <3>3 DEF Admit, AfterAllow
        <4>4. QED
          BY <4>1, <4>2, <4>3, OptionsAssumption DEF SpellWithinLimit
      <3>4. CASE breaker.state = "HALF_OPEN"
        <4>1. c \notin Probes /\ Probes' = Probes \union {c}
          BY <2>1, <3>1, <3>4 DEF Admit, Probes
        <4>2. Cardinality(Probes') = Cardinality(Probes) + 1
          BY <4>1, ProbesFinite, FS_AddElement
        <4>3. /\ breaker'.state = "HALF_OPEN"
              /\ breaker'.halfOpenAccepted = breaker.halfOpenAccepted + 1
              /\ breaker.halfOpenAccepted < HalfOpenMax
          BY <2>1, <3>4 DEF Admit, Allows, AfterAllow
        <4>4. breaker.halfOpenAccepted \in Nat
          BY DEF CallersTypeOK, Breaker
        <4>5. QED
          BY <3>4, <4>2, <4>3, <4>4, ProbesFinite, OptionsAssumption
             DEF SpellWithinLimit
      <3>5. QED
        BY <3>2, <3>3, <3>4 DEF CallersTypeOK, Breaker, CircuitState
    <2>2. ASSUME NEW c \in Caller, Succeed(c) \/ Fail(c) PROVE SpellWithinLimit'
      <3>1. breaker'.state # "HALF_OPEN" /\ Probes' = {}
        BY <2>2, ReportEndsTheSpell DEF SpellWithinLimit
      <3>2. QED
        BY <3>1 DEF SpellWithinLimit
    <2>3. ASSUME NEW c \in Caller, Refuse(c) \/ ReportDetached(c) \/ Abandon(c)
          PROVE  SpellWithinLimit'
      <3>1. Probes' \subseteq Probes /\ breaker' = breaker
        BY <2>3 DEF Refuse, ReportDetached, Abandon, Probes, CallersTypeOK
      <3>2. Cardinality(Probes') <= Cardinality(Probes) /\ Cardinality(Probes') \in Nat
        BY <3>1, ProbesFinite, FS_Subset, FS_CardinalityType
      <3>3. breaker.halfOpenAccepted \in Nat
        BY DEF CallersTypeOK, Breaker
      <3>4. QED
        BY <3>1, <3>2, <3>3, ProbesFinite, OptionsAssumption DEF SpellWithinLimit
    <2>4. CASE Cooldown
      BY <2>4 DEF Cooldown, Cooling, AfterCooldown, SpellWithinLimit, Probes,
                  CallersTypeOK, Breaker
    <2>5. CASE Replace
      BY <2>5 DEF Replace, NewBreaker, Dropped, Live, SpellWithinLimit, Probes
    <2>6. CASE UNCHANGED callersVars
      BY <2>6 DEF callersVars, SpellWithinLimit, Probes
    <2>7. QED
      BY <2>1, <2>2, <2>3, <2>4, <2>5, <2>6 DEF CallersNext
  <1>3. QED
    BY <1>1, <1>2, TypeCorrect, PTL DEF CallersSpec

-----------------------------------------------------------------------------

\* A HALF_OPEN breaker has a probe out that will decide it, or a caller that
\* was let through left without a report.
THEOREM DecisionComes == CallersSpec => []SomebodyWillDecide
  <1>1. CallersInit => SomebodyWillDecide
    BY DEF CallersInit, SomebodyWillDecide, NewBreaker
  <1>2. CallersTypeOK /\ SpellWithinLimit /\ SomebodyWillDecide /\ [CallersNext]_callersVars
          => SomebodyWillDecide'
    <2> SUFFICES ASSUME CallersTypeOK, SpellWithinLimit, SomebodyWillDecide, [CallersNext]_callersVars
                 PROVE  SomebodyWillDecide'
      OBVIOUS
    <2>1. ASSUME NEW c \in Caller, Admit(c) PROVE SomebodyWillDecide'
      <3>1. CASE breaker.state = "CLOSED"
        BY <2>1, <3>1 DEF Admit, AfterAllow, SomebodyWillDecide
      <3>2. CASE breaker.state # "CLOSED"
        <4>1. grant'[c] = "probe"
          BY <2>1, <3>2 DEF Admit, GrantOf, CallersTypeOK
        <4>2. QED
          BY <4>1 DEF SomebodyWillDecide
      <3>3. QED
        BY <3>1, <3>2
    <2>2. ASSUME NEW c \in Caller, Succeed(c) \/ Fail(c) PROVE SomebodyWillDecide'
      BY <2>2, ReportEndsTheSpell DEF SomebodyWillDecide, SpellWithinLimit
    <2>3. ASSUME NEW c \in Caller, Refuse(c) \/ ReportDetached(c) \/ Abandon(c)
          PROVE  SomebodyWillDecide'
      <3>1. breaker' = breaker
        BY <2>3 DEF Refuse, ReportDetached, Abandon
      <3>2. ASSUME NEW d \in Caller, grant[d] \in {"probe", "abandoned"}
            PROVE  grant'[d] \in {"probe", "abandoned"}
        BY <2>3, <3>2 DEF Refuse, ReportDetached, Abandon, CallersTypeOK
      <3>3. QED
        BY <3>1, <3>2 DEF SomebodyWillDecide
    <2>4. CASE Cooldown
      BY <2>4 DEF Cooldown, Cooling, AfterCooldown, SomebodyWillDecide, CallersTypeOK,
                  Breaker
    <2>5. CASE Replace
      BY <2>5 DEF Replace, NewBreaker, SomebodyWillDecide
    <2>6. CASE UNCHANGED callersVars
      BY <2>6 DEF callersVars, SomebodyWillDecide
    <2>7. QED
      BY <2>1, <2>2, <2>3, <2>4, <2>5, <2>6 DEF CallersNext
  <1>3. QED
    BY <1>1, <1>2, TypeCorrect, SpellLimit, PTL DEF CallersSpec

\* An OPEN circuit becomes CLOSED only by the replacement of its object.
THEOREM NoShortcut == CallersSpec => NoShortcutToClosed
  <1>1. CallersTypeOK /\ [CallersNext]_callersVars =>
          [ breaker.state = "OPEN" /\ breaker'.state = "CLOSED"
            => breaker' = NewBreaker /\ \A c \in Caller : ~Outstanding(c)' ]_callersVars
    <2> SUFFICES ASSUME CallersTypeOK, CallersNext,
                        breaker.state = "OPEN", breaker'.state = "CLOSED"
                 PROVE  breaker' = NewBreaker /\ \A c \in Caller : ~Outstanding(c)'
      OBVIOUS
    <2>1. Replace
      BY DEF CallersNext, Admit, Refuse, Succeed, Fail, Report, ReportDetached, Abandon,
             Cooldown, AfterAllow, AfterSuccess, AfterFailure, AfterCooldown,
             CallersTypeOK, Breaker
    <2>2. QED
      BY <2>1 DEF Replace, Dropped, Outstanding, Live
  <1>2. QED
    BY <1>1, TypeCorrect, PTL DEF CallersSpec, NoShortcutToClosed

=============================================================================
