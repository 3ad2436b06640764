----------------------------- MODULE ListProofs -----------------------------
(***************************************************************************)
(* What the proofs of the components need to know of lists, of sums and of *)
(* induction.  Induction over the numbers up to k is stated for a set of   *)
(* them, and proved from the least number outside the set, so that no step *)
(* needs a predicate as a parameter.                                       *)
(***************************************************************************)
EXTENDS Lists, Integers, SequencesExt, FiniteSetTheorems, NaturalsInduction, WellFoundedInduction, TLAPS

\* A set of natural numbers that is not empty has a least element.
LEMMA LeastElement ==
  ASSUME NEW T \in SUBSET Nat, T # {}
  PROVE  \E m \in T : \A n \in T : m <= n
<1> DEFINE R == OpToRel(<, Nat)
<1>1. IsWellFoundedOn(R, Nat) BY NatLessThanWellFounded
<1> HIDE DEF R
<1>2. PICK m \in T : \A n \in T : <<n, m>> \notin R BY <1>1, WFMin, Zenon
<1>3. \A n \in T : ~(n < m) BY <1>2 DEF R, OpToRel
<1> QED BY <1>2, <1>3

\* Induction up to k: a set with 0 and with n whenever it has n - 1 has all.
LEMMA UpTo ==
  ASSUME NEW k \in Nat, NEW T, 0 \in T, \A n \in 1..k : n - 1 \in T => n \in T
  PROVE  \A n \in 0..k : n \in T
<1> DEFINE U == {n \in 0..k : n \notin T}
<1> SUFFICES ASSUME U # {} PROVE FALSE OBVIOUS
<1>1. PICK m \in U : \A n \in U : m <= n
  <2>1. U \in SUBSET Nat OBVIOUS
  <2> HIDE DEF U
  <2> QED BY <2>1, LeastElement
<1>2. m # 0 OBVIOUS
<1>3. m \in 1..k /\ m - 1 \in 0..k /\ m - 1 < m BY <1>2
<1>4. m - 1 \in T BY <1>1, <1>3
<1> QED BY <1>3, <1>4

\* The elements of a longer list.
LEMMA AppendElements ==
  ASSUME NEW S, NEW list \in Seq(S), NEW x \in S
  PROVE  /\ Append(list, x) \in Seq(S)
         /\ ToSet(Append(list, x)) = ToSet(list) \cup {x}
<1> DEFINE longer == Append(list, x)
<1>1. /\ longer \in Seq(S) /\ DOMAIN list = 1..Len(list) /\ DOMAIN longer = 1..(Len(list) + 1)
      /\ \A i \in 1..Len(list) : longer[i] = list[i]
      /\ longer[Len(list) + 1] = x
      /\ Len(list) \in Nat
  OBVIOUS
<1> HIDE DEF longer
<1>2. \A i \in 1..(Len(list) + 1) : i = Len(list) + 1 \/ i \in 1..Len(list) BY <1>1
<1>3. \A i \in 1..Len(list) : i \in 1..(Len(list) + 1) BY <1>1
<1>4. Len(list) + 1 \in 1..(Len(list) + 1) BY <1>1
<1>5. ToSet(longer) = ToSet(list) \cup {x} BY <1>1, <1>2, <1>3, <1>4 DEF ToSet
<1> QED BY <1>1, <1>5 DEF longer

\* What a loop of k rounds makes of base: the states before its first round and
\* after each.
IsLoop(f, k, base, Round) ==
  f = [n \in 0..k |-> IF n = 0 THEN base ELSE Round[<<f[n - 1], n>>]]

\* There are such states if every round makes of a member of S another one.
LEMMA Loop ==
  ASSUME NEW k \in Nat, NEW S, NEW base \in S, NEW Round \in [S \X (1..k) -> S]
  PROVE  \E f \in [0..k -> S] : IsLoop(f, k, base, Round)
<1> DEFINE IsRun(f, m) ==
      /\ f \in [0..m -> S]
      /\ f = [n \in 0..m |-> IF n = 0 THEN base ELSE Round[<<f[n - 1], n>>]]
           T == {m \in 0..k : \E f : IsRun(f, m)}
<1>1. 0 \in T
  <2> DEFINE h == [n \in 0..0 |-> base]
  <2>1. IsRun(h, 0) OBVIOUS
  <2> HIDE DEF h, IsRun
  <2> QED BY <2>1
<1>2. ASSUME NEW m \in 1..k, m - 1 \in T PROVE m \in T
  <2>1. PICK f : IsRun(f, m - 1) BY <1>2
  <2> DEFINE h == [n \in 0..m |-> IF n = m THEN Round[<<f[m - 1], m>>] ELSE f[n]]
  <2>2. Round[<<f[m - 1], m>>] \in S
    <3>1. f[m - 1] \in S BY <2>1
    <3> QED BY <3>1
  <2>3. \A n \in 0..m : n # m => n \in 0..(m - 1) OBVIOUS
  <2>4. h \in [0..m -> S] BY <2>1, <2>2, <2>3
  <2>5. \A n \in 0..m : h[n] = IF n = 0 THEN base ELSE Round[<<h[n - 1], n>>]
    <3> SUFFICES ASSUME NEW n \in 0..m
                 PROVE  h[n] = IF n = 0 THEN base ELSE Round[<<h[n - 1], n>>]
      OBVIOUS
    <3>1. CASE n = 0 BY <2>1, <3>1
    <3>2. CASE n # 0
      <4>1. n - 1 \in 0..(m - 1) /\ n - 1 # m /\ n - 1 \in 0..m BY <3>2
      <4>2. h[n - 1] = f[n - 1] BY <4>1
      <4>3. CASE n = m BY <3>2, <4>2, <4>3
      <4>4. CASE n # m
        <5>1. n \in 0..(m - 1) /\ h[n] = f[n] BY <2>3, <4>4
        <5>2. f[n] = Round[<<f[n - 1], n>>] BY <2>1, <3>2, <5>1
        <5> QED BY <3>2, <4>2, <5>1, <5>2
      <4> QED BY <4>3, <4>4
    <3> QED BY <3>1, <3>2
  <2>6. h = [n \in 0..m |-> IF n = 0 THEN base ELSE Round[<<h[n - 1], n>>]]
    <3>1. h = [n \in 0..m |-> h[n]] OBVIOUS
    <3> HIDE DEF h
    <3> QED BY <2>5, <3>1
  <2>7. IsRun(h, m)
    <3> HIDE DEF h
    <3> QED BY <2>4, <2>6
  <2> HIDE DEF h, IsRun
  <2> QED BY <2>7
<1>3. k \in T
  <2> HIDE DEF T
  <2>1. \A m \in 1..k : m - 1 \in T => m \in T BY <1>2
  <2>2. \A m \in 0..k : m \in T BY <1>1, <2>1, UpTo
  <2> QED BY <2>2
<1> QED BY <1>3 DEF IsLoop

-----------------------------------------------------------------------------
(* Only                                                                    *)

\* What Only keeps of the first n elements.
IsKept(f, list, set) ==
  f = [n \in 0..Len(list) |->
         IF n = 0 THEN <<>>
         ELSE IF list[n] \in set THEN Append(f[n - 1], list[n]) ELSE f[n - 1]]

\* There is such a function, and so Only is its last value.
LEMMA OnlyIsKept ==
  ASSUME NEW S, NEW list \in Seq(S), NEW set
  PROVE  \E f : IsKept(f, list, set) /\ Only(list, set) = f[Len(list)]
<1> DEFINE step(f, n) == IF list[n] \in set THEN Append(f[n - 1], list[n]) ELSE f[n - 1]
           T == {k \in Nat : \E f : f = [n \in 0..k |-> IF n = 0 THEN <<>> ELSE step(f, n)]}
<1>1. 0 \in T
  <2>1. [n \in 0..0 |-> <<>>] = [n \in 0..0 |-> IF n = 0 THEN <<>> ELSE step([m \in 0..0 |-> <<>>], n)]
    OBVIOUS
  <2> QED BY <2>1
<1>2. ASSUME NEW k \in 1..Len(list), k - 1 \in T PROVE k \in T
  <2>1. PICK f : f = [n \in 0..(k - 1) |-> IF n = 0 THEN <<>> ELSE step(f, n)] BY <1>2
  <2> DEFINE h == [n \in 0..k |-> IF n = k THEN step(f, k) ELSE f[n]]
  <2>2. \A n \in 0..k : h[n] = IF n = 0 THEN <<>> ELSE step(h, n)
    <3> SUFFICES ASSUME NEW n \in 0..k PROVE h[n] = IF n = 0 THEN <<>> ELSE step(h, n)
      OBVIOUS
    <3>1. CASE n = 0 BY <2>1, <3>1
    <3>2. CASE n # 0
      <4>1. n - 1 \in 0..(k - 1) /\ n - 1 # k BY <3>2
      <4>2. h[n - 1] = f[n - 1] BY <4>1
      <4>3. CASE n = k BY <3>2, <4>2, <4>3
      <4>4. CASE n # k
        <5>1. n \in 0..(k - 1) BY <4>4
        <5>2. h[n] = f[n] BY <4>4
        <5>3. f[n] = step(f, n) BY <2>1, <3>2, <5>1
        <5> QED BY <3>2, <4>2, <5>2, <5>3
      <4> QED BY <4>3, <4>4
    <3> QED BY <3>1, <3>2
  <2>3. h = [n \in 0..k |-> IF n = 0 THEN <<>> ELSE step(h, n)]
    <3> HIDE DEF h
    <3>1. h = [n \in 0..k |-> h[n]] BY DEF h
    <3> QED BY <2>2, <3>1
  <2>4. \E e : e = [n \in 0..k |-> IF n = 0 THEN <<>> ELSE step(e, n)]
    <3> HIDE DEF h
    <3> QED BY <2>3
  <2> QED BY <2>4
<1>3. Len(list) \in Nat OBVIOUS
<1>4. Len(list) \in T
  <2> HIDE DEF T
  <2>1. \A k \in 1..Len(list) : k - 1 \in T => k \in T BY <1>2
  <2>2. \A k \in 0..Len(list) : k \in T BY <1>1, <1>3, <2>1, UpTo
  <2> QED BY <1>3, <2>2
<1>5. \E f : IsKept(f, list, set) BY <1>4 DEF IsKept
<1> DEFINE kept == CHOOSE f : IsKept(f, list, set)
<1>6. IsKept(kept, list, set) BY <1>5
<1>7. Only(list, set) = kept[Len(list)] BY DEF Only, IsKept
<1> QED BY <1>6, <1>7

\* The places in the list of the elements of the shorter one, in order: they
\* are those of the first n that are in the set.
ArePlaces(f, only, list, set, n) ==
  /\ f \in [1..Len(only) -> 1..n]
  /\ \A i, j \in 1..Len(only) : i < j => f[i] < f[j]
  /\ \A i \in 1..Len(only) : only[i] = list[f[i]]
  /\ \A m \in 1..n : list[m] \in set <=> \E i \in 1..Len(only) : f[i] = m

\* Only keeps the elements at some places, in order: those that are in the set.
LEMMA OnlyPlaces ==
  ASSUME NEW S, NEW list \in Seq(S), NEW set
  PROVE  /\ Only(list, set) \in Seq(S)
         /\ Len(Only(list, set)) <= Len(list)
         /\ \E f : ArePlaces(f, Only(list, set), list, set, Len(list))
<1> DEFINE k == Len(list)
<1>1. PICK kept : IsKept(kept, list, set) /\ Only(list, set) = kept[k] BY OnlyIsKept
<1>2. /\ kept[0] = <<>>
      /\ \A n \in 1..k : kept[n] = IF list[n] \in set THEN Append(kept[n - 1], list[n]) ELSE kept[n - 1]
  <2>1. k \in Nat OBVIOUS
  <2>2. 0 \in 0..k /\ \A n \in 1..k : n \in 0..k /\ n # 0 BY <2>1
  <2> HIDE DEF k
  <2>3. kept = [n \in 0..k |->
          IF n = 0 THEN <<>>
          ELSE IF list[n] \in set THEN Append(kept[n - 1], list[n]) ELSE kept[n - 1]]
    BY <1>1 DEF IsKept, k
  <2> QED BY <2>2, <2>3
<1> DEFINE Good(n) == /\ kept[n] \in Seq(S) /\ Len(kept[n]) <= n
                      /\ \E f : ArePlaces(f, kept[n], list, set, n)
           T == {n \in 0..k : Good(n)}
<1>3. k \in Nat /\ DOMAIN list = 1..k OBVIOUS
<1>4. 0 \in T
  <2>1. /\ kept[0] \in Seq(S) /\ Len(kept[0]) = 0 BY <1>2
  <2>2. ArePlaces([i \in {} |-> 0], kept[0], list, set, 0) BY <2>1 DEF ArePlaces
  <2> QED BY <2>1, <2>2
<1>5. ASSUME NEW n \in 1..k, n - 1 \in T PROVE n \in T
  <2> DEFINE old == kept[n - 1]
             len == Len(old)
  <2>1. old \in Seq(S) /\ len <= n - 1 /\ len \in Nat BY <1>5
  <2>2. PICK f : ArePlaces(f, old, list, set, n - 1) BY <1>5
  <2>3. n - 1 \in 0..k /\ n \in 0..k BY <1>3
  <2>4. list[n] \in S BY <1>3
  <2>5. CASE list[n] \notin set
    <3>1. kept[n] = old BY <1>2, <2>5
    <3>2. ArePlaces(f, old, list, set, n)
      <4> HIDE DEF old
      <4>1. \A m \in 1..n : m = n \/ m \in 1..(n - 1) OBVIOUS
      <4>2. f \in [1..len -> 1..n] BY <2>2 DEF ArePlaces
      <4>3. \A i \in 1..len : f[i] # n BY <2>2 DEF ArePlaces
      <4> QED BY <2>2, <2>5, <4>1, <4>2, <4>3 DEF ArePlaces
    <3> QED BY <2>1, <2>3, <3>1, <3>2
  <2>6. CASE list[n] \in set
    <3> DEFINE h == [i \in 1..(len + 1) |-> IF i = len + 1 THEN n ELSE f[i]]
               new == Append(old, list[n])
    <3>1. kept[n] = new BY <1>2, <2>6
    <3>2. /\ new \in Seq(S) /\ Len(new) = len + 1
          /\ \A i \in 1..len : new[i] = old[i]
          /\ new[len + 1] = list[n]
      BY <2>1, <2>4
    <3>3. ArePlaces(h, new, list, set, n)
      <4> HIDE DEF new, old
      <4>1. /\ f \in [1..len -> 1..(n - 1)]
            /\ \A i, j \in 1..len : i < j => f[i] < f[j]
            /\ \A i \in 1..len : old[i] = list[f[i]]
            /\ \A m \in 1..(n - 1) : list[m] \in set <=> \E i \in 1..len : f[i] = m
        BY <2>2 DEF ArePlaces
      <4>2. \A i \in 1..(len + 1) : i = len + 1 \/ (i # len + 1 /\ i \in 1..len) BY <2>1
      <4>3. h \in [1..(len + 1) -> 1..n] BY <4>1, <4>2
      <4>4. \A i, j \in 1..(len + 1) : i < j => h[i] < h[j]
        <5> SUFFICES ASSUME NEW i \in 1..(len + 1), NEW j \in 1..(len + 1), i < j
                     PROVE  h[i] < h[j]
          OBVIOUS
        <5>1. i # len + 1 /\ i \in 1..len BY <2>1
        <5>2. h[i] = f[i] /\ f[i] \in 1..(n - 1) BY <4>1, <5>1
        <5>3. CASE j = len + 1 BY <5>2, <5>3
        <5>4. CASE j # len + 1 BY <4>1, <4>2, <5>1, <5>2, <5>4
        <5> QED BY <5>3, <5>4
      <4>5. \A i \in 1..(len + 1) : new[i] = list[h[i]] BY <3>2, <4>1, <4>2
      <4>6. ASSUME NEW m \in 1..n
            PROVE  list[m] \in set <=> \E i \in 1..(len + 1) : h[i] = m
        <5>1. CASE m = n
          <6>1. len + 1 \in 1..(len + 1) /\ h[len + 1] = n BY <2>1
          <6> QED BY <2>6, <5>1, <6>1
        <5>2. CASE m # n
          <6>1. m \in 1..(n - 1) BY <5>2
          <6>2. ASSUME list[m] \in set PROVE \E i \in 1..(len + 1) : h[i] = m
            <7>1. PICK i \in 1..len : f[i] = m BY <4>1, <6>1, <6>2
            <7>2. i \in 1..(len + 1) /\ i # len + 1 BY <2>1
            <7>3. h[i] = m BY <7>1, <7>2
            <7> QED BY <7>2, <7>3
          <6>3. ASSUME NEW i \in 1..(len + 1), h[i] = m PROVE list[m] \in set
            <7>1. i # len + 1 BY <5>2, <6>3
            <7>2. i \in 1..len /\ f[i] = m BY <4>2, <6>3, <7>1
            <7> QED BY <4>1, <6>1, <7>2
          <6> QED BY <6>2, <6>3
        <5> QED BY <5>1, <5>2
      <4> QED BY <3>2, <4>3, <4>4, <4>5, <4>6 DEF ArePlaces
    <3>4. len + 1 <= n BY <2>1
    <3>5. \E e : ArePlaces(e, new, list, set, n)
      <4> HIDE DEF new, h
      <4> QED BY <3>3
    <3> HIDE DEF new, h
    <3> QED BY <2>3, <3>1, <3>2, <3>4, <3>5
  <2> QED BY <2>5, <2>6
<1>6. k \in T
  <2> HIDE DEF T, k
  <2>1. \A n \in 1..k : n - 1 \in T => n \in T BY <1>5
  <2>2. k \in Nat BY <1>3
  <2>3. \A n \in 0..k : n \in T BY <1>4, <2>1, <2>2, UpTo
  <2> QED BY <2>2, <2>3
<1>7. Good(k) BY <1>6
<1> QED BY <1>1, <1>7

\* What is kept is what is in the list and in the set.
LEMMA OnlyElements ==
  ASSUME NEW S, NEW list \in Seq(S), NEW set
  PROVE  ToSet(Only(list, set)) = ToSet(list) \cap set
<1> DEFINE only == Only(list, set)
<1>1. only \in Seq(S) /\ DOMAIN only = 1..Len(only) /\ DOMAIN list = 1..Len(list) BY OnlyPlaces
<1>2. PICK f : ArePlaces(f, only, list, set, Len(list)) BY OnlyPlaces
<1> HIDE DEF only
<1>3. ASSUME NEW x \in ToSet(only) PROVE x \in ToSet(list) \cap set
  <2>1. PICK i \in 1..Len(only) : x = only[i] BY <1>1, <1>3 DEF ToSet
  <2> QED BY <1>1, <1>2, <2>1 DEF ArePlaces, ToSet
<1>4. ASSUME NEW x \in ToSet(list) \cap set PROVE x \in ToSet(only)
  <2>1. PICK m \in 1..Len(list) : x = list[m] BY <1>1, <1>4 DEF ToSet
  <2>2. PICK i \in 1..Len(only) : f[i] = m BY <1>2, <1>4, <2>1 DEF ArePlaces
  <2> QED BY <1>1, <1>2, <2>1, <2>2 DEF ArePlaces, ToSet
<1> QED BY <1>3, <1>4 DEF only

\* A list that names nothing twice still names nothing twice.
LEMMA OnlyInjective ==
  ASSUME NEW S, NEW list \in Seq(S), NEW set, IsInjective(list)
  PROVE  IsInjective(Only(list, set))
<1> DEFINE only == Only(list, set)
<1>1. only \in Seq(S) /\ DOMAIN only = 1..Len(only) /\ DOMAIN list = 1..Len(list) BY OnlyPlaces
<1>2. PICK f : ArePlaces(f, only, list, set, Len(list)) BY OnlyPlaces
<1> HIDE DEF only
<1> SUFFICES ASSUME NEW i \in 1..Len(only), NEW j \in 1..Len(only), only[i] = only[j] PROVE i = j
  BY <1>1 DEF IsInjective, only
<1>3. f[i] = f[j] BY <1>1, <1>2 DEF ArePlaces, IsInjective
<1>4. ~(i < j) /\ ~(j < i) BY <1>2, <1>3 DEF ArePlaces
<1> QED BY <1>1, <1>4

\* Two lists one after the other.
LEMMA Concatenated ==
  ASSUME NEW S, NEW one \in Seq(S), NEW two \in Seq(S)
  PROVE  /\ one \o two \in Seq(S) /\ Len(one \o two) = Len(one) + Len(two)
         /\ ToSet(one \o two) = ToSet(one) \cup ToSet(two)
         /\ \A i \in DOMAIN (one \o two) : \/ i \in DOMAIN one /\ (one \o two)[i] = one[i]
                                           \/ /\ i > Len(one) /\ i - Len(one) \in DOMAIN two
                                              /\ (one \o two)[i] = two[i - Len(one)]
<1> DEFINE all == one \o two
           m == Len(one)
           n == Len(two)
<1>1. /\ all \in Seq(S) /\ m \in Nat /\ n \in Nat /\ Len(all) = m + n
      /\ DOMAIN one = 1..m /\ DOMAIN two = 1..n /\ DOMAIN all = 1..(m + n)
      /\ \A i \in 1..m : all[i] = one[i]
      /\ \A i \in 1..n : all[m + i] = two[i]
      /\ \A i \in (m + 1)..(m + n) : all[i] = two[i - m]
  OBVIOUS
<1> HIDE DEF all, m, n
<1>2. \A i \in 1..(m + n) : \/ i \in 1..m /\ all[i] = one[i]
                            \/ i > m /\ i - m \in 1..n /\ all[i] = two[i - m]
  BY <1>1
<1>3. (\A i \in 1..m : i \in 1..(m + n)) /\ (\A i \in 1..n : m + i \in 1..(m + n)) BY <1>1
<1>4. ToSet(all) = ToSet(one) \cup ToSet(two)
  <2>1. ASSUME NEW e \in ToSet(all) PROVE e \in ToSet(one) \cup ToSet(two)
    <3>1. PICK i \in 1..(m + n) : e = all[i] BY <1>1, <2>1 DEF ToSet
    <3> QED BY <1>1, <1>2, <3>1 DEF ToSet
  <2>2. ASSUME NEW e \in ToSet(one) PROVE e \in ToSet(all) BY <1>1, <1>3, <2>2 DEF ToSet
  <2>3. ASSUME NEW e \in ToSet(two) PROVE e \in ToSet(all)
    <3>1. PICK i \in 1..n : e = two[i] BY <1>1, <2>3 DEF ToSet
    <3>2. m + i \in DOMAIN all /\ all[m + i] = e BY <1>1, <1>3, <3>1
    <3> QED BY <3>2 DEF ToSet
  <2> QED BY <2>1, <2>2, <2>3
<1> QED BY <1>1, <1>2, <1>4 DEF all, m, n

\* A list without its head.
LEMMA WithoutHead ==
  ASSUME NEW S, NEW list \in Seq(S), list # <<>>
  PROVE  /\ Head(list) \in S /\ Head(list) = list[1] /\ Tail(list) \in Seq(S)
         /\ Len(Tail(list)) = Len(list) - 1 /\ Len(list) > 0
         /\ ToSet(list) = {Head(list)} \cup ToSet(Tail(list))
         /\ \A i \in DOMAIN Tail(list) : i + 1 \in DOMAIN list /\ Tail(list)[i] = list[i + 1]
<1> DEFINE rest == Tail(list)
           k == Len(list)
<1>1. /\ k \in Nat /\ k >= 1 /\ DOMAIN list = 1..k /\ Head(list) = list[1] /\ Head(list) \in S
      /\ rest \in Seq(S) /\ Len(rest) = k - 1 /\ DOMAIN rest = 1..(k - 1)
      /\ \A i \in 1..(k - 1) : rest[i] = list[i + 1] /\ i + 1 \in 1..k
      /\ \A i \in 1..k : i # 1 => i - 1 \in 1..(k - 1) /\ (i - 1) + 1 = i
  OBVIOUS
<1> HIDE DEF rest, k
<1>2. Head(list) \in ToSet(list)
  <2>1. 1 \in 1..k BY <1>1
  <2> QED BY <1>1, <2>1 DEF ToSet
<1>3. ToSet(rest) \subseteq ToSet(list) BY <1>1 DEF ToSet
<1>4. ASSUME NEW e \in ToSet(list), e # Head(list) PROVE e \in ToSet(rest)
  <2>1. PICK i \in 1..k : e = list[i] BY <1>1, <1>4 DEF ToSet
  <2>2. i - 1 \in DOMAIN rest /\ rest[i - 1] = e BY <1>1, <1>4, <2>1
  <2> QED BY <2>2 DEF ToSet
<1>5. ToSet(list) = {Head(list)} \cup ToSet(rest) BY <1>2, <1>3, <1>4
<1> QED BY <1>1, <1>5 DEF rest, k

\* A finite set as a list.
LEMMA SetToSeqFacts ==
  ASSUME NEW S, IsFiniteSet(S)
  PROVE  /\ SetToSeq(S) \in Seq(S) /\ Len(SetToSeq(S)) = Cardinality(S) /\ ToSet(SetToSeq(S)) \subseteq S
         /\ S \subseteq ToSet(SetToSeq(S))
<1> DEFINE k == Cardinality(S)
           IsListed(f) == f \in [1..k -> S] /\ IsInjective(f)
           list == CHOOSE f \in [1..k -> S] : IsInjective(f)
<1>1. k \in Nat BY FS_CardinalityType
<1>2. PICK f : f \in Bijection(1..k, S) BY FS_CardinalityType DEF ExistsBijection
<1>3. f \in [1..k -> S] /\ IsInjective(f) BY <1>2 DEF Bijection, Injection, IsInjective
<1>4. list \in [1..k -> S] /\ IsInjective(list) BY <1>3
<1>5. SetToSeq(S) = list BY DEF SetToSeq, list, k
<1> HIDE DEF list
<1>6. list \in Surjection(1..k, S)
  <2>1. list \in Injection(1..k, S) BY <1>4 DEF Injection
  <2>2. Cardinality(1..k) = k
    <3>1. Cardinality(1..k) = IF 1 > k THEN 0 ELSE k - 1 + 1 BY <1>1, FS_Interval
    <3> HIDE DEF k
    <3> QED BY <1>1, <3>1
  <2> QED BY <2>1, <2>2, FS_Injection
<1> HIDE DEF k
<1>7. list \in Seq(S) /\ Len(list) = k /\ DOMAIN list = 1..k BY <1>1, <1>4
<1>8. S \subseteq ToSet(list) BY <1>6, <1>7 DEF Surjection, ToSet
<1>9. ToSet(list) \subseteq S BY <1>4, <1>7 DEF ToSet
<1> QED BY <1>5, <1>7, <1>8, <1>9 DEF k

-----------------------------------------------------------------------------
(* Folds over finite sets                                                 *)

\* What a fold over the subsets of D makes of base: an element that ch picks is
\* taken off last.
IsFold(f, D, base, Op, ch) ==
  f = [s \in SUBSET D |-> IF s = {} THEN base ELSE Op[<<ch[s], f[s \ {ch[s]}]>>]]

Picks(ch, D) == \A s \in SUBSET D : s # {} => ch[s] \in s

\* What is said of the sets with n elements for every n up to that of D holds.
LEMMA BySize ==
  ASSUME NEW D, IsFiniteSet(D), NEW U \in SUBSET SUBSET D, {} \in U,
         \A s \in SUBSET D : s # {} /\ (\A x \in s : s \ {x} \in U) => s \in U
  PROVE  \A s \in SUBSET D : s \in U
<1> DEFINE k == Cardinality(D)
           T == {n \in 0..k : \A s \in SUBSET D : Cardinality(s) = n => s \in U}
<1>1. k \in Nat BY FS_CardinalityType
<1>2. \A s \in SUBSET D : IsFiniteSet(s) /\ Cardinality(s) \in 0..k
  <2> SUFFICES ASSUME NEW s \in SUBSET D PROVE IsFiniteSet(s) /\ Cardinality(s) \in 0..k OBVIOUS
  <2>1. IsFiniteSet(s) /\ Cardinality(s) <= k BY FS_Subset
  <2>2. Cardinality(s) \in Nat BY <2>1, FS_CardinalityType
  <2> QED BY <1>1, <2>1, <2>2
<1> HIDE DEF k
<1>3. 0 \in T
  <2>1. \A s \in SUBSET D : Cardinality(s) = 0 => s = {} BY <1>2, FS_EmptySet
  <2> QED BY <1>1, <2>1
<1>4. ASSUME NEW n \in 1..k, n - 1 \in T PROVE n \in T
  <2> SUFFICES ASSUME NEW s \in SUBSET D, Cardinality(s) = n PROVE s \in U BY <1>1
  <2>1. s # {}
    <3>1. n # 0 /\ Cardinality(s) # 0 BY <1>1
    <3> QED BY <3>1, FS_EmptySet
  <2>2. ASSUME NEW x \in s PROVE s \ {x} \in U
    <3>1. Cardinality(s \ {x}) = n - 1 BY <1>2, FS_RemoveElement
    <3>2. \A z \in SUBSET D : Cardinality(z) = n - 1 => z \in U BY <1>4
    <3> QED BY <3>1, <3>2
  <2> QED BY <2>1, <2>2
<1> HIDE DEF T
<1>5. \A n \in 1..k : n - 1 \in T => n \in T BY <1>4
<1>6. \A n \in 0..k : n \in T BY <1>1, <1>3, <1>5, UpTo
<1> QED BY <1>2, <1>6 DEF T

\* There is at most one fold,
LEMMA OneFold ==
  ASSUME NEW D, IsFiniteSet(D), NEW base, NEW Op, NEW ch, Picks(ch, D),
         NEW f, IsFold(f, D, base, Op, ch), NEW g, IsFold(g, D, base, Op, ch)
  PROVE  f = g
<1> DEFINE U == {s \in SUBSET D : f[s] = g[s]}
<1>1. {} \in U BY DEF IsFold
<1>2. ASSUME NEW s \in SUBSET D, s # {}, \A x \in s : s \ {x} \in U PROVE s \in U
  <2>1. ch[s] \in s BY <1>2 DEF Picks
  <2>2. f[s \ {ch[s]}] = g[s \ {ch[s]}] BY <1>2, <2>1
  <2>3. /\ f[s] = Op[<<ch[s], f[s \ {ch[s]}]>>]
        /\ g[s] = Op[<<ch[s], g[s \ {ch[s]}]>>]
    BY <1>2 DEF IsFold
  <2> QED BY <2>2, <2>3
<1>3. \A s \in SUBSET D : s \in U
  <2> HIDE DEF U
  <2>1. U \in SUBSET SUBSET D BY DEF U
  <2>2. \A s \in SUBSET D : s # {} /\ (\A x \in s : s \ {x} \in U) => s \in U BY <1>2
  <2> QED BY <1>1, <2>1, <2>2, BySize
<1>4. f = [s \in SUBSET D |-> f[s]] /\ g = [s \in SUBSET D |-> g[s]] BY DEF IsFold
<1> QED BY <1>3, <1>4

\* and there is one if what is folded stays in R.
LEMMA AFold ==
  ASSUME NEW D, IsFiniteSet(D), NEW R, NEW base \in R, NEW Op \in [D \X R -> R], NEW ch, Picks(ch, D)
  PROVE  \E f \in [SUBSET D -> R] : IsFold(f, D, base, Op, ch)
<1> DEFINE U == {d \in SUBSET D : \E f \in [SUBSET d -> R] : IsFold(f, d, base, Op, ch)}
<1>1. {} \in U
  <2> DEFINE f == [s \in SUBSET {} |-> base]
  <2>1. f \in [SUBSET {} -> R] OBVIOUS
  <2>2. IsFold(f, {}, base, Op, ch) BY DEF IsFold
  <2> QED BY <2>1, <2>2
<1>2. ASSUME NEW d \in SUBSET D, d # {}, \A x \in d : d \ {x} \in U PROVE d \in U
  <2> DEFINE IsOf(f, x) == f \in [SUBSET (d \ {x}) -> R] /\ IsFold(f, d \ {x}, base, Op, ch)
             of == [x \in d |-> CHOOSE f : IsOf(f, x)]
  <2>1. \A x \in d : IsOf(of[x], x)
    <3> SUFFICES ASSUME NEW x \in d PROVE IsOf(of[x], x) OBVIOUS
    <3>1. \E f : IsOf(f, x) BY <1>2
    <3> HIDE DEF IsOf
    <3> QED BY <3>1
  <2> HIDE DEF of
  <2> DEFINE at(s) == of[ch[s]][s \ {ch[s]}]
             f == [s \in SUBSET d |-> IF s = {} THEN base ELSE Op[<<ch[s], at(s)>>]]
  <2>2. \A s \in SUBSET d : s # {} => ch[s] \in s /\ ch[s] \in D BY DEF Picks
  <2>3. \A s \in SUBSET d : s # {} => at(s) \in R
    <3> SUFFICES ASSUME NEW s \in SUBSET d, s # {} PROVE at(s) \in R OBVIOUS
    <3>1. ch[s] \in d /\ s \ {ch[s]} \in SUBSET (d \ {ch[s]}) BY <2>2
    <3>2. of[ch[s]] \in [SUBSET (d \ {ch[s]}) -> R] BY <2>1, <3>1
    <3> QED BY <3>1, <3>2
  <2>4. f \in [SUBSET d -> R] BY <2>2, <2>3
  <2>5. \A s \in SUBSET d : s # {} => at(s) = f[s \ {ch[s]}]
    <3> SUFFICES ASSUME NEW s \in SUBSET d, s # {} PROVE at(s) = f[s \ {ch[s]}] OBVIOUS
    <3> DEFINE x == ch[s]
               z == s \ {x}
               y == ch[z]
               rest == z \ {y}
    <3>1. x \in d /\ z \in SUBSET (d \ {x}) /\ z \in SUBSET d BY <2>2
    <3>2. IsFold(of[x], d \ {x}, base, Op, ch) BY <2>1, <3>1
    <3>3. CASE z = {} BY <3>1, <3>2, <3>3 DEF IsFold
    <3>4. CASE z # {}
      <4>1. y \in z /\ y \in d /\ y # x BY <2>2, <3>1, <3>4
      <4>2. of[x][z] = Op[<<y, of[x][rest]>>] BY <3>1, <3>2, <3>4 DEF IsFold
      <4>3. f[z] = Op[<<y, of[y][rest]>>] BY <3>1, <3>4
      <4>4. of[x][rest] = of[y][rest]
        <5> DEFINE both == d \ {x, y}
                   a == [e \in SUBSET both |-> of[x][e]]
                   b == [e \in SUBSET both |-> of[y][e]]
        <5>1. rest \in SUBSET both OBVIOUS
        <5>2. IsFiniteSet(both) /\ Picks(ch, both) BY FS_Subset DEF Picks
        <5>3. ASSUME NEW v \in d, both \subseteq d \ {v}, NEW h, h = [e \in SUBSET both |-> of[v][e]]
              PROVE  IsFold(h, both, base, Op, ch)
          <6>1. IsFold(of[v], d \ {v}, base, Op, ch) BY <2>1
          <6>2. \A e \in SUBSET both : h[e] = IF e = {} THEN base ELSE Op[<<ch[e], h[e \ {ch[e]}]>>]
            <7> SUFFICES ASSUME NEW e \in SUBSET both
                         PROVE  h[e] = IF e = {} THEN base ELSE Op[<<ch[e], h[e \ {ch[e]}]>>]
              OBVIOUS
            <7>1. e \in SUBSET (d \ {v}) /\ e \ {ch[e]} \in SUBSET both BY <5>3
            <7>2. h[e] = of[v][e] /\ h[e \ {ch[e]}] = of[v][e \ {ch[e]}] BY <5>3, <7>1
            <7>3. of[v][e] = IF e = {} THEN base ELSE Op[<<ch[e], of[v][e \ {ch[e]}]>>]
              BY <6>1, <7>1 DEF IsFold
            <7> QED BY <7>2, <7>3
          <6>3. h = [e \in SUBSET both |-> h[e]] BY <5>3
          <6> HIDE DEF both
          <6> QED BY <6>2, <6>3 DEF IsFold
        <5>4. both \subseteq d \ {x} /\ both \subseteq d \ {y} OBVIOUS
        <5>5. IsFold(a, both, base, Op, ch) BY <3>1, <5>3, <5>4
        <5>6. IsFold(b, both, base, Op, ch) BY <4>1, <5>3, <5>4
        <5>7. a[rest] = of[x][rest] /\ b[rest] = of[y][rest] BY <5>1
        <5> HIDE DEF a, b, both, rest
        <5>8. a = b BY <5>2, <5>5, <5>6, OneFold
        <5> QED BY <5>7, <5>8
      <4> QED BY <4>2, <4>3, <4>4
    <3> QED BY <3>3, <3>4
  <2>6. IsFold(f, d, base, Op, ch)
    <3>1. \A s \in SUBSET d : f[s] = IF s = {} THEN base ELSE Op[<<ch[s], f[s \ {ch[s]}]>>]
      <4> SUFFICES ASSUME NEW s \in SUBSET d
                   PROVE  f[s] = IF s = {} THEN base ELSE Op[<<ch[s], f[s \ {ch[s]}]>>]
        OBVIOUS
      <4>1. s # {} => at(s) = f[s \ {ch[s]}] BY <2>5
      <4>2. f[s] = IF s = {} THEN base ELSE Op[<<ch[s], at(s)>>] OBVIOUS
      <4> HIDE DEF at, f
      <4> QED BY <4>1, <4>2
    <3>2. f = [s \in SUBSET d |-> f[s]] OBVIOUS
    <3> HIDE DEF f
    <3> QED BY <3>1, <3>2 DEF IsFold
  <2> HIDE DEF f
  <2> QED BY <2>4, <2>6
<1> HIDE DEF U
<1>3. \A d \in SUBSET D : d # {} /\ (\A x \in d : d \ {x} \in U) => d \in U BY <1>2
<1>4. U \in SUBSET SUBSET D BY DEF U
<1>5. D \in U BY <1>1, <1>3, <1>4, BySize
<1> QED BY <1>5 DEF U

-----------------------------------------------------------------------------
(* Sums                                                                    *)

Chosen(D) == [s \in SUBSET D |-> CHOOSE x \in s : TRUE]
Adding(w, D) == [e \in D \X Int |-> w[e[1]] + e[2]]

LEMMA ChosenPicks == ASSUME NEW D PROVE Picks(Chosen(D), D)
BY DEF Picks, Chosen

AreSums(f, w, D) ==
  f = [s \in SUBSET D |-> IF s = {} THEN 0 ELSE w[CHOOSE x \in s : TRUE] + f[s \ {CHOOSE x \in s : TRUE}]]

\* There are sums of the subsets.
LEMMA SumsExist ==
  ASSUME NEW D, IsFiniteSet(D), NEW w, \A x \in D : w[x] \in Int
  PROVE  \E f \in [SUBSET D -> Int] : AreSums(f, w, D)
<1> DEFINE ch == Chosen(D)
           Op == Adding(w, D)
<1>1. Picks(ch, D) BY ChosenPicks
<1>2. Op \in [D \X Int -> Int] BY DEF Adding
<1>3. PICK f \in [SUBSET D -> Int] : IsFold(f, D, 0, Op, ch)
  <2> HIDE DEF ch, Op
  <2>1. 0 \in Int OBVIOUS
  <2>2. \A R : \A base \in R : Op \in [D \X R -> R] => \E f \in [SUBSET D -> R] : IsFold(f, D, base, Op, ch)
    BY <1>1, AFold
  <2> QED BY <1>2, <2>1, <2>2
<1>4. \A s \in SUBSET D : f[s] = IF s = {} THEN 0 ELSE w[CHOOSE x \in s : TRUE] + f[s \ {CHOOSE x \in s : TRUE}]
  <2> SUFFICES ASSUME NEW s \in SUBSET D
               PROVE  f[s] = IF s = {} THEN 0 ELSE w[CHOOSE x \in s : TRUE] + f[s \ {CHOOSE x \in s : TRUE}]
    OBVIOUS
  <2>1. CASE s = {} BY <1>3, <2>1 DEF IsFold
  <2>2. CASE s # {}
    <3>1. f[s] = Op[<<ch[s], f[s \ {ch[s]}]>>] BY <1>3, <2>2 DEF IsFold
    <3>2. ch[s] \in D /\ f[s \ {ch[s]}] \in Int BY <1>1, <2>2 DEF Picks
    <3>3. ch[s] = CHOOSE x \in s : TRUE BY DEF Chosen
    <3> HIDE DEF ch
    <3>4. Op[<<ch[s], f[s \ {ch[s]}]>>] = w[ch[s]] + f[s \ {ch[s]}] BY <3>2 DEF Adding
    <3> QED BY <2>2, <3>1, <3>3, <3>4
  <2> QED BY <2>1, <2>2
<1>5. f = [s \in SUBSET D |-> f[s]] OBVIOUS
<1> HIDE DEF ch, Op
<1>6. f = [s \in SUBSET D |->
             IF s = {} THEN 0 ELSE w[CHOOSE x \in s : TRUE] + f[s \ {CHOOSE x \in s : TRUE}]]
  BY <1>4, <1>5
<1> QED BY <1>3, <1>6 DEF AreSums

\* They do not depend on what they are subsets of.
LEMMA SumsAgree ==
  ASSUME NEW D, IsFiniteSet(D), NEW w, NEW E, D \subseteq E,
         NEW f, AreSums(f, w, D), NEW g, AreSums(g, w, E)
  PROVE  f[D] = g[D]
<1> DEFINE U == {s \in SUBSET D : f[s] = g[s]}
<1>1. {} \in U BY DEF AreSums
<1>2. ASSUME NEW s \in SUBSET D, s # {}, \A x \in s : s \ {x} \in U PROVE s \in U
  <2> DEFINE x == CHOOSE x \in s : TRUE
  <2>1. x \in s BY <1>2
  <2>2. f[s] = w[x] + f[s \ {x}] /\ g[s] = w[x] + g[s \ {x}]
    <3>1. s \in SUBSET D /\ s \in SUBSET E OBVIOUS
    <3> QED BY <1>2, <3>1 DEF AreSums
  <2> HIDE DEF x
  <2>3. f[s \ {x}] = g[s \ {x}] BY <1>2, <2>1
  <2> QED BY <2>2, <2>3
<1> HIDE DEF U
<1>3. U \in SUBSET SUBSET D BY DEF U
<1>4. \A s \in SUBSET D : s # {} /\ (\A x \in s : s \ {x} \in U) => s \in U BY <1>2
<1>5. D \in U BY <1>1, <1>3, <1>4, BySize
<1> QED BY <1>5 DEF U

LEMMA SumIs ==
  ASSUME NEW D, IsFiniteSet(D), NEW w, \A x \in D : w[x] \in Int
  PROVE  \E f : AreSums(f, w, D) /\ SumOver(w, D) = f[D] /\ f[D] \in Int
<1> DEFINE f == CHOOSE f : AreSums(f, w, D)
<1>1. PICK g \in [SUBSET D -> Int] : AreSums(g, w, D) BY SumsExist
<1>2. AreSums(f, w, D) BY <1>1
<1>3. SumOver(w, D) = f[D] BY DEF SumOver, MapThenSumSet, MapThenFoldSet, AreSums
<1> HIDE DEF f
<1>4. f[D] = g[D] BY <1>1, <1>2, SumsAgree
<1>5. g[D] \in Int BY <1>1
<1> QED BY <1>2, <1>3, <1>4, <1>5

\* The sum of a set, by one of its elements.
LEMMA SumChosen ==
  ASSUME NEW D, IsFiniteSet(D), NEW w, \A x \in D : w[x] \in Int
  PROVE  /\ SumOver(w, D) \in Int
         /\ D = {} => SumOver(w, D) = 0
         /\ D # {} => \E x \in D : SumOver(w, D) = w[x] + SumOver(w, D \ {x})
<1>1. PICK f : AreSums(f, w, D) /\ SumOver(w, D) = f[D] /\ f[D] \in Int BY SumIs
<1>2. ASSUME D = {} PROVE SumOver(w, D) = 0 BY <1>1, <1>2 DEF AreSums
<1>3. ASSUME D # {} PROVE \E x \in D : SumOver(w, D) = w[x] + SumOver(w, D \ {x})
  <2> DEFINE x == CHOOSE x \in D : TRUE
             rest == D \ {x}
  <2>1. x \in D BY <1>3
  <2>2. f[D] = w[x] + f[rest] BY <1>1, <1>3 DEF AreSums
  <2> HIDE DEF x
  <2>3. IsFiniteSet(rest) /\ rest \subseteq D /\ \A y \in rest : w[y] \in Int BY FS_Subset
  <2> HIDE DEF rest
  <2>4. PICK g : AreSums(g, w, rest) /\ SumOver(w, rest) = g[rest] BY <2>3, SumIs
  <2>5. g[rest] = f[rest] BY <1>1, <2>3, <2>4, SumsAgree
  <2> QED BY <1>1, <2>1, <2>2, <2>4, <2>5 DEF rest
<1> QED BY <1>1, <1>2, <1>3

\* and by any.
LEMMA SumWithout ==
  ASSUME NEW D, IsFiniteSet(D), NEW w, \A x \in D : w[x] \in Int
  PROVE  \A x \in D : SumOver(w, D) = w[x] + SumOver(w, D \ {x})
<1> DEFINE U == {s \in SUBSET D : \A x \in s : SumOver(w, s) = w[x] + SumOver(w, s \ {x})}
<1>1. {} \in U OBVIOUS
<1>2. ASSUME NEW s \in SUBSET D, s # {}, \A x \in s : s \ {x} \in U PROVE s \in U
  <2> SUFFICES ASSUME NEW x \in s PROVE SumOver(w, s) = w[x] + SumOver(w, s \ {x}) OBVIOUS
  <2>1. \A z \in SUBSET s : IsFiniteSet(z) /\ \A y \in z : w[y] \in Int BY FS_Subset
  <2>a. IsFiniteSet(s) /\ \A y \in s : w[y] \in Int BY <2>1
  <2>2. PICK y \in s : SumOver(w, s) = w[y] + SumOver(w, s \ {y}) BY <1>2, <2>a, SumChosen
  <2>3. CASE y = x BY <2>2, <2>3
  <2>4. CASE y # x
    <3> DEFINE rest == s \ {x, y}
               noX  == s \ {x}
               noY  == s \ {y}
    <3>1. noX \in U /\ noY \in U BY <1>2
    <3>2. y \in noX /\ x \in noY /\ noX \ {y} = rest /\ noY \ {x} = rest BY <2>4
    <3>3. SumOver(w, rest) \in Int
      <4>1. rest \in SUBSET s OBVIOUS
      <4> HIDE DEF rest
      <4> QED BY <2>1, <4>1, SumChosen
    <3>4. SumOver(w, noX) = w[y] + SumOver(w, noX \ {y}) /\ SumOver(w, noY) = w[x] + SumOver(w, noY \ {x}) BY <3>1, <3>2
    <3>5. SumOver(w, noX) = w[y] + SumOver(w, rest) /\ SumOver(w, noY) = w[x] + SumOver(w, rest) BY <3>2, <3>4
    <3>6. SumOver(w, s) = w[y] + SumOver(w, noY) BY <2>2
    <3>7. w[x] \in Int /\ w[y] \in Int OBVIOUS
    <3> HIDE DEF rest, noX, noY
    <3>8. SumOver(w, s) = w[x] + SumOver(w, noX) BY <3>3, <3>5, <3>6, <3>7
    <3> QED BY <3>8 DEF noX
  <2> QED BY <2>3, <2>4
<1> HIDE DEF U
<1>3. U \in SUBSET SUBSET D BY DEF U
<1>4. \A s \in SUBSET D : s # {} /\ (\A x \in s : s \ {x} \in U) => s \in U BY <1>2
<1>5. D \in U BY <1>1, <1>3, <1>4, BySize
<1> QED BY <1>5 DEF U

\* The sum is of what w says of the elements alone.
LEMMA SumsEqual ==
  ASSUME NEW D, IsFiniteSet(D), NEW w, NEW v, \A x \in D : w[x] \in Int /\ v[x] = w[x]
  PROVE  SumOver(w, D) = SumOver(v, D)
<1> DEFINE U == {s \in SUBSET D : SumOver(w, s) = SumOver(v, s)}
<1>1. {} \in U
  <2>1. IsFiniteSet({}) BY FS_EmptySet
  <2> QED BY <2>1, SumChosen
<1>2. ASSUME NEW s \in SUBSET D, s # {}, \A x \in s : s \ {x} \in U PROVE s \in U
  <2>1. IsFiniteSet(s) /\ (\A y \in s : w[y] \in Int) /\ (\A y \in s : v[y] \in Int) BY FS_Subset
  <2>2. PICK y \in s : SumOver(w, s) = w[y] + SumOver(w, s \ {y}) BY <1>2, <2>1, SumChosen
  <2>3. SumOver(v, s) = v[y] + SumOver(v, s \ {y}) BY <2>1, SumWithout
  <2>4. SumOver(w, s \ {y}) = SumOver(v, s \ {y}) /\ v[y] = w[y] BY <1>2
  <2> QED BY <2>2, <2>3, <2>4
<1> HIDE DEF U
<1>3. U \in SUBSET SUBSET D BY DEF U
<1>4. \A s \in SUBSET D : s # {} /\ (\A x \in s : s \ {x} \in U) => s \in U BY <1>2
<1>5. D \in U BY <1>1, <1>3, <1>4, BySize
<1> QED BY <1>5 DEF U

\* Two sets that do not meet.
LEMMA SumOfBoth ==
  ASSUME NEW D, IsFiniteSet(D), NEW w, \A x \in D : w[x] \in Int,
         NEW A \in SUBSET D, NEW B \in SUBSET D, A \cap B = {}
  PROVE  SumOver(w, A \cup B) = SumOver(w, A) + SumOver(w, B)
<1> DEFINE U == {s \in SUBSET A : SumOver(w, s \cup B) = SumOver(w, s) + SumOver(w, B)}
<1>1. \A s \in SUBSET D : IsFiniteSet(s) /\ (\A y \in s : w[y] \in Int) BY FS_Subset
<1>2. \A s \in SUBSET D : SumOver(w, s) \in Int BY <1>1, SumChosen
<1>3. {} \in U
  <2>1. SumOver(w, {}) = 0
    <3>1. IsFiniteSet({}) BY FS_EmptySet
    <3> QED BY <3>1, SumChosen
  <2>2. {} \cup B = B OBVIOUS
  <2> QED BY <1>2, <2>1, <2>2
<1>4. ASSUME NEW s \in SUBSET A, s # {}, \A x \in s : s \ {x} \in U PROVE s \in U
  <2> DEFINE all == s \cup B
  <2>0. s \in SUBSET D /\ all \in SUBSET D OBVIOUS
  <2>1. PICK y \in s : SumOver(w, s) = w[y] + SumOver(w, s \ {y}) BY <1>1, <1>4, <2>0, SumChosen
  <2> DEFINE rest == s \ {y}
  <2>2. y \in all /\ all \ {y} = rest \cup B OBVIOUS
  <2>3. SumOver(w, rest \cup B) = SumOver(w, rest) + SumOver(w, B) BY <1>4
  <2>4. SumOver(w, all) = w[y] + SumOver(w, all \ {y})
    <3> HIDE DEF all
    <3> QED BY <1>1, <2>0, <2>2, SumWithout
  <2>5. rest \in SUBSET D OBVIOUS
  <2>6. w[y] \in Int /\ SumOver(w, rest) \in Int /\ SumOver(w, B) \in Int BY <1>1, <1>2, <2>0, <2>5
  <2>7. SumOver(w, s) = w[y] + SumOver(w, rest) BY <2>1
  <2> HIDE DEF all, rest
  <2>8. SumOver(w, all \ {y}) = SumOver(w, rest \cup B) BY <2>2, Zenon
  <2>9. SumOver(w, all) = SumOver(w, s) + SumOver(w, B) BY <2>3, <2>4, <2>6, <2>7, <2>8
  <2> QED BY <2>9 DEF all
<1> HIDE DEF U
<1>5. IsFiniteSet(A) BY <1>1
<1>6. U \in SUBSET SUBSET A BY DEF U
<1>7. \A s \in SUBSET A : s # {} /\ (\A x \in s : s \ {x} \in U) => s \in U BY <1>4
<1>8. \A s \in SUBSET A : s \in U BY <1>3, <1>5, <1>6, <1>7, BySize
<1>9. A \in U BY <1>8
<1> QED BY <1>9 DEF U

\* A sum of what is not negative is not negative.
LEMMA SumIsNat ==
  ASSUME NEW D, IsFiniteSet(D), NEW w, \A x \in D : w[x] \in Nat
  PROVE  SumOver(w, D) \in Nat
<1> DEFINE U == {s \in SUBSET D : SumOver(w, s) \in Nat}
<1>1. \A s \in SUBSET D : IsFiniteSet(s) /\ (\A y \in s : w[y] \in Int) BY FS_Subset
<1>2. {} \in U
  <2>1. IsFiniteSet({}) BY FS_EmptySet
  <2> QED BY <2>1, SumChosen
<1>3. ASSUME NEW s \in SUBSET D, s # {}, \A x \in s : s \ {x} \in U PROVE s \in U
  <2>1. PICK y \in s : SumOver(w, s) = w[y] + SumOver(w, s \ {y}) BY <1>1, <1>3, SumChosen
  <2>2. SumOver(w, s \ {y}) \in Nat /\ w[y] \in Nat BY <1>3
  <2> QED BY <2>1, <2>2
<1> HIDE DEF U
<1>4. U \in SUBSET SUBSET D BY DEF U
<1>5. \A s \in SUBSET D : s # {} /\ (\A x \in s : s \ {x} \in U) => s \in U BY <1>3
<1>6. D \in U BY <1>2, <1>4, <1>5, BySize
<1> QED BY <1>6 DEF U

LEMMA SumOfMore ==
  ASSUME NEW D, IsFiniteSet(D), NEW w, \A x \in D : w[x] \in Nat, NEW A \in SUBSET D
  PROVE  SumOver(w, A) <= SumOver(w, D)
<1> DEFINE B == D \ A
<1>1. B \in SUBSET D /\ A \cap B = {} /\ A \cup B = D OBVIOUS
<1> HIDE DEF B
<1>2. SumOver(w, A \cup B) = SumOver(w, A) + SumOver(w, B) BY <1>1, SumOfBoth
<1>3. \A s \in SUBSET D : IsFiniteSet(s) /\ (\A y \in s : w[y] \in Nat) BY FS_Subset
<1>4. SumOver(w, A) \in Nat /\ SumOver(w, B) \in Nat BY <1>1, <1>3, SumIsNat
<1>5. SumOver(w, A \cup B) = SumOver(w, D) BY <1>1, Zenon
<1> QED BY <1>2, <1>4, <1>5

\* The sum over the elements that are not equal under g.
LEMMA SumOfImage ==
  ASSUME NEW D, IsFiniteSet(D), NEW v, \A x \in D : v[x] \in Int, NEW w,
         NEW g, \A x \in D : w[g[x]] = v[x], \A x, y \in D : g[x] = g[y] => x = y
  PROVE  SumOver(w, {g[x] : x \in D}) = SumOver(v, D)
<1> DEFINE Image(s) == {g[x] : x \in s}
           U == {s \in SUBSET D : IsFiniteSet(Image(s)) /\ SumOver(w, Image(s)) = SumOver(v, s)}
<1>1. \A s \in SUBSET D : IsFiniteSet(s) /\ (\A y \in s : v[y] \in Int) BY FS_Subset
<1>2. {} \in U
  <2>1. IsFiniteSet({}) BY FS_EmptySet
  <2>2. SumOver(w, {}) = 0 /\ SumOver(v, {}) = 0 BY <2>1, SumChosen
  <2>3. Image({}) = {} OBVIOUS
  <2> QED BY <2>1, <2>2, <2>3
<1>3. ASSUME NEW s \in SUBSET D, s # {}, \A x \in s : s \ {x} \in U PROVE s \in U
  <2>1. PICK y \in s : SumOver(v, s) = v[y] + SumOver(v, s \ {y}) BY <1>1, <1>3, SumChosen
  <2> DEFINE rest == s \ {y}
             all  == Image(s)
             less == Image(rest)
  <2>2. IsFiniteSet(less) /\ SumOver(w, less) = SumOver(v, rest) BY <1>3
  <2>3. g[y] \in all /\ all = less \cup {g[y]} /\ less = all \ {g[y]} OBVIOUS
  <2>4. \A z \in all : w[z] \in Int OBVIOUS
  <2>5. w[g[y]] = v[y] OBVIOUS
  <2>6. SumOver(v, s) = v[y] + SumOver(v, rest) BY <2>1
  <2> HIDE DEF less, all, rest
  <2>7. IsFiniteSet(all) BY <2>2, <2>3, FS_AddElement
  <2>8. SumOver(w, all) = w[g[y]] + SumOver(w, all \ {g[y]}) BY <2>3, <2>4, <2>7, SumWithout
  <2>9. SumOver(w, all) = SumOver(v, s) BY <2>2, <2>3, <2>5, <2>6, <2>8
  <2> QED BY <2>7, <2>9 DEF all
<1> HIDE DEF U
<1>4. U \in SUBSET SUBSET D BY DEF U
<1>5. \A s \in SUBSET D : s # {} /\ (\A x \in s : s \ {x} \in U) => s \in U BY <1>3
<1>6. D \in U BY <1>2, <1>4, <1>5, BySize
<1> QED BY <1>6 DEF U

\* What is covered by sets that do not meet is covered by the sum of all.
LEMMA SumOfParts ==
  ASSUME NEW D, IsFiniteSet(D), NEW v, NEW w, NEW by,
         \A x \in D : v[x] \in Int /\ v[x] <= SumOver(w, by[x]),
         NEW E, IsFiniteSet(E), \A e \in E : w[e] \in Nat, \A x \in D : by[x] \subseteq E,
         \A x, y \in D : x # y => by[x] \cap by[y] = {}
  PROVE  SumOver(v, D) <= SumOver(w, E)
<1> DEFINE All(s) == {e \in E : \E x \in s : e \in by[x]}
           U == {s \in SUBSET D : SumOver(v, s) <= SumOver(w, All(s))}
<1>1. \A s \in SUBSET D : IsFiniteSet(s) /\ (\A y \in s : v[y] \in Int) BY FS_Subset
<1>2. \A s \in SUBSET E : IsFiniteSet(s) /\ (\A y \in s : w[y] \in Int) BY FS_Subset
<1>3. {} \in U
  <2>1. IsFiniteSet({}) BY FS_EmptySet
  <2>2. SumOver(w, {}) = 0 /\ SumOver(v, {}) = 0 BY <2>1, SumChosen
  <2>3. All({}) = {} OBVIOUS
  <2> QED BY <2>2, <2>3
<1>4. ASSUME NEW s \in SUBSET D, s # {}, \A x \in s : s \ {x} \in U PROVE s \in U
  <2>1. PICK y \in s : SumOver(v, s) = v[y] + SumOver(v, s \ {y}) BY <1>1, <1>4, SumChosen
  <2> DEFINE rest == s \ {y}
             less == All(rest)
             part == by[y]
  <2>2. SumOver(v, rest) <= SumOver(w, less) BY <1>4
  <2>3. /\ less \in SUBSET E /\ part \in SUBSET E /\ less \cap part = {}
        /\ All(s) = less \cup part
    OBVIOUS
  <2>4. v[y] \in Int /\ v[y] <= SumOver(w, part) OBVIOUS
  <2>5. rest \in SUBSET D /\ SumOver(v, s) = v[y] + SumOver(v, rest) BY <2>1
  <2> HIDE DEF rest, less, part, All
  <2>6. SumOver(w, less \cup part) = SumOver(w, less) + SumOver(w, part) BY <1>2, <2>3, SumOfBoth
  <2>7. SumOver(w, less) \in Int /\ SumOver(w, part) \in Int BY <1>2, <2>3, SumChosen
  <2>8. SumOver(v, rest) \in Int BY <1>1, <2>5, SumChosen
  <2>9. SumOver(w, All(s)) = SumOver(w, less \cup part) BY <2>3, Zenon
  <2>10. SumOver(v, s) <= SumOver(w, All(s)) BY <2>2, <2>4, <2>5, <2>6, <2>7, <2>8, <2>9
  <2> QED BY <2>10
<1>5. All(D) \in SUBSET E OBVIOUS
<1> HIDE DEF U, All
<1>6. U \in SUBSET SUBSET D BY DEF U
<1>7. \A s \in SUBSET D : s # {} /\ (\A x \in s : s \ {x} \in U) => s \in U BY <1>4
<1>8. \A s \in SUBSET D : s \in U BY <1>3, <1>6, <1>7, BySize
<1>9. SumOver(w, All(D)) <= SumOver(w, E) BY <1>5, SumOfMore
<1>10. SumOver(v, D) \in Int /\ SumOver(w, All(D)) \in Int /\ SumOver(w, E) \in Int
  <2>1. D \in SUBSET D /\ E \in SUBSET E OBVIOUS
  <2> QED BY <1>1, <1>2, <1>5, <2>1, SumChosen
<1>11. SumOver(v, D) <= SumOver(w, All(D)) BY <1>8 DEF U
<1> QED BY <1>9, <1>10, <1>11

=============================================================================
