--------------------------- MODULE FederationProofs ---------------------------
(***************************************************************************)
(* Proofs about the services of the federation, for any number of services *)
(* and, between the two ends of a connection, for any number of records    *)
(* and of peers online, and any bound on the channels and their buffer.    *)
(*                                                                         *)
(* ExactlyOneFate follows from ExchangeInv: the ids a peer recorded are    *)
(* the disjoint union of those that are pending and those it exported; the *)
(* copies it made are that of those on their way, arrived and lost; and    *)
(* the ids of what arrived are those the other end has imported.  That a   *)
(* step moves copies from one place to another needs to know of the        *)
(* channels that no two envelopes carry the same copy (Apart) and that     *)
(* only what is for provenance carries any (InOrder); and of the graphs    *)
(* that a base is new when it is made up, which it is as long as the bases *)
(* are the numbers up to how many there are.                               *)
(*                                                                         *)
(* ChainsAgree needs ChainInv as well: an envelope carries what was        *)
(* recorded, what is imported has the same causes behind a prefix, and an  *)
(* anchor leads to what the other peer recorded.  Then the walk never      *)
(* comes back from foreign ids to what the peer recorded, and the walk at  *)
(* the receiver follows it step by step.                                   *)
(*                                                                         *)
(* TrustIsEarned follows from what the chain of a request names: nothing   *)
(* but ancestors that count, by the invariant of the walk (IsChained), and *)
(* all of them or more than the policy's depth, since the rounds suffice   *)
(* to empty the queue (ChainLeft).                                         *)
(***************************************************************************)
EXTENDS ProvenanceExchange, Discovery, TrustMigration, ListProofs, FiniteSetTheorems

-----------------------------------------------------------------------------
(* Discovery                                                               *)

\* What holds of the server and the services with those in running started.
WellInformed(peers, knows, running) ==
  /\ peers \in Seq(Service)
  /\ knows \in [Service -> SUBSET Service]
  /\ \A s \in ToSet(peers) : s \in running /\ knows[s] \subseteq running
  /\ \A s \in Service \ running : knows[s] = {}

DiscoveryInv == started \subseteq Service /\ WellInformed(registered, known, started)

\* A state of BroadcastJoin's loop.
JoinState == [registered : Seq(Service), known : [Service -> SUBSET Service]]
Informed(running) == {st \in JoinState : WellInformed(st.registered, st.known, running)}

\* Those without some are the others.
LEMMA WithoutFacts ==
  ASSUME NEW peers \in Seq(Service), NEW gone
  PROVE  /\ Without(peers, gone) \in Seq(Service)
         /\ ToSet(Without(peers, gone)) = ToSet(peers) \ gone
<1>1. ToSet(peers) \subseteq Service BY DEF ToSet
<1> QED BY <1>1, OnlyPlaces, OnlyElements DEF Without

\* A join between running services leaves well-informed services well informed.
LEMMA JoinKeeps ==
  ASSUME NEW running \in SUBSET Service, NEW s \in running, NEW r \in running,
         NEW state \in Informed(running)
  PROVE  Join(s, r, state) \subseteq Informed(running)
<1> USE DEF Informed, JoinState, WellInformed
<1> SUFFICES ASSUME NEW new \in Join(s, r, state) PROVE new \in Informed(running) OBVIOUS
<1>1. CASE s \notin ToSet(state.registered)
  <2>1. new = [state EXCEPT !.known[r] = @ \cup {s}] BY <1>1 DEF Join
  <2> QED BY <2>1
<1>2. CASE s \in ToSet(state.registered)
  <2>1. PICK gone \in {{s}, {r}, {s, r}} :
          new = [registered |-> Without(state.registered, gone),
                 known |-> [state.known EXCEPT ![r] = @ \cup {s}, ![s] = @ \cup {r}]]
    BY <1>2 DEF Join
  <2>2. /\ new.registered \in Seq(Service)
        /\ ToSet(new.registered) = ToSet(state.registered) \ gone
    BY <2>1, WithoutFacts
  <2>3. /\ new.known \in [Service -> SUBSET Service]
        /\ \A t \in Service : /\ t \notin {s, r} => new.known[t] = state.known[t]
                              /\ new.known[t] \subseteq state.known[t] \cup {s, r}
    BY <2>1
  <2>4. new \in JoinState BY <2>1, <2>2, <2>3
  <2> QED BY <2>2, <2>3, <2>4
<1> QED BY <1>1, <1>2

\* So does the broadcast of a join.
LEMMA BroadcastKeeps ==
  ASSUME NEW s \in Service, NEW peers, NEW running \in SUBSET Service, s \in running,
         WellInformed(peers, known, running),
         BroadcastJoin(s, peers)
  PROVE  WellInformed(registered', known', running)
<1> DEFINE told == Without(peers, {s})
           k == Len(told)
           first == [registered |-> peers, known |-> known]
           Told(set, n) == UNION {Join(s, told[n], state) : state \in set}
           S == SUBSET Informed(running)
           begin == {first}
           IsAfter(f) == f = [n \in 0..k |-> IF n = 0 THEN begin ELSE Told(f[n - 1], n)]
           after == CHOOSE f : IsAfter(f)
<1>1. told \in Seq(Service) /\ \A n \in 1..k : told[n] \in running
  <2>1. peers \in Seq(Service) /\ ToSet(peers) \subseteq running BY DEF WellInformed
  <2>2. told \in Seq(Service) /\ ToSet(told) = ToSet(peers) \ {s} BY <2>1, WithoutFacts
  <2> HIDE DEF told
  <2>3. \A n \in 1..Len(told) : told[n] \in ToSet(told) BY <2>2 DEF ToSet
  <2> QED BY <2>1, <2>2, <2>3
<1>2. \A set \in S, n \in 1..k : Told(set, n) \in S
  <2> HIDE DEF told
  <2> QED BY <1>1, JoinKeeps
<1>3. begin \in S BY DEF Informed, JoinState, WellInformed
<1>4. k \in Nat BY <1>1
<1> DEFINE Round == [e \in S \X (1..k) |-> Told(e[1], e[2])]
<1> HIDE DEF told, k, begin, S, Told
<1>5. Round \in [S \X (1..k) -> S] BY <1>2
<1>6. PICK f \in [0..k -> S] : IsLoop(f, k, begin, Round)
  <2> HIDE DEF Round
  <2> QED BY <1>3, <1>4, <1>5, Loop
<1>7. IsAfter(f)
  <2>1. \A n \in 0..k : n # 0 => Round[<<f[n - 1], n>>] = Told(f[n - 1], n)
    <3> SUFFICES ASSUME NEW n \in 0..k, n # 0 PROVE Round[<<f[n - 1], n>>] = Told(f[n - 1], n)
      OBVIOUS
    <3>1. n \in 1..k /\ n - 1 \in 0..k BY <1>4
    <3>2. f[n - 1] \in S BY <3>1
    <3> QED BY <3>1, <3>2
  <2> HIDE DEF Round
  <2> QED BY <1>6, <2>1 DEF IsLoop
<1>8. IsAfter(after) BY <1>7
<1> HIDE DEF after
<1>9. \A n \in 0..k : after[n] \in S
  <2> DEFINE T == {n \in 0..k : after[n] \in S}
  <2>1. 0 \in T BY <1>3, <1>4, <1>8
  <2>2. ASSUME NEW n \in 1..k, n - 1 \in T PROVE n \in T
    <3>1. n \in 0..k /\ n # 0 BY <1>4
    <3>2. after[n] = Told(after[n - 1], n) BY <1>8, <3>1
    <3> QED BY <1>2, <2>2, <3>1, <3>2
  <2> HIDE DEF T
  <2>3. \A n \in 1..k : n - 1 \in T => n \in T BY <2>2
  <2>4. \A n \in 0..k : n \in T BY <1>4, <2>1, <2>3, UpTo
  <2> QED BY <2>4 DEF T
<1>10. \E state \in after[k] : registered' = state.registered /\ known' = state.known
  BY DEF BroadcastJoin, after, told, k, begin, Told
<1>11. \E state \in Informed(running) : registered' = state.registered /\ known' = state.known
  BY <1>4, <1>9, <1>10 DEF S
<1> QED BY <1>11 DEF Informed

\* A service that stops is forgotten by those who hear of it.
LEMMA StopKeeps ==
  ASSUME DiscoveryInv, NEW s \in Service, StopDiscovery(s)
  PROVE  DiscoveryInv'
<1> USE DEF DiscoveryInv, WellInformed
<1>1. /\ started' = started \ {s}
      /\ registered' = Without(registered, {s})
      /\ known' = [r \in Service |->
           IF r = s THEN {} ELSE IF r \in ToSet(registered) THEN known[r] \ {s} ELSE known[r]]
  BY DEF StopDiscovery
<1>2. registered' \in Seq(Service) /\ ToSet(registered') = ToSet(registered) \ {s}
  BY <1>1, WithoutFacts
<1> QED BY <1>1, <1>2

\* HeardEveryGoodbye: whoever is thrown off the server in whatever order, a
\* service on it has heard of every stop of those it knows.
THEOREM GoodbyesHeard == DiscoverySpec => []HeardEveryGoodbye
<1>1. DiscoveryInit => DiscoveryInv
  BY DEF DiscoveryInit, DiscoveryInv, WellInformed, ToSet
<1>2. DiscoveryInv /\ [DiscoveryNext]_discoveryVars => DiscoveryInv'
  <2> SUFFICES ASSUME DiscoveryInv, [DiscoveryNext]_discoveryVars PROVE DiscoveryInv' OBVIOUS
  <2>1. ASSUME NEW s \in Service, StartDiscovery(s) PROVE DiscoveryInv'
    <3>1. s \notin started /\ started' = started \cup {s} /\ BroadcastJoin(s, Append(registered, s))
      BY <2>1 DEF StartDiscovery
    <3>2. /\ Append(registered, s) \in Seq(Service)
          /\ ToSet(Append(registered, s)) = ToSet(registered) \cup {s}
      BY AppendElements DEF DiscoveryInv, WellInformed
    <3>3. WellInformed(Append(registered, s), known, started')
      BY <3>1, <3>2 DEF DiscoveryInv, WellInformed
    <3> QED BY <3>1, <3>3, BroadcastKeeps DEF DiscoveryInv
  <2>2. ASSUME NEW s \in Service, AnnouncePresence(s) PROVE DiscoveryInv'
    BY <2>2, BroadcastKeeps DEF AnnouncePresence, DiscoveryInv
  <2>3. ASSUME NEW s \in Service, StopDiscovery(s) PROVE DiscoveryInv' BY <2>3, StopKeeps
  <2>4. CASE UNCHANGED discoveryVars BY <2>4 DEF discoveryVars, DiscoveryInv
  <2> QED BY <2>1, <2>2, <2>3, <2>4 DEF DiscoveryNext
<1>3. DiscoveryInv => HeardEveryGoodbye BY DEF DiscoveryInv, WellInformed, HeardEveryGoodbye
<1> QED BY <1>1, <1>2, <1>3, PTL DEF DiscoverySpec

-----------------------------------------------------------------------------
(* Lists of envelopes                                                      *)

\* What the envelopes of a list carry, and that no two carry one thing.
CopiesOf(list) == UNION {e.copies : e \in ToSet(list)}
Apart(list)    == \A i, j \in DOMAIN list : i # j => list[i].copies \cap list[j].copies = {}

\* The lists one and two hold apart what all held.
Parts(all, one, two) == CopiesOf(all) = CopiesOf(one) \cup CopiesOf(two)
Split(all, one, two) ==
  Apart(one) /\ Apart(two) /\ CopiesOf(one) \cap CopiesOf(two) = {} /\ Parts(all, one, two)

\* Two lists one after the other.
LEMMA JoinLists ==
  ASSUME NEW S, NEW one \in Seq(S), NEW two \in Seq(S)
  PROVE  /\ one \o two \in Seq(S) /\ Parts(one \o two, one, two)
         /\ ToSet(one \o two) = ToSet(one) \cup ToSet(two)
         /\ Split(one \o two, one, two) => Apart(one \o two)
<1> DEFINE all == one \o two
           m == Len(one)
           n == Len(two)
<1>1. /\ all \in Seq(S) /\ m \in Nat /\ n \in Nat
      /\ DOMAIN one = 1..m /\ DOMAIN two = 1..n /\ DOMAIN all = 1..(m + n)
      /\ \A i \in 1..m : all[i] = one[i]
      /\ \A i \in 1..n : all[m + i] = two[i]
      /\ \A i \in (m + 1)..(m + n) : all[i] = two[i - m]
  OBVIOUS
<1>4. ToSet(all) = ToSet(one) \cup ToSet(two) BY Concatenated
<1> HIDE DEF all, m, n
<1>2. \A i \in 1..(m + n) : \/ i \in 1..m /\ all[i] = one[i]
                            \/ i > m /\ i - m \in 1..n /\ all[i] = two[i - m]
  BY <1>1
<1>5. Parts(all, one, two) BY <1>4 DEF Parts, CopiesOf
<1>6. ASSUME Split(all, one, two) PROVE Apart(all)
  <2> SUFFICES ASSUME NEW i \in 1..(m + n), NEW j \in 1..(m + n), i # j
               PROVE  all[i].copies \cap all[j].copies = {}
    BY <1>1 DEF Apart
  <2>1. (\A k \in 1..m : one[k].copies \subseteq CopiesOf(one)) /\ (\A k \in 1..n : two[k].copies \subseteq CopiesOf(two))
    BY <1>1 DEF CopiesOf, ToSet
  <2>2. CopiesOf(one) \cap CopiesOf(two) = {} BY <1>6 DEF Split
  <2>3. CASE i \in 1..m /\ j \in 1..m BY <1>1, <1>6, <2>3 DEF Split, Apart
  <2>a. \A k \in 1..(m + n) : IF k \in 1..m THEN all[k].copies \subseteq CopiesOf(one) ELSE all[k].copies \subseteq CopiesOf(two)
    <3> SUFFICES ASSUME NEW k \in 1..(m + n)
                 PROVE  IF k \in 1..m THEN all[k].copies \subseteq CopiesOf(one) ELSE all[k].copies \subseteq CopiesOf(two)
      OBVIOUS
    <3>1. CASE k \in 1..m BY <1>1, <2>1, <3>1
    <3>2. CASE k \notin 1..m
      <4>1. k - m \in 1..n /\ all[k] = two[k - m] BY <1>1, <1>2, <3>2
      <4> QED BY <2>1, <3>2, <4>1
    <3> QED BY <3>1, <3>2
  <2>4. CASE i \in 1..m /\ j \notin 1..m
    <3>1. all[i].copies \subseteq CopiesOf(one) /\ all[j].copies \subseteq CopiesOf(two) BY <2>a, <2>4
    <3> QED BY <2>2, <3>1
  <2>5. CASE i \notin 1..m /\ j \in 1..m
    <3>1. all[j].copies \subseteq CopiesOf(one) /\ all[i].copies \subseteq CopiesOf(two) BY <2>a, <2>5
    <3> QED BY <2>2, <3>1
  <2>6. CASE i \notin 1..m /\ j \notin 1..m
    <3>1. i > m /\ i - m \in 1..n /\ all[i] = two[i - m] BY <1>1, <1>2, <2>6
    <3>2. j > m /\ j - m \in 1..n /\ all[j] = two[j - m] BY <1>1, <1>2, <2>6
    <3>3. i - m # j - m BY <1>1
    <3>4. \A k, l \in 1..n : k # l => two[k].copies \cap two[l].copies = {} BY <1>1, <1>6 DEF Split, Apart
    <3> QED BY <3>1, <3>2, <3>3, <3>4
  <2> QED BY <2>3, <2>4, <2>5, <2>6
<1> QED BY <1>1, <1>4, <1>5, <1>6 DEF all

\* A list without its head.
LEMMA TakeHead ==
  ASSUME NEW S, NEW list \in Seq(S), list # <<>>
  PROVE  /\ Head(list) \in ToSet(list) /\ Tail(list) \in Seq(S) /\ ToSet(Tail(list)) \subseteq ToSet(list)
         /\ CopiesOf(list) = Head(list).copies \cup CopiesOf(Tail(list))
         /\ Apart(list) => Apart(Tail(list)) /\ Head(list).copies \cap CopiesOf(Tail(list)) = {}
<1> DEFINE rest == Tail(list)
           k == Len(list)
<1>1. /\ k \in Nat /\ k >= 1 /\ DOMAIN list = 1..k /\ Head(list) = list[1]
      /\ rest \in Seq(S) /\ Len(rest) = k - 1 /\ DOMAIN rest = 1..(k - 1)
      /\ \A i \in 1..(k - 1) : rest[i] = list[i + 1] /\ i + 1 \in 1..k /\ i + 1 # 1
      /\ \A i \in 1..k : i # 1 => i - 1 \in 1..(k - 1) /\ (i - 1) + 1 = i
  OBVIOUS
<1>6. ToSet(list) = {Head(list)} \cup ToSet(rest) BY WithoutHead
<1> HIDE DEF rest, k
<1>2. 1 \in 1..k BY <1>1
<1>3. Head(list) \in ToSet(list) BY <1>1, <1>2 DEF ToSet
<1>4. ToSet(rest) \subseteq ToSet(list) BY <1>6
<1>7. CopiesOf(list) = Head(list).copies \cup CopiesOf(rest) BY <1>6 DEF CopiesOf
<1>8. ASSUME Apart(list) PROVE Apart(rest) /\ Head(list).copies \cap CopiesOf(rest) = {}
  <2>1. ASSUME NEW i \in 1..(k - 1), NEW j \in 1..(k - 1), i # j
        PROVE  rest[i].copies \cap rest[j].copies = {}
    <3>1. i + 1 # j + 1 /\ i + 1 \in 1..k /\ j + 1 \in 1..k BY <1>1, <2>1
    <3>2. rest[i] = list[i + 1] /\ rest[j] = list[j + 1] BY <1>1
    <3>3. \A m, n \in 1..k : m # n => list[m].copies \cap list[n].copies = {} BY <1>1, <1>8 DEF Apart
    <3> QED BY <3>1, <3>2, <3>3
  <2>2. \A i \in 1..(k - 1) : list[1].copies \cap rest[i].copies = {} BY <1>1, <1>2, <1>8 DEF Apart
  <2>3. Head(list).copies \cap CopiesOf(rest) = {} BY <1>1, <2>2 DEF CopiesOf, ToSet
  <2> QED BY <1>1, <2>1, <2>3 DEF Apart
<1> QED BY <1>1, <1>3, <1>4, <1>7, <1>8 DEF rest

\* Only keeps a list apart.
LEMMA OnlyApart ==
  ASSUME NEW S, NEW list \in Seq(S), NEW set, Apart(list)
  PROVE  Apart(Only(list, set))
<1> DEFINE only == Only(list, set)
<1>1. only \in Seq(S) /\ DOMAIN only = 1..Len(only) /\ DOMAIN list = 1..Len(list) /\ Len(only) \in Nat BY OnlyPlaces
<1>2. PICK f : ArePlaces(f, only, list, set, Len(list)) BY OnlyPlaces
<1> HIDE DEF only
<1> SUFFICES ASSUME NEW i \in 1..Len(only), NEW j \in 1..Len(only), i # j
             PROVE  only[i].copies \cap only[j].copies = {}
  BY <1>1 DEF Apart, only
<1>3. f[i] # f[j] /\ f[i] \in 1..Len(list) /\ f[j] \in 1..Len(list)
  <2>1. i < j \/ j < i BY <1>1
  <2> QED BY <1>2, <2>1 DEF ArePlaces
<1> QED BY <1>1, <1>2, <1>3 DEF ArePlaces, Apart

\* A list sorted in two by a set.
LEMMA SortInTwo ==
  ASSUME NEW S, NEW list \in Seq(S), NEW one, NEW two,
         one \cup two = ToSet(list), one \cap two = {}, Apart(list)
  PROVE  Split(list, Only(list, one), Only(list, two))
<1> DEFINE a == Only(list, one)
           b == Only(list, two)
<1>1. ToSet(a) = one /\ ToSet(b) = two BY OnlyElements
<1>2. Apart(a) /\ Apart(b) BY OnlyApart
<1> HIDE DEF a, b
<1>3. Parts(list, a, b) BY <1>1 DEF Parts, CopiesOf
<1>4. CopiesOf(a) \cap CopiesOf(b) = {}
  <2> SUFFICES ASSUME NEW d \in one, NEW e \in two PROVE d.copies \cap e.copies = {}
    BY <1>1 DEF CopiesOf
  <2>1. d \in ToSet(list) /\ e \in ToSet(list) /\ d # e OBVIOUS
  <2> QED BY <2>1 DEF Apart, ToSet
<1> QED BY <1>2, <1>3, <1>4 DEF Split, a, b

-----------------------------------------------------------------------------
(* The channels and the buffer of one peer                                 *)

Id   == Nat \X Nat
Copy == Id \X Nat
NodeType == [entity : {"entity"}, intent : Nat, actor : Peer, authorization : {"delegated"},
             runtime : Peer, parents : SUBSET Id]
Item == [id : Id, node : NodeType]

AnyEnvelope ==
  [purpose : {"provenance"}, copies : SUBSET Copy, nodes : Seq(Item)]
  \cup [purpose : {"sync"}, op : {"fullSnapshot", "patches"}, copies : {{}}, nodes : {<<>>}]
Envelope == {e \in AnyEnvelope : IdsOf(e.copies) = {e.nodes[n].id : n \in DOMAIN e.nodes}}

\* The buffer and the channels of a peer: what is on a channel is for it, only
\* the channel for provenance carries copies, and no two envelopes carry one copy.
InOrder(waiting, sent) ==
  /\ waiting \in Seq(Envelope) /\ sent \in [Purpose -> Seq(Envelope)]
  /\ Len(waiting) <= MaxBuffer
  /\ \A u \in Purpose : \A e \in ToSet(sent[u]) : e.purpose = u
  /\ Apart(waiting) /\ Apart(sent["provenance"])
  /\ CopiesOf(waiting) \cap CopiesOf(sent["provenance"]) = {}

\* OnTheWay(p) of buffer[p] and wire[p].
Carried(waiting, sent) ==
  UNION {e.copies : e \in ToSet(waiting) \cup UNION {ToSet(sent[u]) : u \in Purpose}}

\* A list that can be taken on, and what it is to have taken it on.
Fresh(list, waiting, sent) ==
  list \in Seq(Envelope) /\ Apart(list) /\ CopiesOf(list) \cap Carried(waiting, sent) = {}
AllFor(u, list) == \A e \in ToSet(list) : e.purpose = u
Takes(list, waiting, sent, nextWaiting, nextSent) ==
  /\ InOrder(nextWaiting, nextSent)
  /\ Carried(nextWaiting, nextSent) = Carried(waiting, sent) \cup CopiesOf(list)

\* An envelope for another purpose carries no copies.
LEMMA EnvelopeFacts ==
  ASSUME NEW e \in Envelope
  PROVE  /\ e.purpose \in {"provenance", "sync"} /\ e.copies \subseteq Copy /\ e.nodes \in Seq(Item)
         /\ IdsOf(e.copies) = {e.nodes[n].id : n \in DOMAIN e.nodes}
         /\ e.purpose # "provenance" => e.copies = {}
<1>1. e \in AnyEnvelope /\ IdsOf(e.copies) = {e.nodes[n].id : n \in DOMAIN e.nodes} BY DEF Envelope
<1>2. CASE e \in [purpose : {"provenance"}, copies : SUBSET Copy, nodes : Seq(Item)]
  <2>1. e.purpose = "provenance" /\ e.copies \subseteq Copy /\ e.nodes \in Seq(Item) BY <1>2
  <2> QED BY <1>1, <2>1
<1>3. CASE e \in [purpose : {"sync"}, op : {"fullSnapshot", "patches"}, copies : {{}}, nodes : {<<>>}]
  <2>1. e.purpose = "sync" /\ e.copies = {} /\ e.nodes = <<>> BY <1>3
  <2>2. <<>> \in Seq(Item) OBVIOUS
  <2> QED BY <1>1, <2>1, <2>2
<1> QED BY <1>1, <1>2, <1>3 DEF AnyEnvelope

\* The elements of a list of members of S are members of S.
LEMMA ElementsOf ==
  ASSUME NEW S, NEW list \in Seq(S)
  PROVE  ToSet(list) \subseteq S
BY DEF ToSet

\* What envelopes carry are copies.
LEMMA IdsAreIds ==
  ASSUME NEW list \in Seq(Envelope)
  PROVE  CopiesOf(list) \in SUBSET Copy
BY ElementsOf, EnvelopeFacts DEF CopiesOf

\* Only the buffer and the channel for provenance carry copies.
LEMMA CarriedIs ==
  ASSUME NEW waiting, NEW sent, InOrder(waiting, sent)
  PROVE  Carried(waiting, sent) = CopiesOf(waiting) \cup CopiesOf(sent["provenance"])
<1>1. \A u \in Purpose : u # "provenance" => \A e \in ToSet(sent[u]) : e.copies = {}
  <2> SUFFICES ASSUME NEW u \in Purpose, u # "provenance", NEW e \in ToSet(sent[u]) PROVE e.copies = {}
    OBVIOUS
  <2>1. e \in Envelope /\ e.purpose = u BY ElementsOf DEF InOrder
  <2> QED BY <2>1, EnvelopeFacts
<1>2. "provenance" \in Purpose BY PurposeAssumption
<1> QED BY <1>1, <1>2 DEF Carried, CopiesOf

\* What is put on a channel is carried.
LEMMA PutOnWire ==
  ASSUME NEW waiting, NEW sent, InOrder(waiting, sent), NEW u \in Purpose,
         NEW list, Fresh(list, waiting, sent), AllFor(u, list),
         NEW now, now = [sent EXCEPT ![u] = @ \o list]
  PROVE  Takes(list, waiting, sent, waiting, now)
<1>0. /\ list \in Seq(Envelope) /\ Apart(list) /\ CopiesOf(list) \cap Carried(waiting, sent) = {}
      /\ \A e \in ToSet(list) : e.purpose = u
  BY DEF Fresh, AllFor
<1>1. sent[u] \in Seq(Envelope) BY DEF InOrder
<1> DEFINE all == sent[u] \o list
<1>2. /\ all \in Seq(Envelope) /\ Parts(all, sent[u], list)
      /\ ToSet(all) = ToSet(sent[u]) \cup ToSet(list)
      /\ Split(all, sent[u], list) => Apart(all)
  BY <1>0, <1>1, JoinLists
<1>3. /\ now \in [Purpose -> Seq(Envelope)] /\ now[u] = all
      /\ \A v \in Purpose : v # u => now[v] = sent[v]
  <2> HIDE DEF all
  <2>1. now = [sent EXCEPT ![u] = all] BY DEF all
  <2> QED BY <1>2, <2>1 DEF InOrder
<1> HIDE DEF all
<1>4. Carried(waiting, sent) = CopiesOf(waiting) \cup CopiesOf(sent["provenance"]) BY CarriedIs
<1>5. CopiesOf(all) = CopiesOf(sent[u]) \cup CopiesOf(list) BY <1>2 DEF Parts
<1>6. CASE u = "provenance"
  <2>1. Split(all, sent[u], list) BY <1>0, <1>2, <1>4, <1>6 DEF Split, InOrder
  <2>2. InOrder(waiting, now) BY <1>0, <1>2, <1>3, <1>4, <1>5, <1>6, <2>1 DEF InOrder
  <2>3. Carried(waiting, now) = CopiesOf(waiting) \cup CopiesOf(all) BY <1>3, <1>6, <2>2, CarriedIs
  <2> QED BY <1>4, <1>5, <1>6, <2>2, <2>3 DEF Takes
<1>7. CASE u # "provenance"
  <2>1. "provenance" \in Purpose BY PurposeAssumption
  <2>2. now["provenance"] = sent["provenance"] BY <1>3, <1>7, <2>1
  <2>3. InOrder(waiting, now) BY <1>0, <1>2, <1>3, <2>2 DEF InOrder
  <2>4. CopiesOf(list) = {} BY <1>0, <1>7, ElementsOf, EnvelopeFacts DEF CopiesOf
  <2>5. Carried(waiting, now) = CopiesOf(waiting) \cup CopiesOf(sent["provenance"]) BY <2>2, <2>3, CarriedIs
  <2> QED BY <1>4, <2>3, <2>4, <2>5 DEF Takes
<1> QED BY <1>6, <1>7

\* What is put in the buffer is carried.
LEMMA PutInBuffer ==
  ASSUME NEW waiting, NEW sent, InOrder(waiting, sent),
         NEW list, Fresh(list, waiting, sent), Len(waiting \o list) <= MaxBuffer
  PROVE  Takes(list, waiting, sent, waiting \o list, sent)
<1>0. list \in Seq(Envelope) /\ Apart(list) /\ CopiesOf(list) \cap Carried(waiting, sent) = {} BY DEF Fresh
<1> DEFINE all == waiting \o list
<1>1. waiting \in Seq(Envelope) BY DEF InOrder
<1>2. /\ all \in Seq(Envelope) /\ Parts(all, waiting, list)
      /\ Split(all, waiting, list) => Apart(all)
  BY <1>0, <1>1, JoinLists
<1>3. Len(all) <= MaxBuffer OBVIOUS
<1> HIDE DEF all
<1>4. Carried(waiting, sent) = CopiesOf(waiting) \cup CopiesOf(sent["provenance"]) BY CarriedIs
<1>5. CopiesOf(all) = CopiesOf(waiting) \cup CopiesOf(list) BY <1>2 DEF Parts
<1>6. Split(all, waiting, list) BY <1>0, <1>2, <1>4 DEF Split, InOrder
<1>7. InOrder(all, sent) BY <1>0, <1>2, <1>3, <1>4, <1>5, <1>6 DEF InOrder
<1>8. Carried(all, sent) = CopiesOf(all) \cup CopiesOf(sent["provenance"]) BY <1>7, CarriedIs
<1> QED BY <1>4, <1>5, <1>7, <1>8 DEF all, Takes

\* The first envelope leaves its channel.
LEMMA TakeFromWire ==
  ASSUME NEW waiting, NEW sent, InOrder(waiting, sent), NEW u \in Purpose, sent[u] # <<>>,
         NEW now, now = [sent EXCEPT ![u] = Tail(@)]
  PROVE  /\ InOrder(waiting, now) /\ Head(sent[u]) \in Envelope
         /\ Head(sent[u]).copies \subseteq Carried(waiting, sent)
         /\ Carried(waiting, now) = Carried(waiting, sent) \ Head(sent[u]).copies
<1> DEFINE list == sent[u]
           rest == Tail(list)
           e == Head(list)
<1>1. list \in Seq(Envelope) BY DEF InOrder
<1>2. /\ e \in ToSet(list) /\ rest \in Seq(Envelope) /\ ToSet(rest) \subseteq ToSet(list)
      /\ CopiesOf(list) = e.copies \cup CopiesOf(rest)
      /\ Apart(list) => Apart(rest) /\ e.copies \cap CopiesOf(rest) = {}
  BY <1>1, TakeHead
<1>3. e \in Envelope BY <1>1, <1>2, ElementsOf
<1>4. /\ now \in [Purpose -> Seq(Envelope)] /\ now[u] = rest
      /\ \A v \in Purpose : v # u => now[v] = sent[v]
  BY <1>2 DEF InOrder
<1>5. Carried(waiting, sent) = CopiesOf(waiting) \cup CopiesOf(sent["provenance"]) BY CarriedIs
<1>6. e.purpose = u BY <1>2 DEF InOrder
<1> HIDE DEF e, rest
<1>7. CASE u = "provenance"
  <2>1. list = sent["provenance"] BY <1>7
  <2> HIDE DEF list
  <2>2. Apart(rest) /\ e.copies \cap CopiesOf(rest) = {} BY <1>2, <2>1 DEF InOrder
  <2>3. now["provenance"] = rest BY <1>4, <1>7
  <2>4. \A v \in Purpose : \A d \in ToSet(now[v]) : d.purpose = v
    BY <1>2, <1>4, <1>7, <2>1 DEF InOrder
  <2>5. InOrder(waiting, now) BY <1>2, <1>4, <2>1, <2>2, <2>3, <2>4 DEF InOrder
  <2>6. Carried(waiting, now) = CopiesOf(waiting) \cup CopiesOf(rest) BY <2>3, <2>5, CarriedIs
  <2>7. CopiesOf(waiting) \cap CopiesOf(list) = {} BY <2>1 DEF InOrder
  <2> QED BY <1>2, <1>3, <1>5, <2>1, <2>2, <2>5, <2>6, <2>7 DEF e, list
<1>8. CASE u # "provenance"
  <2>1. "provenance" \in Purpose BY PurposeAssumption
  <2>2. now["provenance"] = sent["provenance"] BY <1>4, <1>8, <2>1
  <2>3. \A v \in Purpose : \A d \in ToSet(now[v]) : d.purpose = v BY <1>2, <1>4 DEF InOrder
  <2>4. InOrder(waiting, now) BY <1>4, <2>2, <2>3 DEF InOrder
  <2>5. e.copies = {} BY <1>3, <1>6, <1>8, EnvelopeFacts
  <2>6. Carried(waiting, now) = CopiesOf(waiting) \cup CopiesOf(sent["provenance"]) BY <2>2, <2>4, CarriedIs
  <2> QED BY <1>3, <1>5, <2>4, <2>5, <2>6 DEF e
<1> QED BY <1>7, <1>8

\* A flush moves what is for the channel from the buffer to it.
LEMMA FlushMoves ==
  ASSUME NEW waiting, NEW sent, InOrder(waiting, sent), NEW u \in Purpose,
         NEW now, now = [sent EXCEPT ![u] = @ \o For(u, waiting)]
  PROVE  /\ InOrder(NotFor(u, waiting), now)
         /\ Carried(NotFor(u, waiting), now) = Carried(waiting, sent)
<1> DEFINE one == {e \in ToSet(waiting) : e.purpose = u}
           two == {e \in ToSet(waiting) : e.purpose # u}
           out == For(u, waiting)
           left == NotFor(u, waiting)
<1>1. waiting \in Seq(Envelope) /\ Apart(waiting) BY DEF InOrder
<1>2. /\ out \in Seq(Envelope) /\ left \in Seq(Envelope)
      /\ Len(left) <= Len(waiting) /\ Len(left) \in Nat /\ Len(waiting) \in Nat
      /\ ToSet(out) = one /\ ToSet(left) = two
  <2>1. out \in Seq(Envelope) /\ ToSet(out) = ToSet(waiting) \cap one
    BY <1>1, OnlyPlaces, OnlyElements DEF For
  <2>2. /\ left \in Seq(Envelope) /\ ToSet(left) = ToSet(waiting) \cap two
        /\ Len(left) <= Len(waiting)
    BY <1>1, OnlyPlaces, OnlyElements DEF NotFor
  <2> HIDE DEF out, left
  <2> QED BY <1>1, <2>1, <2>2
<1>3. Split(waiting, out, left)
  <2>1. one \cup two = ToSet(waiting) /\ one \cap two = {} OBVIOUS
  <2> HIDE DEF one, two
  <2>2. Split(waiting, Only(waiting, one), Only(waiting, two)) BY <1>1, <2>1, SortInTwo
  <2> QED BY <2>2 DEF one, two, For, NotFor
<1> HIDE DEF out, left
<1>4. /\ Apart(out) /\ Apart(left) /\ CopiesOf(out) \cap CopiesOf(left) = {}
      /\ CopiesOf(waiting) = CopiesOf(out) \cup CopiesOf(left)
  BY <1>3 DEF Split, Parts
<1>5. Carried(waiting, sent) = CopiesOf(waiting) \cup CopiesOf(sent["provenance"]) BY CarriedIs
<1>6. InOrder(left, sent)
  <2>1. Len(left) <= MaxBuffer BY <1>2, BufferAssumption DEF InOrder
  <2> QED BY <1>2, <1>4, <2>1 DEF InOrder
<1>7. Carried(left, sent) = CopiesOf(left) \cup CopiesOf(sent["provenance"]) BY <1>6, CarriedIs
<1>8. Fresh(out, left, sent) BY <1>2, <1>4, <1>7 DEF InOrder, Fresh
<1>9. now = [sent EXCEPT ![u] = @ \o out] BY DEF out
<1>10. AllFor(u, out) BY <1>2 DEF AllFor
<1>11. Takes(out, left, sent, left, now) BY <1>6, <1>8, <1>9, <1>10, PutOnWire
<1> QED BY <1>4, <1>5, <1>7, <1>11 DEF left, Takes

-----------------------------------------------------------------------------
(* Steps of the data channels                                              *)

\* What is about the envelopes of a list behind the first k.
Behind(list, k) == UNION {list[n].copies : n \in k + 1 .. Len(list)}

\* Two sets that are all of the third, apart.
Divides(all, one, two) == one \cup two = all /\ one \cap two = {}

\* The first k envelopes of a list, and what is behind them.
LEMMA Truncate ==
  ASSUME NEW S, NEW list \in Seq(S), Apart(list), NEW k \in 0..Len(list),
         NEW first, first = SubSeq(list, 1, k)
  PROVE  /\ first \in Seq(S) /\ Len(first) = k /\ Apart(first)
         /\ Divides(CopiesOf(list), CopiesOf(first), Behind(list, k))
<1> DEFINE m == Len(list)
<1>1. /\ first \in Seq(S) /\ m \in Nat /\ k \in Nat /\ k <= m
      /\ DOMAIN list = 1..m /\ DOMAIN first = 1..k /\ Len(first) = k
      /\ \A i \in 1..k : first[i] = list[i] /\ i \in 1..m
  OBVIOUS
<1> HIDE DEF m
<1>2. Apart(first) BY <1>1 DEF Apart
<1>3. CopiesOf(list) = UNION {list[n].copies : n \in 1..m} BY <1>1 DEF CopiesOf, ToSet
<1>4. CopiesOf(first) = UNION {list[n].copies : n \in 1..k}
  <2>1. CopiesOf(first) = UNION {first[n].copies : n \in 1..k} BY <1>1 DEF CopiesOf, ToSet
  <2> QED BY <1>1, <2>1
<1>5. Behind(list, k) = UNION {list[n].copies : n \in (k + 1)..m} BY DEF Behind, m
<1>6. \A n \in 1..m : n \in 1..k \/ n \in (k + 1)..m BY <1>1
<1>7. \A n \in (k + 1)..m : n \in 1..m /\ n \notin 1..k BY <1>1
<1>8. CopiesOf(first) \cup Behind(list, k) = CopiesOf(list) BY <1>1, <1>3, <1>4, <1>5, <1>6, <1>7
<1>9. CopiesOf(first) \cap Behind(list, k) = {}
  <2> SUFFICES ASSUME NEW i \in 1..k, NEW j \in (k + 1)..m PROVE list[i].copies \cap list[j].copies = {}
    BY <1>4, <1>5
  <2>1. i \in 1..m /\ j \in 1..m /\ i # j BY <1>1, <1>7
  <2> QED BY <1>1, <2>1 DEF Apart
<1> QED BY <1>1, <1>2, <1>8, <1>9 DEF Divides

\* The least of two integers.
LEMMA MinOfTwo ==
  ASSUME NEW a \in Int, NEW b \in Int
  PROVE  /\ Min({a, b}) \in Int /\ Min({a, b}) <= a /\ Min({a, b}) <= b
         /\ Min({a, b}) = a \/ Min({a, b}) = b
<1>1. \E x \in {a, b} : \A y \in {a, b} : x <= y
  <2>1. a <= b \/ b <= a OBVIOUS
  <2> QED BY <2>1
<1>2. Min({a, b}) \in {a, b} /\ \A y \in {a, b} : Min({a, b}) <= y BY <1>1 DEF Min
<1> QED BY <1>2

ChannelInv ==
  /\ channels \in [Peer -> SUBSET Purpose]
  /\ buffer \in [Peer -> Seq(Envelope)]
  /\ wire \in [Peer -> [Purpose -> Seq(Envelope)]]
  /\ lost \in [Peer -> SUBSET Copy]
  /\ \A p \in Peer : InOrder(buffer[p], wire[p])

\* What a step at p makes of what is on the way and of what is lost.
Carries(p, carried, gone) ==
  \A r \in Peer :
    /\ OnTheWay(r)' = IF r = p THEN carried ELSE OnTheWay(r)
    /\ lost'[r] = IF r = p THEN gone ELSE lost[r]

\* Some of what is on the way is lost, if anything.
Loses(p) ==
  \E ids : ids \subseteq OnTheWay(p) /\ Carries(p, OnTheWay(p) \ ids, lost[p] \cup ids)

\* What is on the way is what the buffer and the channels carry.
LEMMA OnTheWayIs ==
  ASSUME NEW p \in Peer PROVE OnTheWay(p) = Carried(buffer[p], wire[p])
BY DEF OnTheWay, Carried

\* A step at one end of the connection.
LEMMA OneEnd ==
  ASSUME ChannelInv, NEW p \in Peer, NEW waiting, NEW sent, NEW ids \in SUBSET Copy,
         InOrder(waiting, sent), channels' \in [Peer -> SUBSET Purpose],
         buffer' = [buffer EXCEPT ![p] = waiting], wire' = [wire EXCEPT ![p] = sent],
         lost' = [lost EXCEPT ![p] = @ \cup ids]
  PROVE  ChannelInv' /\ Carries(p, Carried(waiting, sent), lost[p] \cup ids)
<1>1. /\ buffer' \in [Peer -> Seq(Envelope)] /\ wire' \in [Peer -> [Purpose -> Seq(Envelope)]]
      /\ lost' \in [Peer -> SUBSET Copy]
  BY DEF ChannelInv, InOrder
<1>2. /\ buffer'[p] = waiting /\ wire'[p] = sent /\ lost'[p] = lost[p] \cup ids
      /\ \A r \in Peer : r # p => buffer'[r] = buffer[r] /\ wire'[r] = wire[r] /\ lost'[r] = lost[r]
  BY DEF ChannelInv
<1>3. \A r \in Peer : InOrder(buffer'[r], wire'[r]) BY <1>2 DEF ChannelInv
<1>4. ChannelInv' BY <1>1, <1>3 DEF ChannelInv
<1>5. \A r \in Peer : OnTheWay(r)' = Carried(buffer'[r], wire'[r]) BY DEF OnTheWay, Carried
<1>6. Carries(p, Carried(waiting, sent), lost[p] \cup ids) BY <1>2, <1>5, OnTheWayIs DEF Carries
<1> QED BY <1>4, <1>6

\* A step that leaves one end as it is.
LEMMA NothingMoves ==
  ASSUME ChannelInv, channels' \in [Peer -> SUBSET Purpose], UNCHANGED <<buffer, wire, lost>>
  PROVE  ChannelInv' /\ \A p \in Peer : Carries(p, OnTheWay(p), lost[p])
BY DEF ChannelInv, Carries, OnTheWay

\* send: each thing the envelopes are about is carried or lost.
LEMMA SendAllCarries ==
  ASSUME ChannelInv, NEW p \in Peer, NEW u \in Purpose, NEW list,
         Fresh(list, buffer[p], wire[p]), AllFor(u, list), SendAll(p, u, list)
  PROVE  /\ ChannelInv'
         /\ \E on, off : Divides(CopiesOf(list), on, off) /\ Carries(p, OnTheWay(p) \cup on, lost[p] \cup off)
<1>1. InOrder(buffer[p], wire[p]) /\ lost[p] \in SUBSET Copy BY DEF ChannelInv
<1>2. OnTheWay(p) = Carried(buffer[p], wire[p]) BY OnTheWayIs
<1>3. list \in Seq(Envelope) /\ Apart(list) /\ CopiesOf(list) \in SUBSET Copy BY IdsAreIds DEF Fresh
<1>4. CASE /\ wire' = [wire EXCEPT ![p][u] = @ \o list]
           /\ UNCHANGED <<channels, buffer, lost>>
  <2> DEFINE now == [wire[p] EXCEPT ![u] = @ \o list]
  <2>1. Takes(list, buffer[p], wire[p], buffer[p], now) BY <1>1, PutOnWire
  <2>2. wire' = [wire EXCEPT ![p] = now] BY <1>4 DEF ChannelInv
  <2> HIDE DEF now
  <2>3. buffer' = [buffer EXCEPT ![p] = buffer[p]] /\ lost' = [lost EXCEPT ![p] = @ \cup {}]
    BY <1>4 DEF ChannelInv
  <2>4. channels' \in [Peer -> SUBSET Purpose] BY <1>4 DEF ChannelInv
  <2>5. InOrder(buffer[p], now) /\ Carried(buffer[p], now) = OnTheWay(p) \cup CopiesOf(list)
    BY <1>2, <2>1 DEF Takes
  <2>6. ChannelInv' /\ Carries(p, Carried(buffer[p], now), lost[p] \cup {})
    BY <2>2, <2>3, <2>4, <2>5, OneEnd
  <2>7. Divides(CopiesOf(list), CopiesOf(list), {}) BY DEF Divides
  <2> QED BY <2>5, <2>6, <2>7
<1>5. ASSUME NEW kept, kept = Min({MaxBuffer - Len(buffer[p]), Len(list)}),
             buffer' = [buffer EXCEPT ![p] = @ \o SubSeq(list, 1, kept)],
             GiveUp(p, Behind(list, kept)), UNCHANGED <<channels, wire>>
      PROVE  /\ ChannelInv'
             /\ \E on, off : Divides(CopiesOf(list), on, off) /\ Carries(p, OnTheWay(p) \cup on, lost[p] \cup off)
  <2> DEFINE first == SubSeq(list, 1, kept)
             ids == Behind(list, kept)
             waiting == buffer[p] \o first
  <2>1. buffer[p] \in Seq(Envelope) /\ Len(buffer[p]) \in Nat /\ Len(list) \in Nat BY <1>1, <1>3 DEF InOrder
  <2>2. kept \in 0..Len(list) /\ kept <= MaxBuffer - Len(buffer[p])
    <3>1. MaxBuffer - Len(buffer[p]) \in Nat BY <1>1, <2>1, BufferAssumption DEF InOrder
    <3>2. /\ kept <= MaxBuffer - Len(buffer[p]) /\ kept <= Len(list)
          /\ kept = MaxBuffer - Len(buffer[p]) \/ kept = Len(list)
      BY <1>5, <2>1, <3>1, MinOfTwo
    <3> QED BY <2>1, <3>1, <3>2
  <2>3. /\ first \in Seq(Envelope) /\ Len(first) = kept /\ Apart(first)
        /\ Divides(CopiesOf(list), CopiesOf(first), ids)
    BY <1>3, <2>2, Truncate
  <2> HIDE DEF first, ids
  <2>4. Len(waiting) <= MaxBuffer BY <2>1, <2>2, <2>3, BufferAssumption
  <2>5. Fresh(first, buffer[p], wire[p])
    <3>1. CopiesOf(first) \subseteq CopiesOf(list) BY <2>3 DEF Divides
    <3> QED BY <2>3, <3>1 DEF Fresh
  <2>6. Takes(first, buffer[p], wire[p], waiting, wire[p]) BY <1>1, <2>4, <2>5, PutInBuffer
  <2>7. InOrder(waiting, wire[p]) /\ Carried(waiting, wire[p]) = OnTheWay(p) \cup CopiesOf(first)
    BY <1>2, <2>6 DEF Takes
  <2>8. buffer' = [buffer EXCEPT ![p] = waiting] BY <1>5 DEF first, ChannelInv
  <2>9. wire' = [wire EXCEPT ![p] = wire[p]] /\ channels' \in [Peer -> SUBSET Purpose]
    BY <1>5 DEF ChannelInv
  <2>10. lost' = [lost EXCEPT ![p] = @ \cup ids] BY <1>5 DEF GiveUp, ids
  <2>11. ids \in SUBSET Copy BY <1>3, <2>3 DEF Divides
  <2> HIDE DEF waiting
  <2>12. ChannelInv' /\ Carries(p, Carried(waiting, wire[p]), lost[p] \cup ids)
    BY <2>7, <2>8, <2>9, <2>10, <2>11, OneEnd
  <2> QED BY <2>3, <2>7, <2>12
<1> QED BY <1>4, <1>5 DEF SendAll, Behind

\* A registered or unregistered channel changes nothing of what is on its way.
LEMMA RegisterKeeps ==
  ASSUME ChannelInv, NEW p \in Peer, NEW u \in Purpose,
         RegisterChannel(p, u) \/ UnregisterChannel(p, u)
  PROVE  ChannelInv' /\ Carries(p, OnTheWay(p), lost[p])
<1>1. channels' \in [Peer -> SUBSET Purpose]
  <2>1. channels' = [channels EXCEPT ![p] = @ \cup {u}] \/ channels' = [channels EXCEPT ![p] = @ \ {u}]
    BY DEF RegisterChannel, UnregisterChannel
  <2>2. channels[p] \cup {u} \in SUBSET Purpose /\ channels[p] \ {u} \in SUBSET Purpose BY DEF ChannelInv
  <2> QED BY <2>1, <2>2 DEF ChannelInv
<1>2. CASE UNCHANGED <<buffer, wire, lost>> BY <1>1, <1>2, NothingMoves
<1>3. CASE FlushPending(p, u) /\ UNCHANGED lost
  <2> DEFINE now == [wire[p] EXCEPT ![u] = @ \o For(u, buffer[p])]
             left == NotFor(u, buffer[p])
  <2>1. InOrder(buffer[p], wire[p]) BY DEF ChannelInv
  <2>2. InOrder(left, now) /\ Carried(left, now) = Carried(buffer[p], wire[p]) BY <2>1, FlushMoves
  <2>3. wire' = [wire EXCEPT ![p] = now] /\ buffer' = [buffer EXCEPT ![p] = left]
    BY <1>3 DEF FlushPending, ChannelInv
  <2>4. lost' = [lost EXCEPT ![p] = @ \cup {}] BY <1>3 DEF ChannelInv
  <2> HIDE DEF now, left
  <2>5. ChannelInv' /\ Carries(p, Carried(left, now), lost[p] \cup {})
    BY <1>1, <2>2, <2>3, <2>4, OneEnd
  <2>6. lost[p] \cup {} = lost[p] OBVIOUS
  <2> QED BY <2>2, <2>5, <2>6, OnTheWayIs
<1> QED BY <1>2, <1>3 DEF RegisterChannel, UnregisterChannel

\* The first envelope of a channel arrives.
LEMMA ReceiveTakes ==
  ASSUME ChannelInv, NEW p \in Peer, NEW u \in Purpose, Receive(p, u)
  PROVE  /\ ChannelInv' /\ Head(wire[p][u]) \in Envelope
         /\ Head(wire[p][u]).copies \subseteq OnTheWay(p)
         /\ Carries(p, OnTheWay(p) \ Head(wire[p][u]).copies, lost[p])
<1> DEFINE now == [wire[p] EXCEPT ![u] = Tail(@)]
           e == Head(wire[p][u])
<1>1. InOrder(buffer[p], wire[p]) /\ wire[p][u] # <<>> BY DEF ChannelInv, Receive
<1>2. /\ InOrder(buffer[p], now) /\ e \in Envelope /\ e.copies \subseteq Carried(buffer[p], wire[p])
      /\ Carried(buffer[p], now) = Carried(buffer[p], wire[p]) \ e.copies
  BY <1>1, TakeFromWire
<1>3. /\ wire' = [wire EXCEPT ![p] = now] /\ buffer' = [buffer EXCEPT ![p] = buffer[p]]
      /\ lost' = [lost EXCEPT ![p] = @ \cup {}] /\ channels' \in [Peer -> SUBSET Purpose]
  BY DEF Receive, ChannelInv
<1> HIDE DEF now, e
<1>4. ChannelInv' /\ Carries(p, Carried(buffer[p], now), lost[p] \cup {}) BY <1>2, <1>3, OneEnd
<1>5. lost[p] \cup {} = lost[p] OBVIOUS
<1>6. e \in Envelope /\ e.copies \subseteq OnTheWay(p) /\ Carries(p, OnTheWay(p) \ e.copies, lost[p])
  BY <1>2, <1>4, <1>5, OnTheWayIs
<1> QED BY <1>4, <1>6 DEF e

\* An envelope the network gives up is lost.
LEMMA LoseTakes ==
  ASSUME ChannelInv, NEW p \in Peer, NEW u \in Purpose, Lose(p, u)
  PROVE  ChannelInv' /\ Loses(p)
<1> DEFINE now == [wire[p] EXCEPT ![u] = Tail(@)]
           e == Head(wire[p][u])
<1>1. InOrder(buffer[p], wire[p]) /\ wire[p][u] # <<>> BY DEF ChannelInv, Lose
<1>2. /\ InOrder(buffer[p], now) /\ e \in Envelope /\ e.copies \subseteq Carried(buffer[p], wire[p])
      /\ Carried(buffer[p], now) = Carried(buffer[p], wire[p]) \ e.copies
  BY <1>1, TakeFromWire
<1>3. /\ wire' = [wire EXCEPT ![p] = now] /\ buffer' = [buffer EXCEPT ![p] = buffer[p]]
      /\ lost' = [lost EXCEPT ![p] = @ \cup e.copies] /\ channels' \in [Peer -> SUBSET Purpose]
  BY DEF Lose, GiveUp, ChannelInv
<1>4. e.copies \in SUBSET Copy BY <1>2, EnvelopeFacts
<1> HIDE DEF now, e
<1>5. ChannelInv' /\ Carries(p, Carried(buffer[p], now), lost[p] \cup e.copies)
  BY <1>2, <1>3, <1>4, OneEnd
<1> QED BY <1>2, <1>5, OnTheWayIs DEF Loses

\* What is in the buffer when the channels are closed is lost.
LEMMA CloseTakes ==
  ASSUME ChannelInv, NEW p \in Peer, CloseAll(p)
  PROVE  ChannelInv' /\ Loses(p)
<1> DEFINE ids == CopiesOf(buffer[p])
<1>1. InOrder(buffer[p], wire[p]) /\ buffer[p] \in Seq(Envelope) BY DEF ChannelInv
<1>2. OnTheWay(p) = ids \cup CopiesOf(wire[p]["provenance"]) BY <1>1, CarriedIs, OnTheWayIs
<1>3. ids \cap CopiesOf(wire[p]["provenance"]) = {} BY <1>1 DEF InOrder
<1>4. InOrder(<<>>, wire[p]) /\ CopiesOf(<<>>) = {}
  <2>1. CopiesOf(<<>>) = {} /\ Apart(<<>>) BY DEF CopiesOf, ToSet, Apart
  <2>2. <<>> \in Seq(Envelope) /\ Len(<<>>) <= MaxBuffer BY BufferAssumption
  <2> QED BY <1>1, <2>1, <2>2 DEF InOrder
<1>5. Carried(<<>>, wire[p]) = CopiesOf(wire[p]["provenance"]) BY <1>4, CarriedIs
<1>6. ids \in SUBSET Copy BY <1>1, IdsAreIds
<1>7. /\ wire' = [wire EXCEPT ![p] = wire[p]] /\ buffer' = [buffer EXCEPT ![p] = <<>>]
      /\ lost' = [lost EXCEPT ![p] = @ \cup ids] /\ channels' \in [Peer -> SUBSET Purpose]
  BY DEF CloseAll, GiveUp, ChannelInv, CopiesOf
<1> HIDE DEF ids
<1>8. ChannelInv' /\ Carries(p, Carried(<<>>, wire[p]), lost[p] \cup ids)
  BY <1>4, <1>6, <1>7, OneEnd
<1>9. OnTheWay(p) \ ids = CopiesOf(wire[p]["provenance"]) BY <1>2, <1>3
<1> QED BY <1>2, <1>5, <1>8, <1>9 DEF Loses

-----------------------------------------------------------------------------
(* Graphs of provenance                                                    *)

MapsOf(K, V) == UNION {[D -> V] : D \in SUBSET K}

Graphs == [nodes : MapsOf(Id, NodeType), byEntity : MapsOf({"entity"}, Seq(Id)),
           byIntent : MapsOf(Nat, Id), byActor : MapsOf(Peer, Seq(Id))]

\* Maps with some keys of K and values in V, one by one.
LEMMA MapFacts ==
  ASSUME NEW K, NEW V, NEW map
  PROVE  map \in MapsOf(K, V) <=>
           DOMAIN map \subseteq K /\ map = [k \in DOMAIN map |-> map[k]] /\ \A k \in DOMAIN map : map[k] \in V
<1>1. ASSUME map \in MapsOf(K, V)
      PROVE  DOMAIN map \subseteq K /\ map = [k \in DOMAIN map |-> map[k]] /\ \A k \in DOMAIN map : map[k] \in V
  <2>1. PICK D \in SUBSET K : map \in [D -> V] BY <1>1 DEF MapsOf
  <2> QED BY <2>1
<1>2. ASSUME DOMAIN map \subseteq K, map = [k \in DOMAIN map |-> map[k]], \A k \in DOMAIN map : map[k] \in V
      PROVE  map \in MapsOf(K, V)
  <2> DEFINE D == DOMAIN map
  <2>1. D \in SUBSET K BY <1>2
  <2>2. map \in [D -> V] BY <1>2
  <2> QED BY <2>1, <2>2 DEF MapsOf
<1> QED BY <1>1, <1>2

\* The empty map is one of them.
LEMMA EmptyMap == ASSUME NEW K, NEW V PROVE <<>> \in MapsOf(K, V)
<1>1. DOMAIN <<>> = {} /\ <<>> = [k \in {} |-> <<>>[k]] OBVIOUS
<1> QED BY <1>1, MapFacts

\* The map old with the key k.
Extends(new, old, k) == DOMAIN new = DOMAIN old \cup {k}

\* map.set(key, value) gives such a map.
LEMMA PutMap ==
  ASSUME NEW K, NEW V, NEW map \in MapsOf(K, V), NEW k \in K, NEW v \in V
  PROVE  Put(map, k, v) \in MapsOf(K, V) /\ Extends(Put(map, k, v), map, k)
<1> DEFINE put == Put(map, k, v)
<1>1. DOMAIN map \subseteq K /\ \A l \in DOMAIN map : map[l] \in V BY MapFacts
<1>2. /\ DOMAIN put = DOMAIN map \cup {k} /\ put = [l \in DOMAIN put |-> put[l]]
      /\ \A l \in DOMAIN put : put[l] = IF l = k THEN v ELSE map[l]
  BY DEF Put
<1> HIDE DEF put
<1>3. put \in MapsOf(K, V)
  <2>1. \A l \in DOMAIN put : put[l] \in V BY <1>1, <1>2
  <2> QED BY <1>1, <1>2, <2>1, MapFacts
<1> QED BY <1>2, <1>3 DEF put, Extends

\* So does pushing to the list of a key.
LEMMA PushMap ==
  ASSUME NEW K, NEW S, NEW map \in MapsOf(K, Seq(S)), NEW k \in K, NEW x \in S
  PROVE  PushTo(map, k, x) \in MapsOf(K, Seq(S))
<1> DEFINE list == Append(IF k \in DOMAIN map THEN map[k] ELSE <<>>, x)
<1>1. list \in Seq(S)
  <2>1. CASE k \in DOMAIN map
    <3>1. map[k] \in Seq(S) BY <2>1, MapFacts
    <3> QED BY <2>1, <3>1
  <2>2. CASE k \notin DOMAIN map BY <2>2
  <2> QED BY <2>1, <2>2
<1> HIDE DEF list
<1>2. Put(map, k, list) \in MapsOf(K, Seq(S)) BY <1>1, PutMap
<1> QED BY <1>2 DEF PushTo, list

\* A recorded node is one more node of a graph.
LEMMA RecordTyped ==
  ASSUME NEW g \in Graphs, NEW id \in Id, NEW node \in NodeType
  PROVE  /\ RecordProvenance(g, id, node) \in Graphs
         /\ Extends(RecordProvenance(g, id, node).nodes, g.nodes, id)
<1>1. /\ g.nodes \in MapsOf(Id, NodeType) /\ g.byEntity \in MapsOf({"entity"}, Seq(Id))
      /\ g.byIntent \in MapsOf(Nat, Id) /\ g.byActor \in MapsOf(Peer, Seq(Id))
  BY DEF Graphs
<1>2. node.entity \in {"entity"} /\ node.intent \in Nat /\ node.actor \in Peer BY DEF NodeType
<1>3. /\ Put(g.nodes, id, node) \in MapsOf(Id, NodeType)
      /\ Extends(Put(g.nodes, id, node), g.nodes, id)
  BY <1>1, PutMap
<1>4. PushTo(g.byEntity, node.entity, id) \in MapsOf({"entity"}, Seq(Id)) BY <1>1, <1>2, PushMap
<1>5. PushTo(g.byActor, node.actor, id) \in MapsOf(Peer, Seq(Id)) BY <1>1, <1>2, PushMap
<1>6. Put(g.byIntent, node.intent, id) \in MapsOf(Nat, Id) BY <1>1, <1>2, PutMap
<1> QED BY <1>3, <1>4, <1>5, <1>6 DEF RecordProvenance, Graphs

\* The prefix tells ids apart, and remote ids from local ones.
LEMMA RemoteFacts ==
  /\ \A id \in Id : Remote(id) \in Id /\ Remote(id)[1] = id[1] /\ Remote(id)[2] # 0
  /\ \A one, two \in Id : Remote(one) = Remote(two) => one = two
BY DEF Id, Remote

\* So is an imported one.
LEMMA ImportTyped ==
  ASSUME NEW g \in Graphs, NEW sender \in Peer, NEW item \in Item
  PROVE  /\ Import(g, sender, item) \in Graphs
         /\ Extends(Import(g, sender, item).nodes, g.nodes, Remote(item.id))
<1> DEFINE parents == {Remote(q) : q \in item.node.parents}
           node == Node(item.node.intent, item.node.actor, sender, parents)
<1>1. item.id \in Id /\ item.node \in NodeType BY DEF Item
<1>2. /\ item.node.intent \in Nat /\ item.node.actor \in Peer /\ item.node.parents \subseteq Id
  BY <1>1 DEF NodeType
<1>3. parents \in SUBSET Id BY <1>2, RemoteFacts
<1> HIDE DEF parents
<1>4. node \in NodeType BY <1>2, <1>3 DEF Node, NodeType
<1> HIDE DEF node
<1>5. Remote(item.id) \in Id BY <1>1, RemoteFacts
<1>6. Import(g, sender, item) = RecordProvenance(g, Remote(item.id), node) BY DEF Import, node, parents
<1> QED BY <1>4, <1>5, <1>6, RecordTyped

\* The graph that has the nodes of g and those imported from the first n items.
HasImported(h, g, items, n) ==
  /\ h \in Graphs
  /\ DOMAIN h.nodes = DOMAIN g.nodes \cup {Remote(items[m].id) : m \in 1..n}

\* All items are imported, one after the other.
LEMMA ImportAllIs ==
  ASSUME NEW g \in Graphs, NEW sender \in Peer, NEW items \in Seq(Item)
  PROVE  \E after : /\ after[0] = g
                    /\ \A n \in 1..Len(items) : after[n] = Import(after[n - 1], sender, items[n])
                    /\ ImportAll(g, sender, items) = after[Len(items)]
<1> DEFINE k == Len(items)
           IsAfter(f) == f = [n \in 0..k |-> IF n = 0 THEN g ELSE Import(f[n - 1], sender, items[n])]
           after == CHOOSE f : IsAfter(f)
           Round == [e \in Graphs \X (1..k) |-> Import(e[1], sender, items[e[2]])]
<1>1. k \in Nat /\ \A n \in 1..k : items[n] \in Item OBVIOUS
<1> HIDE DEF k
<1>2. Round \in [Graphs \X (1..k) -> Graphs]
  <2>1. \A h \in Graphs, n \in 1..k : Import(h, sender, items[n]) \in Graphs BY <1>1, ImportTyped
  <2> QED BY <2>1
<1>3. PICK f \in [0..k -> Graphs] : IsLoop(f, k, g, Round)
  <2> HIDE DEF Round
  <2> QED BY <1>1, <1>2, Loop
<1>4. IsAfter(f)
  <2>1. \A n \in 0..k : n # 0 => Round[<<f[n - 1], n>>] = Import(f[n - 1], sender, items[n])
    <3> SUFFICES ASSUME NEW n \in 0..k, n # 0
                 PROVE  Round[<<f[n - 1], n>>] = Import(f[n - 1], sender, items[n])
      OBVIOUS
    <3>1. n \in 1..k /\ n - 1 \in 0..k BY <1>1
    <3>2. f[n - 1] \in Graphs BY <3>1
    <3> QED BY <3>1, <3>2
  <2> HIDE DEF Round
  <2> QED BY <1>3, <2>1 DEF IsLoop
<1>5. IsAfter(after) BY <1>4
<1>6. ImportAll(g, sender, items) = after[k] BY DEF ImportAll, after, k
<1> HIDE DEF after
<1>7. after[0] = g /\ \A n \in 1..k : after[n] = Import(after[n - 1], sender, items[n])
  <2>1. 0 \in 0..k /\ \A n \in 1..k : n \in 0..k /\ n # 0 BY <1>1
  <2> QED BY <1>5, <2>1
<1> QED BY <1>6, <1>7 DEF k

\* All items are imported.
LEMMA ImportAllTyped ==
  ASSUME NEW g \in Graphs, NEW sender \in Peer, NEW items \in Seq(Item)
  PROVE  HasImported(ImportAll(g, sender, items), g, items, Len(items))
<1> DEFINE k == Len(items)
<1>1. k \in Nat /\ \A n \in 1..k : items[n] \in Item OBVIOUS
<1>2. PICK after : /\ after[0] = g
                   /\ \A n \in 1..k : after[n] = Import(after[n - 1], sender, items[n])
                   /\ ImportAll(g, sender, items) = after[k]
  BY ImportAllIs
<1> HIDE DEF k
<1> DEFINE T == {n \in 0..k : HasImported(after[n], g, items, n)}
<1>3. 0 \in T BY <1>1, <1>2 DEF HasImported
<1>4. ASSUME NEW n \in 1..k, n - 1 \in T PROVE n \in T
  <2>1. HasImported(after[n - 1], g, items, n - 1) BY <1>4
  <2>2. /\ after[n] \in Graphs
        /\ Extends(after[n].nodes, after[n - 1].nodes, Remote(items[n].id))
    <3>1. after[n - 1] \in Graphs /\ items[n] \in Item BY <1>1, <2>1 DEF HasImported
    <3>2. after[n] = Import(after[n - 1], sender, items[n]) BY <1>2
    <3> QED BY <3>1, <3>2, ImportTyped
  <2>3. \A m \in 1..n : m \in 1..(n - 1) \/ m = n BY <1>1
  <2>4. n \in 1..n /\ n \in 0..k /\ \A m \in 1..(n - 1) : m \in 1..n BY <1>1
  <2>5. {Remote(items[m].id) : m \in 1..n} = {Remote(items[m].id) : m \in 1..(n - 1)} \cup {Remote(items[n].id)}
    BY <2>3, <2>4
  <2>6. HasImported(after[n], g, items, n) BY <2>1, <2>2, <2>5 DEF HasImported, Extends
  <2> QED BY <2>4, <2>6
<1>5. k \in T
  <2> HIDE DEF T
  <2>1. \A n \in 1..k : n - 1 \in T => n \in T BY <1>4
  <2>2. \A n \in 0..k : n \in T BY <1>1, <1>3, <2>1, UpTo
  <2> QED BY <1>1, <2>2
<1> QED BY <1>2, <1>5 DEF k

-----------------------------------------------------------------------------
(* ExchangeInv                                                             *)

\* The ids one peer recorded that the other has imported.
Imported(p) == {id \in Id : Remote(id) \in DOMAIN graph[Other(p)].nodes}

Partition(all, one, two, three) ==
  /\ all = one \cup two \cup three
  /\ one \cap (two \cup three) = {}
  /\ two \cap three = {}

\* What a peer recorded is pending or was exported, and what was exported is on
\* its way, has arrived or is lost.
Balanced(p) ==
  /\ Divides(Recorded(p), ToSet(pending[p]), IdsOf(exported[p]))
  /\ Partition(exported[p], OnTheWay(p), arrived[p], lost[p])
  /\ Imported(p) = IdsOf(arrived[p])

Accounts == \A p \in Peer : Balanced(p)

GraphInv ==
  /\ graph \in [Peer -> Graphs]
  /\ pending \in [Peer -> Seq(Id)]
  /\ exported \in [Peer -> SUBSET Copy] /\ arrived \in [Peer -> SUBSET Copy]
  /\ \E k \in Nat : Bases = 1..k

DocInv == DOMAIN doc = Peer /\ \A p \in Peer : DOMAIN doc[p].nodes \subseteq Entity

ExchangeInv == ChannelInv /\ DocInv /\ GraphInv /\ Accounts

\* There are two peers.
LEMMA OtherFacts ==
  ASSUME NEW p \in Peer
  PROVE  /\ Other(p) \in Peer /\ Other(p) # p /\ Other(Other(p)) = p
         /\ \A r \in Peer : r = p \/ r = Other(p)
<1>1. PICK a \in Peer, b \in Peer : b # a /\ Peer = {a, b} BY PeerAssumption
<1>2. \A r \in Peer : Other(r) \in Peer /\ Other(r) # r BY <1>1 DEF Other
<1> QED BY <1>1, <1>2

\* What a peer recorded has ids.
LEMMA RecordedIsId == ASSUME GraphInv, NEW p \in Peer PROVE Recorded(p) \subseteq Id
<1>1. graph[p].nodes \in MapsOf(Id, NodeType) BY DEF GraphInv, Graphs
<1>2. DOMAIN graph[p].nodes \subseteq Id BY <1>1, MapFacts
<1> QED BY <1>2 DEF Recorded

\* Copies move from the first part to the third or the second.
LEMMA GiveUpKeeps ==
  ASSUME NEW all, NEW one, NEW two, NEW three, Partition(all, one, two, three),
         NEW copies, copies \subseteq one
  PROVE  /\ Partition(all, one \ copies, two, three \cup copies)
         /\ Partition(all, one \ copies, two \cup copies, three)
BY DEF Partition

\* New copies are divided between the first and the third.
LEMMA ExportKeeps ==
  ASSUME NEW all, NEW one, NEW two, NEW three, Partition(all, one, two, three),
         NEW copies, copies \cap all = {}, NEW on, NEW off, Divides(copies, on, off)
  PROVE  Partition(all \cup copies, one \cup on, two, three \cup off)
BY DEF Partition, Divides

\* The ids of copies.
LEMMA IdsOfFacts ==
  /\ \A one, two : IdsOf(one \cup two) = IdsOf(one) \cup IdsOf(two)
  /\ \A copies \in SUBSET Copy : IdsOf(copies) \subseteq Id
  /\ \A ids, marks : marks # {} => IdsOf(ids \X marks) = ids
<1>1. \A one, two : IdsOf(one \cup two) = IdsOf(one) \cup IdsOf(two) BY DEF IdsOf
<1>2. \A copies \in SUBSET Copy : IdsOf(copies) \subseteq Id BY DEF IdsOf, Copy
<1>3. ASSUME NEW ids, NEW marks, marks # {} PROVE IdsOf(ids \X marks) = ids
  <2>1. PICK k : k \in marks BY <1>3
  <2>2. ASSUME NEW c \in ids \X marks PROVE c[1] \in ids OBVIOUS
  <2>3. ASSUME NEW id \in ids PROVE <<id, k>> \in ids \X marks /\ <<id, k>>[1] = id BY <2>1
  <2> QED BY <2>2, <2>3 DEF IdsOf
<1> QED BY <1>1, <1>2, <1>3

\* What is on the way or imported was recorded.
LEMMA OnTheWayRecorded ==
  ASSUME ExchangeInv, NEW p \in Peer
  PROVE  /\ OnTheWay(p) \subseteq exported[p] /\ IdsOf(exported[p]) \subseteq Recorded(p)
         /\ Imported(p) \subseteq Recorded(p)
<1>1. Balanced(p) BY DEF ExchangeInv, Accounts
<1>2. OnTheWay(p) \subseteq exported[p] /\ arrived[p] \subseteq exported[p] BY <1>1 DEF Balanced, Partition
<1>3. IdsOf(arrived[p]) \subseteq IdsOf(exported[p]) BY <1>2 DEF IdsOf
<1> QED BY <1>1, <1>2, <1>3 DEF Balanced, Divides

\* The channels move, the bridges rest.
LEMMA BridgesRest ==
  ASSUME ExchangeInv, UNCHANGED <<graph, pending, exported, arrived>>, ChannelInv', DocInv',
         NEW p \in Peer, Loses(p)
  PROVE  ExchangeInv'
<1>0. PICK copies : copies \subseteq OnTheWay(p) /\ Carries(p, OnTheWay(p) \ copies, lost[p] \cup copies)
  BY DEF Loses
<1>1. GraphInv' BY DEF ExchangeInv, GraphInv, Bases
<1>2. Accounts'
  <2> SUFFICES ASSUME NEW r \in Peer PROVE Balanced(r)' BY DEF Accounts
  <2>1. Balanced(r) BY DEF ExchangeInv, Accounts
  <2>2. Recorded(r)' = Recorded(r) /\ Imported(r)' = Imported(r) BY DEF Recorded, Imported
  <2>3. Partition(exported[r], OnTheWay(r), arrived[r], lost[r])' => Balanced(r)'
    BY <2>1, <2>2 DEF Balanced
  <2>4. CASE r = p
    <3>1. OnTheWay(r)' = OnTheWay(r) \ copies /\ lost'[r] = lost[r] \cup copies BY <1>0, <2>4 DEF Carries
    <3>2. copies \subseteq OnTheWay(r) BY <1>0, <2>4
    <3>3. Partition(exported[r], OnTheWay(r) \ copies, arrived[r], lost[r] \cup copies)
      BY <2>1, <3>2, GiveUpKeeps DEF Balanced
    <3> QED BY <2>3, <3>1, <3>3
  <2>5. CASE r # p
    <3>1. OnTheWay(r)' = OnTheWay(r) /\ lost'[r] = lost[r] BY <1>0, <2>5 DEF Carries
    <3> QED BY <2>1, <2>3, <3>1 DEF Balanced
  <2> QED BY <2>4, <2>5
<1> QED BY <1>1, <1>2 DEF ExchangeInv

\* Nothing is lost.
LEMMA NothingGone ==
  ASSUME ExchangeInv, UNCHANGED <<graph, pending, exported, arrived>>, ChannelInv', DocInv', NEW p \in Peer,
         Carries(p, OnTheWay(p), lost[p])
  PROVE  ExchangeInv'
<1>1. OnTheWay(p) = OnTheWay(p) \ {} /\ lost[p] = lost[p] \cup {} OBVIOUS
<1>2. Carries(p, OnTheWay(p) \ {}, lost[p] \cup {}) BY <1>1
<1>3. Loses(p) BY <1>2 DEF Loses
<1> QED BY <1>3, BridgesRest

\* Channels are registered, unregistered and closed, and envelopes are given up.
LEMMA ChannelsKeep ==
  ASSUME ExchangeInv, NEW p \in Peer, ChannelStep(p)
  PROVE  ExchangeInv'
<1>1. ChannelInv /\ UNCHANGED <<graph, pending, exported, arrived>> BY DEF ExchangeInv, ChannelStep, bridgeVars
<1>2. DocInv' BY DEF ExchangeInv, DocInv, ChannelStep, syncVars
<1>3. ASSUME NEW u \in Purpose, RegisterChannel(p, u) \/ UnregisterChannel(p, u) PROVE ExchangeInv'
  BY <1>1, <1>2, <1>3, RegisterKeeps, NothingGone
<1>4. ASSUME NEW u \in Purpose, Lose(p, u) PROVE ExchangeInv'
  <2>1. ChannelInv' BY <1>1, <1>4, LoseTakes
  <2>2. Loses(p) BY <1>1, <1>4, LoseTakes
  <2> QED BY <1>1, <1>2, <2>1, <2>2, BridgesRest
<1>5. ASSUME CloseAll(p) PROVE ExchangeInv'
  <2>1. ChannelInv' BY <1>1, <1>5, CloseTakes
  <2>2. Loses(p) BY <1>1, <1>5, CloseTakes
  <2> QED BY <1>1, <1>2, <2>1, <2>2, BridgesRest
<1> QED BY <1>3, <1>4, <1>5 DEF ChannelStep

-----------------------------------------------------------------------------
(* The graphs' own traffic                                                 *)

\* An envelope of the graphs carries no copies.
LEMMA SyncEnvelopeFacts ==
  ASSUME NEW op \in {"fullSnapshot", "patches"}
  PROVE  /\ SyncEnvelope(op) \in Envelope /\ SyncEnvelope(op).purpose = "sync"
         /\ SyncEnvelope(op).copies = {}
<1> DEFINE e == SyncEnvelope(op)
<1>1. /\ e \in [purpose : {"sync"}, op : {"fullSnapshot", "patches"}, copies : {{}}, nodes : {<<>>}]
      /\ e.purpose = "sync" /\ e.copies = {} /\ e.nodes = <<>>
  BY DEF SyncEnvelope
<1> HIDE DEF e
<1>2. e \in AnyEnvelope BY <1>1 DEF AnyEnvelope
<1>3. IdsOf(e.copies) = {e.nodes[n].id : n \in DOMAIN e.nodes} BY <1>1 DEF IdsOf
<1> QED BY <1>1, <1>2, <1>3 DEF e, Envelope

\* Envelopes of the graphs are about no node.
LEMMA SyncSends ==
  ASSUME ChannelInv, NEW p \in Peer, NEW op \in {"fullSnapshot", "patches"}, NEW k \in Nat,
         NEW list, list = [n \in 1..k |-> SyncEnvelope(op)], SendAll(p, "sync", list)
  PROVE  ChannelInv' /\ Carries(p, OnTheWay(p), lost[p])
<1>1. list \in Seq(Envelope) /\ DOMAIN list = 1..k BY SyncEnvelopeFacts
<1>2. \A e \in ToSet(list) : e.purpose = "sync" /\ e.copies = {} BY <1>1, SyncEnvelopeFacts DEF ToSet
<1>3. CopiesOf(list) = {} BY <1>2 DEF CopiesOf
<1>4. Apart(list) BY <1>1, SyncEnvelopeFacts DEF Apart
<1>5. Fresh(list, buffer[p], wire[p]) BY <1>1, <1>3, <1>4 DEF Fresh
<1>6. AllFor("sync", list) BY <1>2 DEF AllFor
<1>7. "sync" \in Purpose BY PurposeAssumption
<1>8. /\ ChannelInv'
      /\ \E on, off : Divides(CopiesOf(list), on, off) /\ Carries(p, OnTheWay(p) \cup on, lost[p] \cup off)
  BY <1>5, <1>6, <1>7, SendAllCarries
<1>9. PICK on, off : Divides(CopiesOf(list), on, off) /\ Carries(p, OnTheWay(p) \cup on, lost[p] \cup off)
  BY <1>8
<1>10. on = {} /\ off = {} BY <1>3, <1>9 DEF Divides
<1>11. OnTheWay(p) \cup on = OnTheWay(p) /\ lost[p] \cup off = lost[p] BY <1>10
<1> QED BY <1>8, <1>9, <1>11

\* A transaction sends as many envelopes as it has notifications.
LEMMA TransactKeeps ==
  ASSUME ExchangeInv, NEW p \in Peer, NEW entries, NEW version, Transact(p, entries, version),
         DOMAIN entries \subseteq Entity, UNCHANGED bridgeVars
  PROVE  ExchangeInv'
<1> DEFINE keys == (DOMAIN entries \ DOMAIN doc[p].nodes) \cup (DOMAIN doc[p].nodes \ DOMAIN entries)
           k == Cardinality(keys) + 1
<1>1. DOMAIN doc = Peer /\ DOMAIN doc[p].nodes \subseteq Entity /\ ChannelInv
  BY DEF ExchangeInv, DocInv
<1>2. k \in Nat
  <2>1. keys \subseteq Entity BY <1>1
  <2> HIDE DEF keys
  <2>2. IsFiniteSet(keys) BY <2>1, EntityAssumption, FS_Subset
  <2> QED BY <2>2, FS_CardinalityType
<1>3. /\ doc' = [doc EXCEPT ![p] = [nodes |-> entries, version |-> version]]
      /\ IF sessions[p] = "none" THEN UNCHANGED channelVars
         ELSE SendAll(p, "sync", [n \in 1..k |-> SyncEnvelope("patches")])
  BY DEF Transact
<1>4. DocInv' BY <1>1, <1>3 DEF ExchangeInv, DocInv
<1> HIDE DEF k
<1>5. ChannelInv' /\ Carries(p, OnTheWay(p), lost[p])
  <2>1. CASE UNCHANGED channelVars
    <3>1. channels' \in [Peer -> SUBSET Purpose] /\ UNCHANGED <<buffer, wire, lost>>
      BY <1>1, <2>1 DEF channelVars, ChannelInv
    <3> QED BY <1>1, <3>1, NothingMoves
  <2>2. CASE SendAll(p, "sync", [n \in 1..k |-> SyncEnvelope("patches")])
    BY <1>1, <1>2, <2>2, SyncSends
  <2> QED BY <1>3, <2>1, <2>2
<1> QED BY <1>4, <1>5, NothingGone DEF bridgeVars

\* No step of the graphs disturbs the bridges.
LEMMA GraphsKeep ==
  ASSUME ExchangeInv, NEW p \in Peer, GraphStep(p)
  PROVE  ExchangeInv'
<1>1. UNCHANGED bridgeVars /\ UNCHANGED <<graph, pending, exported, arrived>> BY DEF GraphStep, bridgeVars
<1>2. ChannelInv /\ DOMAIN doc[p].nodes \subseteq Entity BY DEF ExchangeInv, DocInv
<1>3. CASE InitiateSync(p)
  <2> DEFINE list == [n \in 1..1 |-> SyncEnvelope("fullSnapshot")]
  <2>1. <<SyncEnvelope("fullSnapshot")>> = list OBVIOUS
  <2>2. SendAll(p, "sync", list) BY <1>3, <2>1 DEF InitiateSync
  <2> HIDE DEF list
  <2>3. ChannelInv' /\ Carries(p, OnTheWay(p), lost[p]) BY <1>2, <2>2, SyncSends DEF list
  <2>4. DocInv' BY <1>3 DEF InitiateSync, ExchangeInv, DocInv
  <2> QED BY <1>1, <2>3, <2>4, NothingGone
<1>4. CASE RemoveSession(p)
  <2>1. channels' \in [Peer -> SUBSET Purpose] /\ UNCHANGED <<buffer, wire, lost>>
    BY <1>2, <1>4 DEF RemoveSession, channelVars, ChannelInv
  <2>2. ChannelInv' /\ Carries(p, OnTheWay(p), lost[p]) BY <1>2, <2>1, NothingMoves
  <2>3. DocInv' BY <1>4 DEF RemoveSession, ExchangeInv, DocInv
  <2> QED BY <1>1, <2>2, <2>3, NothingGone
<1>5. CASE HandleSyncMessage(p)
  <2> DEFINE e == Head(wire[p]["sync"])
  <2>1. "sync" \in Purpose /\ Receive(p, "sync") BY <1>5, PurposeAssumption DEF HandleSyncMessage
  <2>2. ChannelInv' /\ e \in Envelope /\ Carries(p, OnTheWay(p) \ e.copies, lost[p])
    BY <1>2, <2>1, ReceiveTakes
  <2>3. e.copies = {}
    <3>1. wire[p]["sync"] \in Seq(Envelope) /\ wire[p]["sync"] # <<>> BY <1>2, <2>1 DEF ChannelInv, Receive
    <3>2. e \in ToSet(wire[p]["sync"]) BY <3>1, TakeHead
    <3>3. InOrder(buffer[p], wire[p]) BY <1>2 DEF ChannelInv
    <3>4. e.purpose = "sync" BY <2>1, <3>2, <3>3 DEF InOrder
    <3> QED BY <2>2, <3>4, EnvelopeFacts
  <2>4. OnTheWay(p) \ e.copies = OnTheWay(p) BY <2>3
  <2>5. DocInv' BY <1>5 DEF HandleSyncMessage, ExchangeInv, DocInv
  <2> QED BY <1>1, <2>2, <2>4, <2>5, NothingGone
<1>6. ASSUME NEW e \in Entity, NEW v, AddEntity(p, e, v) \/ UpdateEntity(p, e, v) PROVE ExchangeInv'
  <2>1. DOMAIN SetNodes(p, [x \in {e} |-> v]) \subseteq Entity BY <1>2 DEF SetNodes
  <2> QED BY <1>1, <1>6, <2>1, TransactKeeps DEF AddEntity, UpdateEntity
<1>7. ASSUME NEW e \in Entity, RemoveEntity(p, e) PROVE ExchangeInv'
  <2>1. DOMAIN [x \in DOMAIN doc[p].nodes \ {e} |-> doc[p].nodes[x]] \subseteq Entity BY <1>2
  <2> QED BY <1>1, <1>7, <2>1, TransactKeeps DEF RemoveEntity
<1>8. ASSUME NEW v, NEW version, ImportGraph(p, [e \in Entity |-> v], version) PROVE ExchangeInv'
  <2>1. DOMAIN SetNodes(p, [e \in Entity |-> v]) \subseteq Entity BY <1>2 DEF SetNodes
  <2> QED BY <1>1, <1>8, <2>1, TransactKeeps DEF ImportGraph
<1> QED BY <1>3, <1>4, <1>5, <1>6, <1>7, <1>8 DEF GraphStep, SyncStep

-----------------------------------------------------------------------------
(* The bridges                                                             *)

\* A node recorded under a new base is pending.
LEMMA RecordLocalKeeps ==
  ASSUME ExchangeInv, NEW p \in Peer, NEW parents, RecordLocal(p, parents)
  PROVE  ExchangeInv'
<1>1. PICK k \in Nat : Bases = 1..k BY DEF ExchangeInv, GraphInv
<1> DEFINE id == <<k + 1, 0>>
           node == Node(k + 1, p, p, parents)
<1>2. Cardinality(Bases) + 1 = k + 1
  <2>1. Cardinality(1..k) = k BY FS_Interval
  <2> QED BY <1>1, <2>1
<1>3. /\ parents \subseteq DOMAIN graph[p].nodes
      /\ graph' = [graph EXCEPT ![p] = RecordProvenance(@, id, node)]
      /\ pending' = [pending EXCEPT ![p] = Append(@, id)]
      /\ UNCHANGED <<channelVars, syncVars, exported, arrived>>
  BY <1>2 DEF RecordLocal
<1>4. /\ graph \in [Peer -> Graphs] /\ graph[p] \in Graphs /\ pending \in [Peer -> Seq(Id)]
      /\ \A r \in Peer : DOMAIN graph[r].nodes \subseteq Id
  <2>1. graph \in [Peer -> Graphs] /\ pending \in [Peer -> Seq(Id)] BY DEF ExchangeInv, GraphInv
  <2>2. \A r \in Peer : graph[r].nodes \in MapsOf(Id, NodeType) BY <2>1 DEF Graphs
  <2> QED BY <2>1, <2>2, MapFacts
<1>5. id \in Id /\ id[1] = k + 1 /\ id[2] = 0 BY <1>1 DEF Id
<1>6. node \in NodeType
  <2>1. k + 1 \in Nat /\ parents \subseteq Id BY <1>1, <1>3, <1>4
  <2> QED BY <2>1 DEF Node, NodeType
<1> HIDE DEF id, node
<1>7. /\ RecordProvenance(graph[p], id, node) \in Graphs
      /\ Extends(RecordProvenance(graph[p], id, node).nodes, graph[p].nodes, id)
  BY <1>4, <1>5, <1>6, RecordTyped
<1>8. /\ graph' \in [Peer -> Graphs]
      /\ DOMAIN graph'[p].nodes = DOMAIN graph[p].nodes \cup {id}
      /\ \A r \in Peer : r # p => graph'[r] = graph[r]
  BY <1>3, <1>4, <1>7 DEF Extends
<1>9. /\ pending' \in [Peer -> Seq(Id)]
      /\ ToSet(pending'[p]) = ToSet(pending[p]) \cup {id}
      /\ \A r \in Peer : r # p => pending'[r] = pending[r]
  <2>1. Append(pending[p], id) \in Seq(Id) /\ ToSet(Append(pending[p], id)) = ToSet(pending[p]) \cup {id}
    BY <1>4, <1>5, AppendElements
  <2> QED BY <1>3, <1>4, <2>1
<1>10. \A r \in Peer : \A i \in DOMAIN graph[r].nodes : i[1] # k + 1
  <2> SUFFICES ASSUME NEW r \in Peer, NEW i \in DOMAIN graph[r].nodes PROVE i[1] # k + 1 OBVIOUS
  <2>1. i[1] \in Bases BY DEF Bases
  <2> QED BY <1>1, <2>1
<1>11. Bases' = 1..(k + 1)
  <2>1. Bases' = Bases \cup {k + 1}
    <3>1. ASSUME NEW r \in Peer, NEW i \in DOMAIN graph'[r].nodes PROVE i[1] \in Bases \cup {k + 1}
      <4>1. i = id \/ i \in DOMAIN graph[r].nodes BY <1>8
      <4> QED BY <1>5, <4>1 DEF Bases
    <3>2. ASSUME NEW r \in Peer, NEW i \in DOMAIN graph[r].nodes PROVE i \in DOMAIN graph'[r].nodes
      BY <1>8
    <3>3. Bases' \subseteq Bases \cup {k + 1} BY <3>1 DEF Bases
    <3>4. Bases \subseteq Bases' BY <3>2 DEF Bases
    <3>5. k + 1 \in Bases' BY <1>5, <1>8 DEF Bases
    <3> QED BY <3>3, <3>4, <3>5
  <2> QED BY <1>1, <2>1
<1>12. GraphInv' /\ ChannelInv' /\ DocInv'
  <2>1. k + 1 \in Nat BY <1>1
  <2>2. GraphInv' BY <1>3, <1>8, <1>9, <1>11, <2>1 DEF ExchangeInv, GraphInv
  <2>3. ChannelInv' BY <1>3 DEF ExchangeInv, ChannelInv, channelVars
  <2>4. DocInv' BY <1>3 DEF ExchangeInv, DocInv, syncVars
  <2> QED BY <2>2, <2>3, <2>4
<1>13. Accounts'
  <2> SUFFICES ASSUME NEW r \in Peer PROVE Balanced(r)' BY DEF Accounts
  <2>1. Balanced(r) BY DEF ExchangeInv, Accounts
  <2>2. OnTheWay(r)' = OnTheWay(r) /\ UNCHANGED <<exported, arrived, lost>> BY <1>3 DEF OnTheWay, channelVars
  <2>3. Imported(r)' = Imported(r)
    <3>1. \A i \in Id : Remote(i) # id BY <1>5, RemoteFacts
    <3>2. Other(r) \in Peer BY OtherFacts
    <3> QED BY <1>8, <3>1, <3>2 DEF Imported
  <2>4. Divides(Recorded(r)', ToSet(pending'[r]), IdsOf(exported[r]))
    <3>1. Divides(Recorded(r), ToSet(pending[r]), IdsOf(exported[r])) BY <2>1 DEF Balanced
    <3>2. CASE r = p
      <4>1. Recorded(r)' = Recorded(r) \cup {id} BY <1>5, <1>8, <3>2 DEF Recorded
      <4>2. id \notin Recorded(r) BY <1>5, <1>10 DEF Recorded
      <4> QED BY <1>9, <3>1, <3>2, <4>1, <4>2 DEF Divides
    <3>3. CASE r # p
      <4>1. Recorded(r)' = Recorded(r) /\ ToSet(pending'[r]) = ToSet(pending[r])
        BY <1>8, <1>9, <3>3 DEF Recorded
      <4> QED BY <3>1, <4>1
    <3> QED BY <3>2, <3>3
  <2> QED BY <2>1, <2>2, <2>3, <2>4 DEF Balanced
<1> QED BY <1>12, <1>13 DEF ExchangeInv

\* What is pending, in an envelope, as it was recorded.
LEMMA EnvelopeForFacts ==
  ASSUME ExchangeInv, NEW p \in Peer, NEW k \in Nat, NEW e, e = EnvelopeFor(p, k)
  PROVE  /\ e \in Envelope /\ e.purpose = "provenance" /\ e.copies = ToSet(pending[p]) \X {k}
         /\ \A n \in DOMAIN e.nodes : e.nodes[n].node = graph[p].nodes[e.nodes[n].id]
<1> DEFINE ids == ToSet(pending[p])
           items == [n \in DOMAIN pending[p] |->
                       [id |-> pending[p][n], node |-> graph[p].nodes[pending[p][n]]]]
<1>1. graph \in [Peer -> Graphs] /\ pending \in [Peer -> Seq(Id)] /\ ids \subseteq Recorded(p)
  BY DEF ExchangeInv, GraphInv, Accounts, Balanced, Divides
<1>2. graph[p].nodes \in MapsOf(Id, NodeType) BY <1>1 DEF Graphs
<1>3. \A n \in DOMAIN pending[p] : graph[p].nodes[pending[p][n]] \in NodeType
  <2> SUFFICES ASSUME NEW n \in DOMAIN pending[p] PROVE graph[p].nodes[pending[p][n]] \in NodeType
    OBVIOUS
  <2>1. pending[p][n] \in ids BY DEF ToSet
  <2>2. pending[p][n] \in DOMAIN graph[p].nodes BY <1>1, <2>1 DEF Recorded
  <2> QED BY <1>2, <2>2, MapFacts
<1>4. pending[p] \in Seq(Id) /\ DOMAIN pending[p] = 1..Len(pending[p]) /\ Len(pending[p]) \in Nat
  BY <1>1
<1>5. items \in Seq(Item)
  <2>1. \A n \in 1..Len(pending[p]) : items[n] \in Item BY <1>3, <1>4 DEF Item
  <2>2. items \in [1..Len(pending[p]) -> Item] BY <1>4, <2>1
  <2> HIDE DEF items
  <2> QED BY <1>4, <2>2
<1>6. ids \in SUBSET Id BY <1>4 DEF ToSet
<1>7. ids = {items[n].id : n \in DOMAIN items} BY DEF ToSet
<1>8. \A n \in DOMAIN items : items[n].node = graph[p].nodes[items[n].id] OBVIOUS
<1>9. e = [purpose |-> "provenance", copies |-> ids \X {k}, nodes |-> items] BY DEF EnvelopeFor
<1> HIDE DEF items, ids
<1>10. ids \X {k} \in SUBSET Copy /\ IdsOf(ids \X {k}) = ids
  <2>1. ids \X {k} \subseteq Id \X Nat BY <1>6
  <2> QED BY <2>1, IdsOfFacts DEF Copy
<1>11. e \in AnyEnvelope BY <1>5, <1>9, <1>10 DEF AnyEnvelope
<1>12. e.purpose = "provenance" /\ e.copies = ids \X {k} /\ e.nodes = items BY <1>9
<1>13. IdsOf(e.copies) = {e.nodes[n].id : n \in DOMAIN e.nodes} BY <1>7, <1>10, <1>12
<1>14. \A n \in DOMAIN e.nodes : e.nodes[n].node = graph[p].nodes[e.nodes[n].id] BY <1>8, <1>12
<1>15. e \in Envelope BY <1>11, <1>13 DEF Envelope
<1> QED BY <1>12, <1>14, <1>15 DEF ids

\* One envelope for each peer, each with copies of its own.
LEMMA OneForEach ==
  ASSUME NEW ids, NEW online \in Nat, NEW list \in [1..online -> Envelope],
         \A k \in 1..online : list[k].purpose = "provenance" /\ list[k].copies = ids \X {k}
  PROVE  /\ list \in Seq(Envelope) /\ Apart(list) /\ AllFor("provenance", list)
         /\ CopiesOf(list) = ids \X (1..online)
<1>1. list \in Seq(Envelope) /\ DOMAIN list = 1..online OBVIOUS
<1>2. Apart(list)
  <2> SUFFICES ASSUME NEW i \in 1..online, NEW j \in 1..online, i # j
               PROVE  list[i].copies \cap list[j].copies = {}
    BY <1>1 DEF Apart
  <2>1. (ids \X {i}) \cap (ids \X {j}) = {} OBVIOUS
  <2> QED BY <2>1
<1>3. AllFor("provenance", list) BY <1>1 DEF AllFor, ToSet
<1>4. CopiesOf(list) = UNION {ids \X {k} : k \in 1..online} BY <1>1 DEF CopiesOf, ToSet
<1>5. UNION {ids \X {k} : k \in 1..online} = ids \X (1..online)
  <2>1. ASSUME NEW k \in 1..online PROVE ids \X {k} \subseteq ids \X (1..online) OBVIOUS
  <2>2. ASSUME NEW c \in ids \X (1..online) PROVE c[2] \in 1..online /\ c \in ids \X {c[2]} OBVIOUS
  <2> QED BY <2>1, <2>2
<1> QED BY <1>1, <1>2, <1>3, <1>4, <1>5

\* What is exported: copies for the marks, each of which is carried or lost.
Exports(p, marks) ==
  /\ marks # {} /\ marks \subseteq Nat
  /\ exported' = [exported EXCEPT ![p] = @ \cup (ToSet(pending[p]) \X marks)]
  /\ \E on, off : /\ Divides(ToSet(pending[p]) \X marks, on, off)
                  /\ Carries(p, OnTheWay(p) \cup on, lost[p] \cup off)

\* The pending nodes are sent, or lost if nobody is online.
LEMMA SyncPendingExports ==
  ASSUME ExchangeInv, NEW p \in Peer, SyncPendingProvenance(p)
  PROVE  ChannelInv' /\ \E marks : Exports(p, marks)
<1> DEFINE ids == ToSet(pending[p])
<1>1. /\ ChannelInv /\ Divides(Recorded(p), ids, IdsOf(exported[p]))
      /\ OnTheWay(p) \subseteq exported[p] /\ pending \in [Peer -> Seq(Id)]
  BY OnTheWayRecorded DEF ExchangeInv, Accounts, Balanced, GraphInv
<1>2. ids \in SUBSET Id BY <1>1 DEF ToSet
<1>3. ASSUME NEW online \in 1..MaxOnline,
             SendAll(p, "provenance", [k \in 1..online |-> EnvelopeFor(p, k)]),
             exported' = [exported EXCEPT ![p] = @ \cup (ids \X (1..online))]
      PROVE  ChannelInv' /\ Exports(p, 1..online)
  <2>1. online \in Nat /\ 1..online # {} /\ 1..online \subseteq Nat BY OnlineAssumption
  <2> DEFINE list == [k \in 1..online |-> EnvelopeFor(p, k)]
  <2>2. /\ list \in [1..online -> Envelope]
        /\ \A k \in 1..online : list[k].purpose = "provenance" /\ list[k].copies = ids \X {k}
    BY <2>1, EnvelopeForFacts
  <2>3. SendAll(p, "provenance", list) BY <1>3
  <2> HIDE DEF list, ids
  <2>4. /\ list \in Seq(Envelope) /\ Apart(list) /\ AllFor("provenance", list)
        /\ CopiesOf(list) = ids \X (1..online)
    BY <2>1, <2>2, OneForEach
  <2>5. (ids \X (1..online)) \cap OnTheWay(p) = {}
    <3> SUFFICES ASSUME NEW c \in ids \X (1..online), c \in exported[p] PROVE FALSE BY <1>1
    <3>1. c[1] \in ids /\ c[1] \in IdsOf(exported[p]) BY DEF IdsOf
    <3> QED BY <1>1, <3>1 DEF Divides
  <2>6. Fresh(list, buffer[p], wire[p]) BY <2>4, <2>5, OnTheWayIs DEF Fresh
  <2>7. "provenance" \in Purpose BY PurposeAssumption
  <2>8. /\ ChannelInv'
        /\ \E on, off : /\ Divides(CopiesOf(list), on, off)
                        /\ Carries(p, OnTheWay(p) \cup on, lost[p] \cup off)
    BY <1>1, <2>3, <2>4, <2>6, <2>7, SendAllCarries
  <2> QED BY <1>3, <2>1, <2>4, <2>8 DEF Exports, ids
<1>4. ASSUME GiveUp(p, ids \X {0}), UNCHANGED <<channels, buffer, wire>>,
             exported' = [exported EXCEPT ![p] = @ \cup (ids \X {0})]
      PROVE  ChannelInv' /\ Exports(p, {0})
  <2> DEFINE copies == ids \X {0}
  <2>1. copies \in SUBSET Copy
    <3>1. ids \X {0} \subseteq Id \X Nat BY <1>2
    <3> QED BY <3>1 DEF Copy
  <2>2. exported' = [exported EXCEPT ![p] = @ \cup copies] /\ GiveUp(p, copies) BY <1>4
  <2> HIDE DEF copies
  <2>3. /\ lost' = [lost EXCEPT ![p] = @ \cup copies] /\ channels' \in [Peer -> SUBSET Purpose]
        /\ buffer' = [buffer EXCEPT ![p] = buffer[p]] /\ wire' = [wire EXCEPT ![p] = wire[p]]
        /\ InOrder(buffer[p], wire[p])
    BY <1>1, <1>4, <2>2 DEF GiveUp, ChannelInv
  <2>4. ChannelInv' /\ Carries(p, Carried(buffer[p], wire[p]), lost[p] \cup copies)
    BY <1>1, <2>1, <2>3, OneEnd
  <2>5. Carried(buffer[p], wire[p]) = OnTheWay(p) \cup {} BY OnTheWayIs
  <2>6. Divides(copies, {}, copies) BY DEF Divides
  <2>7. \E on, off : Divides(copies, on, off) /\ Carries(p, OnTheWay(p) \cup on, lost[p] \cup off)
    BY <2>4, <2>5, <2>6
  <2>8. {0} # {} /\ {0} \subseteq Nat OBVIOUS
  <2>9. copies = ToSet(pending[p]) \X {0} BY DEF copies
  <2>10. Exports(p, {0}) BY <2>2, <2>7, <2>8, <2>9 DEF Exports
  <2> QED BY <2>4, <2>10
<1> QED BY <1>3, <1>4 DEF SyncPendingProvenance

\* The pending nodes are pending no more, and accounted for.
LEMMA SyncPendingKeeps ==
  ASSUME ExchangeInv, NEW p \in Peer, SyncPendingProvenance(p)
  PROVE  ExchangeInv'
<1> DEFINE ids == ToSet(pending[p])
<1>1. /\ graph \in [Peer -> Graphs] /\ pending \in [Peer -> Seq(Id)]
      /\ exported \in [Peer -> SUBSET Copy] /\ arrived \in [Peer -> SUBSET Copy]
  BY DEF ExchangeInv, GraphInv
<1>2. pending' = [pending EXCEPT ![p] = <<>>] /\ UNCHANGED <<syncVars, graph, arrived>>
  BY DEF SyncPendingProvenance
<1>3. ChannelInv' BY SyncPendingExports
<1>4. PICK marks : Exports(p, marks) BY SyncPendingExports
<1> DEFINE copies == ids \X marks
<1>5. exported' = [exported EXCEPT ![p] = @ \cup copies] BY <1>4 DEF Exports
<1>6. PICK on, off : Divides(copies, on, off) /\ Carries(p, OnTheWay(p) \cup on, lost[p] \cup off)
  BY <1>4 DEF Exports
<1>7. copies \subseteq Copy /\ IdsOf(copies) = ids
  <2>1. ids \subseteq Id BY <1>1 DEF ToSet
  <2>2. marks # {} /\ marks \subseteq Nat BY <1>4 DEF Exports
  <2> HIDE DEF ids
  <2> QED BY <2>1, <2>2, IdsOfFacts DEF Copy
<1>8. ids \cap IdsOf(exported[p]) = {} BY DEF ExchangeInv, Accounts, Balanced, Divides
<1>9. copies \cap exported[p] = {} BY <1>7, <1>8 DEF IdsOf
<1> HIDE DEF copies
<1>10. exported' \in [Peer -> SUBSET Copy] /\ exported'[p] = exported[p] \cup copies
       /\ \A r \in Peer : r # p => exported'[r] = exported[r]
  BY <1>1, <1>5, <1>7
<1> HIDE DEF ids
<1>11. /\ pending' \in [Peer -> Seq(Id)] /\ ToSet(pending'[p]) = {}
       /\ \A r \in Peer : r # p => pending'[r] = pending[r]
  BY <1>1, <1>2 DEF ToSet
<1>12. GraphInv'
  <2>1. Bases' = Bases BY <1>2 DEF Bases
  <2> QED BY <1>1, <1>2, <1>10, <1>11, <2>1 DEF ExchangeInv, GraphInv
<1>13. DocInv' BY <1>2 DEF ExchangeInv, DocInv, syncVars
<1>14. Accounts'
  <2> SUFFICES ASSUME NEW r \in Peer PROVE Balanced(r)' BY DEF Accounts
  <2>1. Balanced(r) BY DEF ExchangeInv, Accounts
  <2>2. Recorded(r)' = Recorded(r) /\ Imported(r)' = Imported(r) /\ arrived' = arrived
    BY <1>2 DEF Recorded, Imported
  <2>3. CASE r = p
    <3>1. OnTheWay(r)' = OnTheWay(r) \cup on /\ lost'[r] = lost[r] \cup off BY <1>6, <2>3 DEF Carries
    <3>2. Partition(exported'[r], OnTheWay(r) \cup on, arrived[r], lost[r] \cup off)
      BY <1>6, <1>9, <1>10, <2>1, <2>3, ExportKeeps DEF Balanced
    <3>3. IdsOf(exported'[r]) = IdsOf(exported[r]) \cup ids BY <1>7, <1>10, <2>3, IdsOfFacts
    <3>4. Divides(Recorded(r), {}, IdsOf(exported'[r])) BY <2>1, <2>3, <3>3 DEF Balanced, Divides, ids
    <3> QED BY <1>11, <2>1, <2>2, <2>3, <3>1, <3>2, <3>4 DEF Balanced
  <2>4. CASE r # p
    <3>1. OnTheWay(r)' = OnTheWay(r) /\ lost'[r] = lost[r] BY <1>6, <2>4 DEF Carries
    <3> QED BY <1>10, <1>11, <2>1, <2>2, <2>4, <3>1 DEF Balanced
  <2> QED BY <2>3, <2>4
<1> QED BY <1>3, <1>12, <1>13, <1>14 DEF ExchangeInv

\* What arrives is imported by the other peer.
LEMMA ImportKeeps ==
  ASSUME ExchangeInv, NEW p \in Peer, HandleRemoteProvenance(p)
  PROVE  ExchangeInv'
<1> DEFINE o == Other(p)
           e == Head(wire[p]["provenance"])
           new == ImportAll(graph[o], p, e.nodes)
<1>1. /\ graph \in [Peer -> Graphs] /\ pending \in [Peer -> Seq(Id)] /\ ChannelInv
      /\ exported \in [Peer -> SUBSET Copy] /\ arrived \in [Peer -> SUBSET Copy]
  BY DEF ExchangeInv, GraphInv
<1>2. o \in Peer /\ o # p /\ Other(o) = p BY OtherFacts
<1>3. /\ Receive(p, "provenance") /\ graph' = [graph EXCEPT ![o] = new]
      /\ arrived' = [arrived EXCEPT ![p] = @ \cup e.copies] /\ UNCHANGED <<syncVars, pending, exported>>
  BY DEF HandleRemoteProvenance
<1>4. /\ ChannelInv' /\ e \in Envelope /\ e.copies \subseteq OnTheWay(p)
      /\ Carries(p, OnTheWay(p) \ e.copies, lost[p])
  <2>1. "provenance" \in Purpose BY PurposeAssumption
  <2> QED BY <1>1, <1>3, <2>1, ReceiveTakes
<1> HIDE DEF e
<1> DEFINE ids == IdsOf(e.copies)
<1>5. /\ e.nodes \in Seq(Item) /\ e.copies \subseteq Copy /\ ids \subseteq Id
      /\ ids = {e.nodes[n].id : n \in DOMAIN e.nodes}
  BY <1>4, EnvelopeFacts, IdsOfFacts
<1> HIDE DEF ids
<1>6. HasImported(new, graph[o], e.nodes, Len(e.nodes))
  <2>1. graph[o] \in Graphs BY <1>1, <1>2
  <2> QED BY <1>5, <2>1, ImportAllTyped
<1> HIDE DEF new, o
<1>7. new \in Graphs /\ DOMAIN new.nodes = DOMAIN graph[o].nodes \cup {Remote(i) : i \in ids}
  <2>1. DOMAIN e.nodes = 1..Len(e.nodes) BY <1>5
  <2>2. {Remote(i) : i \in ids} = {Remote(e.nodes[n].id) : n \in 1..Len(e.nodes)} BY <1>5, <2>1
  <2> QED BY <1>6, <2>2 DEF HasImported
<1>8. /\ graph' \in [Peer -> Graphs] /\ graph'[o] = new
      /\ \A r \in Peer : r # o => graph'[r] = graph[r]
  BY <1>1, <1>2, <1>3, <1>7
<1>9. ids \subseteq Recorded(p)
  <2>1. e.copies \subseteq exported[p] /\ IdsOf(exported[p]) \subseteq Recorded(p) BY <1>4, OnTheWayRecorded
  <2> QED BY <2>1 DEF IdsOf, ids
<1>10. Bases' = Bases
  <2>1. ASSUME NEW r \in Peer, NEW i \in DOMAIN graph'[r].nodes PROVE i[1] \in Bases
    <3>1. CASE i \in DOMAIN graph[r].nodes BY <3>1 DEF Bases
    <3>2. CASE i \notin DOMAIN graph[r].nodes
      <4>1. r = o BY <1>8, <3>2
      <4>2. PICK j \in ids : i = Remote(j) BY <1>7, <1>8, <3>2, <4>1
      <4>3. i[1] = j[1] BY <1>5, <4>2, RemoteFacts
      <4>4. j \in DOMAIN graph[p].nodes BY <1>9 DEF Recorded
      <4> QED BY <4>3, <4>4 DEF Bases
    <3> QED BY <3>1, <3>2
  <2>2. ASSUME NEW r \in Peer, NEW i \in DOMAIN graph[r].nodes PROVE i \in DOMAIN graph'[r].nodes
    BY <1>7, <1>8
  <2>3. Bases' \subseteq Bases BY <2>1 DEF Bases
  <2>4. Bases \subseteq Bases' BY <2>2 DEF Bases
  <2> QED BY <2>3, <2>4
<1>11. GraphInv' BY <1>1, <1>3, <1>5, <1>8, <1>10 DEF GraphInv, ExchangeInv
<1>12. DocInv' BY <1>3 DEF ExchangeInv, DocInv, syncVars
<1>13. Accounts'
  <2> SUFFICES ASSUME NEW r \in Peer PROVE Balanced(r)' BY DEF Accounts
  <2>1. Balanced(r) BY DEF ExchangeInv, Accounts
  <2>2. UNCHANGED <<pending, exported>> BY <1>3
  <2>3. Recorded(r)' = Recorded(r)
    <3>1. CASE r = o
      <4>1. \A i \in ids : Remote(i)[2] # 0 BY <1>5, RemoteFacts
      <4> QED BY <1>7, <1>8, <3>1, <4>1 DEF Recorded
    <3>2. CASE r # o BY <1>8, <3>2 DEF Recorded
    <3> QED BY <3>1, <3>2
  <2>4. CASE r = p
    <3>1. OnTheWay(r)' = OnTheWay(r) \ e.copies /\ lost'[r] = lost[r] BY <1>4, <2>4 DEF Carries
    <3>2. arrived'[r] = arrived[r] \cup e.copies BY <1>1, <1>3, <2>4
    <3>3. Imported(r)' = Imported(r) \cup ids
      <4>1. \A i \in Id : Remote(i) \in {Remote(j) : j \in ids} <=> i \in ids
        BY <1>5, RemoteFacts
      <4>2. Imported(r)' = {i \in Id : Remote(i) \in DOMAIN new.nodes} BY <1>8, <2>4 DEF Imported, o
      <4>3. Imported(r) = {i \in Id : Remote(i) \in DOMAIN graph[o].nodes} BY <2>4 DEF Imported, o
      <4> QED BY <1>5, <1>7, <4>1, <4>2, <4>3
    <3>4. Imported(r)' = IdsOf(arrived'[r]) BY <2>1, <3>2, <3>3, IdsOfFacts DEF Balanced, ids
    <3>5. e.copies \subseteq OnTheWay(r) BY <1>4, <2>4
    <3>6. Partition(exported[r], OnTheWay(r) \ e.copies, arrived[r] \cup e.copies, lost[r])
      BY <2>1, <3>5, GiveUpKeeps DEF Balanced
    <3> QED BY <2>1, <2>2, <2>3, <3>1, <3>2, <3>4, <3>6 DEF Balanced
  <2>5. CASE r # p
    <3>1. OnTheWay(r)' = OnTheWay(r) /\ lost'[r] = lost[r] BY <1>4, <2>5 DEF Carries
    <3>2. r = o BY <2>5, OtherFacts DEF o
    <3>3. Imported(r)' = Imported(r) BY <1>2, <1>8, <3>2 DEF Imported
    <3>4. arrived'[r] = arrived[r] BY <1>1, <1>3, <2>5
    <3> QED BY <2>1, <2>2, <2>3, <3>1, <3>3, <3>4 DEF Balanced
  <2> QED BY <2>4, <2>5
<1> QED BY <1>4, <1>11, <1>12, <1>13 DEF ExchangeInv

\* ExchangeInv holds at the start.
LEMMA ExchangeBegins == ExchangeInit => ExchangeInv
<1> SUFFICES ASSUME ExchangeInit PROVE ExchangeInv OBVIOUS
<1> USE DEF ExchangeInit, SyncInit, ChannelsInit
<1>1. \A p \in Peer : /\ buffer[p] = <<>> /\ lost[p] = {} /\ pending[p] = <<>> /\ graph[p] = EmptyGraph
                      /\ exported[p] = {} /\ arrived[p] = {}
                      /\ \A u \in Purpose : wire[p][u] = <<>>
  OBVIOUS
<1>2. ToSet(<<>>) = {} /\ DOMAIN <<>> = {} /\ Len(<<>>) = 0 BY DEF ToSet
<1>3. "provenance" \in Purpose BY PurposeAssumption
<1>4. CopiesOf(<<>>) = {} /\ Apart(<<>>) BY <1>2 DEF CopiesOf, Apart
<1>5. EmptyGraph \in Graphs /\ DOMAIN EmptyGraph.nodes = {} BY <1>2, EmptyMap DEF EmptyGraph, Graphs
<1>6. \A p \in Peer : InOrder(buffer[p], wire[p])
  <2> SUFFICES ASSUME NEW p \in Peer PROVE InOrder(buffer[p], wire[p]) OBVIOUS
  <2>1. wire[p] \in [Purpose -> Seq(Envelope)] /\ buffer[p] \in Seq(Envelope) OBVIOUS
  <2> QED BY <1>1, <1>2, <1>3, <1>4, <2>1, BufferAssumption DEF InOrder
<1>7. ChannelInv
  <2>1. /\ channels \in [Peer -> SUBSET Purpose] /\ buffer \in [Peer -> Seq(Envelope)]
        /\ wire \in [Peer -> [Purpose -> Seq(Envelope)]] /\ lost \in [Peer -> SUBSET Copy]
    OBVIOUS
  <2> QED BY <1>6, <2>1 DEF ChannelInv
<1>8. DocInv BY <1>2 DEF DocInv
<1>9. GraphInv
  <2>1. Bases = {} BY <1>1, <1>5 DEF Bases
  <2>2. {} = 1..0 /\ 0 \in Nat OBVIOUS
  <2>3. Bases = 1..0 BY <2>1, <2>2
  <2> QED BY <1>5, <2>2, <2>3 DEF GraphInv
<1>10. Accounts
  <2> SUFFICES ASSUME NEW p \in Peer PROVE Balanced(p) BY DEF Accounts
  <2>1. OnTheWay(p) = {} BY <1>1, <1>2 DEF OnTheWay
  <2>2. Recorded(p) = {} /\ Imported(p) = {} BY <1>1, <1>5, OtherFacts DEF Recorded, Imported
  <2>3. IdsOf({}) = {} BY DEF IdsOf
  <2> QED BY <1>1, <1>2, <2>1, <2>2, <2>3 DEF Balanced, Divides, Partition
<1> QED BY <1>7, <1>8, <1>9, <1>10 DEF ExchangeInv

\* ExchangeInv, for any bound on the buffer, the channels, the records and the
\* peers online.
THEOREM Accounted == ExchangeSpec => []ExchangeInv
<1>1. ExchangeInv /\ [ExchangeNext]_exchangeVars => ExchangeInv'
  <2> SUFFICES ASSUME ExchangeInv, [ExchangeNext]_exchangeVars PROVE ExchangeInv' OBVIOUS
  <2>1. CASE UNCHANGED exchangeVars
    <3>1. UNCHANGED <<channels, buffer, wire, lost, doc, graph, pending, exported, arrived>>
      BY <2>1 DEF exchangeVars, channelVars, syncVars, bridgeVars
    <3>2. ChannelInv' /\ DocInv' BY <3>1 DEF ExchangeInv, ChannelInv, DocInv
    <3>3. Bases' = Bases BY <3>1 DEF Bases
    <3>4. GraphInv' BY <3>1, <3>3 DEF ExchangeInv, GraphInv
    <3>5. \A p \in Peer : /\ Recorded(p)' = Recorded(p) /\ Imported(p)' = Imported(p)
                          /\ OnTheWay(p)' = OnTheWay(p) /\ ToSet(pending[p])' = ToSet(pending[p])
      BY <3>1 DEF Recorded, Imported, OnTheWay
    <3>6. Accounts' BY <3>1, <3>5 DEF ExchangeInv, Accounts, Balanced
    <3> QED BY <3>2, <3>4, <3>6 DEF ExchangeInv
  <2>2. ASSUME NEW p \in Peer, BridgeStep(p) PROVE ExchangeInv'
    BY <2>2, RecordLocalKeeps, SyncPendingKeeps, ImportKeeps DEF BridgeStep
  <2> QED BY <2>1, <2>2, GraphsKeep, ChannelsKeep DEF ExchangeNext
<1> QED BY <1>1, ExchangeBegins, PTL DEF ExchangeSpec

\* ExactlyOneFate: a node is pending until it is exported, each copy then made of
\* it is on its way, has arrived or is lost, and the other end knows the node if
\* and only if one has arrived, however many peers were online.
THEOREM OneFate == ExchangeSpec => []ExactlyOneFate
<1>1. ExchangeInv => ExactlyOneFate
  <2> SUFFICES ASSUME ExchangeInv, NEW p \in Peer
               PROVE  /\ \A id \in Recorded(p) : id \in ToSet(pending[p]) <=> id \notin IdsOf(exported[p])
                      /\ \A c \in exported[p] : \E f \in Fates(p, c) : Fates(p, c) = {f}
                      /\ \A id \in Recorded(p) :
                           Remote(id) \in DOMAIN graph[Other(p)].nodes <=> id \in IdsOf(arrived[p])
    BY DEF ExactlyOneFate
  <2>1. Balanced(p) BY DEF ExchangeInv, Accounts
  <2>2. \A id \in Recorded(p) : id \in ToSet(pending[p]) <=> id \notin IdsOf(exported[p])
    BY <2>1 DEF Balanced, Divides
  <2>3. ASSUME NEW id \in Recorded(p)
        PROVE  Remote(id) \in DOMAIN graph[Other(p)].nodes <=> id \in IdsOf(arrived[p])
    <3>1. id \in Id BY RecordedIsId DEF ExchangeInv
    <3>2. id \in Imported(p) <=> Remote(id) \in DOMAIN graph[Other(p)].nodes BY <3>1 DEF Imported
    <3> QED BY <2>1, <3>2 DEF Balanced
  <2>4. ASSUME NEW c \in exported[p] PROVE \E f \in Fates(p, c) : Fates(p, c) = {f}
    <3>1. Partition(exported[p], OnTheWay(p), arrived[p], lost[p]) BY <2>1 DEF Balanced
    <3>2. CASE c \in OnTheWay(p)
      <4>1. Fates(p, c) = {"on the way"} BY <3>1, <3>2 DEF Fates, Partition
      <4> QED BY <4>1
    <3>3. CASE c \in arrived[p]
      <4>1. Fates(p, c) = {"arrived"} BY <3>1, <3>3 DEF Fates, Partition
      <4> QED BY <4>1
    <3>4. CASE c \in lost[p]
      <4>1. Fates(p, c) = {"lost"} BY <3>1, <3>4 DEF Fates, Partition
      <4> QED BY <4>1
    <3> QED BY <3>1, <3>2, <3>3, <3>4 DEF Partition
  <2> QED BY <2>2, <2>3, <2>4
<1> QED BY <1>1, Accounted, PTL

-----------------------------------------------------------------------------
(* The envelopes of one peer, whole                                        *)

Envelopes(p) == ToSet(buffer[p]) \cup UNION {ToSet(wire[p][u]) : u \in Purpose}

\* A step at p adds no envelopes but these.
Brings(p, envelopes) ==
  \A r \in Peer : Envelopes(r)' \subseteq IF r = p THEN Envelopes(r) \cup envelopes ELSE Envelopes(r)

\* One end takes on some of the envelopes.
LEMMA OneEndBrings ==
  ASSUME ChannelInv, NEW p \in Peer, NEW waiting, NEW sent, NEW envelopes,
         buffer' = [buffer EXCEPT ![p] = waiting], wire' = [wire EXCEPT ![p] = sent],
         ToSet(waiting) \subseteq Envelopes(p) \cup envelopes,
         \A u \in Purpose : ToSet(sent[u]) \subseteq Envelopes(p) \cup envelopes
  PROVE  Brings(p, envelopes)
<1>1. /\ buffer'[p] = waiting /\ wire'[p] = sent
      /\ \A r \in Peer : r # p => buffer'[r] = buffer[r] /\ wire'[r] = wire[r]
  BY DEF ChannelInv
<1> SUFFICES ASSUME NEW r \in Peer
             PROVE  Envelopes(r)' \subseteq IF r = p THEN Envelopes(r) \cup envelopes ELSE Envelopes(r)
  BY DEF Brings
<1>2. Envelopes(r)' = ToSet(buffer'[r]) \cup UNION {ToSet(wire'[r][u]) : u \in Purpose} BY DEF Envelopes
<1>3. CASE r = p
  <2>1. \A u \in Purpose : ToSet(wire'[r][u]) \subseteq Envelopes(p) \cup envelopes BY <1>1, <1>3
  <2> QED BY <1>1, <1>2, <1>3, <2>1
<1>4. CASE r # p BY <1>1, <1>2, <1>4 DEF Envelopes
<1> QED BY <1>3, <1>4

\* Nothing is added where no envelope moves.
LEMMA RestBrings ==
  ASSUME ChannelInv, NEW p \in Peer, UNCHANGED <<buffer, wire>>
  PROVE  Brings(p, {})
BY DEF Brings, Envelopes

\* send
LEMMA SendBrings ==
  ASSUME ChannelInv, NEW p \in Peer, NEW u \in Purpose,
         NEW S, Envelope \subseteq S, NEW list \in Seq(S), SendAll(p, u, list)
  PROVE  Brings(p, ToSet(list))
<1>1. /\ buffer[p] \in Seq(S) /\ wire[p] \in [Purpose -> Seq(S)]
      /\ InOrder(buffer[p], wire[p])
  <2>1. buffer[p] \in Seq(Envelope) /\ wire[p] \in [Purpose -> Seq(Envelope)] BY DEF ChannelInv
  <2>2. Seq(Envelope) \subseteq Seq(S) OBVIOUS
  <2>3. wire[p] \in [Purpose -> Seq(S)] BY <2>1, <2>2
  <2> QED BY <2>1, <2>2, <2>3 DEF ChannelInv
<1>2. ToSet(buffer[p]) \subseteq Envelopes(p) /\ \A v \in Purpose : ToSet(wire[p][v]) \subseteq Envelopes(p)
  BY DEF Envelopes
<1>3. CASE wire' = [wire EXCEPT ![p][u] = @ \o list] /\ UNCHANGED buffer
  <2> DEFINE all == wire[p][u] \o list
             now == [wire[p] EXCEPT ![u] = all]
  <2>1. ToSet(all) = ToSet(wire[p][u]) \cup ToSet(list) BY <1>1, JoinLists
  <2> HIDE DEF all
  <2>2. \A v \in Purpose : ToSet(now[v]) \subseteq Envelopes(p) \cup ToSet(list)
    BY <1>1, <1>2, <2>1
  <2>3. wire' = [wire EXCEPT ![p] = now] /\ buffer' = [buffer EXCEPT ![p] = buffer[p]]
    BY <1>3 DEF ChannelInv, all
  <2>4. ToSet(buffer[p]) \subseteq Envelopes(p) \cup ToSet(list) BY <1>2
  <2> HIDE DEF now
  <2> QED BY <2>2, <2>3, <2>4, OneEndBrings
<1>4. ASSUME NEW kept, kept = Min({MaxBuffer - Len(buffer[p]), Len(list)}),
             buffer' = [buffer EXCEPT ![p] = @ \o SubSeq(list, 1, kept)], UNCHANGED wire
      PROVE  Brings(p, ToSet(list))
  <2> DEFINE first == SubSeq(list, 1, kept)
             waiting == buffer[p] \o first
  <2>1. Len(buffer[p]) \in Nat /\ Len(list) \in Nat BY <1>1
  <2>2. kept \in 0..Len(list)
    <3>1. MaxBuffer - Len(buffer[p]) \in Nat BY <1>1, <2>1, BufferAssumption DEF InOrder
    <3>2. /\ kept <= MaxBuffer - Len(buffer[p]) /\ kept <= Len(list)
          /\ kept = MaxBuffer - Len(buffer[p]) \/ kept = Len(list)
      <4>1. kept = Min({MaxBuffer - Len(buffer[p]), Len(list)}) BY <1>4
      <4>2. MaxBuffer - Len(buffer[p]) \in Int /\ Len(list) \in Int BY <2>1, <3>1
      <4> QED BY <4>1, <4>2, MinOfTwo
    <3> QED BY <2>1, <3>1, <3>2
  <2>3. first \in Seq(S) /\ ToSet(first) \subseteq ToSet(list)
    <3>1. /\ first \in Seq(S) /\ DOMAIN first = 1..kept /\ DOMAIN list = 1..Len(list)
          /\ \A i \in 1..kept : first[i] = list[i] /\ i \in 1..Len(list)
      BY <2>1, <2>2
    <3> HIDE DEF first
    <3> QED BY <3>1 DEF ToSet
  <2> HIDE DEF first
  <2>4. ToSet(waiting) = ToSet(buffer[p]) \cup ToSet(first) BY <1>1, <2>3, JoinLists
  <2>5. buffer' = [buffer EXCEPT ![p] = waiting] /\ wire' = [wire EXCEPT ![p] = wire[p]]
    BY <1>4 DEF ChannelInv, first
  <2> HIDE DEF waiting
  <2>6. ToSet(waiting) \subseteq Envelopes(p) \cup ToSet(list) BY <1>2, <2>3, <2>4
  <2>7. \A v \in Purpose : ToSet(wire[p][v]) \subseteq Envelopes(p) \cup ToSet(list) BY <1>2
  <2> QED BY <2>5, <2>6, <2>7, OneEndBrings
<1> QED BY <1>3, <1>4 DEF SendAll

\* An envelope that arrives or is lost.
LEMMA TailBrings ==
  ASSUME ChannelInv, NEW p \in Peer, NEW u \in Purpose, Receive(p, u) \/ Lose(p, u)
  PROVE  Brings(p, {})
<1> DEFINE rest == Tail(wire[p][u])
           now == [wire[p] EXCEPT ![u] = rest]
<1>1. /\ wire[p] \in [Purpose -> Seq(Envelope)] /\ wire[p][u] \in Seq(Envelope) /\ wire[p][u] # <<>>
      /\ UNCHANGED buffer /\ wire' = [wire EXCEPT ![p][u] = Tail(@)]
  BY DEF ChannelInv, Receive, Lose
<1>2. ToSet(buffer[p]) \subseteq Envelopes(p) /\ \A v \in Purpose : ToSet(wire[p][v]) \subseteq Envelopes(p)
  BY DEF Envelopes
<1>3. ToSet(rest) \subseteq ToSet(wire[p][u]) BY <1>1, TakeHead
<1>4. wire' = [wire EXCEPT ![p] = now] /\ buffer' = [buffer EXCEPT ![p] = buffer[p]] BY <1>1 DEF ChannelInv
<1> HIDE DEF rest
<1>5. \A v \in Purpose : ToSet(now[v]) \subseteq Envelopes(p) \cup {} BY <1>1, <1>2, <1>3
<1>6. ToSet(buffer[p]) \subseteq Envelopes(p) \cup {} BY <1>2
<1> HIDE DEF now
<1> QED BY <1>4, <1>5, <1>6, OneEndBrings

\* A flush, a closed channel.
LEMMA ChannelsBring ==
  ASSUME ChannelInv, NEW p \in Peer, ChannelStep(p)
  PROVE  Brings(p, {})
<1>1. /\ buffer[p] \in Seq(Envelope) /\ wire[p] \in [Purpose -> Seq(Envelope)]
  BY DEF ChannelInv
<1>2. ToSet(buffer[p]) \subseteq Envelopes(p) /\ \A v \in Purpose : ToSet(wire[p][v]) \subseteq Envelopes(p)
  BY DEF Envelopes
<1>3. ASSUME NEW u \in Purpose, FlushPending(p, u) PROVE Brings(p, {})
  <2> DEFINE out == For(u, buffer[p])
             left == NotFor(u, buffer[p])
             all == wire[p][u] \o out
             now == [wire[p] EXCEPT ![u] = all]
  <2>1. out \in Seq(Envelope) /\ ToSet(out) \subseteq ToSet(buffer[p]) /\ ToSet(left) \subseteq ToSet(buffer[p])
    BY <1>1, OnlyPlaces, OnlyElements DEF For, NotFor
  <2>2. wire' = [wire EXCEPT ![p] = now] /\ buffer' = [buffer EXCEPT ![p] = left]
    BY <1>3 DEF FlushPending, ChannelInv
  <2> HIDE DEF out, left
  <2>3. ToSet(all) = ToSet(wire[p][u]) \cup ToSet(out) BY <1>1, <2>1, JoinLists
  <2> HIDE DEF all
  <2>4. \A v \in Purpose : ToSet(now[v]) \subseteq Envelopes(p) \cup {} BY <1>1, <1>2, <2>1, <2>3
  <2>5. ToSet(left) \subseteq Envelopes(p) \cup {} BY <1>2, <2>1
  <2> HIDE DEF now
  <2> QED BY <2>2, <2>4, <2>5, OneEndBrings
<1>4. CASE CloseAll(p)
  <2>1. buffer' = [buffer EXCEPT ![p] = <<>>] /\ wire' = [wire EXCEPT ![p] = wire[p]]
    BY <1>4 DEF CloseAll, ChannelInv
  <2>2. ToSet(<<>>) \subseteq Envelopes(p) \cup {} BY DEF ToSet
  <2>3. \A v \in Purpose : ToSet(wire[p][v]) \subseteq Envelopes(p) \cup {} BY <1>2
  <2> QED BY <2>1, <2>2, <2>3, OneEndBrings
<1>5. ASSUME NEW u \in Purpose, RegisterChannel(p, u) \/ UnregisterChannel(p, u) PROVE Brings(p, {})
  BY <1>3, <1>5, RestBrings DEF RegisterChannel, UnregisterChannel
<1> QED BY <1>4, <1>5, TailBrings DEF ChannelStep

\* A step that adds envelopes without nodes.
BringsNoNodes(p) == \E envelopes : Brings(p, envelopes) /\ \A e \in envelopes : e.nodes = <<>>

\* What the graphs send is about no node.
LEMMA SyncBrings ==
  ASSUME ChannelInv, NEW p \in Peer, NEW op \in {"fullSnapshot", "patches"}, NEW k \in Nat,
         SendAll(p, "sync", [n \in 1..k |-> SyncEnvelope(op)])
  PROVE  BringsNoNodes(p)
<1> DEFINE list == [n \in 1..k |-> SyncEnvelope(op)]
<1>1. SyncEnvelope(op) \in Envelope BY SyncEnvelopeFacts
<1>2. SyncEnvelope(op).nodes = <<>> BY DEF SyncEnvelope
<1>3. list \in Seq(Envelope) /\ DOMAIN list = 1..k /\ \A n \in 1..k : list[n] = SyncEnvelope(op) BY <1>1
<1>4. SendAll(p, "sync", list) OBVIOUS
<1> HIDE DEF list
<1>5. \A e \in ToSet(list) : e.nodes = <<>> BY <1>2, <1>3 DEF ToSet
<1>6. Brings(p, ToSet(list)) BY <1>3, <1>4, PurposeAssumption, SendBrings
<1> QED BY <1>5, <1>6 DEF BringsNoNodes

\* The graphs add envelopes without nodes.
LEMMA GraphsBring ==
  ASSUME ChannelInv, DocInv, NEW p \in Peer, SyncStep(p)
  PROVE  BringsNoNodes(p)
<1>1. Brings(p, {}) => BringsNoNodes(p)
  <2>1. \A e \in {} : e.nodes = <<>> OBVIOUS
  <2> QED BY <2>1 DEF BringsNoNodes
<1>2. DOMAIN doc[p].nodes \subseteq Entity BY DEF DocInv
<1>3. CASE InitiateSync(p)
  <2>1. <<SyncEnvelope("fullSnapshot")>> = [n \in 1..1 |-> SyncEnvelope("fullSnapshot")] OBVIOUS
  <2>2. SendAll(p, "sync", [n \in 1..1 |-> SyncEnvelope("fullSnapshot")]) BY <1>3, <2>1 DEF InitiateSync
  <2> QED BY <2>2, SyncBrings
<1>4. CASE RemoveSession(p) BY <1>1, <1>4, RestBrings DEF RemoveSession, channelVars
<1>5. CASE HandleSyncMessage(p)
  <2>1. "sync" \in Purpose /\ Receive(p, "sync") BY <1>5, PurposeAssumption DEF HandleSyncMessage
  <2> QED BY <1>1, <2>1, TailBrings
<1>6. ASSUME NEW entries, NEW version, DOMAIN entries \subseteq Entity, Transact(p, entries, version)
      PROVE  BringsNoNodes(p)
  <2> DEFINE keys == (DOMAIN entries \ DOMAIN doc[p].nodes) \cup (DOMAIN doc[p].nodes \ DOMAIN entries)
             k == Cardinality(keys) + 1
  <2>1. CASE UNCHANGED channelVars BY <1>1, <2>1, RestBrings DEF channelVars
  <2>2. CASE SendAll(p, "sync", [n \in 1..k |-> SyncEnvelope("patches")])
    <3>1. keys \subseteq Entity BY <1>2, <1>6
    <3> HIDE DEF keys
    <3>2. k \in Nat BY <3>1, EntityAssumption, FS_Subset, FS_CardinalityType
    <3> QED BY <2>2, <3>2, SyncBrings
  <2> QED BY <1>6, <2>1, <2>2 DEF Transact
<1>7. ASSUME NEW e \in Entity, NEW v, AddEntity(p, e, v) \/ UpdateEntity(p, e, v) PROVE BringsNoNodes(p)
  <2>1. DOMAIN SetNodes(p, [x \in {e} |-> v]) \subseteq Entity BY <1>2 DEF SetNodes
  <2> QED BY <1>6, <1>7, <2>1 DEF AddEntity, UpdateEntity
<1>8. ASSUME NEW e \in Entity, RemoveEntity(p, e) PROVE BringsNoNodes(p)
  <2>1. DOMAIN [x \in DOMAIN doc[p].nodes \ {e} |-> doc[p].nodes[x]] \subseteq Entity BY <1>2
  <2> QED BY <1>6, <1>8, <2>1 DEF RemoveEntity
<1>9. ASSUME NEW v, NEW version, ImportGraph(p, [e \in Entity |-> v], version) PROVE BringsNoNodes(p)
  <2>1. DOMAIN SetNodes(p, [e \in Entity |-> v]) \subseteq Entity BY <1>2 DEF SetNodes
  <2> QED BY <1>6, <1>9, <2>1 DEF ImportGraph
<1> QED BY <1>3, <1>4, <1>5, <1>7, <1>8, <1>9 DEF SyncStep

-----------------------------------------------------------------------------
(* ChainInv                                                                *)

\* An envelope carries its nodes as the peer recorded them.
SentAsRecorded == \A p \in Peer : \A e \in Envelopes(p) : \A n \in DOMAIN e.nodes :
  e.nodes[n].node = graph[p].nodes[e.nodes[n].id]

\* The causes of a node are nodes of the peer that recorded it.
CausesAreKnown == \A p \in Peer : \A id \in Recorded(p) :
  graph[p].nodes[id].parents \subseteq DOMAIN graph[p].nodes

\* An imported node has the same causes, behind a prefix.
CopiesAreTrue == \A p \in Peer : \A id \in Imported(p) :
  graph[Other(p)].nodes[Remote(id)].parents = {Remote(q) : q \in graph[p].nodes[id].parents}

Anchor(id) == [local |-> Remote(id), remote |-> id]

AnchorsLead ==
  DOMAIN anchors = Peer /\ \A p \in Peer : anchors[p] \subseteq {Anchor(id) : id \in Recorded(Other(p))}

\* Nothing is recorded at both.
RecordedOnce == \A p \in Peer : Recorded(p) \cap Recorded(Other(p)) = {}

ChainInv == SentAsRecorded /\ CausesAreKnown /\ CopiesAreTrue /\ AnchorsLead /\ RecordedOnce

\* The ids of envelopes are recorded.
LEMMA SentIsRecorded ==
  ASSUME ExchangeInv, NEW p \in Peer, NEW e \in Envelopes(p)
  PROVE  /\ e \in Envelope /\ IdsOf(e.copies) \subseteq Recorded(p)
         /\ \A n \in DOMAIN e.nodes : e.nodes[n].id \in IdsOf(e.copies)
<1>1. /\ buffer[p] \in Seq(Envelope) /\ wire[p] \in [Purpose -> Seq(Envelope)]
  BY DEF ExchangeInv, ChannelInv
<1>2. e \in Envelope
  <2>1. CASE e \in ToSet(buffer[p]) BY <1>1, <2>1, ElementsOf
  <2>2. ASSUME NEW u \in Purpose, e \in ToSet(wire[p][u]) PROVE e \in Envelope
    <3>1. wire[p][u] \in Seq(Envelope) BY <1>1
    <3> QED BY <2>2, <3>1, ElementsOf
  <2> QED BY <2>1, <2>2 DEF Envelopes
<1>3. e.copies \subseteq OnTheWay(p) BY DEF Envelopes, OnTheWay
<1>4. IdsOf(e.copies) \subseteq IdsOf(exported[p]) BY <1>3, OnTheWayRecorded DEF IdsOf
<1>5. IdsOf(e.copies) \subseteq Recorded(p) BY <1>4, OnTheWayRecorded
<1>6. IdsOf(e.copies) = {e.nodes[n].id : n \in DOMAIN e.nodes} BY <1>2, EnvelopeFacts
<1> QED BY <1>2, <1>5, <1>6

\* Nodes a peer recorded stay as they are.
OwnStands == \A p \in Peer : \A id \in Recorded(p) : id \in Recorded(p)' /\ graph'[p].nodes[id] = graph[p].nodes[id]

\* Envelopes stay true to what was recorded.
LEMMA SentStays ==
  ASSUME ExchangeInv, SentAsRecorded, OwnStands, NEW p \in Peer, NEW envelopes, Brings(p, envelopes),
         \A e \in envelopes : \A n \in DOMAIN e.nodes : e.nodes[n].node = graph'[p].nodes[e.nodes[n].id]
  PROVE  SentAsRecorded'
<1> SUFFICES ASSUME NEW r \in Peer, NEW e \in Envelopes(r)', NEW n \in DOMAIN e.nodes
             PROVE  e.nodes[n].node = graph'[r].nodes[e.nodes[n].id]
  BY DEF SentAsRecorded
<1>1. e \in Envelopes(r) \/ (r = p /\ e \in envelopes) BY DEF Brings
<1>2. CASE e \in Envelopes(r)
  <2>1. e.nodes[n].id \in Recorded(r) BY <1>2, SentIsRecorded
  <2>2. e.nodes[n].node = graph[r].nodes[e.nodes[n].id] BY <1>2 DEF SentAsRecorded
  <2> QED BY <2>1, <2>2 DEF OwnStands
<1> QED BY <1>1, <1>2

\* Where the bridges rest.
LEMMA ChainsRest ==
  ASSUME ExchangeInv, ChainInv, UNCHANGED <<graph, anchors>>, NEW p \in Peer, NEW envelopes,
         Brings(p, envelopes), \A e \in envelopes : \A n \in DOMAIN e.nodes :
           e.nodes[n].node = graph[p].nodes[e.nodes[n].id]
  PROVE  ChainInv'
<1>1. \A r \in Peer : Recorded(r)' = Recorded(r) /\ Imported(r)' = Imported(r) BY DEF Recorded, Imported
<1>2. OwnStands BY <1>1 DEF OwnStands
<1>3. SentAsRecorded
  BY DEF ChainInv
<1>4. SentAsRecorded' BY <1>2, <1>3, SentStays
<1>5. CausesAreKnown' BY <1>1 DEF ChainInv, CausesAreKnown
<1>6. CopiesAreTrue' BY <1>1 DEF ChainInv, CopiesAreTrue
<1>7. AnchorsLead' /\ RecordedOnce' BY <1>1, OtherFacts DEF ChainInv, AnchorsLead, RecordedOnce
<1> QED BY <1>4, <1>5, <1>6, <1>7 DEF ChainInv

\* A node recorded.
LEMMA RecordChains ==
  ASSUME ExchangeInv, ChainInv, NEW p \in Peer, NEW parents, RecordLocal(p, parents)
  PROVE  ChainInv'
<1>1. PICK k \in Nat : Bases = 1..k BY DEF ExchangeInv, GraphInv
<1> DEFINE id == <<k + 1, 0>>
           node == Node(k + 1, p, p, parents)
<1>2. Cardinality(Bases) + 1 = k + 1
  <2>1. Cardinality(1..k) = k BY FS_Interval
  <2> QED BY <1>1, <2>1
<1>3. /\ parents \subseteq DOMAIN graph[p].nodes
      /\ graph' = [graph EXCEPT ![p] = RecordProvenance(@, id, node)]
      /\ UNCHANGED <<channelVars, anchors>>
  BY <1>2 DEF RecordLocal
<1>4. graph \in [Peer -> Graphs] BY DEF ExchangeInv, GraphInv
<1>5. id[1] = k + 1 /\ id[2] = 0 /\ node.parents = parents BY DEF Node
<1> HIDE DEF id, node
<1>6. /\ \A r \in Peer : r # p => graph'[r] = graph[r]
      /\ graph'[p].nodes = Put(graph[p].nodes, id, node)
  BY <1>3, <1>4 DEF RecordProvenance
<1>7. /\ DOMAIN graph'[p].nodes = DOMAIN graph[p].nodes \cup {id}
      /\ graph'[p].nodes[id] = node
      /\ \A i \in DOMAIN graph[p].nodes : i # id => graph'[p].nodes[i] = graph[p].nodes[i]
  BY <1>6 DEF Put
<1>8. \A r \in Peer : \A i \in DOMAIN graph[r].nodes : i[1] # k + 1
  <2> SUFFICES ASSUME NEW r \in Peer, NEW i \in DOMAIN graph[r].nodes PROVE i[1] # k + 1 OBVIOUS
  <2>1. i[1] \in Bases BY DEF Bases
  <2> QED BY <1>1, <2>1
<1>9. \A r \in Peer : id \notin DOMAIN graph[r].nodes BY <1>5, <1>8
<1>10. \A r \in Peer : Recorded(r)' = IF r = p THEN Recorded(r) \cup {id} ELSE Recorded(r)
  BY <1>5, <1>6, <1>7 DEF Recorded
<1>11. \A r \in Peer : Imported(r)' = Imported(r)
  <2> SUFFICES ASSUME NEW r \in Peer PROVE Imported(r)' = Imported(r) OBVIOUS
  <2>1. \A i \in Id : Remote(i) # id BY <1>5, RemoteFacts
  <2>2. Other(r) \in Peer BY OtherFacts
  <2> QED BY <1>6, <1>7, <2>1, <2>2 DEF Imported
<1>12. \A r \in Peer : \A i \in DOMAIN graph[r].nodes :
         i \in DOMAIN graph'[r].nodes /\ graph'[r].nodes[i] = graph[r].nodes[i]
  BY <1>6, <1>7, <1>9
<1>13. OwnStands BY <1>10, <1>12 DEF OwnStands, Recorded
<1>14. SentAsRecorded'
  <2>1. Brings(p, {}) BY <1>3, RestBrings DEF channelVars, ExchangeInv
  <2> QED BY <1>13, <2>1, SentStays DEF ChainInv
<1>15. CausesAreKnown'
  <2> SUFFICES ASSUME NEW r \in Peer, NEW i \in Recorded(r)'
               PROVE  graph'[r].nodes[i].parents \subseteq DOMAIN graph'[r].nodes
    BY DEF CausesAreKnown
  <2>1. CASE i \in Recorded(r)
    <3>1. graph[r].nodes[i].parents \subseteq DOMAIN graph[r].nodes BY <2>1 DEF ChainInv, CausesAreKnown
    <3> QED BY <1>12, <2>1, <3>1 DEF Recorded
  <2>2. CASE r = p /\ i = id BY <1>3, <1>5, <1>7, <2>2
  <2> QED BY <1>10, <2>1, <2>2
<1>16. CopiesAreTrue'
  <2> SUFFICES ASSUME NEW r \in Peer, NEW i \in Imported(r)
               PROVE  graph'[Other(r)].nodes[Remote(i)].parents = {Remote(q) : q \in graph'[r].nodes[i].parents}
    BY <1>11 DEF CopiesAreTrue
  <2>1. Other(r) \in Peer /\ Remote(i) \in DOMAIN graph[Other(r)].nodes BY OtherFacts DEF Imported
  <2>2. i \in DOMAIN graph[r].nodes BY OnTheWayRecorded DEF Recorded
  <2>3. graph[Other(r)].nodes[Remote(i)].parents = {Remote(q) : q \in graph[r].nodes[i].parents}
    BY DEF ChainInv, CopiesAreTrue
  <2> QED BY <1>12, <2>1, <2>2, <2>3
<1>17. AnchorsLead'
  <2> SUFFICES ASSUME NEW r \in Peer
               PROVE  anchors'[r] \subseteq {Anchor(i) : i \in Recorded(Other(r))'}
    BY <1>3 DEF ChainInv, AnchorsLead
  <2>1. anchors[r] \subseteq {Anchor(i) : i \in Recorded(Other(r))} BY DEF ChainInv, AnchorsLead
  <2>2. Recorded(Other(r)) \subseteq Recorded(Other(r))' BY <1>10, OtherFacts
  <2> QED BY <1>3, <2>1, <2>2
<1>18. RecordedOnce'
  <2> SUFFICES ASSUME NEW r \in Peer PROVE Recorded(r)' \cap Recorded(Other(r))' = {}
    BY DEF RecordedOnce
  <2>1. Recorded(r) \cap Recorded(Other(r)) = {} BY DEF ChainInv, RecordedOnce
  <2>2. Other(r) \in Peer /\ Other(r) # r BY OtherFacts
  <2>3. id \notin Recorded(r) /\ id \notin Recorded(Other(r)) BY <1>9, <2>2 DEF Recorded
  <2> QED BY <1>10, <2>1, <2>2, <2>3
<1> QED BY <1>14, <1>15, <1>16, <1>17, <1>18 DEF ChainInv

\* The pending nodes are sent as they were recorded.
LEMMA SyncPendingChains ==
  ASSUME ExchangeInv, ChainInv, NEW p \in Peer, SyncPendingProvenance(p)
  PROVE  ChainInv'
<1>1. ChannelInv /\ UNCHANGED <<graph, anchors>> BY DEF SyncPendingProvenance, ExchangeInv
<1>2. ASSUME NEW online \in 1..MaxOnline,
             SendAll(p, "provenance", [k \in 1..online |-> EnvelopeFor(p, k)])
      PROVE  ChainInv'
  <2> DEFINE list == [k \in 1..online |-> EnvelopeFor(p, k)]
  <2>1. online \in Nat BY OnlineAssumption
  <2>2. /\ list \in [1..online -> Envelope]
        /\ \A k \in 1..online : \A n \in DOMAIN list[k].nodes :
             list[k].nodes[n].node = graph[p].nodes[list[k].nodes[n].id]
    BY <2>1, EnvelopeForFacts
  <2>3. SendAll(p, "provenance", list) /\ "provenance" \in Purpose BY <1>2, PurposeAssumption
  <2> HIDE DEF list
  <2>4. list \in Seq(Envelope) /\ DOMAIN list = 1..online BY <2>1, <2>2
  <2>5. \A e \in ToSet(list) : \A n \in DOMAIN e.nodes : e.nodes[n].node = graph[p].nodes[e.nodes[n].id]
    BY <2>2, <2>4 DEF ToSet
  <2>6. Brings(p, ToSet(list)) BY <1>1, <2>3, <2>4, SendBrings
  <2> QED BY <1>1, <2>5, <2>6, ChainsRest
<1>3. CASE UNCHANGED <<channels, buffer, wire>>
  <2>1. Brings(p, {}) BY <1>1, <1>3, RestBrings
  <2> QED BY <1>1, <2>1, ChainsRest
<1> QED BY <1>2, <1>3 DEF SyncPendingProvenance

\* The nodes of h are those of g and copies of the items'.
Copies(h, g, items, n) ==
  \A i \in DOMAIN h.nodes :
    \/ i \in DOMAIN g.nodes /\ h.nodes[i] = g.nodes[i]
    \/ \E m \in 1..n : i = Remote(items[m].id) /\ h.nodes[i].parents = {Remote(q) : q \in items[m].node.parents}

\* What is imported are copies.
LEMMA ImportAllCopies ==
  ASSUME NEW g \in Graphs, NEW sender \in Peer, NEW items \in Seq(Item)
  PROVE  Copies(ImportAll(g, sender, items), g, items, Len(items))
<1> DEFINE k == Len(items)
<1>1. k \in Nat OBVIOUS
<1>2. PICK after : /\ after[0] = g
                   /\ \A n \in 1..k : after[n] = Import(after[n - 1], sender, items[n])
                   /\ ImportAll(g, sender, items) = after[k]
  BY ImportAllIs
<1> HIDE DEF k
<1> DEFINE T == {n \in 0..k : Copies(after[n], g, items, n)}
<1>3. 0 \in T BY <1>1, <1>2 DEF Copies
<1>4. ASSUME NEW n \in 1..k, n - 1 \in T PROVE n \in T
  <2> DEFINE r == Remote(items[n].id)
             old == after[n - 1]
             new == after[n]
  <2>1. Copies(old, g, items, n - 1) BY <1>4
  <2>2. /\ DOMAIN new.nodes = DOMAIN old.nodes \cup {r}
        /\ new.nodes[r].parents = {Remote(q) : q \in items[n].node.parents}
        /\ \A i \in DOMAIN old.nodes : i # r => new.nodes[i] = old.nodes[i]
    <3>1. after[n] = Import(after[n - 1], sender, items[n]) BY <1>2
    <3> QED BY <3>1 DEF Import, RecordProvenance, Put, Node
  <2>3. n \in 1..n /\ n \in 0..k /\ \A m \in 1..(n - 1) : m \in 1..n BY <1>1
  <2> HIDE DEF new, old, r
  <2>4. Copies(new, g, items, n)
    <3> SUFFICES ASSUME NEW i \in DOMAIN new.nodes
                 PROVE  \/ i \in DOMAIN g.nodes /\ new.nodes[i] = g.nodes[i]
                        \/ \E m \in 1..n : /\ i = Remote(items[m].id)
                                           /\ new.nodes[i].parents = {Remote(q) : q \in items[m].node.parents}
      BY DEF Copies
    <3>1. CASE i = r BY <2>2, <2>3, <3>1 DEF r
    <3>2. CASE i # r
      <4>1. i \in DOMAIN old.nodes /\ new.nodes[i] = old.nodes[i] BY <2>2, <3>2
      <4>2. \/ i \in DOMAIN g.nodes /\ old.nodes[i] = g.nodes[i]
            \/ \E m \in 1..(n - 1) : /\ i = Remote(items[m].id)
                                     /\ old.nodes[i].parents = {Remote(q) : q \in items[m].node.parents}
        BY <2>1, <4>1 DEF Copies
      <4> QED BY <2>3, <4>1, <4>2
    <3> QED BY <3>1, <3>2
  <2> QED BY <2>3, <2>4 DEF new
<1>5. k \in T
  <2> HIDE DEF T
  <2>1. \A n \in 1..k : n - 1 \in T => n \in T BY <1>4
  <2>2. \A n \in 0..k : n \in T BY <1>1, <1>3, <2>1, UpTo
  <2> QED BY <1>1, <2>2
<1> QED BY <1>2, <1>5 DEF k

\* What arrives has the causes it was recorded with.
LEMMA ImportChains ==
  ASSUME ExchangeInv, ChainInv, NEW p \in Peer, HandleRemoteProvenance(p)
  PROVE  ChainInv'
<1> DEFINE o == Other(p)
           e == Head(wire[p]["provenance"])
           old == graph[o]
           new == ImportAll(old, p, e.nodes)
<1>1. graph \in [Peer -> Graphs] /\ ChannelInv /\ SentAsRecorded
  BY DEF ExchangeInv, GraphInv, ChainInv
<1>2. o \in Peer /\ o # p /\ Other(o) = p /\ \A r \in Peer : r = p \/ r = o BY OtherFacts
<1>3. /\ Receive(p, "provenance") /\ graph' = [graph EXCEPT ![o] = new]
      /\ anchors' = [anchors EXCEPT ![o] = @ \cup {Anchor(x.id) : x \in ToSet(e.nodes)}]
  BY DEF HandleRemoteProvenance, Anchor
<1>4. e \in Envelopes(p)
  <2>1. wire[p]["provenance"] \in Seq(Envelope) /\ wire[p]["provenance"] # <<>>
    BY <1>1, <1>3, PurposeAssumption DEF ChannelInv, Receive
  <2>2. e \in ToSet(wire[p]["provenance"]) BY <2>1, TakeHead
  <2> HIDE DEF e
  <2> QED BY <2>2, PurposeAssumption DEF Envelopes
<1> HIDE DEF e
<1> DEFINE ids == IdsOf(e.copies)
<1>5. /\ e.nodes \in Seq(Item) /\ ids \subseteq Recorded(p) /\ ids \subseteq Id
      /\ ids = {e.nodes[n].id : n \in DOMAIN e.nodes}
  <2>1. e \in Envelope /\ ids \subseteq Recorded(p) BY <1>4, SentIsRecorded
  <2> QED BY <2>1, EnvelopeFacts, IdsOfFacts
<1> HIDE DEF ids
<1>6. \A n \in DOMAIN e.nodes : e.nodes[n].node = graph[p].nodes[e.nodes[n].id] BY <1>1, <1>4 DEF SentAsRecorded
<1>7. HasImported(new, old, e.nodes, Len(e.nodes)) /\ Copies(new, old, e.nodes, Len(e.nodes))
  <2>1. old \in Graphs BY <1>1, <1>2
  <2> QED BY <1>5, <2>1, ImportAllTyped, ImportAllCopies
<1> HIDE DEF new
<1>8. DOMAIN e.nodes = 1..Len(e.nodes) BY <1>5
<1>9. new \in Graphs /\ DOMAIN old.nodes \subseteq DOMAIN new.nodes BY <1>7 DEF HasImported
<1>10. \A i \in DOMAIN new.nodes :
         \/ i \in DOMAIN old.nodes /\ new.nodes[i] = old.nodes[i]
         \/ \E j \in ids : i = Remote(j) /\ new.nodes[i].parents = {Remote(q) : q \in graph[p].nodes[j].parents}
  <2> SUFFICES ASSUME NEW i \in DOMAIN new.nodes, ~(i \in DOMAIN old.nodes /\ new.nodes[i] = old.nodes[i])
               PROVE  \E j \in ids : /\ i = Remote(j)
                                       /\ new.nodes[i].parents = {Remote(q) : q \in graph[p].nodes[j].parents}
    OBVIOUS
  <2>1. PICK m \in DOMAIN e.nodes :
          i = Remote(e.nodes[m].id) /\ new.nodes[i].parents = {Remote(q) : q \in e.nodes[m].node.parents}
    BY <1>7, <1>8 DEF Copies
  <2>2. e.nodes[m].id \in ids BY <1>5
  <2> QED BY <1>6, <2>1, <2>2
<1>11. /\ graph'[o] = new /\ graph'[p] = graph[p]
       /\ \A r \in Peer : DOMAIN graph[r].nodes \subseteq DOMAIN graph'[r].nodes
  BY <1>1, <1>2, <1>3, <1>9
<1> HIDE DEF o
<1>12. \A i \in DOMAIN new.nodes : i[2] = 0 => i \in DOMAIN old.nodes /\ new.nodes[i] = old.nodes[i]
  BY <1>5, <1>10, RemoteFacts
<1>13. \A r \in Peer : Recorded(r)' = Recorded(r)
  BY <1>2, <1>9, <1>11, <1>12 DEF Recorded
<1>14. OwnStands BY <1>2, <1>9, <1>11, <1>12, <1>13 DEF OwnStands, Recorded
<1>15. SentAsRecorded'
  <2>1. Brings(p, {}) BY <1>1, <1>3, PurposeAssumption, TailBrings
  <2> QED BY <1>1, <1>14, <2>1, SentStays
<1>16. CausesAreKnown'
  <2> SUFFICES ASSUME NEW r \in Peer, NEW i \in Recorded(r)
               PROVE  graph'[r].nodes[i].parents \subseteq DOMAIN graph'[r].nodes
    BY <1>13 DEF CausesAreKnown
  <2>1. graph[r].nodes[i].parents \subseteq DOMAIN graph[r].nodes BY DEF ChainInv, CausesAreKnown
  <2> QED BY <1>11, <1>14, <2>1 DEF OwnStands
<1>17. CopiesAreTrue'
  <2>1. ExchangeInv' BY ImportKeeps
  <2> SUFFICES ASSUME NEW r \in Peer, NEW i \in Imported(r)'
               PROVE  graph'[Other(r)].nodes[Remote(i)].parents = {Remote(q) : q \in graph'[r].nodes[i].parents}
    BY DEF CopiesAreTrue
  <2>2. i \in Id /\ Remote(i) \in DOMAIN graph'[Other(r)].nodes BY DEF Imported
  <2>3. i \in Recorded(r) /\ graph'[r].nodes[i] = graph[r].nodes[i]
    <3>1. Balanced(r)' BY <2>1 DEF ExchangeInv, Accounts
    <3>2. Imported(r)' \subseteq IdsOf(exported'[r]) BY <3>1 DEF Balanced, Partition, IdsOf
    <3>3. Imported(r)' \subseteq Recorded(r)' BY <3>1, <3>2 DEF Balanced, Divides
    <3> QED BY <1>13, <1>14, <3>3 DEF OwnStands
  <2>4. i \in Imported(r) => graph[Other(r)].nodes[Remote(i)].parents = {Remote(q) : q \in graph[r].nodes[i].parents}
    BY DEF ChainInv, CopiesAreTrue
  <2>5. CASE r = p
    <3>1. Remote(i) \in DOMAIN new.nodes BY <1>11, <2>2, <2>5 DEF o
    <3>2. CASE Remote(i) \in DOMAIN old.nodes /\ new.nodes[Remote(i)] = old.nodes[Remote(i)]
      <4>1. i \in Imported(r) BY <2>2, <2>5, <3>2 DEF Imported, o
      <4> QED BY <1>11, <2>3, <2>4, <2>5, <3>2, <4>1 DEF o
    <3>3. ASSUME NEW j \in ids, Remote(i) = Remote(j),
                 new.nodes[Remote(i)].parents = {Remote(q) : q \in graph[p].nodes[j].parents}
          PROVE  graph'[Other(r)].nodes[Remote(i)].parents = {Remote(q) : q \in graph'[r].nodes[i].parents}
      <4>1. i = j BY <1>5, <2>2, <3>3, RemoteFacts
      <4> QED BY <1>11, <2>3, <2>5, <3>3, <4>1 DEF o
    <3> QED BY <1>10, <3>1, <3>2, <3>3
  <2>6. CASE r = o
    <3>1. i \in Imported(r) BY <1>2, <1>11, <2>2, <2>6 DEF Imported
    <3> QED BY <1>2, <1>11, <2>3, <2>4, <2>6, <3>1
  <2> QED BY <1>2, <2>5, <2>6
<1>18. AnchorsLead'
  <2> SUFFICES ASSUME NEW r \in Peer PROVE anchors'[r] \subseteq {Anchor(i) : i \in Recorded(Other(r))}
    BY <1>3, <1>13, OtherFacts DEF ChainInv, AnchorsLead
  <2>1. anchors[r] \subseteq {Anchor(i) : i \in Recorded(Other(r))} BY DEF ChainInv, AnchorsLead
  <2>2. {Anchor(x.id) : x \in ToSet(e.nodes)} \subseteq {Anchor(i) : i \in ids} BY <1>5 DEF ToSet
  <2>3. \/ anchors'[r] = anchors[r]
        \/ r = o /\ anchors'[r] \subseteq anchors[r] \cup {Anchor(x.id) : x \in ToSet(e.nodes)}
    BY <1>3 DEF ChainInv, AnchorsLead
  <2> QED BY <1>2, <1>5, <2>1, <2>2, <2>3
<1>19. RecordedOnce' BY <1>13, OtherFacts DEF ChainInv, RecordedOnce
<1> QED BY <1>15, <1>16, <1>17, <1>18, <1>19 DEF ChainInv

\* ChainInv holds at the start.
LEMMA ChainsBegin == ExchangeInit => ChainInv
<1> SUFFICES ASSUME ExchangeInit PROVE ChainInv OBVIOUS
<1> USE DEF ExchangeInit, SyncInit, ChannelsInit
<1>1. \A p \in Peer : /\ buffer[p] = <<>> /\ graph[p] = EmptyGraph /\ anchors[p] = {}
                      /\ \A u \in Purpose : wire[p][u] = <<>>
  OBVIOUS
<1>2. ToSet(<<>>) = {} /\ DOMAIN EmptyGraph.nodes = {} BY DEF ToSet, EmptyGraph
<1>3. \A p \in Peer : Envelopes(p) = {} BY <1>1, <1>2 DEF Envelopes
<1>4. \A p \in Peer : Recorded(p) = {} /\ Imported(p) = {} BY <1>1, <1>2, OtherFacts DEF Recorded, Imported
<1>5. DOMAIN anchors = Peer OBVIOUS
<1> QED BY <1>1, <1>3, <1>4, <1>5
        DEF ChainInv, SentAsRecorded, CausesAreKnown, CopiesAreTrue, AnchorsLead, RecordedOnce

\* Both invariants, for any bounds.
LEMMA ChainsStand == ExchangeSpec => [](ExchangeInv /\ ChainInv)
<1>1. ExchangeInv /\ ChainInv /\ [ExchangeNext]_exchangeVars => ChainInv'
  <2> SUFFICES ASSUME ExchangeInv, ChainInv, [ExchangeNext]_exchangeVars PROVE ChainInv' OBVIOUS
  <2>1. ChannelInv /\ DocInv /\ SentAsRecorded BY DEF ExchangeInv, ChainInv
  <2>2. ASSUME UNCHANGED <<graph, anchors>>, NEW p \in Peer, BringsNoNodes(p) PROVE ChainInv'
    <3>1. PICK envelopes : Brings(p, envelopes) /\ \A e \in envelopes : e.nodes = <<>>
      BY <2>2 DEF BringsNoNodes
    <3>2. \A e \in envelopes : DOMAIN e.nodes = {} BY <3>1
    <3> QED BY <2>2, <3>1, <3>2, ChainsRest
  <2>3. ASSUME NEW p \in Peer, Brings(p, {}) PROVE BringsNoNodes(p)
    <3>1. \A e \in {} : e.nodes = <<>> OBVIOUS
    <3> QED BY <2>3, <3>1 DEF BringsNoNodes
  <2>4. CASE UNCHANGED exchangeVars
    <3>1. UNCHANGED <<buffer, wire, graph, anchors>>
      BY <2>4 DEF exchangeVars, channelVars, bridgeVars
    <3>2. PICK p \in Peer : TRUE BY PeerAssumption
    <3>3. Brings(p, {}) BY <2>1, <3>1, RestBrings
    <3> QED BY <2>2, <2>3, <3>1, <3>3
  <2>5. ASSUME NEW p \in Peer, BridgeStep(p) PROVE ChainInv'
    BY <2>5, RecordChains, SyncPendingChains, ImportChains DEF BridgeStep
  <2>6. ASSUME NEW p \in Peer, GraphStep(p) PROVE ChainInv'
    BY <2>1, <2>2, <2>6, GraphsBring DEF GraphStep, bridgeVars
  <2>7. ASSUME NEW p \in Peer, ChannelStep(p) PROVE ChainInv'
    <3>1. Brings(p, {}) /\ UNCHANGED <<graph, anchors>> BY <2>1, <2>7, ChannelsBring DEF ChannelStep, bridgeVars
    <3> QED BY <2>2, <2>3, <3>1
  <2> QED BY <2>4, <2>5, <2>6, <2>7 DEF ExchangeNext
<1> QED BY <1>1, ChainsBegin, Accounted, PTL DEF ExchangeSpec

-----------------------------------------------------------------------------
(* The walk                                                                *)

\* What is reached in at most n steps.
Reaches(reach, g, links, id, depth) ==
  /\ reach[0] = {id}
  /\ \A n \in 1..depth : reach[n] = reach[n - 1] \cup UNION {Causes(g, links, x) : x \in reach[n - 1]}

\* A cause is a parent of the node found, or what an anchor leads to.
LEMMA InCauses ==
  ASSUME NEW g, NEW links, NEW x, NEW y \in Causes(g, links, x)
  PROVE  (\E node \in FindNode(g, x) : y \in node.parents) \/ \E l \in links : y = Remote(l.remote)
<1> DEFINE found == {l \in links : l.local = x \/ l.remote = x}
           parents == UNION {node.parents : node \in FindNode(g, x)}
           led == {Remote(l.remote) : l \in found}
<1>1. Causes(g, links, x) = IF FindNode(g, x) = {} THEN {} ELSE parents \cup led BY DEF Causes
<1>2. y \in parents => \E node \in FindNode(g, x) : y \in node.parents OBVIOUS
<1>3. y \in led => \E l \in links : y = Remote(l.remote) OBVIOUS
<1> HIDE DEF parents, led
<1> QED BY <1>1, <1>2, <1>3

\* The walk ends with those of them at which a node is found.
LEMMA WalkIs ==
  ASSUME NEW g, NEW links, NEW id, NEW depth \in Nat
  PROVE  \E reach : /\ Reaches(reach, g, links, id, depth)
                    /\ Walk(g, links, id, depth) = {x \in reach[depth] : FindNode(g, x) # {}}
<1> DEFINE All == {id} \cup (UNION {g.nodes[i].parents : i \in DOMAIN g.nodes})
                    \cup {Remote(l.remote) : l \in links}
           S == SUBSET All
           Onward(set) == set \cup UNION {Causes(g, links, x) : x \in set}
           IsReach(f) == f = [n \in 0..depth |-> IF n = 0 THEN {id} ELSE Onward(f[n - 1])]
           reach == CHOOSE f : IsReach(f)
           Round == [e \in S \X (1..depth) |-> Onward(e[1])]
<1>1. \A x : Causes(g, links, x) \subseteq All
  <2> SUFFICES ASSUME NEW x, NEW y \in Causes(g, links, x) PROVE y \in All OBVIOUS
  <2>1. \A node \in FindNode(g, x) : \E i \in DOMAIN g.nodes : node = g.nodes[i] BY DEF FindNode
  <2> QED BY <2>1, InCauses
<1>2. {id} \in S OBVIOUS
<1> HIDE DEF All
<1>3. \A set \in S : Onward(set) \in S BY <1>1
<1>4. Round \in [S \X (1..depth) -> S]
  <2> HIDE DEF S, Onward
  <2> QED BY <1>3
<1> HIDE DEF S, Onward
<1>5. PICK f \in [0..depth -> S] : IsLoop(f, depth, {id}, Round)
  <2> HIDE DEF Round
  <2> QED BY <1>2, <1>4, Loop
<1>6. IsReach(f)
  <2>1. \A n \in 0..depth : n # 0 => Round[<<f[n - 1], n>>] = Onward(f[n - 1])
    <3> SUFFICES ASSUME NEW n \in 0..depth, n # 0 PROVE Round[<<f[n - 1], n>>] = Onward(f[n - 1])
      OBVIOUS
    <3>1. n \in 1..depth /\ n - 1 \in 0..depth OBVIOUS
    <3>2. f[n - 1] \in S BY <3>1
    <3> QED BY <3>1, <3>2
  <2> HIDE DEF Round
  <2> QED BY <1>5, <2>1 DEF IsLoop
<1>7. IsReach(reach) BY <1>6
<1>8. Walk(g, links, id, depth) = {x \in reach[depth] : FindNode(g, x) # {}} BY DEF Walk, reach, Onward
<1> HIDE DEF reach
<1>9. reach[0] = {id} /\ \A n \in 1..depth : reach[n] = Onward(reach[n - 1])
  <2>1. 0 \in 0..depth /\ \A n \in 1..depth : n \in 0..depth /\ n # 0 OBVIOUS
  <2> QED BY <1>7, <2>1
<1> QED BY <1>8, <1>9 DEF Reaches, Onward

\* The ids that are not, without a prefix, those of what p recorded.
Foreign(p) == {x \in Id : x[2] > 0 /\ <<x[1], x[2] - 1>> \notin Recorded(p)}

\* What a peer did not record itself, and its causes, are foreign to it.
LEMMA ForeignFacts ==
  ASSUME ExchangeInv, ChainInv, NEW p \in Peer
  PROVE  /\ DOMAIN graph[p].nodes \subseteq Recorded(p) \cup Foreign(p)
         /\ \A j \in Recorded(Other(p)) : Remote(j) \in Foreign(p)
         /\ \A i \in DOMAIN graph[p].nodes \ Recorded(p) : graph[p].nodes[i].parents \subseteq Foreign(p)
<1> DEFINE o == Other(p)
<1>1. o \in Peer /\ Other(o) = p BY OtherFacts
<1>2. \A r \in Peer : DOMAIN graph[r].nodes \subseteq Id
  <2>1. \A r \in Peer : graph[r].nodes \in MapsOf(Id, NodeType) BY DEF ExchangeInv, GraphInv, Graphs
  <2> QED BY <2>1, MapFacts
<1>3. \A r \in Peer : Imported(r) \subseteq Recorded(r) BY OnTheWayRecorded
<1>4. \A r \in Peer : \A i \in DOMAIN graph[r].nodes \ Recorded(r) :
        \E j \in Imported(Other(r)) : i = Remote(j)
  <2> SUFFICES ASSUME NEW r \in Peer, NEW i \in DOMAIN graph[r].nodes, i \notin Recorded(r)
               PROVE  \E j \in Imported(Other(r)) : i = Remote(j)
    OBVIOUS
  <2>1. i \in Id /\ i[2] # 0 BY <1>2 DEF Recorded
  <2> DEFINE j == <<i[1], i[2] - 1>>
  <2>2. j \in Id /\ Remote(j) = i BY <2>1 DEF Id, Remote
  <2>3. Other(Other(r)) = r BY OtherFacts
  <2>4. j \in Imported(Other(r)) BY <2>2, <2>3 DEF Imported
  <2> QED BY <2>2, <2>4
<1> HIDE DEF o
<1>5. ASSUME NEW j \in Recorded(o) PROVE Remote(j) \in Foreign(p)
  <2>1. j \in Id /\ j[2] = 0 /\ j \notin Recorded(p) BY <1>1, <1>2 DEF Recorded, ChainInv, RecordedOnce, o
  <2>2. Remote(j) \in Id /\ Remote(j)[1] = j[1] /\ Remote(j)[2] = 1 /\ j = <<j[1], 0>> BY <2>1 DEF Id, Remote
  <2> QED BY <2>1, <2>2 DEF Foreign
<1>6. ASSUME NEW i \in DOMAIN graph[p].nodes, i \notin Recorded(p) PROVE i \in Foreign(p)
  <2>1. PICK j \in Imported(o) : i = Remote(j) BY <1>4, <1>6 DEF o
  <2> QED BY <1>1, <1>3, <1>5, <2>1
<1>7. ASSUME NEW i \in DOMAIN graph[p].nodes, i \notin Recorded(p)
      PROVE  graph[p].nodes[i].parents \subseteq Foreign(p)
  <2>1. PICK j \in Imported(o) : i = Remote(j) BY <1>4, <1>7 DEF o
  <2>2. graph[p].nodes[i].parents = {Remote(q) : q \in graph[o].nodes[j].parents}
    BY <1>1, <2>1 DEF ChainInv, CopiesAreTrue
  <2>3. graph[o].nodes[j].parents \subseteq DOMAIN graph[o].nodes
    BY <1>1, <1>3, <2>1 DEF ChainInv, CausesAreKnown
  <2>4. ASSUME NEW q \in DOMAIN graph[o].nodes PROVE Remote(q) \in Foreign(p)
    <3>1. CASE q \in Recorded(o) BY <1>5, <3>1
    <3>2. CASE q \notin Recorded(o)
      <4>1. q \in Id /\ q[2] # 0 BY <1>1, <1>2, <3>2 DEF Recorded
      <4>2. Remote(q) \in Id /\ Remote(q)[2] > 0 /\ Remote(q)[2] - 1 = q[2] /\ Remote(q)[2] - 1 # 0
        BY <4>1 DEF Id, Remote
      <4>3. \A c : <<c, Remote(q)[2] - 1>> \notin Recorded(p) BY <4>2 DEF Recorded
      <4> QED BY <4>2, <4>3 DEF Foreign
    <3> QED BY <3>1, <3>2
  <2> QED BY <2>2, <2>3, <2>4
<1> QED BY <1>5, <1>6, <1>7 DEF o

\* From foreign ids the walk reaches foreign ids, from a recorded one its causes as well.
LEMMA CausesAre ==
  ASSUME ExchangeInv, ChainInv, NEW p \in Peer,
         NEW x \in Recorded(p) \cup Foreign(p), NEW y \in Causes(graph[p], anchors[p], x)
  PROVE  y \in Foreign(p) \/ (y \in Recorded(p) /\ x \in Recorded(p) /\ y \in graph[p].nodes[x].parents)
<1> DEFINE g == graph[p]
<1>1. /\ DOMAIN g.nodes \subseteq Recorded(p) \cup Foreign(p)
      /\ \A j \in Recorded(Other(p)) : Remote(j) \in Foreign(p)
      /\ \A i \in DOMAIN g.nodes \ Recorded(p) : g.nodes[i].parents \subseteq Foreign(p)
  BY ForeignFacts
<1>2. \A i \in Recorded(p) : i \in DOMAIN g.nodes /\ g.nodes[i].parents \subseteq DOMAIN g.nodes
  BY DEF Recorded, ChainInv, CausesAreKnown
<1>3. \/ \E node \in FindNode(g, x) : y \in node.parents
      \/ \E l \in anchors[p] : y = Remote(l.remote)
  BY InCauses
<1> HIDE DEF g
<1>4. ASSUME NEW l \in anchors[p], y = Remote(l.remote) PROVE y \in Foreign(p)
  <2>1. PICK j \in Recorded(Other(p)) : l = Anchor(j) BY DEF ChainInv, AnchorsLead
  <2>2. l.remote = j BY <2>1 DEF Anchor
  <2> QED BY <1>1, <1>4, <2>2
<1>5. ASSUME NEW node \in FindNode(g, x), y \in node.parents
      PROVE  y \in Foreign(p) \/ (y \in Recorded(p) /\ x \in Recorded(p) /\ y \in g.nodes[x].parents)
  <2>1. CASE x \in Recorded(p)
    <3>1. node = g.nodes[x] BY <1>2, <2>1 DEF FindNode
    <3> QED BY <1>1, <1>2, <1>5, <2>1, <3>1
  <2>2. CASE x \in Foreign(p) /\ x \notin Recorded(p)
    <3>1. \E i \in DOMAIN g.nodes \ Recorded(p) : node = g.nodes[i]
      <4>1. CASE x \in DOMAIN g.nodes BY <2>2, <4>1 DEF FindNode
      <4>2. CASE x \notin DOMAIN g.nodes BY <2>2, <4>2 DEF FindNode, Foreign
      <4> QED BY <4>1, <4>2
    <3> QED BY <1>1, <1>5, <3>1
  <2> QED BY <2>1, <2>2
<1> QED BY <1>3, <1>4, <1>5 DEF g

\* Each walk reaches more at every step.
LEMMA ReachGrows ==
  ASSUME NEW reach, NEW g, NEW links, NEW id, NEW depth \in Nat, Reaches(reach, g, links, id, depth),
         NEW n \in 0..depth
  PROVE  reach[n] \subseteq reach[depth]
<1> DEFINE T == {m \in 0..depth : m < n \/ reach[n] \subseteq reach[m]}
<1>1. 0 \in T OBVIOUS
<1>2. \A m \in 1..depth : m - 1 \in T => m \in T
  <2> SUFFICES ASSUME NEW m \in 1..depth, m - 1 \in T PROVE m \in T OBVIOUS
  <2>1. m \in 0..depth /\ (m < n \/ m = n \/ ~(m - 1 < n)) OBVIOUS
  <2>2. reach[m - 1] \subseteq reach[m] BY DEF Reaches
  <2> QED BY <2>1, <2>2
<1> HIDE DEF T
<1>3. depth \in T
  <2>1. \A m \in 0..depth : m \in T BY <1>1, <1>2, UpTo
  <2> QED BY <2>1
<1> QED BY <1>3 DEF T

\* What the sender's walk reaches is recorded there or foreign, and where the
\* receiver has what is recorded, its walk reaches it no later.
LEMMA WalksKeepStep ==
  ASSUME ExchangeInv, ChainInv, NEW p \in Peer, NEW id \in Recorded(p), NEW depth \in Nat,
         NEW here, Reaches(here, graph[p], anchors[p], id, depth),
         NEW there, Reaches(there, graph[Other(p)], anchors[Other(p)], Remote(id), depth),
         \A x \in here[depth] \cap Recorded(p) : Remote(x) \in DOMAIN graph[Other(p)].nodes
  PROVE  \A x \in here[depth] \cap Recorded(p) : Remote(x) \in there[depth]
<1> DEFINE Step(n) == /\ here[n] \subseteq Recorded(p) \cup Foreign(p)
                      /\ \A x \in here[n] \cap Recorded(p) : Remote(x) \in there[n]
           T == {n \in 0..depth : Step(n)}
           o == Other(p)
<1>1. 0 \in T BY DEF Reaches
<1>2. ASSUME NEW n \in 1..depth, n - 1 \in T PROVE n \in T
  <2>1. /\ here[n] = here[n - 1] \cup UNION {Causes(graph[p], anchors[p], x) : x \in here[n - 1]}
        /\ there[n] = there[n - 1] \cup UNION {Causes(graph[o], anchors[o], x) : x \in there[n - 1]}
    BY DEF Reaches
  <2>2. Step(n - 1) /\ n \in 0..depth /\ n - 1 \in 0..depth BY <1>2
  <2>3. here[n - 1] \subseteq here[depth] BY <2>2, ReachGrows
  <2> HIDE DEF T, o
  <2>4. ASSUME NEW x \in here[n - 1], NEW y \in Causes(graph[p], anchors[p], x)
        PROVE  y \in Foreign(p) \/ (y \in Recorded(p) /\ Remote(y) \in there[n])
    <3>1. y \in Foreign(p) \/ (y \in Recorded(p) /\ x \in Recorded(p) /\ y \in graph[p].nodes[x].parents)
      BY <2>2, CausesAre
    <3>2. ASSUME y \in Recorded(p), x \in Recorded(p), y \in graph[p].nodes[x].parents
          PROVE  Remote(y) \in there[n]
      <4>1. Remote(x) \in there[n - 1] /\ Remote(x) \in DOMAIN graph[o].nodes BY <2>2, <2>3, <3>2 DEF o
      <4>2. x \in Imported(p)
        <5>1. x \in Id BY <3>2, RecordedIsId DEF ExchangeInv
        <5> QED BY <4>1, <5>1 DEF Imported, o
      <4>3. graph[o].nodes[Remote(x)].parents = {Remote(q) : q \in graph[p].nodes[x].parents}
        BY <4>2 DEF ChainInv, CopiesAreTrue, o
      <4>4. FindNode(graph[o], Remote(x)) = {graph[o].nodes[Remote(x)]} BY <4>1 DEF FindNode
      <4>5. Remote(y) \in Causes(graph[o], anchors[o], Remote(x)) BY <3>2, <4>3, <4>4 DEF Causes
      <4> QED BY <2>1, <4>1, <4>5
    <3> QED BY <3>1, <3>2
  <2>5. \A x : x \in Foreign(p) => x \notin Recorded(p) BY DEF Foreign, Recorded
  <2>6. Step(n) BY <2>1, <2>2, <2>4, <2>5
  <2> QED BY <2>2, <2>6 DEF T
<1>3. depth \in T
  <2> HIDE DEF T
  <2>1. \A n \in 1..depth : n - 1 \in T => n \in T BY <1>2
  <2>2. \A n \in 0..depth : n \in T BY <1>1, <2>1, UpTo
  <2> QED BY <2>2
<1> QED BY <1>3

\* ChainsAgree: when the receiver has all that the sender's walk finds among the
\* nodes recorded there, its own walk finds them too.
THEOREM ChainsAreOne == ExchangeSpec => []ChainsAgree
<1>1. ExchangeInv /\ ChainInv => ChainsAgree
  <2> SUFFICES ASSUME ExchangeInv, ChainInv, NEW p \in Peer, NEW id \in Recorded(p),
                      \A x \in Own(p, id) : Remote(x) \in DOMAIN graph[Other(p)].nodes,
                      NEW x \in Own(p, id)
               PROVE  Remote(x) \in Walk(graph[Other(p)], anchors[Other(p)], Remote(id), MaxRecords)
    BY DEF ChainsAgree
  <2>1. MaxRecords \in Nat BY RecordsAssumption
  <2>2. PICK here : /\ Reaches(here, graph[p], anchors[p], id, MaxRecords)
                    /\ Walk(graph[p], anchors[p], id, MaxRecords)
                         = {y \in here[MaxRecords] : FindNode(graph[p], y) # {}}
    BY <2>1, WalkIs
  <2>3. PICK there : /\ Reaches(there, graph[Other(p)], anchors[Other(p)], Remote(id), MaxRecords)
                     /\ Walk(graph[Other(p)], anchors[Other(p)], Remote(id), MaxRecords)
                          = {y \in there[MaxRecords] : FindNode(graph[Other(p)], y) # {}}
    BY <2>1, WalkIs
  <2>4. Own(p, id) = here[MaxRecords] \cap Recorded(p)
    <3>1. Own(p, id) = {y \in here[MaxRecords] : FindNode(graph[p], y) # {} /\ y[2] = 0} BY <2>2 DEF Own
    <3>2. \A y : (FindNode(graph[p], y) # {} /\ y[2] = 0) <=> y \in Recorded(p) BY DEF FindNode, Recorded
    <3> QED BY <3>1, <3>2
  <2>5. Remote(x) \in there[MaxRecords] BY <2>1, <2>2, <2>3, <2>4, WalksKeepStep
  <2>6. FindNode(graph[Other(p)], Remote(x)) # {} BY DEF FindNode
  <2> QED BY <2>3, <2>5, <2>6
<1> QED BY <1>1, ChainsStand, PTL

-----------------------------------------------------------------------------
(* The migration of trust                                                  *)

\* The nodes, policies and scores are such as the workload gives.
TrustType ==
  /\ nodes \in [NodeId -> SUBSET TrustNode]
  /\ \A id \in NodeId : \A n \in nodes[id] : Len(n.parents) <= MaxParents
  /\ policies \in [Runtime -> SUBSET Policies]
  /\ trusted \subseteq Runtime
  /\ scores \in [Runtime -> SUBSET (0..100)]
  /\ pendingMigrations \subseteq Runtime \X NodeId

\* What is known under an id is a node with not too many causes, which are ids.
LEMMA NodeOfIs ==
  ASSUME TrustType, NEW id \in Present
  PROVE  /\ id \in NodeId /\ NodeOf(id) \in nodes[id] /\ NodeOf(id) \in TrustNode
         /\ NodeOf(id).parents \in Seq(NodeId) /\ Len(NodeOf(id).parents) <= MaxParents
         /\ ToSet(NodeOf(id).parents) \subseteq NodeId
<1>1. id \in NodeId /\ nodes[id] # {} BY DEF Present
<1>2. NodeOf(id) \in nodes[id] BY <1>1 DEF NodeOf
<1>3. NodeOf(id) \in TrustNode BY <1>1, <1>2 DEF TrustType
<1>4. NodeOf(id).parents \in Seq(NodeId) BY <1>3 DEF TrustNode
<1>5. ToSet(NodeOf(id).parents) \subseteq NodeId BY <1>4 DEF ToSet
<1>6. Len(NodeOf(id).parents) <= MaxParents BY <1>1, <1>2 DEF TrustType
<1> QED BY <1>1, <1>2, <1>3, <1>4, <1>5, <1>6

\* The policy of a runtime, given or by default, has a depth.
LEMMA PolicyOfIs ==
  ASSUME TrustType, NEW r \in Runtime
  PROVE  PolicyOf(r).maxDepth \in Nat
<1>1. CASE policies[r] = {} BY <1>1 DEF PolicyOf, DefaultPolicy
<1>2. CASE policies[r] # {}
  <2>1. PolicyOf(r) \in policies[r] BY <1>2 DEF PolicyOf
  <2> QED BY <2>1, PolicyAssumption DEF TrustType
<1> QED BY <1>1, <1>2

\* Causes are ids.
LEMMA ParentsAreIds == ASSUME TrustType, NEW ids PROVE Parents(ids) \subseteq NodeId
<1> SUFFICES ASSUME NEW id \in ids \cap Present PROVE ToSet(NodeOf(id).parents) \subseteq NodeId BY DEF Parents
<1> QED BY NodeOfIs

\* Approving a node changes nothing but its authorization.
LEMMA ApproveKeeps ==
  ASSUME TrustType, NEW id \in Present, Approve(id)
  PROVE  /\ nodes' \in [NodeId -> SUBSET TrustNode]
         /\ \A i \in NodeId : \A n \in nodes'[i] : Len(n.parents) <= MaxParents
<1> DEFINE new == [NodeOf(id) EXCEPT !.authorization = "approved"]
<1>1. id \in NodeId /\ NodeOf(id) \in TrustNode /\ Len(NodeOf(id).parents) <= MaxParents BY NodeOfIs
<1>2. new \in TrustNode /\ new.parents = NodeOf(id).parents BY <1>1 DEF TrustNode, AuthorizationType
<1>3. nodes' = [nodes EXCEPT ![id] = {new}] BY DEF Approve
<1> HIDE DEF new
<1>4. nodes \in [NodeId -> SUBSET TrustNode] /\ \A i \in NodeId : \A n \in nodes[i] : Len(n.parents) <= MaxParents
  BY DEF TrustType
<1>5. nodes' \in [NodeId -> SUBSET TrustNode] BY <1>1, <1>2, <1>3, <1>4
<1>6. \A i \in NodeId : nodes'[i] = IF i = id THEN {new} ELSE nodes[i] BY <1>3, <1>4
<1> QED BY <1>1, <1>2, <1>4, <1>5, <1>6

\* Every node is one that was recorded or approved, every policy one that is given.
THEOREM TrustTyped == TrustSpec => []TrustType
<1>1. TrustInit => TrustType BY DEF TrustInit, TrustType
<1>2. TrustType /\ [TrustNext]_trustVars => TrustType'
  <2> SUFFICES ASSUME TrustType, [TrustNext]_trustVars PROVE TrustType' OBVIOUS
  <2>1. CASE UNCHANGED trustVars BY <2>1 DEF TrustType, trustVars
  <2>2. ASSUME NEW id \in NodeId, NEW node \in NodesOf[id], AddNode(id, node) PROVE TrustType'
    <3>1. node \in TrustNode /\ Len(node.parents) <= MaxParents BY <2>2, TrustAssumption DEF AddNode
    <3> QED BY <2>2, <3>1 DEF AddNode, TrustType
  <2>3. ASSUME NEW id \in Present, Approve(id), UNCHANGED <<policies, trusted, scores, pendingMigrations>>
        PROVE  TrustType'
    <3>1. /\ nodes' \in [NodeId -> SUBSET TrustNode]
          /\ \A i \in NodeId : \A n \in nodes'[i] : Len(n.parents) <= MaxParents
      BY <2>3, ApproveKeeps
    <3> QED BY <2>3, <3>1 DEF TrustType
  <2>4. ASSUME NEW id \in NodeId, NEW r \in Runtime, RequestMigration(r, id) PROVE TrustType'
    <3>1. /\ trusted' = trusted \cup {r} \/ trusted' = trusted
          /\ pendingMigrations' \subseteq pendingMigrations \cup {<<r, id>>}
          /\ UNCHANGED <<nodes, policies, scores>>
      BY <2>4 DEF RequestMigration
    <3>2. trusted' \subseteq Runtime BY <3>1 DEF TrustType
    <3>3. pendingMigrations' \subseteq Runtime \X NodeId BY <3>1 DEF TrustType
    <3> QED BY <3>1, <3>2, <3>3 DEF TrustType
  <2>5. ASSUME NEW r \in Runtime, AddTrustedRuntime(r) \/ RemoveTrustedRuntime(r) PROVE TrustType'
    BY <2>5 DEF AddTrustedRuntime, RemoveTrustedRuntime, TrustType
  <2>6. ASSUME NEW r \in Runtime, NEW P \in Policies, SetTrustPolicy(r, P) PROVE TrustType'
    BY <2>6 DEF SetTrustPolicy, TrustType
  <2>7. ASSUME NEW r \in Runtime, NEW score \in ScoreValues, SetTrustScore(r, score) PROVE TrustType'
    <3> DEFINE kept == IF score > 100 THEN 100 ELSE IF score < 0 THEN 0 ELSE score
    <3>1. kept \in 0..100 BY TrustAssumption
    <3>2. scores' = [scores EXCEPT ![r] = {kept}] BY <2>7 DEF SetTrustScore
    <3> HIDE DEF kept
    <3>3. scores' \in [Runtime -> SUBSET (0..100)] BY <3>1, <3>2 DEF TrustType
    <3> QED BY <2>7, <3>3 DEF SetTrustScore, TrustType
  <2> QED BY <2>1, <2>2, <2>3, <2>4, <2>5, <2>6, <2>7 DEF TrustNext, ApproveNode, ChainApproval
<1> QED BY <1>1, <1>2, PTL DEF TrustSpec

\* A set of ids with the causes of all its nodes.
HasCauses(ids) == Parents(ids) \subseteq ids

\* The ancestry is what is here of the least set with id that has the causes of
\* its nodes: there are at most as many ids as it takes steps to find them.
LEMMA AncestryIs ==
  ASSUME TrustType, NEW id \in NodeId
  PROVE  \E above \in SUBSET NodeId :
           /\ id \in above /\ HasCauses(above) /\ Ancestry(id) = above \cap Present
           /\ \A ids : id \in ids /\ HasCauses(ids) => above \subseteq ids
<1> DEFINE k == Cardinality(NodeId)
           S == SUBSET NodeId
           Wider(ids) == ids \cup Parents(ids)
           IsUp(f) == f = [n \in 0..k |-> IF n = 0 THEN {id} ELSE Wider(f[n - 1])]
           chosen == CHOOSE f : IsUp(f)
           Round == [e \in S \X (1..k) |-> Wider(e[1])]
<1>1. k \in Nat BY TrustAssumption, FS_CardinalityType
<1>2. \A ids \in S : Wider(ids) \in S BY ParentsAreIds
<1>3. {id} \in S OBVIOUS
<1> HIDE DEF k, S, Wider
<1>4. Round \in [S \X (1..k) -> S] BY <1>2
<1>5. PICK f \in [0..k -> S] : IsLoop(f, k, {id}, Round)
  <2> HIDE DEF Round
  <2> QED BY <1>1, <1>3, <1>4, Loop
<1>6. IsUp(f)
  <2>1. \A n \in 0..k : n # 0 => Round[<<f[n - 1], n>>] = Wider(f[n - 1])
    <3> SUFFICES ASSUME NEW n \in 0..k, n # 0 PROVE Round[<<f[n - 1], n>>] = Wider(f[n - 1])
      OBVIOUS
    <3>1. n \in 1..k /\ n - 1 \in 0..k BY <1>1
    <3>2. f[n - 1] \in S BY <3>1
    <3> QED BY <3>1, <3>2
  <2> HIDE DEF Round
  <2> QED BY <1>5, <2>1 DEF IsLoop
<1>7. IsUp(chosen) BY <1>6
<1>8. Ancestry(id) = chosen[k] \cap Present BY DEF Ancestry, chosen, k, Wider
<1> HIDE DEF chosen
<1>14. PICK up : up = chosen OBVIOUS
<1>9. up[0] = {id} /\ \A n \in 1..k : up[n] = Wider(up[n - 1])
  <2>1. 0 \in 0..k /\ \A n \in 1..k : n \in 0..k /\ n # 0 BY <1>1
  <2>2. IsUp(up) BY <1>7, <1>14
  <2> QED BY <2>1, <2>2
<1> DEFINE T == {n \in 0..k : /\ up[n] \in S /\ id \in up[n]
                              /\ HasCauses(up[n]) \/ Cardinality(up[n]) >= n + 1
                              /\ \A ids : id \in ids /\ HasCauses(ids) => up[n] \subseteq ids}
<1>10. 0 \in T
  <2>1. Cardinality({id}) = 1 BY FS_Singleton
  <2>2. up[0] \in S /\ id \in up[0] /\ Cardinality(up[0]) >= 0 + 1 BY <1>3, <1>9, <2>1
  <2>3. \A ids : id \in ids /\ HasCauses(ids) => up[0] \subseteq ids BY <1>9
  <2>4. 0 \in 0..k BY <1>1
  <2> QED BY <2>2, <2>3, <2>4
<1>11. ASSUME NEW n \in 1..k, n - 1 \in T PROVE n \in T
  <2> DEFINE old == up[n - 1]
             new == up[n]
  <2>1. /\ old \in S /\ id \in old
        /\ HasCauses(old) \/ Cardinality(old) >= (n - 1) + 1
        /\ \A ids : id \in ids /\ HasCauses(ids) => old \subseteq ids
        /\ new = old \cup Parents(old) /\ n \in 0..k
    BY <1>1, <1>9, <1>11 DEF Wider
  <2> HIDE DEF T, old, new
  <2>2. new \in S /\ id \in new
    <3>1. Parents(old) \subseteq NodeId BY ParentsAreIds
    <3> QED BY <2>1, <3>1 DEF S
  <2>3. HasCauses(new) \/ Cardinality(new) >= n + 1
    <3>1. CASE HasCauses(old)
      <4>1. new = old BY <2>1, <3>1 DEF HasCauses
      <4> QED BY <3>1, <4>1
    <3>2. CASE ~HasCauses(old)
      <4>1. PICK x \in Parents(old) : x \notin old BY <3>2 DEF HasCauses
      <4>2. old \cup {x} \subseteq new BY <2>1, <4>1
      <4>3. IsFiniteSet(old) /\ IsFiniteSet(new) BY <2>1, <2>2, TrustAssumption, FS_Subset DEF S
      <4>4. IsFiniteSet(old \cup {x}) /\ Cardinality(old \cup {x}) = Cardinality(old) + 1
        BY <4>1, <4>3, FS_AddElement
      <4>5. Cardinality(old \cup {x}) <= Cardinality(new) BY <4>2, <4>3, FS_Subset
      <4>6. Cardinality(old) \in Nat /\ Cardinality(new) \in Nat BY <4>3, FS_CardinalityType
      <4> QED BY <2>1, <3>2, <4>4, <4>5, <4>6
    <3> QED BY <3>1, <3>2
  <2>4. ASSUME NEW ids, id \in ids, HasCauses(ids) PROVE new \subseteq ids
    <3>1. old \subseteq ids BY <2>1, <2>4
    <3>2. Parents(old) \subseteq Parents(ids) BY <3>1 DEF Parents
    <3> QED BY <2>1, <2>4, <3>1, <3>2 DEF HasCauses
  <2> QED BY <2>1, <2>2, <2>3, <2>4 DEF T, new
<1>12. k \in T
  <2> HIDE DEF T
  <2>1. \A n \in 1..k : n - 1 \in T => n \in T BY <1>11
  <2>2. \A n \in 0..k : n \in T BY <1>1, <1>10, <2>1, UpTo
  <2> QED BY <1>1, <2>2
<1>13. HasCauses(up[k])
  <2>1. up[k] \in S /\ (HasCauses(up[k]) \/ Cardinality(up[k]) >= k + 1) BY <1>12
  <2>2. IsFiniteSet(up[k]) /\ Cardinality(up[k]) <= k BY <2>1, TrustAssumption, FS_Subset DEF S, k
  <2>3. Cardinality(up[k]) \in Nat BY <2>2, FS_CardinalityType
  <2> QED BY <1>1, <2>1, <2>2, <2>3
<1>15. Ancestry(id) = up[k] \cap Present BY <1>8, <1>14
<1> QED BY <1>12, <1>13, <1>15 DEF S


-----------------------------------------------------------------------------
(* buildChain                                                              *)

ChainState == [queue : Seq(NodeId), visited : SUBSET NodeId, chain : Seq(NodeId)]

\* What of ids counts.
CountedOf(ids, P) == {x \in ids \cap Present : NodeOf(x).actor \in P.allowed}

\* The chain names once what counts of the visited, which have been reached from
\* id and whose causes are visited or queued.
IsChained(id, above, P, s) ==
  /\ s \in ChainState
  /\ ToSet(s.chain) = CountedOf(s.visited, P) /\ Cardinality(ToSet(s.chain)) = Len(s.chain)
  /\ s.visited \cup ToSet(s.queue) \subseteq above
  /\ id \in s.visited \cup ToSet(s.queue)
  /\ Parents(s.visited) \subseteq s.visited \cup ToSet(s.queue)

\* More rounds than this there are not.
ChainLeft(s) == Len(s.queue) + Cardinality(NodeId \ s.visited) * MaxParents

\* What is queued takes a round.
LEMMA ChainLeftIsNat ==
  ASSUME NEW s \in ChainState
  PROVE  /\ Cardinality(NodeId \ s.visited) \in Nat /\ IsFiniteSet(NodeId \ s.visited)
         /\ ChainLeft(s) \in Nat /\ (s.queue # <<>> => ChainLeft(s) > 0)
<1>1. Cardinality(NodeId \ s.visited) \in Nat /\ IsFiniteSet(NodeId \ s.visited)
  BY TrustAssumption, FS_Subset, FS_CardinalityType
<1>2. Cardinality(NodeId \ s.visited) * MaxParents \in Nat BY <1>1, TrustAssumption
<1>3. Len(s.queue) \in Nat /\ (s.queue # <<>> => Len(s.queue) > 0) BY DEF ChainState
<1> QED BY <1>1, <1>2, <1>3 DEF ChainLeft

\* An id that was visited or of which no node is here is dropped.
LEMMA DropKeeps ==
  ASSUME TrustType, NEW id, NEW above, NEW P, NEW s, IsChained(id, above, P, s), s.queue # <<>>,
         Head(s.queue) \in s.visited \/ Head(s.queue) \notin Present
  PROVE  IsChained(id, above, P, ChainStep(s, P)) /\ ChainLeft(ChainStep(s, P)) + 1 <= ChainLeft(s)
<1> DEFINE t == ChainStep(s, P)
           at == Head(s.queue)
<1>1. s \in ChainState /\ s.queue \in Seq(NodeId) BY DEF IsChained, ChainState
<1>2. /\ at \in NodeId /\ Tail(s.queue) \in Seq(NodeId) /\ Len(Tail(s.queue)) = Len(s.queue) - 1
      /\ ToSet(s.queue) = {at} \cup ToSet(Tail(s.queue)) /\ Len(s.queue) \in Nat
  BY <1>1, WithoutHead
<1>3. /\ t \in ChainState /\ t.queue = Tail(s.queue) /\ t.chain = s.chain
      /\ t.visited = s.visited \cup {at}
  <2>1. t = [s EXCEPT !.queue = Tail(s.queue), !.visited = @ \cup {at}] BY DEF ChainStep
  <2> HIDE DEF t, at
  <2> QED BY <1>1, <1>2, <2>1 DEF ChainState
<1> HIDE DEF t
<1>4. t.visited \cup ToSet(t.queue) = s.visited \cup ToSet(s.queue) BY <1>2, <1>3
<1>5. CountedOf(t.visited, P) = CountedOf(s.visited, P) BY <1>3 DEF CountedOf
<1>6. Parents(t.visited) = Parents(s.visited) BY <1>3 DEF Parents
<1>7. IsChained(id, above, P, t)
  <2> HIDE DEF at
  <2> QED BY <1>3, <1>4, <1>5, <1>6 DEF IsChained
<1>8. ChainLeft(t) + 1 <= ChainLeft(s)
  <2> DEFINE left  == Cardinality(NodeId \ s.visited)
             after == Cardinality(NodeId \ t.visited)
  <2>1. after <= left /\ after \in Nat /\ left \in Nat
    <3>1. (NodeId \ t.visited) \subseteq (NodeId \ s.visited) BY <1>3
    <3> QED BY <1>1, <1>3, <3>1, ChainLeftIsNat, FS_Subset
  <2>2. ChainLeft(s) = Len(s.queue) + left * MaxParents /\ ChainLeft(t) = Len(t.queue) + after * MaxParents
    BY DEF ChainLeft
  <2> HIDE DEF left, after
  <2>3. after * MaxParents <= left * MaxParents /\ after * MaxParents \in Nat /\ left * MaxParents \in Nat
    BY <2>1, TrustAssumption
  <2> QED BY <1>2, <1>3, <2>2, <2>3
<1> QED BY <1>7, <1>8 DEF t

\* A node is visited, counted if its actor is allowed, and its causes queued.
LEMMA ExpandKeeps ==
  ASSUME TrustType, NEW id, NEW above, HasCauses(above), NEW P, NEW s, IsChained(id, above, P, s), s.queue # <<>>,
         Head(s.queue) \notin s.visited, Head(s.queue) \in Present
  PROVE  IsChained(id, above, P, ChainStep(s, P)) /\ ChainLeft(ChainStep(s, P)) + 1 <= ChainLeft(s)
<1> DEFINE t == ChainStep(s, P)
           at == Head(s.queue)
           set == NodeId \ (s.visited \cup {at})
           causes == NodeOf(at).parents
           kept == Only(causes, set)
<1>1. s \in ChainState /\ s.queue \in Seq(NodeId) BY DEF IsChained, ChainState
<1>2. /\ at \in NodeId /\ Tail(s.queue) \in Seq(NodeId) /\ Len(Tail(s.queue)) = Len(s.queue) - 1
      /\ ToSet(s.queue) = {at} \cup ToSet(Tail(s.queue)) /\ Len(s.queue) \in Nat
  BY <1>1, WithoutHead
<1>3. causes \in Seq(NodeId) /\ Len(causes) <= MaxParents /\ ToSet(causes) \subseteq NodeId BY NodeOfIs
<1>18. PICK more : more = kept OBVIOUS
<1>4. t = [queue   |-> Tail(s.queue) \o more,
           visited |-> s.visited \cup {at},
           chain   |-> IF NodeOf(at).actor \in P.allowed THEN Append(s.chain, at) ELSE s.chain]
  BY <1>18 DEF ChainStep
<1>5. more \in Seq(NodeId) /\ Len(more) <= Len(causes) /\ Len(more) \in Nat /\ Len(causes) \in Nat
  <2> HIDE DEF causes, set
  <2>1. kept \in Seq(NodeId) /\ Len(kept) <= Len(causes) BY <1>3, OnlyPlaces
  <2> QED BY <1>3, <1>18, <2>1
<1>6. ToSet(more) = ToSet(causes) \cap set
  <2> HIDE DEF causes, set
  <2> QED BY <1>3, <1>18, OnlyElements
<1> HIDE DEF t, kept
<1>7. /\ Tail(s.queue) \o more \in Seq(NodeId)
      /\ Len(Tail(s.queue) \o more) = Len(s.queue) - 1 + Len(more)
      /\ ToSet(Tail(s.queue) \o more) = ToSet(Tail(s.queue)) \cup ToSet(more)
  <2> DEFINE rest == Tail(s.queue)
  <2>1. rest \in Seq(NodeId) /\ Len(rest) = Len(s.queue) - 1 BY <1>2
  <2> HIDE DEF rest
  <2>2. /\ rest \o more \in Seq(NodeId) /\ Len(rest \o more) = Len(rest) + Len(more)
        /\ ToSet(rest \o more) = ToSet(rest) \cup ToSet(more)
    <3>1. rest \in Seq(NodeId) /\ more \in Seq(NodeId) BY <1>5, <2>1
    <3> QED BY <3>1, Concatenated
  <2> QED BY <2>1, <2>2 DEF rest
<1>8. /\ t.queue = Tail(s.queue) \o more /\ t.visited = s.visited \cup {at}
      /\ t.chain = IF NodeOf(at).actor \in P.allowed THEN Append(s.chain, at) ELSE s.chain
  BY <1>4
<1>9. s.chain \in Seq(NodeId) /\ s.visited \subseteq NodeId BY <1>1 DEF ChainState
<1>10. t \in ChainState
  <2> HIDE DEF at
  <2>1. Append(s.chain, at) \in Seq(NodeId) BY <1>2, <1>9
  <2> QED BY <1>2, <1>4, <1>7, <1>9, <2>1 DEF ChainState
<1>11. CountedOf(t.visited, P) = CountedOf(s.visited, P) \cup (IF NodeOf(at).actor \in P.allowed THEN {at} ELSE {})
  <2> HIDE DEF at
  <2>1. at \in Present BY DEF at
  <2>2. CASE NodeOf(at).actor \in P.allowed BY <1>8, <2>1, <2>2 DEF CountedOf
  <2>3. CASE NodeOf(at).actor \notin P.allowed BY <1>8, <2>1, <2>3 DEF CountedOf
  <2> QED BY <2>2, <2>3
<1>12. ToSet(t.chain) = CountedOf(t.visited, P) /\ Cardinality(ToSet(t.chain)) = Len(t.chain)
  <2>1. ToSet(s.chain) = CountedOf(s.visited, P) /\ Cardinality(ToSet(s.chain)) = Len(s.chain) BY DEF IsChained
  <2>2. CASE NodeOf(at).actor \in P.allowed
    <3> HIDE DEF at
    <3>1. t.chain = Append(s.chain, at) BY <1>8, <2>2
    <3>2. ToSet(Append(s.chain, at)) = ToSet(s.chain) \cup {at} BY <1>2, <1>9, AppendElements
    <3>3. at \notin ToSet(s.chain) BY <2>1 DEF CountedOf, at
    <3>4. IsFiniteSet(ToSet(s.chain))
      <4>1. ToSet(s.chain) \subseteq NodeId BY <1>9 DEF ToSet
      <4> QED BY <4>1, TrustAssumption, FS_Subset
    <3>5. Cardinality(ToSet(s.chain) \cup {at}) = Cardinality(ToSet(s.chain)) + 1 BY <3>3, <3>4, FS_AddElement
    <3>6. Len(Append(s.chain, at)) = Len(s.chain) + 1 BY <1>2, <1>9
    <3> QED BY <1>11, <2>1, <2>2, <3>1, <3>2, <3>5, <3>6
  <2>3. CASE NodeOf(at).actor \notin P.allowed BY <1>8, <1>11, <2>1, <2>3
  <2> QED BY <2>2, <2>3
<1>13. Parents(t.visited) = Parents(s.visited) \cup ToSet(causes)
  <2> HIDE DEF at
  <2>1. at \in Present BY DEF at
  <2> QED BY <1>8, <2>1 DEF Parents
<1>14. ToSet(more) \subseteq above
  <2>1. at \in above BY <1>2 DEF IsChained
  <2>2. ToSet(causes) \subseteq Parents(above) BY <2>1 DEF Parents
  <2> QED BY <1>6, <2>2 DEF HasCauses
<1>15. ToSet(causes) \subseteq t.visited \cup ToSet(more)
  <2> HIDE DEF causes
  <2> QED BY <1>3, <1>6, <1>8
<1> HIDE DEF set, causes
<1>16. IsChained(id, above, P, t)
  <2>1. ToSet(t.queue) = ToSet(Tail(s.queue)) \cup ToSet(more) BY <1>7, <1>8
  <2>2. /\ s.visited \cup ToSet(s.queue) \subseteq above /\ id \in s.visited \cup ToSet(s.queue)
        /\ Parents(s.visited) \subseteq s.visited \cup ToSet(s.queue)
    BY DEF IsChained
  <2> HIDE DEF at
  <2>3. t.visited \cup ToSet(t.queue) = s.visited \cup ToSet(s.queue) \cup ToSet(more) BY <1>2, <1>8, <2>1
  <2>4. Parents(t.visited) \subseteq t.visited \cup ToSet(t.queue) BY <1>13, <1>15, <2>1, <2>2, <2>3
  <2> QED BY <1>10, <1>12, <1>14, <2>2, <2>3, <2>4 DEF IsChained
<1>17. ChainLeft(t) + 1 <= ChainLeft(s)
  <2> DEFINE U == NodeId \ s.visited
             left  == Cardinality(U)
             after == Cardinality(NodeId \ t.visited)
  <2>1. IsFiniteSet(U) /\ left \in Nat BY <1>1, ChainLeftIsNat
  <2>2. after = left - 1
    <3>1. at \in U BY <1>2
    <3>2. NodeId \ t.visited = U \ {at} BY <1>8
    <3> HIDE DEF U, at
    <3>3. Cardinality(U \ {at}) = Cardinality(U) - 1 BY <2>1, <3>1, FS_RemoveElement
    <3> QED BY <3>2, <3>3
  <2>3. ChainLeft(s) = Len(s.queue) + left * MaxParents /\ ChainLeft(t) = Len(t.queue) + after * MaxParents
    BY DEF ChainLeft
  <2>4. Len(t.queue) = Len(s.queue) - 1 + Len(more) BY <1>7, <1>8
  <2> HIDE DEF left, after
  <2>5. after * MaxParents = left * MaxParents - MaxParents /\ left * MaxParents \in Nat
    BY <2>1, <2>2, TrustAssumption
  <2> QED BY <1>2, <1>3, <1>5, <2>3, <2>4, <2>5, TrustAssumption
<1> QED BY <1>16, <1>17 DEF t

\* The chain names nothing but ancestors that count, and all of them unless there
\* are more than the policy has it name.
LEMMA ChainNames ==
  ASSUME TrustType, NEW id \in Present, NEW P, P.maxDepth \in Nat
  PROVE  LET chain == ToSet(BuildChain(id, P))
         IN /\ BuildChain(id, P) \in Seq(NodeId) /\ chain \subseteq Counted(id, P)
            /\ Counted(id, P) \subseteq chain \/ Cardinality(Counted(id, P)) > P.maxDepth
<1> DEFINE rounds == 1 + Cardinality(NodeId) * MaxParents
           first == [queue |-> <<id>>, visited |-> {}, chain |-> <<>>]
           Stopped(s) == s.queue = <<>> \/ Len(s.chain) >= P.maxDepth
           NextRound(s) == IF Stopped(s) THEN s ELSE ChainStep(s, P)
           IsWalked(f) == f = [n \in 0..rounds |-> IF n = 0 THEN first ELSE NextRound(f[n - 1])]
           chosen == CHOOSE f : IsWalked(f)
<1>1. PICK above \in SUBSET NodeId : /\ id \in above /\ HasCauses(above) /\ Ancestry(id) = above \cap Present
                                     /\ \A ids : id \in ids /\ HasCauses(ids) => above \subseteq ids
  <2>1. id \in NodeId BY NodeOfIs
  <2> QED BY <2>1, AncestryIs
<1>2. PICK S : S = {s \in ChainState : IsChained(id, above, P, s)} OBVIOUS
<1> DEFINE Round == [e \in S \X (1..rounds) |-> NextRound(e[1])]
<1>3. rounds \in Nat
  <2>1. Cardinality(NodeId) \in Nat BY TrustAssumption, FS_CardinalityType
  <2> QED BY <2>1, TrustAssumption
<1>4. first \in S /\ ChainLeft(first) = rounds
  <2> DEFINE queue == <<id>>
             none  == <<>>
  <2>1. first = [queue |-> queue, visited |-> {}, chain |-> none] OBVIOUS
  <2>2. id \in NodeId BY NodeOfIs
  <2>3. queue \in Seq(NodeId) /\ Len(queue) = 1 /\ DOMAIN queue = {1} /\ queue[1] = id BY <2>2
  <2>4. none \in Seq(NodeId) /\ Len(none) = 0 /\ ToSet(none) = {} BY DEF ToSet
  <2>5. ToSet(queue) = {id} BY <2>3 DEF ToSet
  <2> HIDE DEF queue, none
  <2>6. first \in ChainState /\ first.queue = queue /\ first.visited = {} /\ first.chain = none
    BY <2>1, <2>3, <2>4 DEF ChainState
  <2> HIDE DEF first
  <2>7. CountedOf({}, P) = {} /\ Parents({}) = {} BY DEF CountedOf, Parents
  <2>8. Cardinality({}) = 0 BY FS_EmptySet
  <2>9. IsChained(id, above, P, first) BY <1>1, <2>4, <2>5, <2>6, <2>7, <2>8 DEF IsChained
  <2>10. NodeId \ {} = NodeId OBVIOUS
  <2>11. ChainLeft(first) = 1 + Cardinality(NodeId) * MaxParents BY <2>3, <2>6, <2>10 DEF ChainLeft
  <2> QED BY <1>2, <2>6, <2>9, <2>11
<1>5. \A s \in S : ~Stopped(s) => ChainStep(s, P) \in S /\ ChainLeft(ChainStep(s, P)) + 1 <= ChainLeft(s)
  <2> SUFFICES ASSUME NEW s \in S, ~Stopped(s)
               PROVE  ChainStep(s, P) \in S /\ ChainLeft(ChainStep(s, P)) + 1 <= ChainLeft(s)
    OBVIOUS
  <2>1. IsChained(id, above, P, s) /\ s.queue # <<>> BY <1>2
  <2>2. /\ IsChained(id, above, P, ChainStep(s, P)) /\ ChainLeft(ChainStep(s, P)) + 1 <= ChainLeft(s)
    BY <1>1, <2>1, DropKeeps, ExpandKeeps
  <2> QED BY <1>2, <2>2 DEF IsChained
<1>6. \A s \in S : s \in ChainState /\ ChainLeft(s) \in Nat /\ (s.queue # <<>> => ChainLeft(s) > 0)
  BY <1>2, ChainLeftIsNat
<1> HIDE DEF rounds, first, Stopped
<1>7. Round \in [S \X (1..rounds) -> S]
  <2>1. \A s \in S : NextRound(s) \in S BY <1>5
  <2> HIDE DEF NextRound
  <2> QED BY <2>1
<1>8. PICK f \in [0..rounds -> S] : IsLoop(f, rounds, first, Round)
  <2> HIDE DEF Round
  <2>1. first \in S BY <1>4
  <2> QED BY <1>3, <1>7, <2>1, Loop
<1>9. IsWalked(f)
  <2>1. \A n \in 0..rounds : n # 0 => Round[<<f[n - 1], n>>] = NextRound(f[n - 1])
    <3> SUFFICES ASSUME NEW n \in 0..rounds, n # 0 PROVE Round[<<f[n - 1], n>>] = NextRound(f[n - 1])
      OBVIOUS
    <3>1. n \in 1..rounds /\ n - 1 \in 0..rounds BY <1>3
    <3>2. f[n - 1] \in S BY <3>1
    <3> HIDE DEF NextRound
    <3> QED BY <3>1, <3>2
  <2> HIDE DEF Round, NextRound
  <2> QED BY <1>8, <2>1 DEF IsLoop
<1>10. IsWalked(chosen) BY <1>9
<1>11. BuildChain(id, P) = chosen[rounds].chain BY DEF BuildChain, chosen, rounds, first, Stopped
<1> HIDE DEF chosen
<1>12. PICK walk : walk = chosen OBVIOUS
<1>13. walk[0] = first /\ \A n \in 1..rounds : walk[n] = NextRound(walk[n - 1])
  <2> HIDE DEF NextRound
  <2>1. 0 \in 0..rounds /\ \A n \in 1..rounds : n \in 0..rounds /\ n # 0 BY <1>3
  <2>2. IsWalked(walk) BY <1>10, <1>12
  <2> QED BY <2>1, <2>2
<1> DEFINE T == {n \in 0..rounds : walk[n] \in S /\ (~Stopped(walk[n]) => ChainLeft(walk[n]) + n <= rounds)}
<1>14. 0 \in T BY <1>3, <1>4, <1>13
<1>15. ASSUME NEW n \in 1..rounds, n - 1 \in T PROVE n \in T
  <2>1. PICK old, new : old = walk[n - 1] /\ new = walk[n] OBVIOUS
  <2>2. /\ old \in S /\ (~Stopped(old) => ChainLeft(old) + (n - 1) <= rounds)
        /\ n \in 0..rounds /\ new = NextRound(old)
    BY <1>3, <1>13, <1>15, <2>1
  <2>3. new \in S /\ (~Stopped(new) => ChainLeft(new) + n <= rounds)
    <3>1. CASE Stopped(old) BY <2>2, <3>1
    <3>2. CASE ~Stopped(old)
      <4>1. new \in S /\ ChainLeft(new) + 1 <= ChainLeft(old) BY <1>5, <2>2, <3>2
      <4>2. ChainLeft(new) \in Nat /\ ChainLeft(old) \in Nat BY <1>6, <2>2, <4>1
      <4> QED BY <1>3, <2>2, <3>2, <4>1, <4>2
    <3> QED BY <3>1, <3>2
  <2> QED BY <2>1, <2>2, <2>3
<1>16. rounds \in T
  <2> HIDE DEF T
  <2>1. \A n \in 1..rounds : n - 1 \in T => n \in T BY <1>15
  <2>2. \A n \in 0..rounds : n \in T BY <1>3, <1>14, <2>1, UpTo
  <2> QED BY <1>3, <2>2
<1>17. PICK last : last = walk[rounds] OBVIOUS
<1>18. last \in S /\ BuildChain(id, P) = last.chain BY <1>11, <1>12, <1>16, <1>17
<1>19. Stopped(last)
  <2> SUFFICES ASSUME ~Stopped(last) PROVE FALSE OBVIOUS
  <2>1. ChainLeft(last) + rounds <= rounds BY <1>16, <1>17
  <2>2. last.queue # <<>> BY DEF Stopped
  <2> QED BY <1>3, <1>6, <1>18, <2>1, <2>2
<1>20. /\ IsChained(id, above, P, last) /\ last.chain \in Seq(NodeId)
       /\ Counted(id, P) = CountedOf(above, P)
  BY <1>1, <1>2, <1>18 DEF ChainState, Counted, CountedOf
<1>21. ToSet(last.chain) \subseteq Counted(id, P) BY <1>20 DEF IsChained, CountedOf
<1>22. CASE last.queue = <<>>
  <2>1. ToSet(last.queue) = {} BY <1>22 DEF ToSet
  <2>2. id \in last.visited /\ HasCauses(last.visited) BY <1>20, <2>1 DEF IsChained, HasCauses
  <2>3. above \subseteq last.visited BY <1>1, <2>2
  <2>4. Counted(id, P) \subseteq ToSet(last.chain) BY <1>20, <2>3 DEF IsChained, CountedOf
  <2> QED BY <1>18, <1>20, <1>21, <2>4
<1>23. CASE Len(last.chain) >= P.maxDepth
  <2> SUFFICES ASSUME NEW x \in Counted(id, P), x \notin ToSet(last.chain)
               PROVE  Cardinality(Counted(id, P)) > P.maxDepth
    BY <1>18, <1>20, <1>21
  <2>1. PICK C, D : C = ToSet(last.chain) /\ D = Counted(id, P) OBVIOUS
  <2>2. IsFiniteSet(C) /\ IsFiniteSet(D)
    <3>1. D \subseteq NodeId BY <1>20, <2>1 DEF CountedOf
    <3> QED BY <1>21, <2>1, <3>1, TrustAssumption, FS_Subset
  <2>3. C \cup {x} \subseteq D /\ x \notin C BY <1>21, <2>1
  <2>4. Cardinality(C \cup {x}) = Cardinality(C) + 1 BY <2>2, <2>3, FS_AddElement
  <2>5. Cardinality(C \cup {x}) <= Cardinality(D) BY <2>2, <2>3, FS_Subset
  <2>6. Cardinality(C) = Len(last.chain) BY <1>20, <2>1 DEF IsChained
  <2>7. Cardinality(C) \in Nat /\ Cardinality(D) \in Nat BY <2>2, FS_CardinalityType
  <2> QED BY <1>23, <2>1, <2>4, <2>5, <2>6, <2>7
<1> QED BY <1>19, <1>22, <1>23 DEF Stopped

\* TrustIsEarned: no request makes a runtime trusted but one that names a node
\* whose ancestors that count, up to as many as the policy looks at, meet it.
THEOREM Earned == TrustSpec => TrustIsEarned
<1>1. TrustType => \A r \in Runtime, id \in NodeId : MigratesBy(r, id) =>
        LET P == PolicyOf(r)
        IN /\ Counted(id, P) # {}
           /\ \A x \in Counted(id, P) : Meets(x, P) \/ Cardinality(Counted(id, P)) > P.maxDepth
           /\ P.minimum # None => \A score \in scores[r] : score >= P.minimum
  <2> SUFFICES ASSUME TrustType, NEW r \in Runtime, NEW id \in NodeId, MigratesBy(r, id)
               PROVE  LET P == PolicyOf(r)
                      IN /\ Counted(id, P) # {}
                         /\ \A x \in Counted(id, P) : Meets(x, P) \/ Cardinality(Counted(id, P)) > P.maxDepth
                         /\ P.minimum # None => \A score \in scores[r] : score >= P.minimum
    OBVIOUS
  <2>1. id \in Present /\ Verified(r, id) BY DEF MigratesBy, RequestMigration
  <2>2. PICK P : P = PolicyOf(r) OBVIOUS
  <2>3. P.maxDepth \in Nat BY <2>2, PolicyOfIs
  <2>4. VerifyChain(BuildChain(id, P), P) /\ ScoreAllows(r, P) BY <2>1, <2>2 DEF Verified
  <2>5. PICK chain : chain = ToSet(BuildChain(id, P)) OBVIOUS
  <2>6. /\ BuildChain(id, P) \in Seq(NodeId) /\ chain \subseteq Counted(id, P)
        /\ Counted(id, P) \subseteq chain \/ Cardinality(Counted(id, P)) > P.maxDepth
    BY <2>1, <2>3, <2>5, ChainNames
  <2>7. \A x \in chain : Meets(x, P) BY <2>4, <2>5 DEF VerifyChain
  <2>8. chain # {}
    <3>1. PICK list : list = BuildChain(id, P) OBVIOUS
    <3>2. list \in Seq(NodeId) /\ list # <<>> /\ chain = ToSet(list) BY <2>4, <2>5, <2>6, <3>1 DEF VerifyChain
    <3>3. 1 \in DOMAIN list BY <3>2
    <3> QED BY <3>2, <3>3 DEF ToSet
  <2> QED BY <2>2, <2>4, <2>6, <2>7, <2>8 DEF ScoreAllows
<1> QED BY <1>1, TrustTyped, PTL DEF TrustIsEarned

=============================================================================
