--------------------------- MODULE DiscoveryProofs ---------------------------
(***************************************************************************)
(* Proofs about Discovery and LocalRegistry: the channels of the list and  *)
(* the one-shot watches, for any number of instances and of threads that   *)
(* apply lists.                                                            *)
(***************************************************************************)
EXTENDS Discovery, SequenceTheorems, FiniteSetTheorems, TLAPS

\* No element occurs twice.
Distinct(s) == \A i, j \in 1..Len(s) : s[i] = s[j] => i = j

Pcs == {"lookup", "apply", "stop", "watch", "waiting", "poll", "unborn", "ended"}

Entries == [addr : Addresses, ch : Nat]

Types ==
    /\ address \in [Ids -> Addresses]
    /\ version \in Nat
    /\ watchers \subseteq Agents /\ due \subseteq Agents
    /\ since \in [Agents -> Int]
    /\ pc \in [Agents -> Pcs]
    /\ seen \in [Agents -> Seq(Ids)]
    /\ list \in Seq(Entries)
    /\ created \in Nat
    /\ stopped \subseteq 1..created
    /\ removed \in [Agents -> SUBSET Nat]

\* An agent that subscribed, or is about to be called back, waits for it.
Subscriptions ==
    /\ \A a \in watchers \cup due : pc[a] = "waiting"
    /\ WatchersUpToDate

\* A channel goes to one address.  A lookup finds no instance twice, so no address is
\* twice in the list when no two instances share one.
NoTwins ==
    /\ \A j, k \in 1..Len(list) : list[j].ch = list[k].ch => list[j].addr = list[k].addr
    /\ IsInjective(address) => \A j, k \in 1..Len(list) : list[j].addr = list[k].addr => j = k
    /\ \A a \in Agents : Distinct(seen[a])

\* A channel is listed, or one agent is about to stop it, or it is stopped, or else
\* two instances share an address.
Apart ==
    /\ ListedChannels \cup RemovedChannels \subseteq (1..created) \ stopped
    /\ IsInjective(address) => (1..created) \ stopped \subseteq ListedChannels \cup RemovedChannels
    /\ \A a \in Agents : removed[a] \cap ListedChannels = {}
    /\ \A a, b \in Agents : a # b => removed[a] \cap removed[b] = {}
    /\ \A a \in Agents : pc[a] # "stop" => removed[a] = {}

IInv == Types /\ Subscriptions /\ NoTwins /\ Apart

-----------------------------------------------------------------------------
(* Numbering *)

\* Counting the members of N up to each one numbers them from 1.
LEMMA Numbering ==
    ASSUME NEW n \in Nat, NEW N \in SUBSET (1..n)
    PROVE  /\ Cardinality(N) \in Nat
           /\ \A k \in N : Cardinality({j \in N : j <= k}) \in 1..Cardinality(N)
           /\ \A j, k \in N :
                 Cardinality({i \in N : i <= j}) = Cardinality({i \in N : i <= k}) => j = k
           /\ \A m \in 1..Cardinality(N) : \E k \in N : Cardinality({j \in N : j <= k}) = m
<1> DEFINE R == [k \in N |-> Cardinality({j \in N : j <= k})]
<1>1. IsFiniteSet(N) /\ Cardinality(N) \in Nat
  <2>1. IsFiniteSet(1..n)
    BY FS_Interval
  <2>2. IsFiniteSet(N)
    BY <2>1, FS_Subset, Zenon
  <2> QED BY <2>2, FS_CardinalityType, Zenon
<1>2. ASSUME NEW k \in N PROVE R[k] \in 1..Cardinality(N)
  <2> DEFINE T == {j \in N : j <= k}
  <2>1. T \in SUBSET N /\ k \in T
    OBVIOUS
  <2>2. IsFiniteSet(T) /\ Cardinality(T) <= Cardinality(N)
    BY <1>1, <2>1, FS_Subset, Zenon
  <2>3. Cardinality(T) \in Nat /\ Cardinality(T) # 0
    BY <2>1, <2>2, FS_CardinalityType, FS_EmptySet, Zenon
  <2>4. R[k] = Cardinality(T)
    BY Zenon
  <2> HIDE DEF T, R
  <2> QED BY <1>1, <2>2, <2>3, <2>4, SMTT(20)
<1>3. ASSUME NEW j \in N, NEW k \in N, j < k PROVE R[j] # R[k]
  <2> DEFINE S == {i \in N : i <= j}
             T == {i \in N : i <= k}
  <2>0. j \in Nat /\ k \in Nat /\ \A i \in N : i \in Nat
    OBVIOUS
  <2>1. S \in SUBSET T /\ k \in T /\ k \notin S /\ T \in SUBSET N
    <3>1. ASSUME NEW i \in N, i <= j PROVE i <= k
      BY <1>3, <2>0, <3>1, SMTT(20)
    <3>2. k \notin S
      BY <1>3, <2>0
    <3>3. k \in T
      BY <2>0
    <3> QED BY <3>1, <3>2, <3>3, Zenon
  <2>2. IsFiniteSet(T)
    BY <1>1, <2>1, FS_Subset, Zenon
  <2>3. Cardinality(T) # Cardinality(S)
    BY <2>1, <2>2, FS_Subset, Zenon
  <2> QED BY <2>3, Zenon
<1>4. ASSUME NEW j \in N, NEW k \in N, R[j] = R[k] PROVE j = k
  BY <1>3, <1>4, SMTT(20)
<1>5. R \in Injection(N, 1..Cardinality(N))
  <2>1. R \in [N -> 1..Cardinality(N)]
    BY <1>2, Zenon
  <2> HIDE DEF R
  <2> QED BY <2>1, <1>4, Zenon DEF Injection, IsInjective
<1>6. IsFiniteSet(1..Cardinality(N)) /\ Cardinality(1..Cardinality(N)) = Cardinality(N)
  BY <1>1, FS_Interval
<1>7. R \in Surjection(N, 1..Cardinality(N))
  BY <1>5, <1>6, FS_Injection, Zenon
<1>8. \A m \in 1..Cardinality(N) : \E k \in N : R[k] = m
  BY <1>7, Zenon DEF Surjection
<1>9. \A k \in N : R[k] = Cardinality({j \in N : j <= k})
  BY Zenon
<1> HIDE DEF R
<1>10. \A k \in N : Cardinality({j \in N : j <= k}) \in 1..Cardinality(N)
  BY <1>2, <1>9, Zenon
<1>11. \A j, k \in N : Cardinality({i \in N : i <= j}) = Cardinality({i \in N : i <= k}) => j = k
  <2> SUFFICES ASSUME NEW j \in N, NEW k \in N,
                      Cardinality({i \in N : i <= j}) = Cardinality({i \in N : i <= k})
               PROVE  j = k
    BY Zenon
  <2>1. R[j] = R[k]
    BY <1>9, Zenon
  <2> QED BY <1>4, <2>1, Zenon
<1>12. \A m \in 1..Cardinality(N) : \E k \in N : Cardinality({j \in N : j <= k}) = m
  BY <1>8, <1>9, Zenon
<1> QED BY <1>1, <1>10, <1>11, <1>12, ZenonT(30)

-----------------------------------------------------------------------------
(* applyInstances *)

\* A set of indexes that is not empty has a least one: the one that is numbered 1.
LEMMA LeastOf ==
    ASSUME NEW n \in Nat, NEW S \in SUBSET (1..n), S # {}
    PROVE  \E x \in S : \A y \in S : x <= y
<1>1. IsFiniteSet(S) /\ Cardinality(S) \in Nat
  <2>1. IsFiniteSet(1..n)
    BY FS_Interval
  <2>2. IsFiniteSet(S)
    BY <2>1, FS_Subset, Zenon
  <2> QED BY <2>2, FS_CardinalityType, Zenon
<1>2. Cardinality(S) # 0
  BY <1>1, FS_EmptySet, Zenon
<1>3. 1 \in 1..Cardinality(S)
  BY <1>1, <1>2, SMTT(20)
<1>4. PICK x \in S : Cardinality({j \in S : j <= x}) = 1
  <2>1. \A m \in 1..Cardinality(S) : \E k \in S : Cardinality({j \in S : j <= k}) = m
    BY Numbering, Zenon
  <2> QED BY <1>3, <2>1, Zenon
<1> DEFINE T == {j \in S : j <= x}
<1>5. PICK z : T = {z}
  <2>1. IsFiniteSet(T)
    BY <1>1, FS_Subset, Zenon
  <2> HIDE DEF T
  <2> QED BY <1>4, <2>1, FS_Singleton, Zenon DEF T
<1>6. ASSUME NEW y \in S PROVE x <= y
  <2>1. x \in Nat /\ y \in Nat
    OBVIOUS
  <2>2. x \in T
    BY <2>1
  <2>4. y <= x => y \in T
    BY Zenon
  <2> HIDE DEF T
  <2>3. y <= x => y = x
    BY <1>5, <2>2, <2>4, Zenon
  <2> QED BY <2>1, <2>3, SMTT(20)
<1> QED BY <1>6, Zenon

\* The instance of the list that an info with the address addr takes: the first.
First(addr) ==
    CHOOSE j \in 1..Len(list) :
        list[j].addr = addr /\ \A i \in 1..(j - 1) : list[i].addr # list[j].addr

LEMMA FirstHas ==
    ASSUME Types, NEW addr, HasChannel(addr)
    PROVE  First(addr) \in 1..Len(list) /\ list[First(addr)].addr = addr
<1> DEFINE S == {j \in 1..Len(list) : list[j].addr = addr}
<1>1. Len(list) \in Nat
  BY DEF Types
<1>2. S \in SUBSET (1..Len(list)) /\ S # {}
  BY Zenon DEF HasChannel
<1>3. PICK j \in S : \A i \in S : j <= i
  BY <1>1, <1>2, LeastOf, Zenon
<1>4. j \in 1..Len(list) /\ list[j].addr = addr
  BY Zenon
<1>5. ASSUME NEW i \in 1..(j - 1) PROVE list[i].addr # list[j].addr
  <2>1. i \in 1..Len(list) /\ ~(j <= i)
    BY <1>1, <1>4, SMTT(20)
  <2> QED BY <1>3, <1>4, <2>1, Zenon
<1> HIDE DEF S
<1>6. \E k \in 1..Len(list) :
          list[k].addr = addr /\ \A i \in 1..(k - 1) : list[i].addr # list[k].addr
  BY <1>4, <1>5, Zenon
<1> QED BY <1>6, Zenon DEF First

\* What applyInstances makes of a list: a channel still goes to one address, those of
\* the addresses that disappeared are gone, and the new ones are in it.  When no two
\* instances share an address, no other channel is gone, and no address is twice in it.
LEMMA NextListOf ==
    ASSUME Types, NoTwins, ListedChannels \subseteq 1..created,
           NEW infos \in Seq(Ids), Distinct(infos)
    PROVE  LET l == NextList(infos)
               new == Cardinality(Unknown(infos))
               channels == {l[k].ch : k \in 1..Len(l)}
               kept == (ListedChannels \ Disappeared(infos)) \cup ((created + 1)..(created + new))
           IN  /\ l \in Seq(Entries) /\ new \in Nat
               /\ \A j, k \in 1..Len(l) : l[j].ch = l[k].ch => l[j].addr = l[k].addr
               /\ channels \subseteq kept
               /\ IsInjective(address) =>
                     /\ \A j, k \in 1..Len(l) : l[j].addr = l[k].addr => j = k
                     /\ kept \subseteq channels
<1> DEFINE n == Len(infos)
           N == Unknown(infos)
           l == NextList(infos)
           A(k) == address[infos[k]]
           P(k) == First(A(k))
           F(k) == Cardinality({j \in N : j <= k})
<1>1. /\ n \in Nat /\ N \in SUBSET (1..n) /\ created \in Nat /\ Len(list) \in Nat
      /\ \A k \in 1..n : infos[k] \in Ids
      /\ \A j, k \in 1..n : infos[j] = infos[k] => j = k
  BY DEF Types, Unknown, Distinct
<1>2. \A j \in 1..Len(list) : list[j] \in Entries /\ list[j].ch \in 1..created
  <2>1. \A j \in 1..Len(list) : list[j] \in Entries
    BY DEF Types
  <2>2. \A j \in 1..Len(list) : list[j].ch \in ListedChannels
    BY Zenon DEF ListedChannels
  <2> QED BY <2>1, <2>2, Zenon
<1>3. /\ Cardinality(N) \in Nat
      /\ \A k \in N : F(k) \in 1..Cardinality(N)
      /\ \A j, k \in N : F(j) = F(k) => j = k
      /\ \A m \in 1..Cardinality(N) : \E k \in N : F(k) = m
  <2> HIDE DEF n, N
  <2> QED BY <1>1, Numbering, ZenonT(30)
<1>4. ASSUME NEW k \in (1..n) \ N
      PROVE  P(k) \in 1..Len(list) /\ list[P(k)].addr = A(k) /\ l[k] = list[P(k)]
  <2>1. HasChannel(A(k))
    BY Zenon DEF Unknown
  <2>2. P(k) \in 1..Len(list) /\ list[P(k)].addr = A(k)
    BY <2>1, FirstHas, Zenon
  <2>3. l[k] = list[P(k)]
    BY Zenon DEF NextList, First
  <2> QED BY <2>2, <2>3, Zenon
<1>5. ASSUME NEW k \in N PROVE l[k] = [addr |-> A(k), ch |-> created + F(k)]
  <2>1. k \in 1..n
    BY <1>1, Zenon
  <2>2. N \cap 1..k = {j \in N : j <= k}
    BY <1>1, <2>1, SMTT(20)
  <2>3. l[k] = [addr |-> A(k), ch |-> created + Cardinality(N \cap 1..k)]
    BY <2>1, Zenon DEF NextList
  <2> QED BY <2>2, <2>3, Zenon
<1>6. DOMAIN l = 1..n
  BY Zenon DEF NextList
<1>7. \A k \in 1..n : A(k) \in Addresses
  BY <1>1, Zenon DEF Types
<1>8. Range(infos) = {infos[k] : k \in 1..n}
  <2>1. DOMAIN infos = 1..n
    BY DEF n
  <2> QED BY <2>1, Zenon DEF Range
<1>9. IsInjective(address) => \A j, k \in 1..n : A(j) = A(k) => j = k
  <2>1. DOMAIN address = Ids
    BY Zenon DEF Types
  <2> QED BY <1>1, <2>1, ZenonT(30) DEF IsInjective
<1>10. ASSUME NEW j \in 1..Len(list)
       PROVE  list[j].ch \in Disappeared(infos) <=> \A k \in 1..n : A(k) # list[j].addr
  <2>1. ASSUME NEW i \in 1..Len(list), list[i].ch = list[j].ch PROVE list[i].addr = list[j].addr
    BY <2>1, Zenon DEF NoTwins
  <2>2. ASSUME NEW i \in 1..Len(list)
        PROVE  (\A d \in Range(infos) : address[d] # list[i].addr) <=>
                   \A k \in 1..n : A(k) # list[i].addr
    BY <1>8, ZenonT(30)
  <2>3. list[j].ch \in Disappeared(infos) <=>
            \E i \in 1..Len(list) : /\ \A d \in Range(infos) : address[d] # list[i].addr
                                    /\ list[j].ch = list[i].ch
    BY ZenonT(30) DEF Disappeared
  <2> HIDE DEF A
  <2> QED BY <2>1, <2>2, <2>3, ZenonT(30)
<1>20. /\ \A j, k \in 1..Len(list) : list[j].ch = list[k].ch => list[j].addr = list[k].addr
       /\ IsInjective(address) => \A j, k \in 1..Len(list) : list[j].addr = list[k].addr => j = k
  BY Zenon DEF NoTwins
<1> HIDE DEF n, N, l, A, P, F
<1>11. ASSUME NEW k \in 1..n
       PROVE  /\ l[k] \in Entries /\ l[k].addr = A(k)
              /\ k \in N => l[k].ch = created + F(k) /\ l[k].ch \notin 1..created
              /\ k \notin N => l[k].ch \in 1..created
  <2>1. CASE k \in N
    <3>1. F(k) \in 1..Cardinality(N)
      BY <1>3, <2>1, Zenon
    <3>2. created + F(k) \in Nat /\ created + F(k) \notin 1..created
      BY <1>1, <1>3, <3>1, SMTT(20)
    <3>3. l[k] = [addr |-> A(k), ch |-> created + F(k)] /\ A(k) \in Addresses
      BY <1>5, <1>7, <2>1, ZenonT(30)
    <3> QED BY <2>1, <3>2, <3>3, SMTT(20) DEF Entries
  <2>2. CASE k \notin N
    BY <1>2, <1>4, <2>2, ZenonT(30) DEF Entries
  <2> QED BY <2>1, <2>2, Zenon
<1>12. l \in Seq(Entries) /\ Len(l) = n
  <2>1. l = [k \in 1..n |-> l[k]]
    BY <1>6, SMTT(20) DEF l, n, NextList
  <2>2. l \in [1..n -> Entries]
    BY <1>11, <2>1, Zenon
  <2>3. l \in Seq(Entries)
    BY <1>1, <2>2, SeqDef, SMTT(20)
  <2>4. Len(l) \in Nat /\ DOMAIN l = 1..Len(l)
    BY <2>3, LenProperties, Zenon
  <2> QED BY <1>1, <1>6, <2>3, <2>4, SMTT(20)
<1>13. ASSUME NEW j \in 1..n, NEW k \in 1..n, l[j].ch = l[k].ch PROVE l[j].addr = l[k].addr
  <2>1. CASE j \in N /\ k \in N
    <3>1. F(j) = F(k)
      BY <1>1, <1>3, <1>11, <1>13, <2>1, SMTT(20)
    <3>2. j = k
      BY <1>3, <2>1, <3>1, ZenonT(30)
    <3> QED BY <3>2, Zenon
  <2>2. CASE j \notin N /\ k \notin N
    <3>1. l[j] = list[P(j)] /\ l[k] = list[P(k)] /\ P(j) \in 1..Len(list) /\ P(k) \in 1..Len(list)
      BY <1>4, <2>2, Zenon
    <3> QED BY <1>13, <1>20, <3>1, Zenon
  <2>3. CASE (j \in N) # (k \in N)
    BY <1>11, <1>13, <2>3, SMTT(20)
  <2> QED BY <2>1, <2>2, <2>3, Zenon
<1>14. ASSUME NEW k \in 1..n
       PROVE  \/ l[k].ch \in ListedChannels \ Disappeared(infos)
              \/ l[k].ch \in (created + 1)..(created + Cardinality(N))
  <2>1. CASE k \in N
    BY <1>1, <1>3, <1>11, <2>1, SMTT(20)
  <2>2. CASE k \notin N
    <3>1. l[k] = list[P(k)] /\ P(k) \in 1..Len(list) /\ list[P(k)].addr = A(k)
      BY <1>4, <2>2, Zenon
    <3>2. l[k].ch \in ListedChannels
      BY <3>1, Zenon DEF ListedChannels
    <3>3. l[k].ch \notin Disappeared(infos)
      BY <1>10, <3>1, ZenonT(30)
    <3> QED BY <3>2, <3>3, Zenon
  <2> QED BY <2>1, <2>2, Zenon
<1>15. ASSUME NEW x \in (created + 1)..(created + Cardinality(N)) PROVE \E k \in 1..n : x = l[k].ch
  <2>1. x - created \in 1..Cardinality(N) /\ x = created + (x - created)
    BY <1>1, <1>3, SMTT(20)
  <2>2. PICK k \in N : F(k) = x - created
    BY <1>3, <2>1, Zenon
  <2>3. k \in 1..n
    BY <1>1, Zenon
  <2>4. x = l[k].ch
    BY <1>11, <2>1, <2>2, <2>3, SMTT(20)
  <2> QED BY <2>3, <2>4, Zenon
<1>16. ASSUME IsInjective(address), NEW x \in ListedChannels \ Disappeared(infos)
       PROVE  \E k \in 1..n : x = l[k].ch
  <2>1. PICK j \in 1..Len(list) : x = list[j].ch
    BY Zenon DEF ListedChannels
  <2>2. PICK k \in 1..n : A(k) = list[j].addr
    BY <1>10, <2>1, ZenonT(30)
  <2>3. k \notin N
    BY <2>2, ZenonT(30) DEF N, A, Unknown, HasChannel
  <2>4. P(k) = j
    BY <1>4, <1>16, <1>20, <2>2, <2>3, Zenon
  <2> QED BY <1>4, <2>1, <2>3, <2>4, Zenon
<1>17. IsInjective(address) => \A j, k \in 1..n : l[j].addr = l[k].addr => j = k
  BY <1>9, <1>11, SMTT(20)
<1>18. {l[k].ch : k \in 1..n} \subseteq
           (ListedChannels \ Disappeared(infos)) \cup ((created + 1)..(created + Cardinality(N)))
  BY <1>14, ZenonT(30)
<1>19. IsInjective(address) =>
           (ListedChannels \ Disappeared(infos)) \cup ((created + 1)..(created + Cardinality(N)))
               \subseteq {l[k].ch : k \in 1..n}
  BY <1>15, <1>16, ZenonT(30)
<1> QED BY <1>3, <1>12, <1>13, <1>17, <1>18, <1>19, ZenonT(30) DEF l, N

-----------------------------------------------------------------------------
(* The steps *)

LEMMA InIdOrderOf ==
    ASSUME NEW S \in SUBSET Ids, NEW infos \in InIdOrder(S)
    PROVE  infos \in Seq(Ids) /\ Distinct(infos)
<1> DEFINE n == Cardinality(S)
<1>1. n \in Nat
  <2>1. IsFiniteSet(S)
    BY DiscoveryAssumption, FS_Subset, ZenonT(30)
  <2> QED BY <2>1, FS_CardinalityType, Zenon
<1>2. infos \in [1..n -> S] /\ \A j, k \in 1..n : j < k => infos[j] < infos[k]
  BY Zenon DEF InIdOrder
<1> HIDE DEF n
<1>3. infos \in Seq(Ids)
  <2>1. infos \in [1..n -> Ids]
    BY <1>2, Zenon
  <2> QED BY <1>1, <2>1, SeqDef
<1>4. Len(infos) = n
  <2>1. DOMAIN infos = 1..n
    BY <1>2, Zenon
  <2>2. Len(infos) \in Nat /\ DOMAIN infos = 1..Len(infos)
    BY <1>3, LenProperties, Zenon
  <2> QED BY <1>1, <2>1, <2>2, SMTT(20)
<1>5. ASSUME NEW j \in 1..n, NEW k \in 1..n, j # k PROVE infos[j] # infos[k]
  <2>1. infos[j] \in Nat /\ infos[k] \in Nat
    BY <1>2, DiscoveryAssumption, Zenon
  <2>2. j < k \/ k < j
    BY <1>1, <1>5, SMTT(20)
  <2>3. infos[j] < infos[k] \/ infos[k] < infos[j]
    BY <1>2, <2>2, Zenon
  <2> QED BY <2>1, <2>3
<1> QED BY <1>3, <1>4, <1>5, Zenon DEF Distinct

\* A registry step: the watches are those that were there, or all are called back.
RegistryMoves ==
    \/ UNCHANGED <<version, watchers, due, since>>
    \/ Changed /\ UNCHANGED since

LEMMA RegistryStepMoves ==
    ASSUME RegistryStep \/ Lookup
    PROVE  RegistryMoves
BY Zenon DEF RegistryStep, RegisterService, Unregister, RenewLease, LeaseRunsOut, Sweep, SweepExpired,
       Lookup, RegistryMoves

LEMMA SubscriptionsStep ==
    ASSUME Types, Subscriptions, [Next]_vars
    PROVE  /\ Subscriptions'
           /\ version' \in Nat /\ watchers' \subseteq Agents /\ due' \subseteq Agents
           /\ since' \in [Agents -> Int] /\ pc' \in [Agents -> Pcs]
<1> DEFINE Goal == /\ Subscriptions'
                   /\ version' \in Nat /\ watchers' \subseteq Agents /\ due' \subseteq Agents
                   /\ since' \in [Agents -> Int] /\ pc' \in [Agents -> Pcs]
<1> SUFFICES Goal
  BY Zenon
<1>0. /\ version \in Nat /\ watchers \subseteq Agents /\ due \subseteq Agents
      /\ since \in [Agents -> Int] /\ pc \in [Agents -> Pcs] /\ Watchers = Agents
  BY DiscoveryAssumption, Zenon DEF Types
<1>1. ASSUME RegistryMoves, pc' \in [Agents -> Pcs],
             \A a \in watchers \cup due : pc'[a] = "waiting"
      PROVE  Goal
  BY <1>0, <1>1, SMTT(20) DEF RegistryMoves, Changed, Subscriptions, WatchersUpToDate
<1>2. CASE UNCHANGED vars
  BY <1>0, <1>1, <1>2, ZenonT(30) DEF vars, registryVars, agentVars, RegistryMoves, Subscriptions
<1>3. CASE RegistryStep
  <2>1. pc' = pc
    BY <1>3, Zenon DEF RegistryStep, agentVars
  <2> QED BY <1>0, <1>1, <1>3, <2>1, RegistryStepMoves, ZenonT(30) DEF Subscriptions
<1>4. ASSUME NEW a \in Agents, NEW l \in Pcs, pc[a] # "waiting", Goto(a, l), RegistryMoves
      PROVE  Goal
  <2>1. pc' \in [Agents -> Pcs] /\ \A b \in Agents \ {a} : pc'[b] = pc[b]
    BY <1>0, <1>4, Zenon DEF Goto
  <2> QED BY <1>0, <1>1, <1>4, <2>1, ZenonT(30) DEF Subscriptions
<1>5. ASSUME NEW a \in Agents, pc[a] # "waiting", Goto(a, "waiting"), Watch(a)
      PROVE  Goal
  <2>1. pc' \in [Agents -> Pcs] /\ pc'[a] = "waiting" /\ \A b \in Agents \ {a} : pc'[b] = pc[b]
    BY <1>0, <1>5, ZenonT(30) DEF Goto, Pcs
  <2>2. a \notin watchers /\ a \notin due
    BY <1>5, Zenon DEF Subscriptions
  <2>3. since' \in [Agents -> Int] /\ since'[a] = version
        /\ \A b \in Agents \ {a} : since'[b] = since[b]
    BY <1>0, <1>5, SMTT(20) DEF Watch
  <2>4. watchers' = watchers \cup {a} /\ due' = due /\ version' = version
    BY <1>5, ZenonT(30) DEF Watch
  <2> QED BY <1>0, <2>1, <2>2, <2>3, <2>4, ZenonT(30) DEF Subscriptions, WatchersUpToDate
<1>6. ASSUME NEW a \in Agents, NEW l \in Pcs, Goto(a, l), a \notin watchers' \cup due',
             watchers' \subseteq watchers, due' \subseteq due, UNCHANGED <<version, since>>
      PROVE  Goal
  <2>1. pc' \in [Agents -> Pcs] /\ \A b \in Agents \ {a} : pc'[b] = pc[b]
    BY <1>0, <1>6, Zenon DEF Goto
  <2> QED BY <1>0, <1>6, <2>1, Zenon DEF Subscriptions, WatchersUpToDate
<1>7. ASSUME NEW a \in Agents, AgentStep(a) PROVE Goal
  <2>1. CASE LookupInstances(a)
    <3>1. RegistryMoves
      <4>1. Lookup \/ UNCHANGED registryVars
        BY <2>1, Zenon DEF LookupInstances
      <4> QED BY <4>1, RegistryStepMoves, Zenon DEF registryVars, RegistryMoves
    <3> QED BY <1>4, <2>1, <3>1, ZenonT(30) DEF LookupInstances, Pcs
  <2>2. CASE ApplyInstances(a)
    BY <1>4, <2>2, ZenonT(30) DEF ApplyInstances, Pcs, RegistryMoves, registryVars
  <2>3. CASE StopRemoved(a)
    BY <1>4, <2>3, ZenonT(30) DEF StopRemoved, Pcs, RegistryMoves, registryVars
  <2>4. CASE Resubscribe(a) \/ Poll(a)
    BY <1>5, <2>4, ZenonT(30) DEF Resubscribe, Poll
  <2>5. ASSUME NEW b \in Agents, StartWatchLoop(a, b) PROVE Goal
    <3>1. pc' \in [Agents -> Pcs] /\ \A d \in Agents \ {a, b} : pc'[d] = pc[d]
      BY <1>0, <2>5, Zenon DEF StartWatchLoop, Pcs
    <3>2. pc[a] = "watch" /\ pc[b] = "unborn" /\ RegistryMoves
      BY <2>5, Zenon DEF StartWatchLoop, RegistryMoves, registryVars
    <3> QED BY <1>0, <1>1, <3>1, <3>2, ZenonT(30) DEF Subscriptions
  <2>6. CASE Callback(a)
    <3>1. a \notin watchers
      BY <2>6, ZenonT(30) DEF Callback, Subscriptions, WatchersUpToDate
    <3>2. Goto(a, "lookup") /\ due' = due \ {a} /\ UNCHANGED <<watchers, version, since>>
      BY <2>6, Zenon DEF Callback
    <3> QED BY <1>6, <3>1, <3>2, ZenonT(30) DEF Pcs
  <2> QED BY <1>7, <2>1, <2>2, <2>3, <2>4, <2>5, <2>6, ZenonT(30) DEF AgentStep
<1>8. ASSUME NEW a \in Agents, PollFails(a) PROVE Goal
  BY <1>6, <1>8, ZenonT(30) DEF PollFails, Pcs
<1> HIDE DEF Goal
<1> QED BY <1>2, <1>3, <1>7, <1>8, ZenonT(30) DEF Next


\* The rest of Types, which has the list and what the agents do to it.
ListTypes ==
    /\ address \in [Ids -> Addresses]
    /\ seen \in [Agents -> Seq(Ids)]
    /\ list \in Seq(Entries)
    /\ created \in Nat
    /\ stopped \subseteq 1..created
    /\ removed \in [Agents -> SUBSET Nat]

LEMMA ApplyStep ==
    ASSUME IInv, NEW a \in Agents, ApplyInstances(a)
    PROVE  ListTypes' /\ NoTwins' /\ Apart'
<1> DEFINE infos == seen[a]
           new == Cardinality(Unknown(infos))
           gone == Disappeared(infos)
           apart == IsInjective(address)
<1>0. /\ seen \in [Agents -> Seq(Ids)] /\ removed \in [Agents -> SUBSET Nat]
      /\ created \in Nat /\ stopped \subseteq 1..created /\ pc \in [Agents -> Pcs]
      /\ address \in [Ids -> Addresses]
  BY Zenon DEF IInv, Types
<1>1. /\ ListedChannels \subseteq (1..created) \ stopped /\ ListedChannels \subseteq 1..created
      /\ \A b \in Agents : removed[b] \subseteq (1..created) \ stopped
  BY Zenon DEF IInv, Apart, RemovedChannels
<1>2. infos \in Seq(Ids) /\ Distinct(infos)
  BY <1>0, Zenon DEF IInv, NoTwins
<1>3. LET l == NextList(infos)
          channels == {l[k].ch : k \in 1..Len(l)}
          kept == (ListedChannels \ gone) \cup ((created + 1)..(created + new))
      IN  /\ l \in Seq(Entries) /\ new \in Nat
          /\ \A j, k \in 1..Len(l) : l[j].ch = l[k].ch => l[j].addr = l[k].addr
          /\ channels \subseteq kept
          /\ apart =>
                /\ \A j, k \in 1..Len(l) : l[j].addr = l[k].addr => j = k
                /\ kept \subseteq channels
  <2> HIDE DEF infos
  <2> QED BY <1>1, <1>2, NextListOf, ZenonT(30) DEF IInv
<1>4. gone \subseteq ListedChannels
  BY Zenon DEF Disappeared, ListedChannels
<1>5. /\ list' = NextList(infos) /\ created' = created + new /\ stopped' = stopped
      /\ removed' = [removed EXCEPT ![a] = gone] /\ seen' = [seen EXCEPT ![a] = <<>>]
      /\ pc' = [pc EXCEPT ![a] = "stop"] /\ pc[a] = "apply"
      /\ address' = address
  BY Zenon DEF ApplyInstances, Goto, setUp
<1>6. /\ ListedChannels' \subseteq (ListedChannels \ gone) \cup ((created + 1)..(created + new))
      /\ apart => (ListedChannels \ gone) \cup ((created + 1)..(created + new)) \subseteq ListedChannels'
  <2>1. ListedChannels' = {NextList(infos)[k].ch : k \in 1..Len(NextList(infos))}
    <3> HIDE DEF infos
    <3> QED BY <1>5, Zenon DEF ListedChannels
  <2> HIDE DEF infos, new, gone, apart
  <2> QED BY <1>3, <2>1, Zenon
<1>14. apart' <=> apart
  BY <1>5, Zenon
<1> HIDE DEF infos, new, gone, apart
<1>7. 1..created' = (1..created) \cup ((created + 1)..(created + new))
  BY <1>0, <1>3, <1>5, SMTT(20)
<1>8. \A x \in (created + 1)..(created + new) : x \notin 1..created
  BY <1>0, <1>3
<1>9. removed[a] = {}
  BY <1>5, ZenonT(30) DEF IInv, Apart
<1>10. removed'[a] = gone /\ \A b \in Agents \ {a} : removed'[b] = removed[b]
  BY <1>0, <1>5, Zenon
<1>11. ListTypes'
  <2>1. seen' \in [Agents -> Seq(Ids)]
    BY <1>0, <1>5, EmptySeq, ZenonT(30)
  <2>2. gone \in SUBSET Nat
    BY <1>1, <1>4, SMTT(20)
  <2>3. removed' \in [Agents -> SUBSET Nat]
    BY <1>0, <1>5, <2>2, Zenon
  <2>4. created' \in Nat /\ stopped' \subseteq 1..created'
    BY <1>0, <1>3, <1>5, <1>7, SMTT(20)
  <2> QED BY <1>0, <1>3, <1>5, <2>1, <2>3, <2>4, ZenonT(30) DEF ListTypes
<1>12. NoTwins'
  <2>1. ASSUME NEW b \in Agents PROVE Distinct(seen'[b])
    <3>1. CASE b = a
      BY <1>0, <1>5, <3>1, SMTT(20) DEF Distinct
    <3>2. CASE b # a
      BY <1>0, <1>5, <3>2, Zenon DEF IInv, NoTwins
    <3> QED BY <3>1, <3>2, ZenonT(30)
  <2>2. \A j, k \in 1..Len(list') : list'[j].ch = list'[k].ch => list'[j].addr = list'[k].addr
    BY <1>3, <1>5, Zenon
  <2>3. apart' => \A j, k \in 1..Len(list') : list'[j].addr = list'[k].addr => j = k
    BY <1>3, <1>5, <1>14, Zenon
  <2> QED BY <2>1, <2>2, <2>3, ZenonT(30) DEF NoTwins, apart
<1>13. Apart'
  <2>1. RemovedChannels' = gone \cup RemovedChannels
    <3>1. ASSUME NEW x PROVE (\E b \in Agents : x \in removed'[b]) <=>
                                 x \in gone \/ \E b \in Agents : x \in removed[b]
      BY <1>9, <1>10, Zenon
    <3> QED BY <3>1, Zenon DEF RemovedChannels
  <2>2. ListedChannels' \cup RemovedChannels' \subseteq (1..created') \ stopped'
    <3>1. ListedChannels \cup RemovedChannels \subseteq (1..created) \ stopped
      BY Zenon DEF IInv, Apart
    <3> HIDE DEF ListedChannels
    <3> QED BY <1>0, <1>4, <1>5, <1>6, <1>7, <1>8, <2>1, <3>1, ZenonT(30)
  <2>6. apart' => (1..created') \ stopped' \subseteq ListedChannels' \cup RemovedChannels'
    <3>1. apart => (1..created) \ stopped \subseteq ListedChannels \cup RemovedChannels
      BY Zenon DEF IInv, Apart, apart
    <3> QED BY <1>5, <1>6, <1>7, <1>14, <2>1, <3>1, ZenonT(30)
  <2>3. ASSUME NEW b \in Agents PROVE removed'[b] \cap ListedChannels' = {}
    <3>1. removed[b] \cap ListedChannels = {}
      BY Zenon DEF IInv, Apart
    <3>2. CASE b = a
      BY <1>1, <1>4, <1>6, <1>8, <1>10, <3>2, ZenonT(30)
    <3>3. CASE b # a
      BY <1>1, <1>6, <1>8, <1>10, <3>1, <3>3, ZenonT(30)
    <3> QED BY <3>2, <3>3, Zenon
  <2>4. ASSUME NEW b \in Agents, NEW d \in Agents, b # d PROVE removed'[b] \cap removed'[d] = {}
    <3>1. /\ removed[b] \cap ListedChannels = {} /\ removed[d] \cap ListedChannels = {}
          /\ removed[b] \cap removed[d] = {}
      BY <2>4, ZenonT(30) DEF IInv, Apart
    <3> QED BY <1>4, <1>10, <2>4, <3>1, ZenonT(30)
  <2>5. ASSUME NEW b \in Agents, pc'[b] # "stop" PROVE removed'[b] = {}
    <3>1. b # a /\ pc'[b] = pc[b]
      BY <1>0, <1>5, <2>5, Zenon
    <3> QED BY <1>10, <2>5, <3>1, Zenon DEF IInv, Apart
  <2> QED BY <2>2, <2>3, <2>4, <2>5, <2>6, Zenon DEF Apart, apart
<1> QED BY <1>11, <1>12, <1>13, Zenon

LEMMA StopStep ==
    ASSUME IInv, NEW a \in Agents, StopRemoved(a)
    PROVE  ListTypes' /\ NoTwins' /\ Apart'
<1>0. /\ removed \in [Agents -> SUBSET Nat] /\ pc \in [Agents -> Pcs]
      /\ seen \in [Agents -> Seq(Ids)] /\ list \in Seq(Entries)
      /\ created \in Nat /\ stopped \subseteq 1..created /\ address \in [Ids -> Addresses]
  BY Zenon DEF IInv, Types
<1>1. /\ stopped' = stopped \cup removed[a] /\ UNCHANGED <<seen, list, created, address>>
      /\ removed' = [removed EXCEPT ![a] = {}] /\ pc' = [pc EXCEPT ![a] = "watch"]
  BY Zenon DEF StopRemoved, Goto, setUp
<1>2. ListedChannels' = ListedChannels
  BY <1>1, Zenon DEF ListedChannels
<1>3. removed'[a] = {} /\ \A b \in Agents \ {a} : removed'[b] = removed[b] /\ pc'[b] = pc[b]
  BY <1>0, <1>1, ZenonT(30)
<1>4. removed[a] \subseteq (1..created) \ stopped
  BY Zenon DEF IInv, Apart, RemovedChannels
<1>5. ListTypes'
  BY <1>0, <1>1, <1>4, Zenon DEF ListTypes
<1>6. NoTwins'
  BY <1>1, Zenon DEF IInv, NoTwins
<1>7. Apart'
  <2>1. ASSUME NEW x PROVE (\E b \in Agents : x \in removed'[b]) <=>
                               x \notin removed[a] /\ \E b \in Agents : x \in removed[b]
    <3>1. \A b \in Agents \ {a} : removed[a] \cap removed[b] = {}
      BY Zenon DEF IInv, Apart
    <3> QED BY <1>3, <3>1, Zenon
  <2>2. RemovedChannels' = RemovedChannels \ removed[a]
    <3>1. \A x : x \in RemovedChannels <=> \E b \in Agents : x \in removed[b]
      BY Zenon DEF RemovedChannels
    <3>2. \A x : x \in RemovedChannels' <=> \E b \in Agents : x \in removed'[b]
      BY Zenon DEF RemovedChannels
    <3> QED BY <2>1, <3>1, <3>2, Zenon
  <2>3. /\ ListedChannels' \cup RemovedChannels' \subseteq (1..created') \ stopped'
        /\ IsInjective(address') => (1..created') \ stopped' \subseteq ListedChannels' \cup RemovedChannels'
    <3>1. /\ ListedChannels \cup RemovedChannels \subseteq (1..created) \ stopped
          /\ IsInjective(address) => (1..created) \ stopped \subseteq ListedChannels \cup RemovedChannels
          /\ removed[a] \cap ListedChannels = {}
      BY Zenon DEF IInv, Apart
    <3> QED BY <1>1, <1>2, <2>2, <3>1, Zenon
  <2>4. \A b \in Agents : removed'[b] \cap ListedChannels' = {}
    BY <1>2, <1>3, Zenon DEF IInv, Apart
  <2>5. \A b, d \in Agents : b # d => removed'[b] \cap removed'[d] = {}
    BY <1>3, Zenon DEF IInv, Apart
  <2>6. \A b \in Agents : pc'[b] # "stop" => removed'[b] = {}
    BY <1>3, Zenon DEF IInv, Apart
  <2> QED BY <2>3, <2>4, <2>5, <2>6, Zenon DEF Apart, IsInjective
<1> QED BY <1>5, <1>6, <1>7, Zenon


\* The other steps leave the list, the channels and the agents that stop some alone.
LEMMA OtherSteps ==
    ASSUME IInv, UNCHANGED listVars, UNCHANGED address, seen' \in [Agents -> Seq(Ids)],
           \A a \in Agents : Distinct(seen'[a]),
           \A a \in Agents : pc[a] = "stop" => pc'[a] = "stop"
    PROVE  ListTypes' /\ NoTwins' /\ Apart'
<1>1. UNCHANGED <<list, created, stopped, removed>>
  BY Zenon DEF listVars
<1>2. ListTypes'
  BY <1>1, Zenon DEF IInv, Types, ListTypes
<1>3. NoTwins'
  BY <1>1, Zenon DEF IInv, NoTwins
<1>4. Apart'
  <2>1. ListedChannels' = ListedChannels
    BY <1>1, Zenon DEF ListedChannels
  <2>2. RemovedChannels' = RemovedChannels
    BY <1>1, Zenon DEF RemovedChannels
  <2> QED BY <1>1, <2>1, <2>2, ZenonT(30) DEF IInv, Apart, IsInjective
<1> QED BY <1>2, <1>3, <1>4, Zenon

LEMMA ListStep ==
    ASSUME IInv, [Next]_vars
    PROVE  ListTypes' /\ NoTwins' /\ Apart'
<1>0. seen \in [Agents -> Seq(Ids)] /\ pc \in [Agents -> Pcs] /\ \A a \in Agents : Distinct(seen[a])
  BY Zenon DEF IInv, Types, NoTwins
<1>1. ASSUME UNCHANGED <<listVars, address, seen>>, \A a \in Agents : pc[a] = "stop" => pc'[a] = "stop"
      PROVE  ListTypes' /\ NoTwins' /\ Apart'
  BY <1>0, <1>1, OtherSteps, Zenon
<1>2. CASE UNCHANGED vars \/ RegistryStep
  BY <1>1, <1>2, Zenon DEF vars, RegistryStep, agentVars, setUp
<1>3. ASSUME NEW a \in Agents, AgentStep(a) \/ PollFails(a) PROVE ListTypes' /\ NoTwins' /\ Apart'
  <2>1. CASE LookupInstances(a)
    <3>1. PICK infos \in Seq(Ids) : Distinct(infos) /\ seen' = [seen EXCEPT ![a] = infos]
      <4>1. CASE \E infos \in InIdOrder(Found) : seen' = [seen EXCEPT ![a] = infos]
        <5>1. Found \in SUBSET Ids
          BY Zenon DEF Found, Registered
        <5> QED BY <4>1, <5>1, InIdOrderOf, Zenon
      <4>2. CASE seen' = [seen EXCEPT ![a] = <<>>]
        <5>1. <<>> \in Seq(Ids) /\ Distinct(<<>>)
          BY EmptySeq DEF Distinct
        <5> QED BY <4>2, <5>1, Zenon
      <4> QED BY <2>1, <4>1, <4>2, Zenon DEF LookupInstances
    <3>2. seen' \in [Agents -> Seq(Ids)] /\ \A b \in Agents : Distinct(seen'[b])
      BY <1>0, <3>1, Zenon
    <3>3. UNCHANGED listVars /\ UNCHANGED address /\ \A b \in Agents : pc[b] = "stop" => pc'[b] = "stop"
      BY <1>0, <2>1, Zenon DEF LookupInstances, Goto, setUp
    <3> QED BY <3>2, <3>3, OtherSteps, Zenon
  <2>2. CASE ApplyInstances(a)
    BY <2>2, ApplyStep, Zenon
  <2>3. CASE StopRemoved(a)
    BY <2>3, StopStep, Zenon
  <2>4. CASE Resubscribe(a) \/ Poll(a) \/ PollFails(a) \/ Callback(a)
    BY <1>0, <1>1, <2>4, Zenon DEF Resubscribe, Poll, PollFails, Callback, Goto, setUp
  <2>5. ASSUME NEW b \in Agents, StartWatchLoop(a, b) PROVE ListTypes' /\ NoTwins' /\ Apart'
    BY <1>0, <1>1, <2>5, Zenon DEF StartWatchLoop, setUp
  <2> QED BY <1>3, <2>1, <2>2, <2>3, <2>4, <2>5, ZenonT(30) DEF AgentStep
<1> QED BY <1>2, <1>3, Zenon DEF Next

LEMMA Invariance == Spec => []IInv
<1>1. Init => IInv
  <2> SUFFICES ASSUME Init PROVE IInv
    BY Zenon
  <2>1. <<>> \in Seq(Ids) /\ <<>> \in Seq(Entries) /\ Distinct(<<>>)
    BY EmptySeq, SMTT(20) DEF Distinct
  <2>2. Types
    BY <2>1, DiscoveryAssumption, SMTT(20) DEF Init, RegistryInit, Types, Pcs
  <2>3. Subscriptions
    BY Zenon DEF Init, RegistryInit, Subscriptions, WatchersUpToDate
  <2>4. NoTwins
    <3>1. 1..Len(list) = {}
      BY SMTT(20) DEF Init
    <3>2. \A a \in Agents : Distinct(seen[a])
      BY <2>1, Zenon DEF Init
    <3> QED BY <3>1, <3>2, Zenon DEF NoTwins
  <2>5. ListedChannels = {} /\ RemovedChannels = {}
    BY DEF Init, ListedChannels, RemovedChannels
  <2>6. Apart
    BY <2>5 DEF Init, Apart
  <2> QED BY <2>2, <2>3, <2>4, <2>6, ZenonT(30) DEF IInv
<1>2. IInv /\ [Next]_vars => IInv'
  <2> SUFFICES ASSUME IInv, [Next]_vars PROVE IInv'
    BY Zenon
  <2>1. ListTypes' /\ NoTwins' /\ Apart'
    BY ListStep, Zenon
  <2>2. /\ Subscriptions'
        /\ version' \in Nat /\ watchers' \subseteq Agents /\ due' \subseteq Agents
        /\ since' \in [Agents -> Int] /\ pc' \in [Agents -> Pcs]
    BY SubscriptionsStep, Zenon DEF IInv
  <2> QED BY <2>1, <2>2, Zenon DEF IInv, Types, ListTypes
<1> QED BY <1>1, <1>2, PTL DEF Spec

-----------------------------------------------------------------------------
(* Theorems *)

\* LocalRegistry: whatever registers, expires and looks up, and however many threads
\* watch, nothing has changed since a watcher that is still subscribed did so, and it
\* is not about to be called back as well.
THEOREM RegistryWatchersUpToDate == Spec => []WatchersUpToDate
<1>1. IInv => WatchersUpToDate
  BY Zenon DEF IInv, Subscriptions
<1> QED BY <1>1, Invariance, PTL

\* applyInstances: however many threads apply lists, and however stale these are, no
\* channel is stopped while it is listed, or by two, and none is lost while no two
\* instances share an address.
THEOREM DiscoveryChannelsAccounted == Spec => []ChannelsAccounted
<1>1. IInv => ChannelsAccounted
  <2> SUFFICES ASSUME IInv PROVE ChannelsAccounted
    BY Zenon
  <2>3. \A a \in Agents : removed[a] \cap ListedChannels = {}
    BY Zenon DEF IInv, Apart
  <2>1. ListedChannels \cap RemovedChannels = {}
    BY <2>3, Zenon DEF RemovedChannels
  <2>2. \A a \in Agents : removed[a] \subseteq RemovedChannels
    BY Zenon DEF RemovedChannels
  <2> QED BY <2>1, <2>2, ZenonT(30) DEF IInv, Apart, ChannelsAccounted
<1> QED BY <1>1, Invariance, PTL
==============================================================================
