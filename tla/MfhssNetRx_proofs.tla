-------------------------- MODULE MfhssNetRx_proofs --------------------------
(***************************************************************************)
(* Proofs about the receive path.  rx_pkts_list is a ring of links that an *)
(* interrupt may change inside list_del; the proof describes the ring with *)
(* the set of its packets and an order of them, shows that this set is     *)
(* what a walk along the links meets, and follows it through list_add and  *)
(* through a list_del whose loads are up to date or too old.               *)
(***************************************************************************)
EXTENDS MfhssNetRx, TLAPS, FiniteSetTheorems

(***************************************************************************)
(* Induction, as facts about sets of numbers.                              *)
(***************************************************************************)
\* A set of natural numbers that is not empty has a least element: the
\* intervals from 0 to its elements are well-founded by inclusion.
LEMMA LeastNumber ==
  ASSUME NEW T \in SUBSET Nat, T # {}
  PROVE  \E m \in T : \A n \in T : m <= n
<1>. DEFINE R == StrictSubsetOrdering(Nat)
            U == {0..n : n \in T}
<1>1. IsWellFoundedOn(R, FiniteSubsetsOf(Nat))
  BY FS_StrictSubsetOrderingWellFounded
<1>2. U \subseteq FiniteSubsetsOf(Nat) /\ U # {}
  <2>1. ASSUME NEW n \in T PROVE 0..n \subseteq Nat /\ IsFiniteSet(0..n)
    BY FS_Interval
  <2>. QED
    BY <2>1 DEF FiniteSubsetsOf
<1>3. \E x \in U : \A y \in U : ~(<<y, x>> \in R)
  <2>. HIDE DEF R, U
  <2>. QED
    BY <1>1, <1>2, WFMin
<1>4. PICK m \in T : \A n \in T : ~(<<0..n, 0..m>> \in R)
  BY <1>3
<1>5. ASSUME NEW n \in T, n < m PROVE FALSE
  <2>1. 0..n \subseteq 0..m /\ 0..n # 0..m /\ 0..n \subseteq Nat /\ 0..m \subseteq Nat
    BY <1>5
  <2>2. <<0..n, 0..m>> \in R
    BY <2>1 DEF StrictSubsetOrdering
  <2>. QED
    BY <2>2, <1>4
<1>. QED
  BY <1>5

\* A set with 0 that has the successor of each of its numbers has them all.
LEMMA InductiveSet ==
  ASSUME NEW T \in SUBSET Nat, 0 \in T, \A n \in T : n + 1 \in T
  PROVE  \A n \in Nat : n \in T
<1>. SUFFICES ASSUME Nat \ T # {} PROVE FALSE
  OBVIOUS
<1>1. PICK m \in Nat \ T : \A n \in Nat \ T : m <= n
  BY LeastNumber, Nat \ T \in SUBSET Nat
<1>2. m # 0 /\ m - 1 \in Nat /\ ~(m <= m - 1)
  OBVIOUS
<1>3. m - 1 \in T /\ (m - 1) + 1 = m
  BY <1>1, <1>2
<1>. QED
  BY <1>3

-----------------------------------------------------------------------------
(***************************************************************************)
(* The ring: rx_pkts_list with the packets of L, in the order of falling r. *)
(***************************************************************************)
\* Forward and backward links agree and stay within the list.
Ring(L) ==
  /\ L \subseteq Pkts
  /\ \A n \in L \cup {HEAD} :
       /\ nxt[n] \in L \cup {HEAD} /\ prv[n] \in L \cup {HEAD}
       /\ prv[nxt[n]] = n /\ nxt[prv[n]] = n

\* nxt leads from each node to the next lower one of L, and from the lowest
\* one to the list head.
Ordered(r, L) ==
  /\ r \in [Nodes -> Nat]
  /\ \A n \in L : r[n] < r[HEAD]
  /\ \A m, n \in L : r[m] = r[n] => m = n
  /\ \A m \in L \cup {HEAD} : nxt[m] # HEAD => r[nxt[m]] < r[m]
  /\ \A m \in L \cup {HEAD}, n \in L : r[n] < r[m] => nxt[m] # HEAD /\ r[n] <= r[nxt[m]]

ListInv == Ring(Linked) /\ \E r : Ordered(r, Linked)

\* A walk with one node more than there are packets meets a packet twice.
LEMMA PacketTwice ==
  ASSUME NEW w \in [0..POOL_SIZE -> Pkts]
  PROVE  \E i, j \in 0..POOL_SIZE : i # j /\ w[i] = w[j]
<1>0. POOL_SIZE \in Nat
  BY PoolAssumption
<1>1. IsFiniteSet(0..POOL_SIZE) /\ Cardinality(0..POOL_SIZE) = POOL_SIZE + 1
  BY FS_Interval, <1>0
<1>2. IsFiniteSet(Pkts) /\ Cardinality(Pkts) = POOL_SIZE
  BY FS_Interval, <1>0 DEF Pkts
<1>3. Cardinality(Pkts) < Cardinality(0..POOL_SIZE)
  BY <1>0, <1>1, <1>2
<1>4. ASSUME NEW S, NEW T, S = 0..POOL_SIZE, T = Pkts
      PROVE  \E i, j \in S : i # j /\ w[i] = w[j]
  <2>1. IsFiniteSet(S) /\ IsFiniteSet(T) /\ Cardinality(T) < Cardinality(S) /\ w \in [S -> T]
    BY <1>1, <1>2, <1>3, <1>4
  <2>. QED
    BY <2>1, FS_PigeonHole
<1>. QED
  BY <1>4

\* A walk of POOL_SIZE steps from the list head meets all the packets of a
\* ring and no other node: there are not more packets than steps.
LEMMA WalkMeetsRing == \A L, r : Ring(L) /\ Ordered(r, L) => Linked = L
<1>. SUFFICES ASSUME NEW L, NEW r, Ring(L), Ordered(r, L) PROVE Linked = L
  OBVIOUS
<1>. DEFINE R == L \cup {HEAD}
            step(m) == IF m \in Pkts THEN nxt[m] ELSE m
            IsWalk(f, j) == /\ f \in [0..j -> R] /\ f[0] = nxt[HEAD]
                            /\ \A k \in 1..j : f[k] = step(f[k - 1])
<1>0. POOL_SIZE \in Nat \ {0} /\ HEAD \notin Pkts /\ L \subseteq Pkts
  BY PoolAssumption DEF Ring, HEAD, Pkts
<1>1. \A m \in R : step(m) \in R
  BY <1>0 DEF Ring
<1>2. \A j \in Nat : \E f : IsWalk(f, j)
  <2>. DEFINE T == {j \in Nat : \E f : IsWalk(f, j)}
  <2>1. 0 \in T
    <3>1. IsWalk([k \in 0..0 |-> nxt[HEAD]], 0)
      BY DEF Ring
    <3>. QED
      BY <3>1
  <2>2. ASSUME NEW j \in T PROVE j + 1 \in T
    <3>1. PICK f : IsWalk(f, j)
      OBVIOUS
    <3>. DEFINE g == [k \in 0..(j + 1) |-> IF k = j + 1 THEN step(f[j]) ELSE f[k]]
    <3>2. f[j] \in R
      BY <3>1
    <3>3. g \in [0..(j + 1) -> R]
      <4>1. ASSUME NEW k \in 0..(j + 1), k # j + 1 PROVE f[k] \in R
        BY <3>1, <4>1
      <4>. QED
        BY <4>1, <3>2, <1>1
    <3>4. g[0] = nxt[HEAD]
      BY <3>1
    <3>5. ASSUME NEW k \in 1..(j + 1) PROVE g[k] = step(g[k - 1])
      <4>1. CASE k = j + 1
        BY <4>1
      <4>2. CASE k \in 1..j
        BY <4>2, <3>1
      <4>. QED
        BY <4>1, <4>2
    <3>6. IsWalk(g, j + 1)
      <4>. HIDE DEF g, step
      <4>. QED
        BY <3>3, <3>4, <3>5
    <3>7. \E h : IsWalk(h, j + 1)
      <4>. HIDE DEF g, IsWalk
      <4>. QED
        BY <3>6
    <3>. QED
      <4>. HIDE DEF IsWalk
      <4>. QED
        BY <3>7
  <2>. HIDE DEF T
  <2>3. \A n \in Nat : n \in T
    BY <2>1, <2>2, InductiveSet DEF T
  <2>. QED
    BY <2>3 DEF T
<1>. DEFINE walk[k \in 0..POOL_SIZE] ==
              IF k = 0 THEN nxt[HEAD]
              ELSE IF walk[k - 1] \in Pkts THEN nxt[walk[k - 1]] ELSE walk[k - 1]
<1>3. Linked = {walk[k] : k \in 0..POOL_SIZE} \ {HEAD}
  BY DEF Linked, From
<1>4. IsWalk(walk, POOL_SIZE)
  <2>1. PICK f : IsWalk(f, POOL_SIZE)
    BY <1>0, <1>2
  <2>2. f = [k \in 0..POOL_SIZE |->
               IF k = 0 THEN nxt[HEAD]
               ELSE IF f[k - 1] \in Pkts THEN nxt[f[k - 1]] ELSE f[k - 1]]
    BY <2>1, <1>0
  <2>3. walk = [k \in 0..POOL_SIZE |->
                  IF k = 0 THEN nxt[HEAD]
                  ELSE IF walk[k - 1] \in Pkts THEN nxt[walk[k - 1]] ELSE walk[k - 1]]
    BY <2>2
  <2>4. walk[0] = nxt[HEAD]
    <3>. HIDE DEF walk
    <3>. QED
      BY <2>3, <1>0
  <2>5. ASSUME NEW k \in 1..POOL_SIZE PROVE walk[k] = step(walk[k - 1])
    <3>. HIDE DEF walk
    <3>. QED
      BY <2>3, <1>0
  <2>6. \A k \in 0..POOL_SIZE : walk[k] \in R
    <3>. DEFINE T == {k \in Nat : k <= POOL_SIZE => walk[k] \in R}
    <3>. HIDE DEF walk, step
    <3>1. 0 \in T
      BY <2>4 DEF Ring
    <3>2. ASSUME NEW k \in T PROVE k + 1 \in T
      <4>1. ASSUME k + 1 <= POOL_SIZE PROVE walk[k + 1] \in R
        <5>1. k + 1 \in 1..POOL_SIZE /\ (k + 1) - 1 = k /\ k <= POOL_SIZE
          BY <4>1, <1>0
        <5>2. walk[k] \in R
          BY <5>1
        <5>3. walk[k + 1] = step(walk[(k + 1) - 1])
          BY <2>5, <5>1
        <5>. QED
          BY <5>1, <5>2, <5>3, <1>1
      <4>. QED
        BY <4>1
    <3>. HIDE DEF T
    <3>3. \A k \in Nat : k \in T
      BY <3>1, <3>2, InductiveSet DEF T
    <3>. QED
      BY <3>3, <1>0 DEF T
  <2>7. walk \in [0..POOL_SIZE -> R]
    <3>. HIDE DEF walk
    <3>. QED
      BY <2>3, <2>6
  <2>. HIDE DEF walk, step
  <2>. QED
    BY <2>4, <2>5, <2>7
<1>. HIDE DEF walk
<1>5. \A k \in 0..POOL_SIZE : walk[k] \in R
  BY <1>4
<1>6. \A k \in Nat : k + 1 <= POOL_SIZE =>
          /\ walk[k + 1] = step(walk[k])
          /\ walk[k] \in R /\ walk[k + 1] \in R
  <2>. SUFFICES ASSUME NEW k \in Nat, k + 1 <= POOL_SIZE
                PROVE  walk[k + 1] = step(walk[k]) /\ walk[k] \in R /\ walk[k + 1] \in R
    OBVIOUS
  <2>1. k + 1 \in 1..POOL_SIZE /\ (k + 1) - 1 = k /\ k \in 0..POOL_SIZE /\ k + 1 \in 0..POOL_SIZE
    BY <1>0
  <2>2. walk[k + 1] = step(walk[(k + 1) - 1])
    BY <2>1, <1>4
  <2>. QED
    BY <2>1, <2>2, <1>5
<1>7. walk[POOL_SIZE] = HEAD
  <2>. SUFFICES ASSUME walk[POOL_SIZE] # HEAD PROVE FALSE
    OBVIOUS
  <2>1. \A k \in 0..POOL_SIZE : walk[k] # HEAD
    <3>. DEFINE T == {i \in Nat : i <= POOL_SIZE => walk[POOL_SIZE - i] # HEAD}
    <3>1. 0 \in T
      BY <1>0
    <3>2. ASSUME NEW i \in T PROVE i + 1 \in T
      <4>1. ASSUME i + 1 <= POOL_SIZE, walk[POOL_SIZE - (i + 1)] = HEAD PROVE FALSE
        <5>. DEFINE k == POOL_SIZE - (i + 1)
        <5>1. k \in Nat /\ k + 1 <= POOL_SIZE /\ k + 1 = POOL_SIZE - i /\ i <= POOL_SIZE
          BY <4>1, <1>0
        <5>2. walk[k + 1] = step(walk[k])
          BY <5>1, <1>6
        <5>3. walk[k + 1] = HEAD
          BY <5>2, <4>1, <1>0
        <5>. QED
          BY <5>1, <5>3
      <4>. QED
        BY <4>1
    <3>. HIDE DEF T
    <3>3. \A i \in Nat : i \in T
      BY <3>1, <3>2, InductiveSet DEF T
    <3>4. ASSUME NEW k \in 0..POOL_SIZE PROVE walk[k] # HEAD
      <4>1. POOL_SIZE - k \in Nat /\ POOL_SIZE - k <= POOL_SIZE
            /\ POOL_SIZE - (POOL_SIZE - k) = k
        BY <1>0
      <4>2. POOL_SIZE - k \in T
        BY <3>3, <4>1
      <4>. QED
        BY <4>1, <4>2 DEF T
    <3>. QED
      BY <3>4
  <2>2. \A j \in Nat : j <= POOL_SIZE => \A i \in 0..POOL_SIZE : i < j => r[walk[j]] < r[walk[i]]
    <3>. DEFINE T == {j \in Nat : j <= POOL_SIZE =>
                                    \A i \in 0..POOL_SIZE : i < j => r[walk[j]] < r[walk[i]]}
    <3>1. 0 \in T
      OBVIOUS
    <3>2. ASSUME NEW j \in T PROVE j + 1 \in T
      <4>1. ASSUME j + 1 <= POOL_SIZE, NEW i \in 0..POOL_SIZE, i < j + 1
            PROVE  r[walk[j + 1]] < r[walk[i]]
        <5>1. walk[j + 1] = step(walk[j]) /\ walk[j] \in R /\ walk[j + 1] \in R
          BY <4>1, <1>6
        <5>2. walk[j] # HEAD /\ walk[j + 1] # HEAD
          BY <4>1, <2>1, <1>0
        <5>3. walk[j] \in L /\ walk[j + 1] \in L /\ nxt[walk[j]] = walk[j + 1]
          BY <5>1, <5>2, <1>0
        <5>4. r[walk[j + 1]] < r[walk[j]]
          BY <5>2, <5>3 DEF Ordered
        <5>5. walk[i] \in R /\ r[walk[i]] \in Nat /\ r[walk[j]] \in Nat /\ r[walk[j + 1]] \in Nat
          BY <5>3, <1>5, <1>0 DEF Ordered, Nodes
        <5>6. CASE i = j
          BY <5>4, <5>6
        <5>7. CASE i < j
          <6>1. j \in Nat /\ j <= POOL_SIZE
            BY <4>1, <1>0
          <6>2. r[walk[j]] < r[walk[i]]
            BY <6>1, <5>7
          <6>. QED
            BY <6>2, <5>4, <5>5
        <5>. QED
          BY <4>1, <5>6, <5>7
      <4>. QED
        BY <4>1
    <3>. HIDE DEF T
    <3>3. \A j \in Nat : j \in T
      BY <3>1, <3>2, InductiveSet DEF T
    <3>. QED
      BY <3>3 DEF T
  <2>3. walk \in [0..POOL_SIZE -> Pkts]
    <3>1. \A k \in 0..POOL_SIZE : walk[k] \in Pkts
      BY <2>1, <1>5, <1>0
    <3>. QED
      BY <3>1, <1>4
  <2>4. \E i, j \in 0..POOL_SIZE : i # j /\ walk[i] = walk[j]
    <3>. HIDE DEF R, step
    <3>. QED
      BY <2>3, PacketTwice
  <2>5. PICK i \in 0..POOL_SIZE, j \in 0..POOL_SIZE : i < j /\ walk[i] = walk[j]
    BY <2>4
  <2>6. r[walk[j]] < r[walk[i]] /\ r[walk[i]] \in Nat
    BY <2>2, <2>3, <2>5 DEF Ordered, Nodes
  <2>. QED
    BY <2>5, <2>6
<1>8. Linked \subseteq L
  BY <1>3, <1>5
<1>9. ASSUME L \ Linked # {} PROVE FALSE
  <2>. DEFINE T == {r[HEAD] - r[n] : n \in L \ Linked}
  <2>1. \A n \in R : r[n] \in Nat
    BY <1>0 DEF Ordered, Nodes
  <2>2. T \subseteq Nat /\ T # {}
    BY <2>1, <1>9 DEF Ordered
  <2>3. PICK t \in T : \A u \in T : t <= u
    BY <2>2, LeastNumber
  <2>4. PICK n \in L \ Linked : t = r[HEAD] - r[n]
    OBVIOUS
  <2>5. prv[n] \in R /\ nxt[prv[n]] = n /\ n # HEAD
    BY <1>0 DEF Ring
  <2>6. prv[n] # HEAD
    <3>1. 0 \in 0..POOL_SIZE /\ walk[0] = nxt[HEAD]
      BY <1>0, <1>4
    <3>. QED
      BY <2>5, <3>1, <1>3
  <2>7. r[n] < r[prv[n]]
    BY <2>5 DEF Ordered
  <2>8. prv[n] \in Linked
    <3>. SUFFICES ASSUME prv[n] \notin Linked PROVE FALSE
      OBVIOUS
    <3>1. r[HEAD] - r[prv[n]] \in T
      BY <2>5, <2>6
    <3>2. r[HEAD] - r[n] <= r[HEAD] - r[prv[n]]
      BY <3>1, <2>3, <2>4
    <3>. QED
      BY <3>2, <2>7, <2>1, <2>5
  <2>9. PICK k \in 0..POOL_SIZE : walk[k] = prv[n]
    BY <2>8, <1>3
  <2>10. k # POOL_SIZE
    BY <2>9, <2>6, <1>7
  <2>11. k \in Nat /\ k + 1 <= POOL_SIZE /\ k + 1 \in 0..POOL_SIZE
    BY <2>10, <1>0
  <2>12. walk[k + 1] = n
    BY <2>11, <2>9, <2>5, <2>6, <1>6, <1>0
  <2>. QED
    BY <2>11, <2>12, <2>5, <1>3
<1>. QED
  BY <1>8, <1>9

-----------------------------------------------------------------------------
(***************************************************************************)
(* What the list operations make of a ring.                                *)
(***************************************************************************)
LinksOK == nxt \in [Nodes -> Nodes \cup {POISON}] /\ prv \in [Nodes -> Nodes \cup {POISON}]

\* list_add puts a packet that is not in the list in front of all others.
LEMMA AddToRing ==
  ASSUME LinksOK, NEW L, NEW r, Ring(L), Ordered(r, L), NEW n \in Pkts \ L, list_add(n)
  PROVE  /\ Ring(L \cup {n})'
         /\ Ordered([r EXCEPT ![n] = r[HEAD], ![HEAD] = r[HEAD] + 1], L \cup {n})'
<1>. DEFINE K == L \cup {n}
            s == [r EXCEPT ![n] = r[HEAD], ![HEAD] = r[HEAD] + 1]
            h == nxt[HEAD]
<1>1. HEAD \notin Pkts /\ L \subseteq Pkts /\ n # HEAD /\ h \in L \cup {HEAD} /\ h # n
  BY DEF Ring, HEAD, Pkts
<1>2. /\ nxt'[n] = h /\ nxt'[HEAD] = n
      /\ \A m \in L : nxt'[m] = nxt[m]
  BY <1>1 DEF list_add, LinksOK, Nodes
<1>3. /\ prv'[h] = n /\ prv'[n] = HEAD
      /\ \A m \in L \cup {HEAD} : m # h => prv'[m] = prv[m]
  BY <1>1 DEF list_add, LinksOK, Nodes
<1>4. K \subseteq Pkts
  BY <1>1
<1>5. \A m \in K \cup {HEAD} : nxt'[m] \in K \cup {HEAD} /\ prv'[m] \in K \cup {HEAD}
  BY <1>1, <1>2, <1>3 DEF Ring
<1>6. \A m \in K \cup {HEAD} : prv'[nxt'[m]] = m /\ nxt'[prv'[m]] = m
  <2>1. prv'[nxt'[n]] = n /\ nxt'[prv'[n]] = n /\ prv'[nxt'[HEAD]] = HEAD
    BY <1>2, <1>3
  <2>2. ASSUME NEW m \in L PROVE prv'[nxt'[m]] = m
    <3>1. nxt[m] # h
      BY <1>1 DEF Ring
    <3>. QED
      BY <3>1, <1>2, <1>3 DEF Ring
  <2>3. ASSUME NEW m \in L \cup {HEAD} PROVE nxt'[prv'[m]] = m
    <3>1. CASE m = h
      BY <3>1, <1>2, <1>3
    <3>2. CASE m # h
      <4>1. prv[m] # HEAD /\ prv[m] \in L
        BY <3>2 DEF Ring
      <4>. QED
        BY <3>2, <4>1, <1>2, <1>3 DEF Ring
    <3>. QED
      BY <3>1, <3>2
  <2>. QED
    BY <2>1, <2>2, <2>3
<1>7. Ring(K)'
  BY <1>4, <1>5, <1>6 DEF Ring
<1>8. /\ s \in [Nodes -> Nat]
      /\ s[n] = r[HEAD] /\ s[HEAD] = r[HEAD] + 1
      /\ \A m \in L : s[m] = r[m] /\ r[m] \in Nat /\ r[m] < r[HEAD]
      /\ r[HEAD] \in Nat
  BY <1>1 DEF Ordered, Nodes
<1>9. Ordered(s, K)'
  <2>. HIDE DEF s
  <2>1. /\ \A m \in K : s[m] < s[HEAD]
        /\ \A m, k \in K : s[m] = s[k] => m = k
    BY <1>1, <1>8 DEF Ordered
  <2>2. ASSUME NEW m \in K \cup {HEAD}, nxt'[m] # HEAD PROVE s[nxt'[m]] < s[m]
    BY <2>2, <1>1, <1>2, <1>8 DEF Ordered, Ring
  <2>3. ASSUME NEW m \in K \cup {HEAD}, NEW k \in K, s[k] < s[m]
        PROVE  nxt'[m] # HEAD /\ s[k] <= s[nxt'[m]]
    <3>1. CASE m = HEAD
      BY <3>1, <1>1, <1>2, <1>8
    <3>2. CASE m = n
      <4>1. k \in L /\ r[k] < r[HEAD]
        BY <2>3, <3>2, <1>8
      <4>2. h # HEAD /\ r[k] <= r[h] /\ h \in L
        BY <4>1, <1>1 DEF Ordered
      <4>. QED
        BY <3>2, <4>1, <4>2, <1>2, <1>8
    <3>3. CASE m \in L
      <4>1. k \in L /\ r[k] < r[m]
        BY <2>3, <3>3, <1>8
      <4>2. nxt[m] # HEAD /\ r[k] <= r[nxt[m]] /\ nxt[m] \in L
        BY <4>1, <3>3 DEF Ordered, Ring
      <4>. QED
        BY <3>3, <4>1, <4>2, <1>2, <1>8
    <3>. QED
      BY <3>1, <3>2, <3>3
  <2>. QED
    BY <1>8, <2>1, <2>2, <2>3 DEF Ordered
<1>. QED
  BY <1>7, <1>9

\* list_del with loads that are up to date takes its packet out and no other.
LEMMA RemoveFromRing ==
  ASSUME LinksOK, NEW L, NEW r, Ring(L), Ordered(r, L), p \in L,
         dprev \in L \cup {HEAD}, nxt[dprev] = p, dnext = nxt[p],
         nxt' = [nxt EXCEPT ![dprev] = dnext, ![p] = POISON],
         prv' = [prv EXCEPT ![dnext] = dprev, ![p] = POISON], UNCHANGED p
  PROVE  \A K : K = L \ {p} => Ring(K)' /\ Ordered(r, K)'
<1>. SUFFICES ASSUME NEW K, K = L \ {p} PROVE Ring(K)' /\ Ordered(r, K)'
  OBVIOUS
<1>1. /\ HEAD \notin Pkts /\ L \subseteq Pkts /\ p # HEAD /\ dnext \in L \cup {HEAD}
      /\ prv[p] = dprev /\ K \subseteq L
  BY DEF Ring, HEAD, Pkts
<1>2. dprev # p /\ dnext # p
  <2>1. dnext # HEAD => r[dnext] < r[p]
    BY DEF Ordered
  <2>2. r[p] \in Nat
    BY <1>1 DEF Ordered, Nodes
  <2>. QED
    BY <1>1, <2>1, <2>2
<1>3. /\ nxt'[dprev] = dnext
      /\ \A m \in K \cup {HEAD} : m # dprev => nxt'[m] = nxt[m]
  BY <1>1, <1>2 DEF LinksOK, Nodes
<1>4. /\ prv'[dnext] = dprev
      /\ \A m \in K \cup {HEAD} : m # dnext => prv'[m] = prv[m]
  BY <1>1, <1>2 DEF LinksOK, Nodes
<1>5. dprev \in K \cup {HEAD} /\ dnext \in K \cup {HEAD}
  BY <1>1, <1>2
<1>6. ASSUME NEW m \in K \cup {HEAD}
      PROVE  /\ nxt'[m] \in K \cup {HEAD} /\ prv'[m] \in K \cup {HEAD}
             /\ prv'[nxt'[m]] = m /\ nxt'[prv'[m]] = m
  <2>1. m \in L \cup {HEAD} /\ m # p
    BY <1>1
  <2>2. m # dprev => /\ nxt[m] \in K \cup {HEAD} /\ nxt[m] # dnext
                     /\ prv[nxt[m]] = m
    BY <2>1, <1>1 DEF Ring
  <2>3. m # dnext => /\ prv[m] \in K \cup {HEAD} /\ prv[m] # dprev
                     /\ nxt[prv[m]] = m
    BY <2>1, <1>1 DEF Ring
  <2>4. m # dprev => nxt'[m] = nxt[m] /\ prv'[nxt[m]] = prv[nxt[m]]
    BY <2>2, <1>3, <1>4
  <2>5. m # dnext => prv'[m] = prv[m] /\ nxt'[prv[m]] = nxt[prv[m]]
    BY <2>3, <1>3, <1>4
  <2>6. nxt'[m] \in K \cup {HEAD} /\ prv'[nxt'[m]] = m
    BY <2>2, <2>4, <1>3, <1>4, <1>5
  <2>7. prv'[m] \in K \cup {HEAD} /\ nxt'[prv'[m]] = m
    BY <2>3, <2>5, <1>3, <1>4, <1>5
  <2>. QED
    BY <2>6, <2>7
<1>7. Ring(K)'
  BY <1>1, <1>6 DEF Ring
<1>8. \A m \in L \cup {HEAD} : r[m] \in Nat
  BY <1>1 DEF Ordered, Nodes
<1>9. Ordered(r, K)'
  <2>1. ASSUME NEW m \in K \cup {HEAD}, nxt'[m] # HEAD PROVE r[nxt'[m]] < r[m]
    <3>1. CASE m = dprev
      <4>1. r[dnext] < r[p] /\ r[p] < r[dprev]
        BY <2>1, <3>1, <1>1, <1>3 DEF Ordered
      <4>. QED
        BY <3>1, <4>1, <1>3, <1>1, <1>8
    <3>2. CASE m # dprev
      BY <2>1, <3>2, <1>1, <1>3 DEF Ordered
    <3>. QED
      BY <3>1, <3>2
  <2>2. ASSUME NEW m \in K \cup {HEAD}, NEW k \in K, r[k] < r[m]
        PROVE  nxt'[m] # HEAD /\ r[k] <= r[nxt'[m]]
    <3>1. k \in L /\ k # p /\ m \in L \cup {HEAD}
      BY <1>1
    <3>2. nxt[m] # HEAD /\ r[k] <= r[nxt[m]]
      BY <3>1, <2>2 DEF Ordered
    <3>3. CASE m = dprev
      <4>1. r[k] <= r[p] /\ r[k] # r[p]
        BY <3>1, <3>2, <3>3 DEF Ordered
      <4>2. r[k] < r[p]
        BY <4>1, <3>1, <1>8
      <4>3. nxt[p] # HEAD /\ r[k] <= r[nxt[p]]
        BY <4>2, <3>1 DEF Ordered
      <4>. QED
        BY <4>3, <3>3, <1>3
    <3>4. CASE m # dprev
      BY <3>2, <3>4, <1>3
    <3>. QED
      BY <3>3, <3>4
  <2>. QED
    BY <2>1, <2>2, <1>1 DEF Ordered
<1>. QED
  BY <1>7, <1>9

\* list_del with the list head for the previous node, loaded before packets
\* were put in front, makes a ring of what comes after its packet.
LEMMA CutRing ==
  ASSUME LinksOK, NEW L, NEW r, Ring(L), Ordered(r, L), p \in L,
         dprev = HEAD, dnext = nxt[p],
         nxt' = [nxt EXCEPT ![dprev] = dnext, ![p] = POISON],
         prv' = [prv EXCEPT ![dnext] = dprev, ![p] = POISON], UNCHANGED p
  PROVE  \A K : K = {n \in L : r[n] < r[p]} => Ring(K)' /\ Ordered(r, K)'
<1>. SUFFICES ASSUME NEW K, K = {n \in L : r[n] < r[p]} PROVE Ring(K)' /\ Ordered(r, K)'
  OBVIOUS
<1>1. /\ HEAD \notin Pkts /\ L \subseteq Pkts /\ p # HEAD /\ dnext \in L \cup {HEAD}
      /\ \A m \in L \cup {HEAD} : r[m] \in Nat
      /\ K \subseteq L /\ p \notin K
  BY DEF Ring, Ordered, HEAD, Pkts, Nodes
<1>2. dnext # HEAD => r[dnext] < r[p]
  BY DEF Ordered
<1>3. dnext \in K \cup {HEAD} /\ dnext # p
  BY <1>1, <1>2
<1>4. /\ nxt'[HEAD] = dnext
      /\ \A m \in K : nxt'[m] = nxt[m]
  BY <1>1 DEF LinksOK, Nodes
<1>5. /\ prv'[dnext] = HEAD
      /\ \A m \in K \cup {HEAD} : m # dnext => prv'[m] = prv[m]
  BY <1>1, <1>3 DEF LinksOK, Nodes
<1>6. ASSUME NEW m \in K PROVE nxt[m] \in K \cup {HEAD} /\ nxt[m] # dnext /\ prv[nxt[m]] = m
  <2>1. nxt[m] \in L \cup {HEAD} /\ prv[nxt[m]] = m
    BY <1>1 DEF Ring
  <2>2. nxt[m] # dnext
    <3>1. prv[dnext] = p
      BY DEF Ring
    <3>. QED
      BY <3>1, <2>1, <1>1
  <2>3. nxt[m] # HEAD => r[nxt[m]] < r[m]
    BY <1>1 DEF Ordered
  <2>. QED
    BY <2>1, <2>2, <2>3, <1>1
<1>7. ASSUME NEW m \in K \cup {HEAD}, m # dnext
      PROVE  prv[m] \in K /\ nxt[prv[m]] = m
  <2>1. prv[m] \in L \cup {HEAD} /\ nxt[prv[m]] = m
    BY <1>1 DEF Ring
  <2>2. prv[m] # p
    BY <2>1, <1>7
  <2>3. ~(r[p] < r[prv[m]])
    <3>. SUFFICES ASSUME r[p] < r[prv[m]] PROVE FALSE
      OBVIOUS
    <3>1. nxt[prv[m]] # HEAD /\ r[p] <= r[nxt[prv[m]]]
      BY <2>1 DEF Ordered
    <3>2. m \in K /\ r[p] <= r[m]
      BY <3>1, <2>1
    <3>. QED
      BY <3>2, <1>1
  <2>4. r[p] < r[HEAD]
    BY DEF Ordered
  <2>5. prv[m] \in L
    BY <2>1, <2>3, <2>4
  <2>6. r[prv[m]] # r[p]
    BY <2>5, <2>2 DEF Ordered
  <2>7. r[prv[m]] < r[p]
    BY <2>3, <2>5, <2>6, <1>1
  <2>. QED
    BY <2>1, <2>5, <2>7
<1>8. ASSUME NEW m \in K \cup {HEAD}
      PROVE  /\ nxt'[m] \in K \cup {HEAD} /\ prv'[m] \in K \cup {HEAD}
             /\ prv'[nxt'[m]] = m /\ nxt'[prv'[m]] = m
  <2>1. nxt'[m] \in K \cup {HEAD} /\ prv'[nxt'[m]] = m
    <3>1. CASE m = HEAD
      BY <3>1, <1>3, <1>4, <1>5
    <3>2. CASE m \in K
      <4>1. nxt[m] \in K \cup {HEAD} /\ nxt[m] # dnext /\ prv[nxt[m]] = m
        BY <3>2, <1>6
      <4>2. nxt'[m] = nxt[m] /\ prv'[nxt[m]] = prv[nxt[m]]
        BY <3>2, <4>1, <1>4, <1>5
      <4>. QED
        BY <4>1, <4>2
    <3>. QED
      BY <3>1, <3>2
  <2>2. prv'[m] \in K \cup {HEAD} /\ nxt'[prv'[m]] = m
    <3>1. CASE m = dnext
      BY <3>1, <1>4, <1>5
    <3>2. CASE m # dnext
      <4>1. prv[m] \in K /\ nxt[prv[m]] = m
        BY <3>2, <1>7
      <4>2. prv'[m] = prv[m] /\ nxt'[prv[m]] = nxt[prv[m]]
        BY <3>2, <4>1, <1>4, <1>5
      <4>. QED
        BY <4>1, <4>2
    <3>. QED
      BY <3>1, <3>2
  <2>. QED
    BY <2>1, <2>2
<1>9. Ring(K)'
  BY <1>1, <1>8 DEF Ring
<1>10. Ordered(r, K)'
  <2>1. ASSUME NEW m \in K \cup {HEAD}, nxt'[m] # HEAD PROVE r[nxt'[m]] < r[m]
    <3>1. CASE m = HEAD
      <4>1. r[dnext] < r[HEAD]
        BY <2>1, <3>1, <1>1, <1>4 DEF Ordered
      <4>. QED
        BY <4>1, <3>1, <1>4
    <3>2. CASE m \in K
      BY <2>1, <3>2, <1>1, <1>4 DEF Ordered
    <3>. QED
      BY <3>1, <3>2
  <2>2. ASSUME NEW m \in K \cup {HEAD}, NEW k \in K, r[k] < r[m]
        PROVE  nxt'[m] # HEAD /\ r[k] <= r[nxt'[m]]
    <3>1. CASE m = HEAD
      <4>1. nxt[p] # HEAD /\ r[k] <= r[nxt[p]]
        BY <1>1 DEF Ordered
      <4>. QED
        BY <4>1, <3>1, <1>4
    <3>2. CASE m \in K
      BY <2>2, <3>2, <1>1, <1>4 DEF Ordered
    <3>. QED
      BY <3>1, <3>2
  <2>. QED
    BY <2>1, <2>2, <1>1 DEF Ordered
<1>. QED
  BY <1>9, <1>10

-----------------------------------------------------------------------------
(***************************************************************************)
(* The inductive invariant.                                                *)
(***************************************************************************)
\* A packet is in the pool once, or in the list.
PoolInv ==
  /\ \A i, j \in DOMAIN pool : pool[i] = pool[j] => i = j
  /\ InPool \cap Linked = {}

\* Where the tasklet is.  What list_del loaded is up to date, unless packets
\* were put between the list head and its packet.
Cursor ==
  /\ pc # "idle" => p \in Pkts /\ p \notin InPool
  /\ pc \in {"build", "del", "relink"} => p \in Linked /\ tmp = nxt[p]
  /\ pc = "relink" =>
       /\ dnext = nxt[p]
       /\ \/ dprev \in Linked \cup {HEAD} /\ nxt[dprev] = p
          \/ dprev = HEAD /\ hits > 0
  /\ pc = "put" => p \notin Linked /\ tmp \in Linked \cup {HEAD}

\* The packets that carry a frame, and the one whose frame is counted already.
Out == Pkts \ InPool
Counted == IF pc \in {"del", "relink", "put"} THEN {p} ELSE {}

\* Frames are told apart by their numbers, in packets and on the stack.
Frames ==
  /\ \A n \in Out : frame[n] \in 1..rxed \ starved
  /\ \A m, n \in Out : frame[m] = frame[n] => m = n
  /\ \A i \in DOMAIN passed : passed[i] \in 1..rxed \ starved
  /\ \A i, j \in DOMAIN passed : passed[i] = passed[j] => i = j
  /\ \A n \in Out \ Counted, i \in DOMAIN passed : passed[i] # frame[n]
  /\ starved \subseteq 1..rxed

Books == rxed = rx_packets + rx_dropped + Cardinality(Out \ Counted)

NoneLost == hits = 0 => Lost = {}

IInv == TypeOK /\ ListInv /\ PoolInv /\ Cursor /\ Frames /\ Books /\ NoneLost

-----------------------------------------------------------------------------
(***************************************************************************)
(* What each step does to the list.                                        *)
(***************************************************************************)
\* The constants.
LEMMA Consts ==
  /\ POOL_SIZE \in Nat \ {0} /\ MaxRx \in Nat
  /\ Pkts = 1..POOL_SIZE /\ HEAD \notin Pkts /\ POISON \notin Nodes /\ HEAD # POISON
  /\ Nodes = Pkts \cup {HEAD} /\ HEAD \in Nodes /\ Pkts \subseteq Nat
  /\ IsFiniteSet(Pkts) /\ Cardinality(Pkts) = POOL_SIZE
  BY PoolAssumption, FS_Interval DEF Pkts, Nodes, HEAD, POISON

\* WalkMeetsRing in the next state.
LEMMA WalkMeetsRingNext == \A L, r : Ring(L)' /\ Ordered(r, L)' => Linked' = L
<1>1. (\A L, r : Ring(L) /\ Ordered(r, L) => Linked = L)'
  BY WalkMeetsRing, PTL
<1>. QED
  BY <1>1

\* A step that changes no link leaves the list as it is.
LEMMA SameList == ListInv /\ UNCHANGED <<nxt, prv>> => ListInv' /\ Linked' = Linked
<1>. SUFFICES ASSUME ListInv, UNCHANGED <<nxt, prv>> PROVE ListInv' /\ Linked' = Linked
  OBVIOUS
<1>1. PICK L, r : L = Linked /\ Ring(L) /\ Ordered(r, L)
  BY DEF ListInv
<1>2. Ring(L)' /\ Ordered(r, L)'
  BY <1>1 DEF Ring, Ordered
<1>3. Linked' = L
  BY <1>2, WalkMeetsRingNext
<1>. QED
  BY <1>1, <1>2, <1>3 DEF ListInv

\* The list of a ring has packets only, and links lead from them to others
\* or to the list head.
LEMMA ListFacts ==
  ASSUME ListInv
  PROVE  /\ Linked \subseteq Pkts
         /\ \A n \in Linked \cup {HEAD} : nxt[n] \in Linked \cup {HEAD}
         /\ \A n \in Linked : nxt[n] # n
<1>1. PICK r : Ring(Linked) /\ Ordered(r, Linked)
  BY DEF ListInv
<1>2. \A n \in Linked : r[n] \in Nat /\ n # HEAD
  BY <1>1, Consts DEF Ring, Ordered
<1>3. ASSUME NEW n \in Linked, nxt[n] = n PROVE FALSE
  BY <1>1, <1>2, <1>3 DEF Ordered
<1>. QED
  BY <1>1, <1>3 DEF Ring

\* The interrupt links the first packet of the pool.
LEMMA IrqList ==
  ASSUME TypeOK, ListInv, PoolInv, IrqRx
  PROVE  ListInv' /\ Linked' = Linked \cup {pool[1]} /\ pool[1] \in Pkts \ Linked
<1>1. pool[1] \in Pkts /\ pool[1] \in InPool
  BY DEF IrqRx, TypeOK, InPool
<1>2. pool[1] \notin Linked
  BY <1>1 DEF PoolInv
<1>3. PICK L, r, n : L = Linked /\ n = pool[1] /\ Ring(L) /\ Ordered(r, L)
  BY DEF ListInv
<1>4. list_add(n) /\ LinksOK /\ n \in Pkts \ L
  BY <1>1, <1>2, <1>3 DEF IrqRx, TypeOK, LinksOK
<1>. DEFINE s == [r EXCEPT ![n] = r[HEAD], ![HEAD] = r[HEAD] + 1]
<1>5. Ring(L \cup {n})' /\ Ordered(s, L \cup {n})'
  BY <1>3, <1>4, AddToRing
<1>. HIDE DEF s
<1>6. Linked' = L \cup {n}
  BY <1>5, WalkMeetsRingNext
<1>7. ListInv'
  BY <1>5, <1>6 DEF ListInv
<1>. QED
  BY <1>1, <1>2, <1>3, <1>6, <1>7

\* list_del takes out its packet, alone when no interrupt came in between.
LEMMA DelList ==
  ASSUME TypeOK, ListInv, Cursor, DelStore
  PROVE  /\ ListInv' /\ Linked' \subseteq Linked \ {p}
         /\ tmp \in Linked' \cup {HEAD}
         /\ hits = 0 => Linked' = Linked \ {p}
<1>1. PICK L, r : L = Linked /\ Ring(L) /\ Ordered(r, L)
  BY DEF ListInv
<1>2. /\ LinksOK /\ p \in L /\ dnext = nxt[p] /\ tmp = nxt[p]
      /\ nxt' = [nxt EXCEPT ![dprev] = dnext, ![p] = POISON]
      /\ prv' = [prv EXCEPT ![dnext] = dprev, ![p] = POISON] /\ p' = p
      /\ \/ dprev \in L \cup {HEAD} /\ nxt[dprev] = p
         \/ dprev = HEAD /\ hits > 0
  <2>1. pc = "relink" /\ UNCHANGED <<pool, frame, sched, cursor>>
    BY DEF DelStore
  <2>2. p' = p
    BY <2>1 DEF cursor
  <2>3. LinksOK
    BY DEF TypeOK, LinksOK
  <2>4. /\ nxt' = [nxt EXCEPT ![dprev] = dnext, ![p] = POISON]
        /\ prv' = [prv EXCEPT ![dnext] = dprev, ![p] = POISON]
    BY DEF DelStore
  <2>5. /\ p \in Linked /\ tmp = nxt[p] /\ dnext = nxt[p]
        /\ \/ dprev \in Linked \cup {HEAD} /\ nxt[dprev] = p
           \/ dprev = HEAD /\ hits > 0
    BY <2>1 DEF Cursor
  <2>. QED
    BY <1>1, <2>2, <2>3, <2>4, <2>5
<1>3. tmp \in L \cup {HEAD} /\ tmp # p /\ (tmp # HEAD => r[tmp] < r[p])
  BY <1>1, <1>2, ListFacts, Consts DEF Ordered
<1>4. CASE dprev \in L \cup {HEAD} /\ nxt[dprev] = p
  <2>1. PICK K : K = L \ {p}
    OBVIOUS
  <2>2. Ring(K)' /\ Ordered(r, K)'
    BY <1>1, <1>2, <1>4, <2>1, RemoveFromRing
  <2>3. Linked' = K
    BY <2>2, WalkMeetsRingNext
  <2>4. ListInv'
    BY <2>2, <2>3 DEF ListInv
  <2>. QED
    BY <1>1, <1>3, <2>1, <2>3, <2>4
<1>5. CASE dprev = HEAD /\ hits > 0
  <2>1. PICK K : K = {n \in L : r[n] < r[p]}
    OBVIOUS
  <2>2. Ring(K)' /\ Ordered(r, K)'
    BY <1>1, <1>2, <1>5, <2>1, CutRing
  <2>3. Linked' = K
    BY <2>2, WalkMeetsRingNext
  <2>4. ListInv'
    BY <2>2, <2>3 DEF ListInv
  <2>5. hits # 0
    BY <1>5
  <2>6. p \notin K
    BY <1>1, <1>2, <2>1, Consts DEF Ordered, Ring
  <2>7. tmp \in K \cup {HEAD}
    BY <1>3, <2>1
  <2>. QED
    BY <1>1, <2>1, <2>3, <2>4, <2>5, <2>6, <2>7
<1>. QED
  BY <1>2, <1>4, <1>5

-----------------------------------------------------------------------------
(***************************************************************************)
(* The pool, the cursor and the lost packets.                              *)
(***************************************************************************)
\* pool_get takes the first packet out of the pool.
LEMMA PoolGet ==
  ASSUME pool \in Seq(Pkts), pool # <<>>, pool' = Tail(pool),
         \A i, j \in DOMAIN pool : pool[i] = pool[j] => i = j
  PROVE  /\ pool' \in Seq(Pkts) /\ InPool' = InPool \ {pool[1]} /\ pool[1] \in InPool
         /\ \A i, j \in DOMAIN pool' : pool'[i] = pool'[j] => i = j
<1>1. /\ Len(pool) \in Nat \ {0} /\ DOMAIN pool = 1..Len(pool)
      /\ pool' \in Seq(Pkts) /\ DOMAIN pool' = 1..(Len(pool) - 1)
      /\ \A i \in 1..(Len(pool) - 1) : pool'[i] = pool[i + 1]
  OBVIOUS
<1>2. \A i, j \in DOMAIN pool' : pool'[i] = pool'[j] => i = j
  <2>. SUFFICES ASSUME NEW i \in DOMAIN pool', NEW j \in DOMAIN pool', pool'[i] = pool'[j]
                PROVE  i = j
    OBVIOUS
  <2>1. /\ i + 1 \in DOMAIN pool /\ j + 1 \in DOMAIN pool /\ pool[i + 1] = pool[j + 1]
        /\ i \in Nat /\ j \in Nat
    BY <1>1
  <2>2. i + 1 = j + 1
    BY <2>1
  <2>. QED
    BY <2>1, <2>2
<1>3. InPool' \subseteq InPool \ {pool[1]}
  <2>. SUFFICES ASSUME NEW i \in DOMAIN pool' PROVE pool'[i] \in InPool \ {pool[1]}
    BY DEF InPool
  <2>1. i + 1 \in DOMAIN pool /\ 1 \in DOMAIN pool /\ i + 1 # 1 /\ pool'[i] = pool[i + 1]
    BY <1>1
  <2>2. pool[i + 1] # pool[1]
    BY <2>1
  <2>. QED
    BY <2>1, <2>2 DEF InPool
<1>4. InPool \ {pool[1]} \subseteq InPool'
  <2>. SUFFICES ASSUME NEW i \in DOMAIN pool, pool[i] # pool[1] PROVE pool[i] \in InPool'
    BY DEF InPool
  <2>1. i - 1 \in DOMAIN pool' /\ pool'[i - 1] = pool[i]
    BY <1>1
  <2>. QED
    BY <2>1 DEF InPool
<1>. QED
  BY <1>1, <1>2, <1>3, <1>4 DEF InPool

\* pool_put puts a packet in front of the pool.
LEMMA PoolPut ==
  ASSUME pool \in Seq(Pkts), p \in Pkts \ InPool, pool' = <<p>> \o pool,
         \A i, j \in DOMAIN pool : pool[i] = pool[j] => i = j
  PROVE  /\ pool' \in Seq(Pkts) /\ InPool' = InPool \cup {p}
         /\ \A i, j \in DOMAIN pool' : pool'[i] = pool'[j] => i = j
<1>1. /\ Len(pool) \in Nat /\ DOMAIN pool = 1..Len(pool)
      /\ pool' \in Seq(Pkts) /\ DOMAIN pool' = 1..(Len(pool) + 1)
      /\ pool'[1] = p
      /\ \A i \in 1..(Len(pool) + 1) : i # 1 => pool'[i] = pool[i - 1]
  OBVIOUS
<1>2. \A i \in DOMAIN pool' : i # 1 => i - 1 \in DOMAIN pool /\ pool'[i] = pool[i - 1]
  BY <1>1
<1>3. \A i \in DOMAIN pool : pool[i] # p
  BY DEF InPool
<1>4. \A i, j \in DOMAIN pool' : pool'[i] = pool'[j] => i = j
  <2>. SUFFICES ASSUME NEW i \in DOMAIN pool', NEW j \in DOMAIN pool', pool'[i] = pool'[j]
                PROVE  i = j
    OBVIOUS
  <2>1. CASE i = 1 \/ j = 1
    BY <2>1, <1>1, <1>2, <1>3
  <2>2. CASE i # 1 /\ j # 1
    <3>1. i - 1 = j - 1
      BY <2>2, <1>2
    <3>. QED
      BY <3>1, <1>1
  <2>. QED
    BY <2>1, <2>2
<1>5. InPool' \subseteq InPool \cup {p}
  BY <1>1, <1>2 DEF InPool
<1>6. InPool \subseteq InPool'
  <2>. SUFFICES ASSUME NEW i \in DOMAIN pool PROVE pool[i] \in InPool'
    BY DEF InPool
  <2>1. i + 1 \in DOMAIN pool' /\ i + 1 # 1 /\ (i + 1) - 1 = i
    BY <1>1
  <2>2. pool'[i + 1] = pool[i]
    BY <2>1, <1>2
  <2>. QED
    BY <2>1, <2>2 DEF InPool
<1>7. p \in InPool'
  BY <1>1 DEF InPool
<1>. QED
  BY <1>1, <1>4, <1>5, <1>6, <1>7

\* The loop arrives at a packet of the list or at its head.
LEMMA VisitCursor ==
  ASSUME ListInv, PoolInv', UNCHANGED <<nxt, prv>>, NEW n \in Linked \cup {HEAD}, Visit(n)
  PROVE  /\ Cursor' /\ {p', tmp'} \subseteq Nodes /\ pc' \in {"idle", "build"}
         /\ Linked' = Linked /\ ListInv'
         /\ Busy' \subseteq Linked /\ Counted' = {} /\ p' = n
<1>1. Linked' = Linked /\ ListInv'
  BY SameList
<1>2. /\ p' = n /\ pc' \in {"idle", "build"}
      /\ n = HEAD => tmp' = HEAD /\ pc' = "idle"
      /\ n # HEAD => tmp' = nxt[n] /\ pc' = "build"
  BY DEF Visit
<1>3. n # HEAD => n \in Linked /\ n \in Pkts /\ nxt[n] \in Nodes /\ n \notin InPool'
  BY <1>1, ListFacts, Consts DEF PoolInv
<1>4. Cursor'
  BY <1>1, <1>2, <1>3 DEF Cursor
<1>5. Busy' \subseteq Linked /\ Counted' = {}
  BY <1>2, <1>3 DEF Busy, Counted
<1>6. {p', tmp'} \subseteq Nodes
  BY <1>2, <1>3, Consts
<1>. QED
  BY <1>1, <1>2, <1>4, <1>5, <1>6

\* Sets of packets are finite, and one packet more or less counts for one.
LEMMA OutCard ==
  ASSUME NEW S, S \subseteq Pkts
  PROVE  /\ IsFiniteSet(S) /\ Cardinality(S) \in Nat
         /\ \A n \in Pkts \ S : Cardinality(S \cup {n}) = Cardinality(S) + 1
         /\ \A n \in S : Cardinality(S \ {n}) = Cardinality(S) - 1
<1>1. IsFiniteSet(S)
  BY Consts, FS_Subset
<1>. QED
  BY <1>1, FS_CardinalityType, FS_AddElement, FS_RemoveElement

-----------------------------------------------------------------------------
(***************************************************************************)
(* The invariant is inductive.                                             *)
(***************************************************************************)
\* All packets are in the pool.
LEMMA InitIInv == Init => IInv
<1>. SUFFICES ASSUME Init PROVE IInv
  OBVIOUS
<1>. USE Consts
<1>1. /\ pool \in Seq(Pkts) /\ DOMAIN pool = Pkts
      /\ \A i \in Pkts : pool[i] = POOL_SIZE + 1 - i /\ pool[i] \in Pkts
  BY DEF Init
<1>2. InPool = Pkts
  <2>1. ASSUME NEW n \in Pkts PROVE n \in InPool
    <3>1. POOL_SIZE + 1 - n \in Pkts /\ POOL_SIZE + 1 - (POOL_SIZE + 1 - n) = n
      OBVIOUS
    <3>2. pool[POOL_SIZE + 1 - n] = n
      BY <3>1, <1>1
    <3>. QED
      BY <3>1, <3>2, <1>1 DEF InPool
  <2>. QED
    BY <2>1, <1>1 DEF InPool
<1>3. TypeOK
  <2>1. {p, tmp} \subseteq Nodes /\ {dprev, dnext} \subseteq Nodes \cup {POISON}
    BY DEF Init
  <2>2. nxt \in [Nodes -> Nodes \cup {POISON}] /\ prv \in [Nodes -> Nodes \cup {POISON}]
    BY DEF Init
  <2>3. frame \in [Pkts -> 0..MaxRx] /\ passed \in Seq(1..MaxRx) /\ starved \subseteq 1..MaxRx
    BY DEF Init
  <2>4. sched \in BOOLEAN /\ pc \in {"idle", "build", "del", "relink", "put"}
    BY DEF Init
  <2>5. rxed \in 0..MaxRx /\ rx_packets \in Nat /\ rx_dropped \in Nat /\ hits \in Nat
    BY DEF Init
  <2>. QED
    BY <1>1, <2>1, <2>2, <2>3, <2>4, <2>5 DEF TypeOK
<1>4. Linked = {} /\ ListInv
  <2>. DEFINE r == [n \in Nodes |-> 0]
  <2>1. Ring({})
    BY DEF Ring, Init
  <2>2. Ordered(r, {})
    BY DEF Ordered, Init
  <2>. HIDE DEF r
  <2>3. Linked = {}
    BY <2>1, <2>2, WalkMeetsRing
  <2>. QED
    BY <2>1, <2>2, <2>3 DEF ListInv
<1>5. PoolInv
  BY <1>1, <1>4 DEF PoolInv
<1>6. Cursor
  BY DEF Cursor, Init
<1>7. Out = {} /\ Frames
  BY <1>2 DEF Out, Frames, Init
<1>8. Books
  BY <1>7, FS_EmptySet DEF Books, Init
<1>9. NoneLost
  BY <1>2 DEF NoneLost, Lost
<1>. QED
  BY <1>3, <1>4, <1>5, <1>6, <1>7, <1>8, <1>9 DEF IInv

\* irq_rx_handler with a packet.
LEMMA IrqRxStep == ASSUME IInv, IrqRx PROVE IInv'
<1>. DEFINE x == pool[1]
<1>. USE Consts DEF IInv
<1>1. /\ ListInv' /\ Linked' = Linked \cup {x} /\ x \in Pkts \ Linked
      /\ pool # <<>> /\ pool' = Tail(pool)
  BY IrqList DEF IrqRx
<1>2. /\ pool' \in Seq(Pkts) /\ InPool' = InPool \ {x} /\ x \in InPool
      /\ \A i, j \in DOMAIN pool' : pool'[i] = pool'[j] => i = j
  BY <1>1, PoolGet DEF TypeOK, PoolInv
<1>3. PoolInv'
  BY <1>1, <1>2 DEF PoolInv
<1>4. /\ UNCHANGED <<pc, p, tmp, dprev, dnext>>
      /\ UNCHANGED <<rx_packets, rx_dropped, passed, starved>>
      /\ rxed' = rxed + 1 /\ rxed < MaxRx
      /\ frame' = [frame EXCEPT ![x] = rxed + 1]
      /\ hits' = IF pc = "relink" THEN hits + 1 ELSE hits
      /\ hits \in Nat /\ rxed \in Nat
  BY DEF IrqRx, cursor, TypeOK
<1>5. TypeOK'
  <2>1. nxt' \in [Nodes -> Nodes \cup {POISON}] /\ prv' \in [Nodes -> Nodes \cup {POISON}]
    BY <1>1 DEF IrqRx, list_add, TypeOK
  <2>2. rxed + 1 \in 0..MaxRx
    BY <1>4
  <2>3. frame' \in [Pkts -> 0..MaxRx]
    BY <2>2, <1>4 DEF TypeOK
  <2>4. sched' \in BOOLEAN
    BY DEF IrqRx
  <2>5. hits' \in Nat
    BY <1>4
  <2>6. /\ pc' \in {"idle", "build", "del", "relink", "put"}
        /\ {p', tmp'} \subseteq Nodes /\ {dprev', dnext'} \subseteq Nodes \cup {POISON}
        /\ rx_packets' \in Nat /\ rx_dropped' \in Nat
        /\ passed' \in Seq(1..MaxRx) /\ starved' \subseteq 1..MaxRx
    BY <1>4 DEF TypeOK
  <2>. QED
    BY <2>1, <2>2, <2>3, <2>4, <2>5, <2>6, <1>2, <1>4 DEF TypeOK
<1>6. Cursor'
  <2>1. nxt'[HEAD] = x /\ \A n \in Linked : nxt'[n] = nxt[n]
    BY <1>1, ListFacts DEF IrqRx, list_add, TypeOK
  <2>2. pc \in {"build", "del", "relink"} => p \in Linked' /\ tmp = nxt'[p]
    BY <2>1, <1>1 DEF Cursor
  <2>3. pc = "relink" =>
          /\ dnext = nxt'[p]
          /\ \/ dprev \in Linked' \cup {HEAD} /\ nxt'[dprev] = p
             \/ dprev = HEAD /\ hits' > 0
    BY <2>1, <1>1, <1>4 DEF Cursor
  <2>4. pc = "put" => p \notin Linked' /\ tmp \in Linked' \cup {HEAD}
    BY <1>1, <1>2 DEF Cursor
  <2>5. pc # "idle" => p \in Pkts /\ p \notin InPool'
    BY <1>2 DEF Cursor
  <2>. QED
    BY <2>2, <2>3, <2>4, <2>5, <1>4 DEF Cursor
<1>7. Out' = Out \cup {x} /\ x \notin Out /\ Counted' = Counted /\ Counted \subseteq Out
  BY <1>1, <1>2, <1>4 DEF Out, Counted, Cursor
<1>8. Frames'
  <2>1. frame'[x] = rxed + 1 /\ \A n \in Out : frame'[n] = frame[n]
    BY <1>4, <1>7, <1>1 DEF Out, TypeOK
  <2>2. rxed + 1 \in 1..(rxed + 1) /\ rxed + 1 \notin 1..rxed /\ 1..rxed \subseteq 1..(rxed + 1)
    BY <1>4
  <2>3. \A n \in Out' : frame'[n] \in 1..rxed' \ starved
    BY <2>1, <2>2, <1>4, <1>7 DEF Frames
  <2>4. \A m, n \in Out' : frame'[m] = frame'[n] => m = n
    BY <2>1, <2>2, <1>7 DEF Frames
  <2>5. \A n \in Out' \ Counted', i \in DOMAIN passed : passed[i] # frame'[n]
    BY <2>1, <2>2, <1>7 DEF Frames
  <2>6. /\ \A i \in DOMAIN passed : passed[i] \in 1..rxed' \ starved
        /\ starved \subseteq 1..rxed'
    BY <2>2, <1>4 DEF Frames
  <2>. QED
    BY <2>3, <2>4, <2>5, <2>6, <1>4 DEF Frames
<1>9. Books'
  <2>1. Out' \ Counted' = (Out \ Counted) \cup {x} /\ x \in Pkts \ (Out \ Counted)
    BY <1>1, <1>7
  <2>2. Out \ Counted \subseteq Pkts
    BY DEF Out
  <2>3. /\ Cardinality(Out' \ Counted') = Cardinality(Out \ Counted) + 1
        /\ Cardinality(Out \ Counted) \in Nat
    BY <2>1, <2>2, OutCard
  <2>. QED
    BY <2>3, <1>4 DEF Books, TypeOK
<1>10. NoneLost'
  <2>1. hits' = 0 => hits = 0
    BY <1>4
  <2>2. Busy' = Busy
    BY <1>4 DEF Busy
  <2>3. Lost' = Lost
    BY <2>2, <1>1, <1>2 DEF Lost
  <2>. QED
    BY <2>1, <2>3 DEF NoneLost
<1>. QED
  BY <1>1, <1>3, <1>5, <1>6, <1>8, <1>9, <1>10

\* irq_rx_handler without a packet.
LEMMA IrqRxDropStep == ASSUME IInv, IrqRxDrop PROVE IInv'
<1>. USE Consts DEF IInv
<1>1. /\ UNCHANGED <<pool, nxt, prv, frame, pc, p, tmp, dprev, dnext>>
      /\ UNCHANGED <<sched, rx_packets, passed, hits>>
      /\ rxed' = rxed + 1 /\ rxed < MaxRx /\ rx_dropped' = rx_dropped + 1
      /\ starved' = starved \cup {rxed + 1}
  BY DEF IrqRxDrop, lists, cursor
<1>2. ListInv' /\ Linked' = Linked
  BY <1>1, SameList
<1>3. InPool' = InPool /\ Out' = Out /\ Counted' = Counted /\ Busy' = Busy
  BY <1>1 DEF InPool, Out, Counted, Busy
<1>4. TypeOK'
  BY <1>1 DEF TypeOK
<1>5. PoolInv' /\ Cursor' /\ NoneLost'
  BY <1>1, <1>2, <1>3 DEF PoolInv, Cursor, NoneLost, Lost
<1>6. Books'
  <2>1. Cardinality(Out \ Counted) \in Nat
    BY OutCard, Out \ Counted \subseteq Pkts DEF Out
  <2>. QED
    BY <2>1, <1>1, <1>3 DEF Books, TypeOK
<1>7. Frames'
  <2>1. rxed \in Nat
    BY DEF TypeOK
  <2>2. 1..rxed' = 1..rxed \cup {rxed + 1} /\ rxed + 1 \notin 1..rxed
    BY <2>1, <1>1
  <2>3. \A k : k \in 1..rxed \ starved => k \in 1..rxed' \ starved'
    BY <2>2, <1>1
  <2>4. starved' \subseteq 1..rxed'
    BY <2>2, <1>1 DEF Frames
  <2>5. Out' = Out /\ Counted' = Counted /\ frame' = frame /\ passed' = passed
    BY <1>1, <1>3
  <2>. QED
    BY <2>3, <2>4, <2>5 DEF Frames
<1>. QED
  BY <1>2, <1>4, <1>5, <1>6, <1>7

\* The tasklet starts a pass.
LEMMA RunStep == ASSUME IInv, Run PROVE IInv'
<1>. USE Consts DEF IInv
<1>1. /\ UNCHANGED <<pool, nxt, prv, frame, dprev, dnext>>
      /\ UNCHANGED <<rxed, rx_packets, rx_dropped, passed, starved, hits>>
      /\ pc = "idle" /\ sched' = FALSE /\ Visit(nxt[HEAD])
  BY DEF Run, lists
<1>2. nxt[HEAD] \in Linked \cup {HEAD}
  BY ListFacts
<1>3. InPool' = InPool /\ Out' = Out /\ Linked' = Linked
  BY <1>1, SameList DEF InPool, Out
<1>4. PoolInv'
  BY <1>1, <1>3 DEF PoolInv
<1>5. /\ Cursor' /\ {p', tmp'} \subseteq Nodes /\ pc' \in {"idle", "build"} /\ ListInv'
      /\ Busy' \subseteq Linked /\ Counted' = {}
  BY <1>1, <1>2, <1>4, VisitCursor
<1>6. TypeOK'
  BY <1>1, <1>5 DEF TypeOK
<1>7. Counted = {} /\ Busy = {}
  BY <1>1 DEF Counted, Busy
<1>8. Frames' /\ Books'
  BY <1>1, <1>3, <1>5, <1>7 DEF Frames, Books
<1>9. NoneLost'
  BY <1>1, <1>3, <1>5, <1>7 DEF NoneLost, Lost
<1>. QED
  BY <1>4, <1>5, <1>6, <1>8, <1>9

\* The tasklet hands the frame to the stack, or drops it.
LEMMA BuildStep == ASSUME IInv, Build \/ BuildFails PROVE IInv'
<1>. USE Consts DEF IInv
<1>1. /\ UNCHANGED <<pool, nxt, prv, frame, p, tmp, dprev, dnext>>
      /\ UNCHANGED <<sched, rxed, starved, hits>>
      /\ pc = "build" /\ pc' = "del"
  BY DEF Build, BuildFails, lists, cursor
<1>2. InPool' = InPool /\ Out' = Out /\ Linked' = Linked /\ ListInv'
  BY <1>1, SameList DEF InPool, Out
<1>3. Counted = {} /\ Counted' = {p} /\ Busy' = Busy /\ p \in Out
  BY <1>1 DEF Counted, Busy, Cursor, Out
<1>4. frame[p] \in 1..rxed \ starved /\ frame[p] \in 1..MaxRx /\ passed \in Seq(1..MaxRx)
  BY <1>3 DEF Frames, TypeOK
<1>5. \/ /\ rx_packets' = rx_packets + 1 /\ rx_dropped' = rx_dropped
         /\ passed' = Append(passed, frame[p])
      \/ rx_packets' = rx_packets /\ rx_dropped' = rx_dropped + 1 /\ passed' = passed
  BY DEF Build, BuildFails
<1>6. TypeOK'
  <2>1. rx_packets' \in Nat /\ rx_dropped' \in Nat
    BY <1>5, SMTT(30) DEF TypeOK
  <2>2. passed' \in Seq(1..MaxRx)
    <3>1. Append(passed, frame[p]) \in Seq(1..MaxRx)
      BY <1>4
    <3>. QED
      BY <3>1, <1>4, <1>5
  <2>. QED
    BY <1>1, <2>1, <2>2 DEF TypeOK
<1>7. PoolInv' /\ NoneLost'
  BY <1>1, <1>2, <1>3 DEF PoolInv, NoneLost, Lost
<1>8. Cursor'
  BY <1>1, <1>2 DEF Cursor
<1>9. Books'
  <2>1. Out' \ Counted' = (Out \ Counted) \ {p} /\ p \in Out \ Counted
    BY <1>2, <1>3
  <2>2. Out \ Counted \subseteq Pkts
    BY DEF Out
  <2>3. /\ Cardinality(Out' \ Counted') = Cardinality(Out \ Counted) - 1
        /\ Cardinality(Out \ Counted) \in Nat
    BY <2>1, <2>2, OutCard
  <2>4. rx_packets \in Nat /\ rx_dropped \in Nat /\ rxed' = rxed
    BY <1>1 DEF TypeOK
  <2>. QED
    BY <2>3, <2>4, <1>5 DEF Books
<1>10. Frames'
  <2>1. CASE passed' = passed
    BY <2>1, <1>1, <1>2, <1>3 DEF Frames
  <2>2. CASE passed' = Append(passed, frame[p])
    <3>1. /\ Len(passed) \in Nat /\ DOMAIN passed = 1..Len(passed)
          /\ DOMAIN passed' = 1..(Len(passed) + 1) /\ passed'[Len(passed) + 1] = frame[p]
          /\ \A i \in 1..Len(passed) : passed'[i] = passed[i]
      BY <2>2, <1>4
    <3>2. \A i \in DOMAIN passed' :
             i \in DOMAIN passed \/ (passed'[i] = frame[p] /\ i = Len(passed) + 1)
      BY <3>1
    <3>3. \A i \in DOMAIN passed : passed'[i] = passed[i] /\ passed[i] # frame[p]
      BY <3>1, <1>3 DEF Frames
    <3>4. \A i \in DOMAIN passed' : passed'[i] \in 1..rxed \ starved
      BY <3>2, <3>3, <1>4 DEF Frames
    <3>5. \A i, j \in DOMAIN passed' : passed'[i] = passed'[j] => i = j
      BY <3>2, <3>3 DEF Frames
    <3>6. \A n \in Out' \ Counted', i \in DOMAIN passed' : passed'[i] # frame[n]
      BY <3>2, <3>3, <1>2, <1>3 DEF Frames
    <3>. QED
      BY <3>4, <3>5, <3>6, <1>1, <1>2 DEF Frames
  <2>. QED
    BY <2>1, <2>2, <1>5
<1>. QED
  BY <1>2, <1>6, <1>7, <1>8, <1>9, <1>10

\* list_del loads the neighbours.
LEMMA DelLoadStep == ASSUME IInv, DelLoad PROVE IInv'
<1>. USE Consts DEF IInv
<1>1. /\ UNCHANGED <<pool, nxt, prv, frame, p, tmp>>
      /\ UNCHANGED <<sched, rxed, rx_packets, rx_dropped, passed, starved, hits>>
      /\ pc = "del" /\ pc' = "relink" /\ dprev' = prv[p] /\ dnext' = nxt[p]
  BY DEF DelLoad, lists
<1>2. InPool' = InPool /\ Out' = Out /\ Linked' = Linked /\ ListInv'
  BY <1>1, SameList DEF InPool, Out
<1>3. Counted' = Counted /\ Busy' = Busy /\ p \in Linked /\ tmp = nxt[p] /\ p \in Pkts
  BY <1>1 DEF Counted, Busy, Cursor
<1>4. prv[p] \in Linked \cup {HEAD} /\ nxt[prv[p]] = p /\ nxt[p] \in Linked \cup {HEAD}
  BY <1>3 DEF ListInv, Ring
<1>5. TypeOK'
  <2>1. {dprev', dnext'} \subseteq Nodes \cup {POISON}
    BY <1>1, <1>4, ListFacts
  <2>. QED
    BY <2>1, <1>1 DEF TypeOK
<1>6. PoolInv' /\ NoneLost'
  BY <1>1, <1>2, <1>3 DEF PoolInv, NoneLost, Lost
<1>7. Cursor'
  BY <1>1, <1>2, <1>3, <1>4 DEF Cursor
<1>8. Frames' /\ Books'
  BY <1>1, <1>2, <1>3 DEF Frames, Books
<1>. QED
  BY <1>2, <1>5, <1>6, <1>7, <1>8

\* list_del stores what it loaded.
LEMMA DelStoreStep == ASSUME IInv, DelStore PROVE IInv'
<1>. USE Consts DEF IInv
<1>1. /\ UNCHANGED <<pool, frame, p, tmp, dprev, dnext>>
      /\ UNCHANGED <<sched, rxed, rx_packets, rx_dropped, passed, starved, hits>>
      /\ pc = "relink" /\ pc' = "put"
  BY DEF DelStore, cursor
<1>2. InPool' = InPool /\ Out' = Out
  BY <1>1 DEF InPool, Out
<1>3. /\ ListInv' /\ Linked' \subseteq Linked \ {p} /\ tmp \in Linked' \cup {HEAD}
      /\ hits = 0 => Linked' = Linked \ {p}
  BY DelList
<1>4. Counted' = Counted /\ Busy' = Busy /\ Busy = {p} /\ p \in Pkts /\ p \notin InPool
  BY <1>1 DEF Counted, Busy, Cursor
<1>5. TypeOK'
  <2>1. nxt' \in [Nodes -> Nodes \cup {POISON}] /\ prv' \in [Nodes -> Nodes \cup {POISON}]
    BY DEF DelStore, TypeOK
  <2>. QED
    BY <2>1, <1>1 DEF TypeOK
<1>6. PoolInv'
  BY <1>1, <1>2, <1>3 DEF PoolInv
<1>7. NoneLost'
  BY <1>1, <1>2, <1>3, <1>4 DEF NoneLost, Lost
<1>8. Cursor'
  BY <1>1, <1>2, <1>3, <1>4 DEF Cursor
<1>9. Frames' /\ Books'
  BY <1>1, <1>2, <1>4 DEF Frames, Books
<1>. QED
  BY <1>3, <1>5, <1>6, <1>7, <1>8, <1>9

\* The packet goes back to the pool and the loop goes on.
LEMMA PutStep == ASSUME IInv, pool_put PROVE IInv'
<1>. USE Consts DEF IInv
<1>1. /\ UNCHANGED <<nxt, prv, dprev, dnext>>
      /\ UNCHANGED <<sched, rxed, rx_packets, rx_dropped, passed, starved, hits>>
      /\ pc = "put" /\ pool' = <<p>> \o pool /\ frame' = [frame EXCEPT ![p] = 0] /\ Visit(tmp)
  BY DEF pool_put
<1>2. p \in Pkts \ InPool /\ p \notin Linked /\ tmp \in Linked \cup {HEAD}
  BY <1>1 DEF Cursor
<1>3. /\ pool' \in Seq(Pkts) /\ InPool' = InPool \cup {p}
      /\ \A i, j \in DOMAIN pool' : pool'[i] = pool'[j] => i = j
  BY <1>1, <1>2, PoolPut DEF TypeOK, PoolInv
<1>4. Linked' = Linked
  BY <1>1, SameList
<1>5. PoolInv'
  BY <1>2, <1>3, <1>4 DEF PoolInv
<1>6. /\ Cursor' /\ {p', tmp'} \subseteq Nodes /\ pc' \in {"idle", "build"} /\ ListInv'
      /\ Busy' \subseteq Linked /\ Counted' = {}
  BY <1>1, <1>2, <1>5, VisitCursor
<1>7. TypeOK'
  <2>1. 0 \in 0..MaxRx
    OBVIOUS
  <2>2. frame' \in [Pkts -> 0..MaxRx]
    BY <2>1, <1>1 DEF TypeOK
  <2>. QED
    BY <1>1, <1>3, <1>6, <2>2 DEF TypeOK
<1>8. Counted = {p} /\ Busy = {p} /\ Out' = Out \ {p} /\ Out' \ Counted' = Out \ Counted
  BY <1>1, <1>3, <1>6 DEF Counted, Busy, Out
<1>9. Books'
  BY <1>1, <1>8 DEF Books
<1>10. Frames'
  <2>1. \A n \in Out' : frame'[n] = frame[n] /\ n \in Out \ Counted
    BY <1>1, <1>8 DEF TypeOK, Out
  <2>. QED
    BY <2>1, <1>1, <1>8 DEF Frames
<1>11. NoneLost'
  <2>1. Lost' \subseteq Lost
    BY <1>2, <1>3, <1>4, <1>8 DEF Lost
  <2>. QED
    BY <2>1, <1>1 DEF NoneLost
<1>. QED
  BY <1>5, <1>6, <1>7, <1>9, <1>10, <1>11

\* A step that changes nothing.
LEMMA StutterStep == ASSUME IInv, UNCHANGED vars PROVE IInv'
<1>. USE DEF IInv
<1>1. /\ UNCHANGED <<pool, nxt, prv, frame, p, tmp, dprev, dnext, pc>>
      /\ UNCHANGED <<sched, rxed, rx_packets, rx_dropped, passed, starved, hits>>
  BY DEF vars, lists, cursor
<1>2. Linked' = Linked /\ ListInv'
  BY <1>1, SameList
<1>3. InPool' = InPool /\ Out' = Out /\ Counted' = Counted /\ Busy' = Busy
  BY <1>1 DEF InPool, Out, Counted, Busy
<1>4. TypeOK'
  BY <1>1 DEF TypeOK
<1>. QED
  BY <1>1, <1>2, <1>3, <1>4 DEF PoolInv, Cursor, Frames, Books, NoneLost, Lost

-----------------------------------------------------------------------------
(***************************************************************************)
(* The theorems.                                                           *)
(***************************************************************************)
\* The invariant holds in every behaviour, for any number of packets and of
\* interrupts.
THEOREM Inductive == Spec => []IInv
<1>1. IInv /\ [Next]_vars => IInv'
  BY IrqRxStep, IrqRxDropStep, RunStep, BuildStep, DelLoadStep, DelStoreStep, PutStep,
     StutterStep DEF Next, Tasklet
<1>. QED
  BY InitIInv, <1>1, PTL DEF Spec

\* Every variable of the receive path keeps its type; no link the tasklet
\* follows is poisoned.
THEOREM TypeCorrect == Spec => []TypeOK
<1>1. IInv => TypeOK
  BY DEF IInv
<1>. QED
  BY <1>1, Inductive, PTL

\* A packet is never used twice: what the pool may hand out is not in the
\* list, not in the tasklet's hands and not what it goes on with.
THEOREM NeverAliased == Spec => []NoAlias
<1>1. IInv => NoAlias
  <2>. SUFFICES ASSUME IInv PROVE NoAlias
    OBVIOUS
  <2>. USE Consts, ListFacts DEF IInv
  <2>1. POISON \notin Linked /\ HEAD \notin InPool
    BY DEF TypeOK, InPool
  <2>2. pc # "idle" => tmp \in Linked \cup {HEAD}
    BY DEF Cursor, TypeOK
  <2>3. InPool \cap (Linked \cup Busy) = {}
    BY DEF PoolInv, Cursor, Busy
  <2>. QED
    BY <2>1, <2>2, <2>3 DEF NoAlias, PoolInv
<1>. QED
  BY <1>1, Inductive, PTL

\* Every frame is counted once, passed at most once and never after it was
\* dropped; packets are lost only when an interrupt comes between the
\* loads and the stores of list_del.
THEOREM AllAccounted == Spec => []Accounted
<1>1. IInv => Accounted
  <2>. SUFFICES ASSUME IInv PROVE Accounted
    OBVIOUS
  <2>. DEFINE waiting == {n \in (Linked \cup Busy) :
                            ~(n \in Busy /\ pc \in {"del", "relink", "put"})}
  <2>. USE Consts, ListFacts DEF IInv
  <2>1. Linked \cup Busy \subseteq Out /\ Counted \subseteq Busy
    BY DEF PoolInv, Cursor, Busy, Out, Counted
  <2>2. waiting = (Linked \cup Busy) \ Counted
    BY DEF Busy, Counted
  <2>3. waiting \cup Lost = Out \ Counted /\ waiting \cap Lost = {}
    BY <2>1, <2>2 DEF Lost, Out
  <2>4. IsFiniteSet(waiting) /\ IsFiniteSet(Lost)
    BY <2>1, <2>2, FS_Subset DEF Lost, Out
  <2>5. Cardinality(Out \ Counted) = Cardinality(waiting) + Cardinality(Lost)
    <3>. HIDE DEF waiting
    <3>1. Cardinality(waiting \cup Lost) =
            Cardinality(waiting) + Cardinality(Lost) - Cardinality(waiting \cap Lost)
      BY <2>4, FS_Union
    <3>2. Cardinality(waiting \cap Lost) = 0
      BY <2>3, FS_EmptySet
    <3>3. Cardinality(waiting) \in Nat /\ Cardinality(Lost) \in Nat
      BY <2>4, FS_CardinalityType
    <3>4. waiting \cup Lost = Out \ Counted
      BY <2>3
    <3>5. Cardinality(waiting \cup Lost) = Cardinality(Out \ Counted)
      BY <3>4, Zenon
    <3>. QED
      BY <3>1, <3>2, <3>3, <3>5
  <2>6. /\ IsFiniteSet(waiting) /\ Cardinality(waiting) \in Nat /\ Cardinality(Lost) \in Nat
    BY <2>4, FS_CardinalityType
  <2>7. rxed = rx_packets + rx_dropped + Cardinality(waiting) + Cardinality(Lost)
    <3>. HIDE DEF waiting
    <3>. QED
      BY <2>5, <2>6 DEF Books, TypeOK
  <2>. QED
    BY <2>7 DEF Accounted, Frames, NoneLost
<1>. QED
  BY <1>1, Inductive, PTL

-----------------------------------------------------------------------------
(***************************************************************************)
(* The receive path implements PacketPool.                                 *)
(***************************************************************************)
\* Where a packet is: pool and list have no packet in common.
LEMMA PlaceIs ==
  ASSUME PoolInv, NEW n \in Pkts
  PROVE  /\ n \in Busy => place[n] = "busy"
         /\ n \notin Busy /\ n \in InPool => place[n] = "free"
         /\ n \notin Busy /\ n \notin InPool /\ n \in Linked => place[n] = "queued"
         /\ n \notin Busy /\ n \notin InPool /\ n \notin Linked => place[n] = "lost"
<1>1. n \in InPool => n \notin Linked
  BY DEF PoolInv
<1>2. place[n] = CASE n \in Busy -> "busy"
                   [] n \notin Busy /\ n \in InPool -> "free"
                   [] n \notin Busy /\ n \in Linked -> "queued"
                   [] OTHER -> "lost"
  BY DEF place
<1>. QED
  BY <1>1, <1>2

\* The same in the next state.
LEMMA PlaceIsNext ==
  ASSUME PoolInv', NEW n \in Pkts
  PROVE  /\ n \in Busy' => place'[n] = "busy"
         /\ n \notin Busy' /\ n \in InPool' => place'[n] = "free"
         /\ n \notin Busy' /\ n \notin InPool' /\ n \in Linked' => place'[n] = "queued"
         /\ n \notin Busy' /\ n \notin InPool' /\ n \notin Linked' => place'[n] = "lost"
<1>1. n \in InPool' => n \notin Linked'
  BY DEF PoolInv
<1>2. place'[n] = CASE n \in Busy' -> "busy"
                    [] n \notin Busy' /\ n \in InPool' -> "free"
                    [] n \notin Busy' /\ n \in Linked' -> "queued"
                    [] OTHER -> "lost"
  BY DEF place
<1>. QED
  BY <1>1, <1>2

\* The abstract state is a function on the packets.
LEMMA PlaceFcn ==
  /\ place = [n \in Pkts |-> place[n]] /\ place' = [n \in Pkts |-> place'[n]]
  BY DEF place

\* Equal places make equal abstract states.
LEMMA SamePlace == (\A n \in Pkts : place'[n] = place[n]) => place' = place
  BY PlaceFcn

\* All packets are free at first.
LEMMA InitPlace == Init => Abs!Init
<1>. SUFFICES ASSUME Init PROVE Abs!Init
  OBVIOUS
<1>1. InPool = Pkts /\ Busy = {}
  <2>1. IInv
    BY InitIInv
  <2>2. hits = 0 /\ pc = "idle" /\ nxt[HEAD] = HEAD
    BY Consts DEF Init
  <2>3. Busy = {} /\ Lost = {}
    BY <2>1, <2>2 DEF IInv, NoneLost, Busy
  <2>4. Linked = {}
    <3>. DEFINE r == [n \in Nodes |-> 0]
    <3>1. Ring({}) /\ Ordered(r, {})
      BY Consts DEF Ring, Ordered, Init
    <3>. HIDE DEF r
    <3>. QED
      BY <3>1, WalkMeetsRing
  <2>5. InPool \subseteq Pkts
    BY <2>1 DEF IInv, TypeOK, InPool
  <2>. QED
    BY <2>3, <2>4, <2>5 DEF Lost
<1>2. \A n \in Pkts : place[n] = "free"
  BY <1>1, InitIInv, PlaceIs DEF IInv
<1>. QED
  BY <1>2, PlaceFcn DEF Abs!Init

\* The interrupt queues a free packet.
LEMMA IrqRxPlace == ASSUME IInv, IInv', IrqRx PROVE Abs!Next
<1>. DEFINE x == pool[1]
<1>. USE Consts DEF IInv
<1>1. /\ Linked' = Linked \cup {x} /\ x \in Pkts \ Linked
      /\ pool # <<>> /\ pool' = Tail(pool) /\ Busy' = Busy
  BY IrqList DEF IrqRx, cursor, Busy
<1>2. InPool' = InPool \ {x} /\ x \in InPool
  BY <1>1, PoolGet DEF TypeOK, PoolInv
<1>3. x \notin Busy
  BY <1>2 DEF Cursor, Busy
<1>4. place[x] = "free" /\ place'[x] = "queued"
  BY <1>1, <1>2, <1>3, PlaceIs, PlaceIsNext
<1>5. ASSUME NEW n \in Pkts, n # x PROVE place'[n] = place[n]
  BY <1>1, <1>2, <1>5, PlaceIs, PlaceIsNext
<1>6. place' = [place EXCEPT ![x] = "queued"]
  <2>. HIDE DEF x
  <2>. QED
    BY <1>1, <1>4, <1>5, PlaceFcn
<1>7. Abs!Queue(x)
  BY <1>4, <1>6 DEF Abs!Queue
<1>. QED
  BY <1>1, <1>7 DEF Abs!Next

\* The tasklet takes the first packet of the list, if there is one.
LEMMA RunPlace == ASSUME IInv, IInv', Run PROVE Abs!Next \/ place' = place
<1>. DEFINE x == nxt[HEAD]
<1>. USE Consts DEF IInv
<1>1. /\ pc = "idle" /\ Visit(x) /\ Linked' = Linked /\ InPool' = InPool /\ Busy = {}
      /\ x \in Linked \cup {HEAD}
  BY SameList, ListFacts DEF Run, lists, InPool, Busy
<1>2. CASE x = HEAD
  <2>1. Busy' = {}
    BY <1>1, <1>2 DEF Visit, Busy
  <2>2. \A n \in Pkts : place'[n] = place[n]
    BY <1>1, <2>1, PlaceIs, PlaceIsNext
  <2>. QED
    BY <2>2, SamePlace
<1>3. CASE x # HEAD
  <2>1. Busy' = {x} /\ x \in Linked /\ x \in Pkts /\ x \notin InPool
    BY <1>1, <1>3, ListFacts DEF Visit, Busy, PoolInv
  <2>2. place[x] = "queued" /\ place'[x] = "busy"
    BY <1>1, <2>1, PlaceIs, PlaceIsNext
  <2>3. ASSUME NEW n \in Pkts PROVE place[n] # "busy"
    BY <1>1, PlaceIs
  <2>4. ASSUME NEW n \in Pkts, n # x PROVE place'[n] = place[n]
    BY <1>1, <2>1, <2>4, PlaceIs, PlaceIsNext
  <2>5. place' = [place EXCEPT ![x] = "busy"]
    <3>. HIDE DEF x
    <3>. QED
      BY <2>1, <2>2, <2>4, PlaceFcn
  <2>6. Abs!Begin(x)
    BY <2>2, <2>3, <2>5 DEF Abs!Begin
  <2>. QED
    BY <2>1, <2>6 DEF Abs!Next
<1>. QED
  BY <1>2, <1>3

\* list_del loses the packets that came in between its loads and stores.
LEMMA DelStorePlace == ASSUME IInv, IInv', DelStore PROVE Abs!Next
<1>. DEFINE S == Linked \ (Linked' \cup {p})
<1>. USE Consts, ListFacts DEF IInv
<1>1. /\ Linked' \subseteq Linked \ {p} /\ InPool' = InPool /\ Busy' = Busy /\ Busy = {p}
      /\ p \in Pkts
  BY DelList DEF DelStore, cursor, InPool, Busy, Cursor
<1>2. S \in SUBSET Pkts
  OBVIOUS
<1>3. place[p] = "busy"
  BY <1>1, PlaceIs
<1>4. ASSUME NEW n \in S PROVE place[n] = "queued" /\ place'[n] = "lost"
  <2>1. n \in Pkts /\ n \notin Busy /\ n \notin InPool /\ n \in Linked /\ n \notin Linked'
    BY <1>1 DEF PoolInv
  <2>. QED
    BY <2>1, <1>1, PlaceIs, PlaceIsNext
<1>5. ASSUME NEW n \in Pkts \ S PROVE place'[n] = place[n]
  <2>1. n \in Busy \/ (n \in Linked <=> n \in Linked')
    BY <1>1
  <2>. QED
    BY <2>1, <1>1, PlaceIs, PlaceIsNext
<1>6. place' = [n \in Pkts |-> IF n \in S THEN "lost" ELSE place[n]]
  <2>. HIDE DEF S
  <2>. QED
    BY <1>4, <1>5, <1>2, PlaceFcn
<1>7. Abs!Lose(S)
  <2>. HIDE DEF S
  <2>. QED
    BY <1>1, <1>3, <1>4, <1>6 DEF Abs!Lose
<1>. QED
  <2>. HIDE DEF S
  <2>. QED
    BY <1>2, <1>7 DEF Abs!Next

\* The tasklet returns its packet and ends the pass, or takes the next one.
LEMMA PutPlace == ASSUME IInv, IInv', pool_put PROVE Abs!Next
<1>. USE Consts, ListFacts DEF IInv
<1>1. /\ pc = "put" /\ Visit(tmp) /\ Linked' = Linked /\ pool' = <<p>> \o pool
      /\ p \in Pkts \ InPool /\ p \notin Linked /\ tmp \in Linked \cup {HEAD} /\ Busy = {p}
  BY SameList DEF pool_put, Cursor, Busy
<1>2. InPool' = InPool \cup {p}
  BY <1>1, PoolPut DEF TypeOK, PoolInv
<1>3. place[p] = "busy"
  BY <1>1, PlaceIs
<1>4. CASE tmp = HEAD
  <2>1. Busy' = {}
    BY <1>1, <1>4 DEF Visit, Busy
  <2>2. place'[p] = "free"
    BY <1>1, <1>2, <2>1, PlaceIsNext
  <2>3. ASSUME NEW n \in Pkts, n # p PROVE place'[n] = place[n]
    BY <1>1, <1>2, <2>1, <2>3, PlaceIs, PlaceIsNext
  <2>4. place' = [place EXCEPT ![p] = "free"]
    BY <1>1, <2>2, <2>3, PlaceFcn
  <2>5. Abs!Put(p)
    BY <1>3, <2>4 DEF Abs!Put
  <2>. QED
    BY <1>1, <2>5 DEF Abs!Next
<1>5. CASE tmp # HEAD
  <2>1. Busy' = {tmp} /\ tmp \in Linked /\ tmp \in Pkts /\ tmp # p /\ tmp \notin InPool
    BY <1>1, <1>5 DEF Visit, Busy, PoolInv
  <2>2. place'[p] = "free" /\ place[tmp] = "queued" /\ place'[tmp] = "busy"
    BY <1>1, <1>2, <2>1, PlaceIs, PlaceIsNext
  <2>3. ASSUME NEW n \in Pkts, n # p, n # tmp PROVE place'[n] = place[n]
    <3>1. /\ n \notin Busy /\ n \notin Busy'
          /\ n \in InPool' <=> n \in InPool
          /\ n \in Linked' <=> n \in Linked
      BY <1>1, <1>2, <2>1, <2>3
    <3>. QED
      BY <3>1, PlaceIs, PlaceIsNext
  <2>4. place' = [place EXCEPT ![p] = "free", ![tmp] = "busy"]
    BY <1>1, <2>1, <2>2, <2>3, PlaceFcn
  <2>5. Abs!PutAndBegin(p, tmp)
    BY <1>3, <2>2, <2>4 DEF Abs!PutAndBegin
  <2>. QED
    BY <1>1, <2>1, <2>5 DEF Abs!Next
<1>. QED
  BY <1>4, <1>5

\* The other steps leave every packet where it is.
LEMMA OtherPlace ==
  ASSUME IInv, IInv', IrqRxDrop \/ Build \/ BuildFails \/ DelLoad \/ UNCHANGED vars
  PROVE  place' = place
<1>. USE DEF IInv
<1>1. /\ UNCHANGED <<pool, nxt, prv, p>>
      /\ pc' = pc \/ (pc # "idle" /\ pc' # "idle")
  BY DEF IrqRxDrop, Build, BuildFails, DelLoad, vars, lists, cursor
<1>2. Linked' = Linked /\ InPool' = InPool /\ Busy' = Busy
  BY <1>1, SameList DEF InPool, Busy
<1>3. \A n \in Pkts : place'[n] = place[n]
  BY <1>2, PlaceIs, PlaceIsNext
<1>. QED
  BY <1>3, SamePlace

\* The receive path, with its unlocked list and its interrupts, implements
\* the life cycle of PacketPool, for any number of packets.
THEOREM ReceiveImplementsPool == Spec => ImplementsPool
<1>1. IInv /\ IInv' /\ [Next]_vars => [Abs!Next]_place
  BY IrqRxPlace, RunPlace, DelStorePlace, PutPlace, OtherPlace DEF Next, Tasklet
<1>. QED
  BY InitPlace, <1>1, Inductive, PTL DEF Spec, ImplementsPool, Abs!Spec
=============================================================================
