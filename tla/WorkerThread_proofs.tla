------------------------- MODULE WorkerThread_proofs -------------------------
(***************************************************************************)
(* Proofs about the server of modem-daemon: the lengths and the contents   *)
(* of its buffers, the blocks it cuts the clients' streams into, what the  *)
(* modem takes from it and what it hands out of what the modem received.   *)
(***************************************************************************)
EXTENDS WorkerThread, TLAPS, FiniteSetTheorems

(***************************************************************************)
(* Induction, as facts about sets of numbers.                              *)
(***************************************************************************)
\* A set of natural numbers that is not empty has a least element: the
\* intervals from 0 to its elements are well-founded by inclusion.
LEMMA LeastNumber ==
  ASSUME NEW T \in SUBSET Nat, T # {}
  PROVE  \E m \in T : \A n \in T : m <= n
<1>. DEFINE R == StrictSubsetOrdering(Nat)
            U == {0..n : n \in T}
<1>1. IsWellFoundedOn(R, FiniteSubsetsOf(Nat))
  BY FS_StrictSubsetOrderingWellFounded
<1>2. U \subseteq FiniteSubsetsOf(Nat) /\ U # {}
  <2>1. ASSUME NEW n \in T PROVE 0..n \subseteq Nat /\ IsFiniteSet(0..n)
    BY FS_Interval
  <2>. QED
    BY <2>1 DEF FiniteSubsetsOf
<1>3. \E x \in U : \A y \in U : ~(<<y, x>> \in R)
  <2>. HIDE DEF R, U
  <2>. QED
    BY <1>1, <1>2, WFMin
<1>4. PICK m \in T : \A n \in T : ~(<<0..n, 0..m>> \in R)
  BY <1>3
<1>5. ASSUME NEW n \in T, n < m PROVE FALSE
  <2>1. 0..n \subseteq 0..m /\ 0..n # 0..m /\ 0..n \subseteq Nat /\ 0..m \subseteq Nat
    BY <1>5
  <2>2. <<0..n, 0..m>> \in R
    BY <2>1 DEF StrictSubsetOrdering
  <2>. QED
    BY <2>2, <1>4
<1>. QED
  BY <1>5

\* A set with 0 that has the successor of each of its numbers has them all.
LEMMA InductiveSet ==
  ASSUME NEW T \in SUBSET Nat, 0 \in T, \A n \in T : n + 1 \in T
  PROVE  \A n \in Nat : n \in T
<1>. SUFFICES ASSUME Nat \ T # {} PROVE FALSE
  OBVIOUS
<1>1. PICK m \in Nat \ T : \A n \in Nat \ T : m <= n
  BY LeastNumber, Nat \ T \in SUBSET Nat
<1>2. m # 0 /\ m - 1 \in Nat /\ ~(m <= m - 1)
  OBVIOUS
<1>3. m - 1 \in T /\ (m - 1) + 1 = m
  BY <1>1, <1>2
<1>. QED
  BY <1>3

-----------------------------------------------------------------------------
(***************************************************************************)
(* Concatenation.                                                          *)
(***************************************************************************)
\* Nothing concatenated is nothing.
LEMMA FlattenNone == FlattenSeq(<<>>) = <<>>
BY DEF FlattenSeq

\* The partial concatenations of a sequence of sequences.
IsPartial(s, f, n) == f = [i \in 1..n |-> IF i = 1 THEN s[1] ELSE f[i - 1] \o s[i]]

\* They exist for every length, and there is one of each.
LEMMA Partials ==
  ASSUME NEW S, NEW s \in Seq(Seq(S))
  PROVE  \A n \in 0..Len(s) : \E f : /\ IsPartial(s, f, n) /\ f \in [1..n -> Seq(S)]
                                     /\ \A g : IsPartial(s, g, n) => g = f
<1>. DEFINE Good(n, f) == /\ IsPartial(s, f, n) /\ f \in [1..n -> Seq(S)]
                          /\ \A g : IsPartial(s, g, n) => g = f
            T == {n \in Nat : n <= Len(s) => \E f : Good(n, f)}
<1>1. 0 \in T
  <2>1. Good(0, [i \in 1..0 |-> <<>>])
    <3>1. \A g : IsPartial(s, g, 0) => g = [i \in 1..0 |-> <<>>]
      BY DEF IsPartial
    <3>2. IsPartial(s, [i \in 1..0 |-> <<>>], 0)
      BY DEF IsPartial
    <3>. QED
      BY <3>1, <3>2
  <2>. QED
    BY <2>1
<1>2. ASSUME NEW n \in T PROVE n + 1 \in T
  <2>0. n \in Nat /\ (n <= Len(s) => \E f : Good(n, f)) /\ Len(s) \in Nat
    OBVIOUS
  <2>. SUFFICES ASSUME n + 1 <= Len(s) PROVE \E f : Good(n + 1, f)
    <3>. HIDE DEF Good
    <3>. QED
      BY <2>0
  <2>1. PICK f : Good(n, f)
    <3>. HIDE DEF Good
    <3>. QED
      BY <2>0
  <2>. DEFINE h == [i \in 1..(n + 1) |->
                      IF i = n + 1 THEN (IF i = 1 THEN s[1] ELSE f[n] \o s[i]) ELSE f[i]]
  <2>2. \A i \in 1..Len(s) : s[i] \in Seq(S)
    OBVIOUS
  <2>3. n \in Nat /\ 1..n \subseteq 1..(n + 1) /\ n + 1 \in 1..Len(s)
    OBVIOUS
  <2>4. h \in [1..(n + 1) -> Seq(S)]
    <3>1. ASSUME NEW i \in 1..(n + 1) PROVE h[i] \in Seq(S)
      <4>1. CASE i = n + 1 /\ i = 1
        BY <4>1, <2>2, <2>3
      <4>2. CASE i = n + 1 /\ i # 1
        <5>1. n \in 1..n /\ f[n] \in Seq(S) /\ s[i] \in Seq(S)
          BY <4>2, <2>1, <2>2, <2>3
        <5>2. f[n] \o s[i] \in Seq(S)
          BY <5>1
        <5>. QED
          BY <5>2, <4>2
      <4>3. CASE i # n + 1
        BY <4>3, <2>1, <2>3
      <4>. QED
        BY <4>1, <4>2, <4>3
    <3>. QED
      BY <3>1
  <2>5. IsPartial(s, h, n + 1)
    <3>1. ASSUME NEW i \in 1..(n + 1)
          PROVE  h[i] = IF i = 1 THEN s[1] ELSE h[i - 1] \o s[i]
      <4>1. CASE i = n + 1 /\ i = 1
        BY <4>1, <2>3
      <4>2. CASE i = n + 1 /\ i # 1
        <5>1. i - 1 = n /\ n \in 1..(n + 1) /\ n # n + 1
          BY <4>2, <2>3
        <5>2. h[n] = f[n]
          BY <5>1
        <5>. QED
          BY <4>2, <5>1, <5>2
      <4>3. CASE i # n + 1 /\ i = 1
        <5>1. i \in 1..n /\ f[i] = s[1]
          BY <4>3, <2>1, <2>3 DEF IsPartial
        <5>. QED
          BY <4>3, <5>1
      <4>4. CASE i # n + 1 /\ i # 1
        <5>1. i \in 1..n /\ i - 1 \in 1..n /\ i - 1 \in 1..(n + 1) /\ i - 1 # n + 1
          BY <4>4, <2>3
        <5>2. f[i] = f[i - 1] \o s[i]
          BY <4>4, <5>1, <2>1 DEF IsPartial
        <5>. QED
          BY <4>4, <5>1, <5>2
      <4>. QED
        BY <4>1, <4>2, <4>3, <4>4
    <3>2. h = [i \in 1..(n + 1) |-> h[i]]
      OBVIOUS
    <3>. HIDE DEF h
    <3>. QED
      BY <3>1, <3>2 DEF IsPartial
  <2>6. ASSUME NEW g, IsPartial(s, g, n + 1) PROVE g = h
    <3>. DEFINE e == [i \in 1..n |-> g[i]]
    <3>1. \A i \in 1..(n + 1) : g[i] = IF i = 1 THEN s[1] ELSE g[i - 1] \o s[i]
      BY <2>6 DEF IsPartial
    <3>2. ASSUME NEW i \in 1..n PROVE e[i] = IF i = 1 THEN s[1] ELSE e[i - 1] \o s[i]
      <4>1. CASE i = 1
        BY <4>1, <3>1, <2>3
      <4>2. CASE i # 1
        <5>1. i - 1 \in 1..n
          BY <4>2, <2>3
        <5>. QED
          BY <4>2, <5>1, <3>1, <2>3
      <4>. QED
        BY <4>1, <4>2
    <3>3. IsPartial(s, e, n)
      <4>1. e = [i \in 1..n |-> e[i]]
        OBVIOUS
      <4>. HIDE DEF e
      <4>. QED
        BY <3>2, <4>1 DEF IsPartial
    <3>4. e = f
      <4>. HIDE DEF e
      <4>. QED
        BY <3>3, <2>1
    <3>5. ASSUME NEW i \in 1..(n + 1) PROVE g[i] = h[i]
      <4>1. CASE i # n + 1
        <5>1. i \in 1..n /\ e[i] = g[i]
          BY <4>1, <2>3
        <5>2. h[i] = f[i]
          BY <4>1
        <5>. QED
          BY <5>1, <5>2, <3>4
      <4>2. CASE i = n + 1 /\ i = 1
        BY <4>2, <3>1
      <4>3. CASE i = n + 1 /\ i # 1
        <5>1. i - 1 = n /\ n \in 1..n /\ e[n] = g[n]
          BY <4>3, <2>3
        <5>2. g[n] = f[n]
          BY <5>1, <3>4
        <5>3. g[i] = g[n] \o s[i]
          BY <4>3, <5>1, <3>1
        <5>4. h[i] = f[n] \o s[i]
          BY <4>3
        <5>. QED
          BY <5>2, <5>3, <5>4
      <4>. QED
        BY <4>1, <4>2, <4>3
    <3>6. g = [i \in 1..(n + 1) |-> g[i]]
      BY <2>6 DEF IsPartial
    <3>. HIDE DEF e
    <3>. QED
      BY <3>5, <3>6
  <2>7. Good(n + 1, h)
    <3>. HIDE DEF h
    <3>. QED
      BY <2>4, <2>5, <2>6
  <2>. HIDE DEF Good, h
  <2>. QED
    BY <2>7
<1>3. \A n \in Nat : n \in T
  <2>. HIDE DEF T
  <2>. QED
    BY <1>1, <1>2, InductiveSet DEF T
<1>4. ASSUME NEW n \in 0..Len(s) PROVE \E f : Good(n, f)
  <2>1. n \in Nat /\ n <= Len(s)
    OBVIOUS
  <2>. HIDE DEF Good
  <2>. QED
    BY <1>3, <2>1
<1>. QED
  BY <1>4

\* FlattenSeq is the last one.
LEMMA FlattenIsPartial ==
  ASSUME NEW S, NEW s \in Seq(Seq(S)), s # <<>>, NEW f, IsPartial(s, f, Len(s))
  PROVE  FlattenSeq(s) = f[Len(s)]
<1>. DEFINE flatten[i \in 1..Len(s)] == IF i = 1 THEN s[i] ELSE flatten[i - 1] \o s[i]
<1>1. FlattenSeq(s) = flatten[Len(s)]
  BY DEF FlattenSeq
<1>2. f = [i \in 1..Len(s) |-> IF i = 1 THEN s[i] ELSE f[i - 1] \o s[i]]
  <2>1. \A i \in 1..Len(s) : f[i] = IF i = 1 THEN s[i] ELSE f[i - 1] \o s[i]
    BY DEF IsPartial
  <2>2. f = [i \in 1..Len(s) |-> f[i]]
    BY DEF IsPartial
  <2>. QED
    BY <2>1, <2>2
<1>3. flatten = [i \in 1..Len(s) |-> IF i = 1 THEN s[i] ELSE flatten[i - 1] \o s[i]]
  BY <1>2
<1>4. IsPartial(s, flatten, Len(s))
  <2>. HIDE DEF flatten
  <2>1. \A i \in 1..Len(s) : flatten[i] = IF i = 1 THEN s[1] ELSE flatten[i - 1] \o s[i]
    BY <1>3
  <2>2. flatten = [i \in 1..Len(s) |-> flatten[i]]
    BY <1>3
  <2>. QED
    BY <2>1, <2>2 DEF IsPartial
<1>5. Len(s) \in 0..Len(s)
  OBVIOUS
<1>. HIDE DEF flatten
<1>6. PICK h : IsPartial(s, h, Len(s)) /\ \A g : IsPartial(s, g, Len(s)) => g = h
  BY Partials, <1>5
<1>. QED
  BY <1>1, <1>4, <1>6

\* The concatenation of sequences over S is one, and a sequence appended to
\* them is appended to it.
LEMMA FlattenAppend ==
  ASSUME NEW S, NEW s \in Seq(Seq(S)), NEW x \in Seq(S)
  PROVE  /\ FlattenSeq(s) \in Seq(S)
         /\ FlattenSeq(Append(s, x)) = FlattenSeq(s) \o x
<1>. DEFINE t == Append(s, x)
            n == Len(s)
<1>1. t \in Seq(Seq(S)) /\ t # <<>> /\ Len(t) = n + 1 /\ t[n + 1] = x /\ n \in Nat
  <2>1. t \in Seq(Seq(S))
    OBVIOUS
  <2>2. n \in Nat /\ Len(t) = n + 1 /\ t[n + 1] = x
    OBVIOUS
  <2>3. t # <<>>
    <3>. HIDE DEF t
    <3>. QED
      BY <2>2
  <2>. QED
    BY <2>1, <2>2, <2>3
<1>2. \A i \in 1..n : t[i] = s[i]
  OBVIOUS
<1>3. PICK f : IsPartial(t, f, n + 1) /\ f \in [1..(n + 1) -> Seq(S)]
  <2>1. n + 1 \in 0..Len(t)
    BY <1>1
  <2>. HIDE DEF t
  <2>. QED
    BY <1>1, <2>1, Partials
<1>4. FlattenSeq(t) = f[n + 1]
  <2>. HIDE DEF t
  <2>. QED
    BY <1>1, <1>3, FlattenIsPartial
<1>5. CASE s = <<>>
  <2>1. n = 0 /\ f[1] = t[1]
    BY <1>5, <1>3 DEF IsPartial
  <2>2. f[n + 1] = x
    BY <2>1, <1>1
  <2>3. <<>> \o x = x /\ <<>> \in Seq(S)
    OBVIOUS
  <2>. QED
    BY <1>4, <1>5, <2>2, <2>3, FlattenNone
<1>6. CASE s # <<>>
  <2>1. n \in 1..(n + 1) /\ n + 1 \in 1..(n + 1) /\ n + 1 # 1 /\ (n + 1) - 1 = n
    BY <1>6
  <2>. DEFINE e == [i \in 1..n |-> f[i]]
  <2>. HIDE DEF t
  <2>2. f[n + 1] = f[n] \o x
    BY <2>1, <1>1, <1>3 DEF IsPartial
  <2>3. \A i \in 1..n : e[i] = IF i = 1 THEN s[1] ELSE e[i - 1] \o s[i]
    <3>. SUFFICES ASSUME NEW i \in 1..n
                  PROVE  e[i] = IF i = 1 THEN s[1] ELSE e[i - 1] \o s[i]
      OBVIOUS
    <3>1. i \in 1..(n + 1) /\ t[i] = s[i]
      BY <1>2
    <3>2. f[i] = IF i = 1 THEN t[1] ELSE f[i - 1] \o t[i]
      BY <3>1, <1>3 DEF IsPartial
    <3>3. CASE i = 1
      BY <3>1, <3>2, <3>3
    <3>4. CASE i # 1
      <4>1. i - 1 \in 1..n
        BY <3>4
      <4>. QED
        BY <4>1, <3>1, <3>2, <3>4
    <3>. QED
      BY <3>3, <3>4
  <2>4. IsPartial(s, e, n)
    <3>1. e = [i \in 1..n |-> e[i]]
      OBVIOUS
    <3>. HIDE DEF e
    <3>. QED
      BY <2>3, <3>1 DEF IsPartial
  <2>5. e[n] = f[n]
    BY <2>1
  <2>6. FlattenSeq(s) = e[n]
    <3>. HIDE DEF e
    <3>. QED
      BY <1>6, <2>4, FlattenIsPartial
  <2>7. f[n] \in Seq(S)
    BY <2>1, <1>3
  <2>. QED
    BY <1>4, <2>2, <2>5, <2>6, <2>7 DEF t
<1>. QED
  BY <1>5, <1>6

\* at[f] is the length of the first f sequences of s; where each of them lies
\* in the concatenation.
Layout(s, at) ==
  /\ at \in [0..Len(s) -> Nat] /\ at[0] = 0 /\ at[Len(s)] = Len(FlattenSeq(s))
  /\ \A f \in 0..Len(s) : at[f] <= Len(FlattenSeq(s))
  /\ \A f \in 1..Len(s) : at[f] = at[f - 1] + Len(s[f])
  /\ \A f \in 1..Len(s) : \A i \in 1..Len(s[f]) : FlattenSeq(s)[at[f - 1] + i] = s[f][i]
  /\ \A p \in 1..Len(FlattenSeq(s)) : \E f \in 1..Len(s) : at[f - 1] < p /\ p <= at[f]

\* A sequence more follows the others.
LEMMA LayoutAppend ==
  ASSUME NEW S, NEW s \in Seq(Seq(S)), NEW x \in Seq(S), NEW at, Layout(s, at)
  PROVE  \E a : Layout(Append(s, x), a)
<1>. DEFINE t == Append(s, x)
            n == Len(s)
            F == FlattenSeq(s)
            G == FlattenSeq(t)
            a == [f \in 0..(n + 1) |-> IF f = n + 1 THEN Len(F) + Len(x) ELSE at[f]]
<1>1. /\ Len(t) = n + 1 /\ t[n + 1] = x
      /\ n \in Nat /\ \A f \in 1..n : t[f] = s[f] /\ Len(s[f]) \in Nat
  OBVIOUS
<1>2. F \in Seq(S) /\ G = F \o x
  BY FlattenAppend
<1>. HIDE DEF F, G, t
<1>3. Len(F) \in Nat /\ Len(x) \in Nat /\ Len(G) = Len(F) + Len(x)
  BY <1>2
<1>4. \A p \in 1..Len(F) : G[p] = F[p]
  BY <1>2
<1>5. \A i \in 1..Len(x) : G[Len(F) + i] = x[i]
  BY <1>2
<1>6. /\ at \in [0..n -> Nat] /\ at[0] = 0 /\ at[n] = Len(F)
      /\ \A f \in 0..n : at[f] <= Len(F)
      /\ \A f \in 1..n : at[f] = at[f - 1] + Len(s[f])
      /\ \A f \in 1..n : \A i \in 1..Len(s[f]) : F[at[f - 1] + i] = s[f][i]
      /\ \A p \in 1..Len(F) : \E f \in 1..n : at[f - 1] < p /\ p <= at[f]
  BY DEF Layout, F
<1>7. a[n + 1] = Len(G) /\ \A f \in 0..n : a[f] = at[f]
  BY <1>1, <1>3
<1>8. a \in [0..(n + 1) -> Nat] /\ a[0] = 0
  BY <1>1, <1>3, <1>6
<1>9. \A f \in 0..(n + 1) : a[f] <= Len(G)
  <2>. SUFFICES ASSUME NEW f \in 0..(n + 1) PROVE a[f] <= Len(G)
    OBVIOUS
  <2>1. CASE f = n + 1
    BY <2>1, <1>7, <1>3
  <2>2. CASE f \in 0..n
    <3>1. a[f] = at[f] /\ at[f] \in Nat /\ at[f] <= Len(F)
      BY <2>2, <1>6, <1>7
    <3>. QED
      BY <3>1, <1>3
  <2>. QED
    BY <2>1, <2>2, <1>1
<1>10. ASSUME NEW f \in 1..(n + 1)
       PROVE  /\ a[f] = a[f - 1] + Len(t[f])
              /\ \A i \in 1..Len(t[f]) : G[a[f - 1] + i] = t[f][i]
  <2>1. CASE f = n + 1
    <3>1. f - 1 = n /\ n \in 0..n /\ t[f] = x
      BY <2>1, <1>1
    <3>2. a[f - 1] = Len(F) /\ a[f] = Len(F) + Len(x)
      BY <2>1, <3>1, <1>6, <1>7, <1>3
    <3>. HIDE DEF a
    <3>. QED
      BY <3>1, <3>2, <1>5
  <2>2. CASE f \in 1..n
    <3>1. f - 1 \in 0..n /\ f \in 0..n /\ t[f] = s[f] /\ Len(s[f]) \in Nat
      BY <2>2, <1>1
    <3>2. a[f - 1] = at[f - 1] /\ a[f] = at[f]
      BY <3>1, <1>7
    <3>. HIDE DEF a
    <3>3. at[f - 1] \in Nat /\ at[f] <= Len(F) /\ at[f] = at[f - 1] + Len(s[f])
      BY <2>2, <3>1, <1>6
    <3>4. ASSUME NEW i \in 1..Len(t[f]) PROVE G[a[f - 1] + i] = t[f][i]
      <4>0. i \in 1..Len(s[f])
        BY <3>1
      <4>1. at[f - 1] + i \in 1..Len(F)
        BY <4>0, <3>1, <3>3, <1>3, SMTT(30)
      <4>2. F[at[f - 1] + i] = s[f][i]
        BY <2>2, <4>0, <1>6
      <4>. QED
        BY <4>1, <4>2, <1>4, <3>1, <3>2
    <3>. QED
      BY <3>1, <3>2, <3>3, <3>4
  <2>. HIDE DEF a
  <2>. QED
    BY <2>1, <2>2, <1>1
<1>11. ASSUME NEW p \in 1..Len(G) PROVE \E f \in 1..(n + 1) : a[f - 1] < p /\ p <= a[f]
  <2>1. CASE p \in 1..Len(F)
    <3>1. PICK f \in 1..n : at[f - 1] < p /\ p <= at[f]
      BY <2>1, <1>6
    <3>2. f - 1 \in 0..n /\ f \in 0..n /\ f \in 1..(n + 1)
      BY <1>1
    <3>3. a[f - 1] = at[f - 1] /\ a[f] = at[f]
      BY <3>2, <1>7
    <3>. HIDE DEF a
    <3>. QED
      BY <3>1, <3>2, <3>3
  <2>2. CASE p > Len(F)
    <3>1. n + 1 \in 1..(n + 1) /\ (n + 1) - 1 = n /\ n \in 0..n
      BY <1>1
    <3>2. a[n] = Len(F)
      BY <3>1, <1>7, <1>6
    <3>. HIDE DEF a
    <3>. QED
      BY <3>1, <3>2, <2>2, <1>7
  <2>. HIDE DEF a
  <2>. QED
    BY <2>1, <2>2, <1>3
<1>12. Layout(t, a)
  <2>. HIDE DEF a
  <2>. QED
    BY <1>1, <1>7, <1>8, <1>9, <1>10, <1>11 DEF Layout, G
<1>. QED
  <2>. HIDE DEF a
  <2>. QED
    BY <1>12 DEF t

\* Every concatenation has a layout.
LEMMA LayoutExists ==
  ASSUME NEW S
  PROVE  \A s \in Seq(Seq(S)) : FlattenSeq(s) \in Seq(S) /\ \E at : Layout(s, at)
<1>. DEFINE T == {n \in Nat : \A s \in Seq(Seq(S)) : Len(s) = n => \E at : Layout(s, at)}
<1>1. 0 \in T
  <2>. SUFFICES ASSUME NEW s \in Seq(Seq(S)), Len(s) = 0 PROVE \E at : Layout(s, at)
    OBVIOUS
  <2>1. s = <<>> /\ FlattenSeq(s) = <<>> /\ Len(FlattenSeq(s)) = 0
    BY FlattenNone
  <2>. DEFINE at == [f \in 0..0 |-> 0]
  <2>2. Layout(s, at)
    BY <2>1 DEF Layout
  <2>. HIDE DEF at
  <2>. QED
    BY <2>2
<1>2. ASSUME NEW n \in T PROVE n + 1 \in T
  <2>0. n \in Nat /\ \A s \in Seq(Seq(S)) : Len(s) = n => \E at : Layout(s, at)
    OBVIOUS
  <2>. SUFFICES ASSUME NEW s \in Seq(Seq(S)), Len(s) = n + 1 PROVE \E at : Layout(s, at)
    BY <2>0
  <2>. DEFINE r == SubSeq(s, 1, n)
              x == s[n + 1]
  <2>1. r \in Seq(Seq(S)) /\ Len(r) = n
    BY <2>0
  <2>2. x \in Seq(S)
    BY <2>0
  <2>3. s = Append(r, x)
    BY <2>0
  <2>. HIDE DEF r, x, T
  <2>4. PICK at : Layout(r, at)
    BY <2>0, <2>1
  <2>. QED
    BY <2>1, <2>2, <2>3, <2>4, LayoutAppend
<1>3. \A n \in Nat : n \in T
  <2>. HIDE DEF T
  <2>. QED
    BY <1>1, <1>2, InductiveSet DEF T
<1>4. ASSUME NEW s \in Seq(Seq(S)) PROVE FlattenSeq(s) \in Seq(S)
  BY FlattenAppend, <<>> \in Seq(S)
<1>5. ASSUME NEW s \in Seq(Seq(S)) PROVE \E at : Layout(s, at)
  <2>1. Len(s) \in Nat
    OBVIOUS
  <2>. QED
    BY <2>1, <1>3
<1>. QED
  BY <1>4, <1>5

-----------------------------------------------------------------------------
(***************************************************************************)
(* What the clients and the other modem send.                              *)
(***************************************************************************)
Positive == Nat \ (0..2)

ClientBytes ==
  {b \in Conns \X Nat \X Nat : b[2] \in 1..Len(Stream[b[1]]) /\ b[3] \in 1..Stream[b[1]][b[2]].size}

AirBytes == {b \in {AIR} \X Nat \X Nat : b[2] \in 1..Len(AirBlocks) /\ b[3] \in 1..AirBlocks[b[2]]}

\* The sizes of the blocks of the clients and of the other modem.
LEMMA BlockSizes ==
  /\ \A c \in Conns : Len(Stream[c]) \in Nat
  /\ \A c \in Conns : \A f \in 1..Len(Stream[c]) : Stream[c][f].size \in Positive
  /\ Len(AirBlocks) \in Nat
  /\ \A f \in 1..Len(AirBlocks) : AirBlocks[f] \in Positive
<1>1. ASSUME NEW c \in Conns
      PROVE  /\ Len(Stream[c]) \in Nat
             /\ \A f \in 1..Len(Stream[c]) : Stream[c][f].size \in Positive
  <2>1. Stream[c] \in Seq([type : Types, size : Positive])
    BY WorkerThreadAssumption DEF Positive
  <2>2. \A f \in 1..Len(Stream[c]) : Stream[c][f] \in [type : Types, size : Positive]
    <3>. DEFINE s == Stream[c]
                B == [type : Types, size : Positive]
    <3>. HIDE DEF s, B
    <3>1. s \in Seq(B) => \A f \in 1..Len(s) : s[f] \in B
      OBVIOUS
    <3>. QED
      BY <2>1, <3>1 DEF s, B
  <2>. QED
    BY <2>1, <2>2
<1>2. AirBlocks \in Seq(Positive)
  BY WorkerThreadAssumption DEF Positive
<1>. QED
  BY <1>1, <1>2

\* The size of the block of a byte.
LEMMA ByteSizes ==
  /\ \A b \in ClientBytes : SizeOf(b) = Stream[b[1]][b[2]].size /\ SizeOf(b) \in Positive
  /\ \A b \in AirBytes : SizeOf(b) = AirBlocks[b[2]] /\ SizeOf(b) \in Positive
<1>1. ASSUME NEW b \in ClientBytes
      PROVE  SizeOf(b) = Stream[b[1]][b[2]].size /\ SizeOf(b) \in Positive
  <2>1. b[1] \in Conns /\ b[2] \in 1..Len(Stream[b[1]])
    BY DEF ClientBytes
  <2>2. b[1] # AIR
    BY <2>1, WorkerThreadAssumption
  <2>. QED
    BY <2>1, <2>2, BlockSizes DEF SizeOf
<1>2. ASSUME NEW b \in AirBytes
      PROVE  SizeOf(b) = AirBlocks[b[2]] /\ SizeOf(b) \in Positive
  <2>1. b[1] = AIR /\ b[2] \in 1..Len(AirBlocks)
    BY DEF AirBytes
  <2>. QED
    BY <2>1, BlockSizes DEF SizeOf
<1>. QED
  BY <1>1, <1>2

\* Whatever two bytes a header is made of, the size read from it is at least
\* that of a header.
LEMMA HeaderSizes ==
  \A b : b \in Seq(ClientBytes) \cup Seq(AirBytes) /\ Len(b) >= 2
           => Sizes(b) \subseteq Positive /\ Sizes(b) # {}
<1>. SUFFICES ASSUME NEW b \in Seq(ClientBytes) \cup Seq(AirBytes), Len(b) >= 2
              PROVE  Sizes(b) \subseteq Positive /\ Sizes(b) # {}
  OBVIOUS
<1>1. b[1] \in ClientBytes \cup AirBytes
  <2>1. CASE b \in Seq(ClientBytes)
    BY <2>1
  <2>2. CASE b \in Seq(AirBytes)
    BY <2>2
  <2>. QED
    BY <2>1, <2>2
<1>2. SizeOf(b[1]) \in Positive
  BY <1>1, ByteSizes
<1>3. Garbage \subseteq Positive /\ Garbage # {}
  BY WorkerThreadAssumption DEF Positive
<1>. QED
  BY <1>2, <1>3 DEF Sizes

\* at[f] is the number of bytes of the first f blocks of c.
StreamAt(c, at) ==
  /\ at \in [0..Len(Stream[c]) -> Nat] /\ at[0] = 0 /\ at[Len(Stream[c])] = Len(Sends[c])
  /\ \A f \in 0..Len(Stream[c]) : at[f] <= Len(Sends[c])
  /\ \A f \in 1..Len(Stream[c]) : at[f] = at[f - 1] + Stream[c][f].size
  /\ \A f \in 1..Len(Stream[c]) : \A i \in 1..Stream[c][f].size :
       Sends[c][at[f - 1] + i] = <<c, f, i>>
  /\ \A p \in 1..Len(Sends[c]) : \E f \in 1..Len(Stream[c]) : at[f - 1] < p /\ p <= at[f]

\* What a client sends is its blocks, one after the other.
LEMMA StreamLayout ==
  ASSUME NEW c \in Conns
  PROVE  Sends[c] \in Seq(ClientBytes) /\ \E at : StreamAt(c, at)
<1>. DEFINE N == Len(Stream[c])
            s == [f \in 1..N |-> Bytes(c, f, Stream[c][f].size)]
<1>1. N \in Nat /\ \A f \in 1..N : Stream[c][f].size \in Nat
  BY BlockSizes DEF Positive
<1>. HIDE DEF N
<1>2. ASSUME NEW f \in 1..N
      PROVE  /\ Bytes(c, f, Stream[c][f].size) \in Seq(ClientBytes)
             /\ Len(Bytes(c, f, Stream[c][f].size)) = Stream[c][f].size
             /\ \A i \in 1..Stream[c][f].size : Bytes(c, f, Stream[c][f].size)[i] = <<c, f, i>>
  <2>1. \A i \in 1..Stream[c][f].size : <<c, f, i>> \in ClientBytes
    BY <1>1 DEF ClientBytes, N
  <2>. QED
    BY <1>1, <2>1 DEF Bytes
<1>3. s \in Seq(Seq(ClientBytes)) /\ Len(s) = N
  BY <1>1, <1>2
<1>4. Sends[c] = FlattenSeq(s)
  BY DEF Sends, N
<1>5. \A f \in 1..N : /\ Len(s[f]) = Stream[c][f].size
                      /\ \A i \in 1..Stream[c][f].size : s[f][i] = <<c, f, i>>
  BY <1>2
<1>. HIDE DEF s
<1>6. FlattenSeq(s) \in Seq(ClientBytes) /\ \E at : Layout(s, at)
  BY <1>3, LayoutExists
<1>7. PICK at : Layout(s, at)
  BY <1>6
<1>8. StreamAt(c, at)
  <2>1. /\ at \in [0..N -> Nat] /\ at[0] = 0 /\ at[N] = Len(Sends[c])
        /\ \A f \in 0..N : at[f] <= Len(Sends[c])
        /\ \A p \in 1..Len(Sends[c]) : \E f \in 1..N : at[f - 1] < p /\ p <= at[f]
    BY <1>3, <1>4, <1>7 DEF Layout
  <2>2. ASSUME NEW f \in 1..N
        PROVE  /\ at[f] = at[f - 1] + Stream[c][f].size
               /\ \A i \in 1..Stream[c][f].size : Sends[c][at[f - 1] + i] = <<c, f, i>>
    <3>1. at[f] = at[f - 1] + Stream[c][f].size
      BY <1>3, <1>5, <1>7 DEF Layout
    <3>2. ASSUME NEW i \in 1..Stream[c][f].size PROVE Sends[c][at[f - 1] + i] = <<c, f, i>>
      <4>1. i \in 1..Len(s[f]) /\ s[f][i] = <<c, f, i>> /\ f \in 1..Len(s)
        BY <1>3, <1>5
      <4>. QED
        BY <4>1, <1>4, <1>7 DEF Layout
    <3>. QED
      BY <3>1, <3>2
  <2>. QED
    BY <2>1, <2>2 DEF StreamAt, N
<1>. QED
  BY <1>4, <1>6, <1>8

\* What the other modem sends; every byte is sent once.
LEMMA AirLayout ==
  /\ Aired \in Seq(AirBytes) /\ Len(Aired) \in Nat
  /\ \A p, q \in 1..Len(Aired) : Aired[p] = Aired[q] => p = q
<1>. DEFINE N == Len(AirBlocks)
            s == [f \in 1..N |-> Bytes(AIR, f, AirBlocks[f])]
<1>1. N \in Nat /\ \A f \in 1..N : AirBlocks[f] \in Nat
  BY BlockSizes DEF Positive
<1>. HIDE DEF N
<1>2. ASSUME NEW f \in 1..N
      PROVE  /\ Bytes(AIR, f, AirBlocks[f]) \in Seq(AirBytes)
             /\ Len(Bytes(AIR, f, AirBlocks[f])) = AirBlocks[f]
             /\ \A i \in 1..AirBlocks[f] : Bytes(AIR, f, AirBlocks[f])[i] = <<AIR, f, i>>
  <2>1. \A i \in 1..AirBlocks[f] : <<AIR, f, i>> \in AirBytes
    BY <1>1 DEF AirBytes, N
  <2>. QED
    BY <1>1, <2>1 DEF Bytes
<1>3. s \in Seq(Seq(AirBytes)) /\ Len(s) = N
  BY <1>1, <1>2
<1>4. Aired = FlattenSeq(s)
  BY DEF Aired, N
<1>5. \A f \in 1..N : /\ Len(s[f]) = AirBlocks[f]
                      /\ \A i \in 1..AirBlocks[f] : s[f][i] = <<AIR, f, i>>
  BY <1>2
<1>. HIDE DEF s
<1>6. FlattenSeq(s) \in Seq(AirBytes) /\ \E at : Layout(s, at)
  BY <1>3, LayoutExists
<1>7. PICK at : Layout(s, at)
  BY <1>6
<1>8. ASSUME NEW p \in 1..Len(Aired)
      PROVE  \E f \in 1..N, i \in Nat : p = at[f - 1] + i /\ Aired[p] = <<AIR, f, i>>
  <2>1. PICK f \in 1..N : at[f - 1] < p /\ p <= at[f]
    BY <1>3, <1>4, <1>7 DEF Layout
  <2>2. f - 1 \in 0..N /\ f \in 0..N /\ at \in [0..N -> Nat]
    BY <1>1, <1>3, <1>7 DEF Layout
  <2>3. at[f] = at[f - 1] + AirBlocks[f] /\ at[f - 1] \in Nat /\ AirBlocks[f] \in Nat
    BY <1>1, <1>3, <1>5, <1>7, <2>2 DEF Layout
  <2>4. p - at[f - 1] \in 1..AirBlocks[f] /\ at[f - 1] + (p - at[f - 1]) = p
    BY <2>1, <2>3
  <2>5. Aired[at[f - 1] + (p - at[f - 1])] = <<AIR, f, p - at[f - 1]>>
    <3>1. p - at[f - 1] \in 1..Len(s[f]) /\ f \in 1..Len(s)
      BY <2>4, <1>3, <1>5
    <3>2. FlattenSeq(s)[at[f - 1] + (p - at[f - 1])] = s[f][p - at[f - 1]]
      BY <3>1, <1>7 DEF Layout
    <3>3. s[f][p - at[f - 1]] = <<AIR, f, p - at[f - 1]>>
      BY <2>4, <1>5
    <3>. QED
      BY <3>2, <3>3, <1>4
  <2>. QED
    BY <2>4, <2>5
<1>9. ASSUME NEW p \in 1..Len(Aired), NEW q \in 1..Len(Aired), Aired[p] = Aired[q] PROVE p = q
  <2>1. PICK f \in 1..N, i \in Nat : p = at[f - 1] + i /\ Aired[p] = <<AIR, f, i>>
    BY <1>8
  <2>2. PICK g \in 1..N, j \in Nat : q = at[g - 1] + j /\ Aired[q] = <<AIR, g, j>>
    BY <1>8
  <2>. QED
    BY <1>9, <2>1, <2>2
<1>. QED
  BY <1>4, <1>6, <1>9

\* Counting whole blocks byte by byte.
LEMMA BlocksStep ==
  ASSUME NEW c, NEW n \in Nat
  PROVE  /\ Blocks(c, 0) = 0 /\ Blocks(c, n) \in Nat
         /\ Blocks(c, n + 1) = IF Inside(c, n + 1) THEN Blocks(c, n) ELSE Blocks(c, n) + 1
<1>. DEFINE Whole(i) == Sends[c][i][3] = SizeOf(Sends[c][i])
            E(m) == {i \in 1..m : Whole(i)}
<1>1. \A m : Blocks(c, m) = Cardinality(E(m))
  BY DEF Blocks
<1>2. \A i \in Nat \ {0} : Inside(c, i) <=> ~Whole(i)
  BY DEF Inside
<1>. HIDE DEF Whole
<1>3. E(0) = {} /\ Cardinality({}) = 0
  BY FS_EmptySet
<1>4. \A m \in Nat : IsFiniteSet(E(m)) /\ Cardinality(E(m)) \in Nat
  <2>1. ASSUME NEW m \in Nat PROVE IsFiniteSet(E(m)) /\ Cardinality(E(m)) \in Nat
    <3>1. IsFiniteSet(1..m) /\ E(m) \subseteq 1..m
      BY FS_Interval
    <3>2. IsFiniteSet(E(m))
      BY <3>1, FS_Subset
    <3>. QED
      BY <3>2, FS_CardinalityType
  <2>. QED
    BY <2>1
<1>5. CASE Whole(n + 1)
  <2>1. E(n + 1) = E(n) \cup {n + 1} /\ n + 1 \notin E(n)
    BY <1>5
  <2>2. Cardinality(E(n) \cup {n + 1}) = Cardinality(E(n)) + 1
    <3>. HIDE DEF E
    <3>. QED
      BY <1>4, <2>1, FS_AddElement
  <2>. HIDE DEF E
  <2>3. n + 1 \in Nat \ {0}
    OBVIOUS
  <2>4. ~Inside(c, n + 1)
    BY <2>3, <1>2, <1>5
  <2>5. Blocks(c, n + 1) = Blocks(c, n) + 1
    BY <1>1, <2>1, <2>2, Zenon
  <2>. QED
    BY <1>1, <1>3, <1>4, <2>4, <2>5
<1>6. CASE ~Whole(n + 1)
  <2>1. E(n + 1) = E(n)
    BY <1>6
  <2>. HIDE DEF E
  <2>2. n + 1 \in Nat \ {0}
    OBVIOUS
  <2>3. Inside(c, n + 1)
    BY <2>2, <1>2, <1>6
  <2>4. Blocks(c, n + 1) = Blocks(c, n)
    BY <1>1, <2>1, Zenon
  <2>. QED
    BY <1>1, <1>3, <1>4, <2>3, <2>4
<1>. QED
  BY <1>5, <1>6

\* Inside the block f only its last byte counts.
LEMMA BlockBytes ==
  ASSUME NEW c \in Conns, NEW at, StreamAt(c, at), NEW f \in 1..Len(Stream[c]),
         NEW i \in 1..Stream[c][f].size
  PROVE  /\ at[f - 1] \in Nat /\ at[f - 1] + i \in 1..Len(Sends[c])
         /\ Sends[c][at[f - 1] + i] = <<c, f, i>>
         /\ Inside(c, at[f - 1] + i) <=> i # Stream[c][f].size
<1>1. Len(Stream[c]) \in Nat /\ Stream[c][f].size \in Positive
  BY BlockSizes
<1>2. f - 1 \in 0..Len(Stream[c]) /\ f \in 0..Len(Stream[c])
  BY <1>1
<1>3. at[f - 1] \in Nat /\ at[f] = at[f - 1] + Stream[c][f].size /\ at[f] <= Len(Sends[c])
  BY <1>2 DEF StreamAt
<1>4. Len(Sends[c]) \in Nat
  BY StreamLayout
<1>5. at[f - 1] + i \in 1..Len(Sends[c])
  BY <1>1, <1>3, <1>4, SMTT(30) DEF Positive
<1>6. Sends[c][at[f - 1] + i] = <<c, f, i>>
  BY DEF StreamAt
<1>7. <<c, f, i>> \in ClientBytes
  BY <1>1 DEF ClientBytes, Positive
<1>8. SizeOf(<<c, f, i>>) = Stream[c][f].size
  BY <1>7, ByteSizes
<1>9. Inside(c, at[f - 1] + i) <=> i # Stream[c][f].size
  BY <1>5, <1>6, <1>8 DEF Inside
<1>. QED
  BY <1>3, <1>5, <1>6, <1>9

\* Blocks counts the whole blocks among the first bytes of c.
LEMMA BlocksWithin ==
  ASSUME NEW c \in Conns, NEW at, StreamAt(c, at), NEW f \in 1..Len(Stream[c]),
         Blocks(c, at[f - 1]) = f - 1
  PROVE  /\ \A i \in 0..(Stream[c][f].size - 1) : Blocks(c, at[f - 1] + i) = f - 1
         /\ Blocks(c, at[f]) = f
<1>. DEFINE n == Stream[c][f].size
            a == at[f - 1]
            T == {i \in Nat : i <= n - 1 => Blocks(c, a + i) = f - 1}
<1>1. n \in Positive /\ Len(Stream[c]) \in Nat
  BY BlockSizes
<1>2. a \in Nat /\ at[f] = a + n
  <2>1. f - 1 \in 0..Len(Stream[c])
    BY <1>1
  <2>. QED
    BY <2>1 DEF StreamAt
<1>3. \A i \in 1..n : Inside(c, a + i) <=> i # n
  BY BlockBytes
<1>. HIDE DEF n, a
<1>4. 0 \in T
  BY <1>2 DEF a
<1>5. ASSUME NEW i \in T PROVE i + 1 \in T
  <2>. SUFFICES ASSUME i + 1 <= n - 1 PROVE Blocks(c, a + (i + 1)) = f - 1
    OBVIOUS
  <2>1. i \in Nat /\ n \in Nat /\ i <= n - 1 /\ i + 1 \in 1..n /\ i + 1 # n
    BY <1>1 DEF Positive
  <2>2. Blocks(c, a + i) = f - 1
    BY <2>1
  <2>3. a + (i + 1) = (a + i) + 1 /\ a + i \in Nat
    BY <1>2, <2>1
  <2>4. Inside(c, a + (i + 1))
    BY <1>3, <2>1
  <2>. QED
    BY <2>2, <2>3, <2>4, BlocksStep
<1>6. \A i \in Nat : i \in T
  <2>. HIDE DEF T
  <2>. QED
    BY <1>4, <1>5, InductiveSet DEF T
<1>7. \A i \in 0..(n - 1) : Blocks(c, a + i) = f - 1
  BY <1>1, <1>6 DEF Positive
<1>8. Blocks(c, a + n) = f
  <2>1. n - 1 \in 0..(n - 1) /\ n \in 1..n /\ a + n = (a + (n - 1)) + 1 /\ a + (n - 1) \in Nat
    BY <1>1, <1>2 DEF Positive
  <2>2. ~Inside(c, a + n) /\ Blocks(c, a + (n - 1)) = f - 1
    BY <1>3, <1>7, <2>1
  <2>3. Blocks(c, (a + (n - 1)) + 1) = (f - 1) + 1
    BY <2>1, <2>2, BlocksStep
  <2>. QED
    BY <2>1, <2>3
<1>. QED
  BY <1>2, <1>7, <1>8 DEF n, a

\* At the end of the block f there are f of them.
LEMMA BlocksAt ==
  ASSUME NEW c \in Conns, NEW at, StreamAt(c, at)
  PROVE  \A f \in 0..Len(Stream[c]) : Blocks(c, at[f]) = f
<1>. DEFINE N == Len(Stream[c])
            T == {f \in Nat : f <= N => Blocks(c, at[f]) = f}
<1>1. N \in Nat
  BY BlockSizes
<1>. HIDE DEF N
<1>2. 0 \in T
  BY BlocksStep, 0 \in Nat DEF StreamAt
<1>3. ASSUME NEW f \in T PROVE f + 1 \in T
  <2>. SUFFICES ASSUME f + 1 <= N PROVE Blocks(c, at[f + 1]) = f + 1
    OBVIOUS
  <2>1. f \in Nat /\ f <= N /\ f + 1 \in 1..N /\ (f + 1) - 1 = f
    BY <1>1
  <2>2. Blocks(c, at[(f + 1) - 1]) = (f + 1) - 1
    BY <2>1
  <2>. QED
    BY <2>1, <2>2, BlocksWithin DEF N
<1>4. \A f \in Nat : f \in T
  <2>. HIDE DEF T
  <2>. QED
    BY <1>2, <1>3, InductiveSet DEF T
<1>. QED
  BY <1>1, <1>4 DEF N

\* After the bytes k of c that end a block comes the next block: its number,
\* its bytes, and the number of whole blocks on the way through it.
LEMMA NextBlockOf ==
  ASSUME NEW c \in Conns, NEW k \in Nat, k < Len(Sends[c]), ~Inside(c, k)
  PROVE  \E f \in 1..Len(Stream[c]) :
           /\ f = Blocks(c, k) + 1
           /\ Stream[c][f].size \in Positive /\ k + Stream[c][f].size <= Len(Sends[c])
           /\ \A i \in 1..Stream[c][f].size : Sends[c][k + i] = <<c, f, i>>
           /\ \A i \in 1..(Stream[c][f].size - 1) :
                Inside(c, k + i) /\ Blocks(c, k + i) = Blocks(c, k)
           /\ ~Inside(c, k + Stream[c][f].size)
           /\ Blocks(c, k + Stream[c][f].size) = f
<1>1. PICK at : StreamAt(c, at)
  BY StreamLayout
<1>2. Len(Sends[c]) \in Nat /\ k + 1 \in 1..Len(Sends[c])
  BY StreamLayout
<1>3. PICK f \in 1..Len(Stream[c]) : at[f - 1] < k + 1 /\ k + 1 <= at[f]
  BY <1>1, <1>2 DEF StreamAt
<1>. DEFINE n == Stream[c][f].size
            a == at[f - 1]
<1>4. n \in Positive /\ Len(Stream[c]) \in Nat
  BY BlockSizes
<1>5. f - 1 \in 0..Len(Stream[c]) /\ f \in 0..Len(Stream[c])
  BY <1>4
<1>6. a \in Nat /\ at[f] = a + n /\ at[f] <= Len(Sends[c])
  BY <1>1, <1>5 DEF StreamAt
<1>7. \A i \in 1..n : Sends[c][a + i] = <<c, f, i>> /\ (Inside(c, a + i) <=> i # n)
  BY <1>1, BlockBytes
<1>8. Blocks(c, a) = f - 1
  BY <1>1, <1>5, BlocksAt
<1>9. /\ \A i \in 0..(n - 1) : Blocks(c, a + i) = f - 1
      /\ Blocks(c, a + n) = f
  BY <1>1, <1>6, <1>8, BlocksWithin
<1>. HIDE DEF n, a
<1>10. k = a
  <2>. SUFFICES ASSUME k # a PROVE FALSE
    OBVIOUS
  <2>1. k - a \in 1..n /\ k - a # n /\ a + (k - a) = k
    BY <1>3, <1>4, <1>6 DEF a, Positive
  <2>. QED
    BY <2>1, <1>7
<1>11. /\ n \in 1..n /\ f = Blocks(c, k) + 1
       /\ 1..(n - 1) \subseteq 0..(n - 1) /\ 1..(n - 1) \subseteq 1..n
  BY <1>4, <1>8, <1>10 DEF Positive
<1>12. \A i \in 1..(n - 1) : Inside(c, k + i) /\ Blocks(c, k + i) = Blocks(c, k)
  <2>. SUFFICES ASSUME NEW i \in 1..(n - 1)
                PROVE  Inside(c, k + i) /\ Blocks(c, k + i) = Blocks(c, k)
    OBVIOUS
  <2>1. i \in 1..n /\ i # n /\ i \in 0..(n - 1)
    BY <1>4 DEF Positive
  <2>. QED
    BY <2>1, <1>7, <1>8, <1>9, <1>10
<1>. QED
  BY <1>4, <1>6, <1>7, <1>9, <1>10, <1>11, <1>12, SMTT(30) DEF n

-----------------------------------------------------------------------------
(***************************************************************************)
(* The inductive invariant.                                                *)
(***************************************************************************)
ConnsOK ==
  /\ conn \in [Conns -> {"none", "queued", "open", "gone"}] /\ queue \in Seq(Conns)
  /\ sent \in [Conns -> Nat] /\ got \in [Conns -> Nat] /\ eof \in [Conns -> 0..1]
  /\ \A c \in Conns : got[c] <= sent[c] /\ sent[c] <= Len(Sends[c])

ClientOK ==
  /\ pc \in {"queue", "events", "blocks", "write", "listen"}
  /\ ready \subseteq Conns /\ cur \in Conns
  /\ block_from_client \in Seq(ClientBytes) /\ client_block_size \in {0} \cup Positive
  /\ client_block_size # 0 <=> Len(block_from_client) >= 2
  /\ pc = "blocks" => client_block_size # 0
  /\ served \in [Conns -> Seq(Seq(ClientBytes))]

TxOK ==
  /\ block_to_modem \in Seq(ClientBytes) /\ written \in 0..Len(block_to_modem)
  /\ accepted \in Seq(Seq(ClientBytes)) /\ wire \in Seq(ClientBytes)

RxOK ==
  /\ block_from_modem \in Seq(AirBytes) /\ block_to_client \in Seq(AirBytes)
  /\ burst \in Seq(AirBytes) /\ taken \in Seq(Seq(AirBytes))
  /\ air \in Seq(AirBytes) /\ airpos \in 0..Len(Aired)
  /\ lost \in 0..MaxLost /\ quiet \in {"short", "long"} /\ stale \in 0..2

TypeInv == ConnsOK /\ ClientOK /\ TxOK /\ RxOK

\* The block being written is the last one accepted.
WireInv == WireHasBlocks /\ (block_to_modem # <<>> => accepted # <<>>)

\* The bytes of s; sequences that share none.
BytesOf(s) == {s[i] : i \in 1..Len(s)}
Apart(s, t) == BytesOf(s) \cap BytesOf(t) = {}
Past == {Aired[k] : k \in 1..airpos}

\* A byte of the air is in one place: on its way, in the block being
\* received, in the block for the clients, or in one block that was taken.
OnceInv ==
  /\ BytesOf(air) \cup BytesOf(block_from_modem) \cup BytesOf(block_to_client) \subseteq Past
  /\ Apart(air, block_from_modem) /\ Apart(air, block_to_client)
  /\ Apart(block_from_modem, block_to_client)
  /\ \A i, j \in 1..Len(air) : air[i] = air[j] => i = j
  /\ \A i \in 1..Len(taken) :
       /\ taken[i] # <<>> /\ BytesOf(taken[i]) \subseteq Past /\ Apart(taken[i], air)
       /\ Apart(taken[i], block_from_modem) /\ Apart(taken[i], block_to_client)
  /\ \A i, j \in 1..Len(taken) : i # j => Apart(taken[i], taken[j])

\* The buffer holds what was read since the last silence, after what that
\* silence left there.
BurstInv ==
  /\ Len(block_from_modem) = stale + Len(burst)
  /\ stale = 0 => block_from_modem = burst

\* Connections on their way to the worker, and those it is to read.
QueueInv ==
  /\ \A i \in 1..Len(queue) : conn[queue[i]] = "queued"
  /\ \A i, j \in 1..Len(queue) : queue[i] = queue[j] => i = j
  /\ \A c \in ready : conn[c] = "open" /\ (got[c] < sent[c] \/ eof[c] = 1)

\* While a block of o is half sent or half read, all there is of the other
\* connections was read.
AloneInv ==
  \A o \in Conns : \A d \in Conns \ {o} :
    /\ conn[o] # "gone" /\ conn[d] # "gone"
    /\ Inside(o, sent[o]) \/ Inside(o, got[o])
    => got[d] = sent[d] /\ eof[d] = 0 /\ ~Inside(d, sent[d])

\* The buffer is what was read of one connection after its last whole block
\* that was processed.
Owner == block_from_client[1][1]
Cut == got[Owner] - Len(block_from_client)

FramesInv ==
  /\ \A c \in Conns : \A i \in 1..Len(served[c]) : served[c][i] = Bytes(c, i, Stream[c][i].size)
  /\ \A c \in Conns : conn[c] # "gone" /\ (block_from_client = <<>> \/ c # Owner)
       => ~Inside(c, got[c]) /\ Len(served[c]) = Blocks(c, got[c])
  /\ block_from_client # <<>> =>
       /\ Owner \in Conns /\ conn[Owner] # "gone" /\ Cut \in Nat /\ ~Inside(Owner, Cut)
       /\ block_from_client = SubSeq(Sends[Owner], Cut + 1, got[Owner])
       /\ Len(served[Owner]) = Blocks(Owner, Cut)
       /\ pc = "blocks" => cur = Owner
       /\ pc # "blocks" => Len(block_from_client) < SizeOf(block_from_client[1])
       /\ Len(block_from_client) >= 2 => client_block_size = SizeOf(block_from_client[1])

\* A piece of a sequence.
LEMMA Piece ==
  ASSUME NEW S, NEW s \in Seq(S), NEW a \in Nat, NEW b \in Nat, a <= b, b <= Len(s)
  PROVE  /\ SubSeq(s, a + 1, b) \in Seq(S) /\ Len(SubSeq(s, a + 1, b)) = b - a
         /\ \A i \in 1..(b - a) : SubSeq(s, a + 1, b)[i] = s[a + i]
<1>1. \A i \in (a + 1)..b : s[i] \in S
  OBVIOUS
<1>2. Len(SubSeq(s, a + 1, b)) = b - a
  OBVIOUS
<1>3. SubSeq(s, a + 1, b) \in Seq(S)
  BY <1>1
<1>4. ASSUME NEW i \in 1..(b - a) PROVE SubSeq(s, a + 1, b)[i] = s[a + i]
  <2>1. a + i = (a + 1) + i - 1
    OBVIOUS
  <2>. QED
    BY <2>1
<1>. QED
  BY <1>2, <1>3, <1>4

\* The first bytes of a sequence.
LEMMA FirstPiece ==
  ASSUME NEW S, NEW s \in Seq(S), NEW b \in Nat, b <= Len(s)
  PROVE  /\ SubSeq(s, 1, b) \in Seq(S) /\ Len(SubSeq(s, 1, b)) = b
         /\ \A i \in 1..b : SubSeq(s, 1, b)[i] = s[i]
<1>1. SubSeq(s, 0 + 1, b) = SubSeq(s, 1, b) /\ b - 0 = b /\ 0 \in Nat /\ 0 <= b
  OBVIOUS
<1>2. \A i \in 1..b : 0 + i = i
  OBVIOUS
<1>. QED
  BY <1>1, <1>2, Piece

\* What data_receive adds to the buffer.
LEMMA ReadOfStream ==
  ASSUME ConnsOK, NEW c \in Conns
  PROVE  /\ SubSeq(Sends[c], got[c] + 1, sent[c]) \in Seq(ClientBytes)
         /\ Len(SubSeq(Sends[c], got[c] + 1, sent[c])) = sent[c] - got[c]
<1>1. got[c] \in Nat /\ sent[c] \in Nat /\ got[c] <= sent[c] /\ sent[c] <= Len(Sends[c])
  BY DEF ConnsOK
<1>. QED
  BY <1>1, StreamLayout, Piece

-----------------------------------------------------------------------------
(***************************************************************************)
(* Types and lengths.                                                      *)
(***************************************************************************)
\* It starts typed.
LEMMA InitTypes == Init => TypeInv
<1>. SUFFICES ASSUME Init PROVE TypeInv
  OBVIOUS
<1>. USE DEF Init
<1>1. ConnsOK
  <2>1. \A c \in Conns : Len(Sends[c]) \in Nat
    BY StreamLayout
  <2>. QED
    BY <2>1 DEF ConnsOK
<1>2. ClientOK
  BY DEF ClientOK
<1>3. TxOK
  BY DEF TxOK
<1>4. RxOK
  BY AirLayout, WorkerThreadAssumption DEF RxOK
<1>. QED
  BY <1>1, <1>2, <1>3, <1>4 DEF TypeInv

\* The steps of the clients and of the master thread.
LEMMA ConnsTypes ==
  ASSUME TypeInv, NEW c \in Conns,
         Accept(c) \/ Close(c) \/ \E n \in 1..Len(Sends[c]) : Deliver(c, n)
  PROVE  TypeInv'
<1>. USE DEF TypeInv
<1>1. ClientOK' /\ TxOK' /\ RxOK' /\ got' = got
  <2>1. UNCHANGED <<got, ready, cur, block_from_client, client_block_size, served, pc>>
    BY DEF Accept, Close, Deliver, client
  <2>2. UNCHANGED <<tx, rx, radio>>
    BY DEF Accept, Close, Deliver
  <2>. QED
    BY <2>1, <2>2 DEF ClientOK, TxOK, RxOK, tx, rx, radio
<1>2. ConnsOK'
  <2>1. CASE Accept(c)
    BY <2>1, <1>1 DEF Accept, ConnsOK
  <2>2. CASE Close(c)
    <3>1. eof' \in [Conns -> 0..1]
      BY <2>2 DEF Close, ConnsOK
    <3>. QED
      BY <2>2, <1>1, <3>1 DEF Close, ConnsOK
  <2>3. ASSUME NEW n \in 1..Len(Sends[c]), Deliver(c, n) PROVE ConnsOK'
    <3>1. n \in Nat /\ sent' = [sent EXCEPT ![c] = n] /\ sent[c] < n /\ n <= Len(Sends[c])
      BY <2>3 DEF Deliver
    <3>2. UNCHANGED <<conn, queue, eof>>
      BY <2>3 DEF Deliver
    <3>3. sent' \in [Conns -> Nat]
      BY <3>1 DEF ConnsOK
    <3>4. \A d \in Conns : got'[d] <= sent'[d] /\ sent'[d] <= Len(Sends[d])
      BY <3>1, <1>1 DEF ConnsOK
    <3>. QED
      BY <3>2, <3>3, <3>4, <1>1 DEF ConnsOK
  <2>. QED
    BY <2>1, <2>2, <2>3
<1>. QED
  BY <1>1, <1>2

\* The steps of the radio.
LEMMA RadioTypes ==
  ASSUME TypeInv, Arrive \/ Lose \/ Silence
  PROVE  TypeInv'
<1>. USE DEF TypeInv
<1>1. ConnsOK' /\ ClientOK' /\ TxOK'
  <2>1. UNCHANGED <<conns, client, tx, pc>>
    BY DEF Arrive, Lose, Silence
  <2>. QED
    BY <2>1 DEF ConnsOK, ClientOK, TxOK, conns, client, tx
<1>2. UNCHANGED rx
  BY DEF Arrive, Lose, Silence
<1>3. RxOK'
  <2>1. CASE Arrive
    <3>1. airpos + 1 \in 1..Len(Aired) /\ airpos' = airpos + 1 /\ Aired[airpos + 1] \in AirBytes
      BY <2>1, AirLayout DEF Arrive, RxOK
    <3>2. air' \in Seq(AirBytes)
      BY <2>1, <3>1 DEF Arrive, RxOK
    <3>3. airpos' \in 0..Len(Aired) /\ UNCHANGED <<lost, quiet>>
      BY <2>1, <3>1, AirLayout DEF Arrive
    <3>. QED
      BY <3>2, <3>3, <1>2 DEF RxOK, rx
  <2>2. CASE Lose
    <3>1. airpos' \in 0..Len(Aired) /\ lost' \in 0..MaxLost /\ UNCHANGED <<air, quiet>>
      BY <2>2, AirLayout, WorkerThreadAssumption DEF Lose, RxOK
    <3>. QED
      BY <3>1, <1>2 DEF RxOK, rx
  <2>3. CASE Silence
    BY <2>3, <1>2 DEF Silence, RxOK, rx
  <2>. QED
    BY <2>1, <2>2, <2>3
<1>. QED
  BY <1>1, <1>3

\* The steps of the worker about the connections, up to the blocks.
LEMMA EventTypes ==
  ASSUME TypeInv,
         \/ Register \/ WaitEvent \/ BlocksDone \/ EventsDone
         \/ \E c \in Conns : DataReceiveEnd(c) \/ DataReceive(c)
  PROVE  TypeInv'
<1>. USE DEF TypeInv
<1>1. TxOK' /\ RxOK'
  <2>1. UNCHANGED <<tx, rx, radio>>
    BY DEF Register, WaitEvent, BlocksDone, EventsDone, DataReceiveEnd, DataReceive
  <2>. QED
    BY <2>1 DEF TxOK, RxOK, tx, rx, radio
<1>2. CASE Register
  <2>1. Head(queue) \in Conns /\ Tail(queue) \in Seq(Conns)
    BY <1>2 DEF Register, ConnsOK
  <2>2. conn' \in [Conns -> {"none", "queued", "open", "gone"}] /\ queue' \in Seq(Conns)
    BY <1>2, <2>1 DEF Register, ConnsOK
  <2>3. UNCHANGED <<sent, eof, client, pc>>
    BY <1>2 DEF Register
  <2>. QED
    BY <1>1, <2>2, <2>3 DEF ConnsOK, ClientOK, client
<1>3. CASE WaitEvent
  <2>1. UNCHANGED <<conns, got, cur, block_from_client, client_block_size, served>>
    BY <1>3 DEF WaitEvent
  <2>2. ready' \subseteq Conns /\ pc' = "events"
    BY <1>3 DEF WaitEvent
  <2>. QED
    BY <1>1, <2>1, <2>2 DEF ConnsOK, ClientOK, conns
<1>4. CASE BlocksDone \/ EventsDone
  <2>1. UNCHANGED <<conns, client>> /\ pc' \in {"events", "write"}
    BY <1>4 DEF BlocksDone, EventsDone
  <2>. QED
    BY <1>1, <2>1 DEF ConnsOK, ClientOK, conns, client
<1>5. ASSUME NEW c \in Conns, DataReceiveEnd(c) PROVE TypeInv'
  <2>1. conn' = [conn EXCEPT ![c] = "gone"] /\ got' = [got EXCEPT ![c] = sent[c]]
    BY <1>5 DEF DataReceiveEnd
  <2>2. UNCHANGED <<queue, sent, eof, cur, served, pc>> /\ pc = "events"
    BY <1>5 DEF DataReceiveEnd
  <2>3. ConnsOK'
    <3>1. conn' \in [Conns -> {"none", "queued", "open", "gone"}] /\ got' \in [Conns -> Nat]
      BY <2>1 DEF ConnsOK
    <3>2. \A d \in Conns : got'[d] <= sent[d]
      BY <2>1 DEF ConnsOK
    <3>. QED
      BY <3>1, <3>2, <2>2 DEF ConnsOK
  <2>4. block_from_client' = <<>> /\ client_block_size' = 0 /\ ready' \subseteq Conns
    BY <1>5 DEF DataReceiveEnd, ClientOK
  <2>5. Len(<<>>) = 0 /\ <<>> \in Seq(ClientBytes)
    OBVIOUS
  <2>6. ClientOK'
    BY <2>2, <2>4, <2>5 DEF ClientOK
  <2>. QED
    BY <1>1, <2>3, <2>6
<1>6. ASSUME NEW c \in Conns, DataReceive(c) PROVE TypeInv'
  <2>. DEFINE buf == block_from_client \o SubSeq(Sends[c], got[c] + 1, sent[c])
  <2>1. got' = [got EXCEPT ![c] = sent[c]] /\ UNCHANGED <<conn, queue, sent, eof, served>>
    BY <1>6 DEF DataReceive, conns
  <2>2. ConnsOK'
    <3>1. got' \in [Conns -> Nat] /\ \A d \in Conns : got'[d] <= sent[d]
      BY <2>1 DEF ConnsOK
    <3>. QED
      BY <3>1, <2>1 DEF ConnsOK
  <2>3. buf \in Seq(ClientBytes) /\ Len(buf) >= Len(block_from_client)
    <3>. DEFINE p == SubSeq(Sends[c], got[c] + 1, sent[c])
    <3>1. p \in Seq(ClientBytes) /\ block_from_client \in Seq(ClientBytes)
      BY ReadOfStream DEF ClientOK
    <3>. HIDE DEF p
    <3>2. /\ block_from_client \o p \in Seq(ClientBytes)
          /\ Len(block_from_client \o p) >= Len(block_from_client)
      BY <3>1
    <3>. QED
      BY <3>2 DEF p
  <2>4. block_from_client' = buf /\ ready' \subseteq Conns
    BY <1>6 DEF DataReceive, ClientOK
  <2>. HIDE DEF buf
  <2>5. Len(buf) \in Nat /\ Len(block_from_client) \in Nat
    BY <2>3 DEF ClientOK
  <2>6. \/ client_block_size = 0 /\ Len(buf) < 2 /\ UNCHANGED <<pc, cur, client_block_size>>
        \/ /\ Len(buf) >= 2 /\ client_block_size' \in Sizes(buf) /\ pc' = "blocks" /\ cur' = c
        \/ /\ client_block_size # 0 /\ UNCHANGED client_block_size /\ pc' = "blocks" /\ cur' = c
    BY <1>6 DEF DataReceive, buf
  <2>7. Len(buf) >= 2 => Sizes(buf) \subseteq Positive
    BY <2>3, HeaderSizes
  <2>8. 0 \notin Positive
    BY DEF Positive
  <2>9. CASE client_block_size = 0 /\ Len(buf) < 2 /\ UNCHANGED <<pc, cur, client_block_size>>
    BY <1>1, <2>1, <2>2, <2>3, <2>4, <2>5, <2>9 DEF ClientOK
  <2>10. CASE /\ Len(buf) >= 2 /\ client_block_size' \in Sizes(buf)
              /\ pc' = "blocks" /\ cur' = c
    BY <1>1, <2>1, <2>2, <2>3, <2>4, <2>7, <2>8, <2>10 DEF ClientOK
  <2>11. CASE /\ client_block_size # 0 /\ UNCHANGED client_block_size
              /\ pc' = "blocks" /\ cur' = c
    BY <1>1, <2>1, <2>2, <2>3, <2>4, <2>5, <2>11 DEF ClientOK
  <2>. QED
    BY <2>6, <2>9, <2>10, <2>11
<1>. QED
  BY <1>2, <1>3, <1>4, <1>5, <1>6

\* What data_process is called with.
LEMMA BlockCut ==
  ASSUME ClientOK, pc = "blocks", Len(block_from_client) >= client_block_size
  PROVE  /\ client_block_size \in Positive
         /\ SubSeq(block_from_client, 1, client_block_size) \in Seq(ClientBytes)
         /\ Len(SubSeq(block_from_client, 1, client_block_size)) = client_block_size
         /\ SubSeq(block_from_client, 1, client_block_size) # <<>>
         /\ SubSeq(block_from_client, client_block_size + 1, Len(block_from_client))
              \in Seq(ClientBytes)
<1>1. client_block_size \in Positive /\ block_from_client \in Seq(ClientBytes)
  BY DEF ClientOK
<1>2. client_block_size \in Nat /\ client_block_size # 0 /\ Len(block_from_client) \in Nat
  BY <1>1 DEF Positive
<1>3. /\ SubSeq(block_from_client, 1, client_block_size) \in Seq(ClientBytes)
      /\ Len(SubSeq(block_from_client, 1, client_block_size)) = client_block_size
  BY <1>1, <1>2, FirstPiece
<1>4. SubSeq(block_from_client, client_block_size + 1, Len(block_from_client))
        \in Seq(ClientBytes)
  BY <1>1, <1>2, Piece
<1>5. Len(<<>>) = 0
  OBVIOUS
<1>. QED
  BY <1>1, <1>2, <1>3, <1>4, <1>5

\* The block that is processed.
LEMMA ProcessTypes ==
  ASSUME TypeInv, NEW b \in Seq(ClientBytes), b # <<>>, DataProcess(b)
  PROVE  /\ served' \in [Conns -> Seq(Seq(ClientBytes))]
         /\ TxOK' /\ UNCHANGED <<block_from_modem, burst, stale>>
         /\ block_to_client' \in Seq(AirBytes) /\ taken' \in Seq(Seq(AirBytes))
<1>. USE DEF TypeInv
<1>1. served' \in [Conns -> Seq(Seq(ClientBytes))]
  <2>1. served' = [served EXCEPT ![cur] = Append(served[cur], b)] /\ cur \in Conns
    BY DEF DataProcess, ClientOK
  <2>2. served \in [Conns -> Seq(Seq(ClientBytes))]
    BY DEF ClientOK
  <2>3. Append(served[cur], b) \in Seq(Seq(ClientBytes))
    BY <2>1, <2>2
  <2>. QED
    BY <2>1, <2>2, <2>3
<1>2. CASE SendToModem(b) /\ UNCHANGED rx
  <2>1. TxOK'
    <3>1. CASE block_to_modem = <<>>
      <4>1. written = 0
        BY <3>1 DEF TxOK
      <4>2. UNCHANGED <<written, wire>> /\ block_to_modem' = b /\ accepted' = Append(accepted, b)
        BY <1>2, <3>1 DEF SendToModem
      <4>3. 0 \in 0..Len(b) /\ Append(accepted, b) \in Seq(Seq(ClientBytes))
        BY DEF TxOK
      <4>. QED
        BY <4>1, <4>2, <4>3 DEF TxOK
    <3>2. CASE block_to_modem # <<>>
      BY <1>2, <3>2 DEF SendToModem, TxOK, tx
    <3>. QED
      BY <3>1, <3>2
  <2>. QED
    BY <1>1, <1>2, <2>1 DEF RxOK, rx
<1>3. CASE GiveToClient /\ UNCHANGED tx
  <2>1. TxOK'
    BY <1>3 DEF TxOK, tx
  <2>2. block_to_client' \in Seq(AirBytes)
    BY <1>3 DEF GiveToClient
  <2>3. taken' \in Seq(Seq(AirBytes))
    <3>1. taken \in Seq(Seq(AirBytes)) /\ block_to_client \in Seq(AirBytes)
      BY DEF RxOK
    <3>2. taken' = taken \/ taken' = Append(taken, block_to_client)
      BY <1>3 DEF GiveToClient
    <3>3. Append(taken, block_to_client) \in Seq(Seq(AirBytes))
      BY <3>1
    <3>. QED
      BY <3>1, <3>2, <3>3
  <2>. QED
    BY <1>1, <1>3, <2>1, <2>2, <2>3 DEF GiveToClient
<1>4. CASE UNCHANGED <<tx, rx>>
  BY <1>1, <1>4 DEF TxOK, RxOK, tx, rx
<1>. QED
  BY <1>2, <1>3, <1>4 DEF DataProcess

\* One turn of the loop over the blocks.
LEMMA NextBlockTypes == ASSUME TypeInv, NextBlock PROVE TypeInv'
<1>. DEFINE rest == SubSeq(block_from_client, client_block_size + 1, Len(block_from_client))
            b == SubSeq(block_from_client, 1, client_block_size)
<1>1. pc = "blocks" /\ Len(block_from_client) >= client_block_size /\ DataProcess(b)
  BY DEF NextBlock
<1>2. b \in Seq(ClientBytes) /\ b # <<>> /\ rest \in Seq(ClientBytes)
  BY <1>1, BlockCut DEF TypeInv
<1>3. /\ served' \in [Conns -> Seq(Seq(ClientBytes))]
      /\ TxOK' /\ UNCHANGED <<block_from_modem, burst, stale>>
      /\ block_to_client' \in Seq(AirBytes) /\ taken' \in Seq(Seq(AirBytes))
  <2>. HIDE DEF b
  <2>. QED
    BY <1>1, <1>2, ProcessTypes
<1>4. /\ block_from_client' = rest
      /\ IF Len(rest) >= 2 THEN client_block_size' \in Sizes(rest) /\ UNCHANGED pc
                           ELSE client_block_size' = 0 /\ pc' = "events"
      /\ UNCHANGED <<conns, got, ready, cur, radio>>
  BY DEF NextBlock
<1>. HIDE DEF rest, b
<1>5. Len(rest) >= 2 => Sizes(rest) \subseteq Positive
  BY <1>2, HeaderSizes
<1>6. 0 \notin Positive
  BY DEF Positive
<1>7. ClientOK'
  <2>1. UNCHANGED <<ready, cur>> /\ ready \subseteq Conns /\ cur \in Conns
    BY <1>4 DEF TypeInv, ClientOK
  <2>2. CASE Len(rest) >= 2
    BY <1>1, <1>2, <1>3, <1>4, <1>5, <1>6, <2>1, <2>2 DEF ClientOK
  <2>3. CASE ~(Len(rest) >= 2)
    BY <1>2, <1>3, <1>4, <2>1, <2>3 DEF ClientOK
  <2>. QED
    BY <2>2, <2>3
<1>8. ConnsOK' /\ RxOK'
  <2>1. UNCHANGED <<conns, got, radio, block_from_modem, burst, stale>>
    BY <1>3, <1>4
  <2>. QED
    BY <2>1, <1>3 DEF TypeInv, ConnsOK, RxOK, conns, radio
<1>. QED
  BY <1>3, <1>7, <1>8 DEF TypeInv

\* The bytes the driver takes.
LEMMA WriteLength ==
  ASSUME TxOK, NEW n \in 0..DMA, WriteModem(n)
  PROVE  n \in Nat /\ written \in Nat /\ written + n \in 0..Len(block_to_modem)
<1>1. written \in Nat /\ Len(block_to_modem) \in Nat /\ written <= Len(block_to_modem)
  BY DEF TxOK
<1>2. n \in Nat /\ DMA \in Nat
  BY WorkerThreadAssumption
<1>3. n = 0 \/ n = (IF Len(block_to_modem) - written < DMA
                    THEN Len(block_to_modem) - written ELSE DMA)
  BY DEF WriteModem
<1>. QED
  BY <1>1, <1>2, <1>3

\* The steps of the worker about the modem.
LEMMA ModemTypes ==
  ASSUME TypeInv,
         \/ \E n \in 0..DMA : WriteModem(n)
         \/ \E n \in 1..Len(air) : ListenRead(n)
         \/ ListenEnd \/ ListenIdle
  PROVE  TypeInv'
<1>. USE DEF TypeInv
<1>1. ConnsOK' /\ ClientOK'
  <2>1. UNCHANGED <<conns, client>> /\ pc' \in {"listen", "queue"}
    BY DEF WriteModem, ListenRead, ListenEnd, ListenIdle
  <2>. QED
    BY <2>1 DEF ConnsOK, ClientOK, conns, client
<1>2. ASSUME NEW n \in 0..DMA, WriteModem(n) PROVE TypeInv'
  <2>1. n \in Nat /\ written \in Nat /\ written + n \in 0..Len(block_to_modem)
    BY <1>2, WriteLength
  <2>2. RxOK'
    BY <1>2 DEF WriteModem, RxOK, rx, radio
  <2>3. wire' \in Seq(ClientBytes)
    <3>1. written <= written + n /\ written + n <= Len(block_to_modem) /\ written + n \in Nat
      BY <2>1 DEF TxOK
    <3>2. SubSeq(block_to_modem, written + 1, written + n) \in Seq(ClientBytes)
      BY <2>1, <3>1, Piece DEF TxOK
    <3>. QED
      BY <1>2, <3>2 DEF WriteModem, TxOK
  <2>4. block_to_modem' \in Seq(ClientBytes) /\ written' \in 0..Len(block_to_modem')
    <3>1. CASE written + n = Len(block_to_modem)
      <4>1. written' = 0 /\ block_to_modem' = <<>> /\ Len(<<>>) = 0 /\ <<>> \in Seq(ClientBytes)
        BY <1>2, <3>1 DEF WriteModem
      <4>. QED
        BY <4>1
    <3>2. CASE written + n # Len(block_to_modem)
      BY <1>2, <2>1, <3>2 DEF WriteModem, TxOK
    <3>. QED
      BY <3>1, <3>2
  <2>. QED
    BY <1>1, <1>2, <2>2, <2>3, <2>4 DEF WriteModem, TxOK
<1>3. ASSUME NEW n \in 1..Len(air), ListenRead(n) PROVE TypeInv'
  <2>1. TxOK' /\ UNCHANGED <<block_to_client, taken, stale, airpos, lost>> /\ quiet' = "short"
    BY <1>3 DEF ListenRead, TxOK, tx
  <2>2. air \in Seq(AirBytes) /\ n \in Nat /\ n <= Len(air) /\ Len(air) \in Nat
    BY DEF RxOK
  <2>3. SubSeq(air, 1, n) \in Seq(AirBytes)
    BY <2>2, FirstPiece
  <2>4. SubSeq(air, n + 1, Len(air)) \in Seq(AirBytes)
    BY <2>2, Piece
  <2>5. block_from_modem' \in Seq(AirBytes) /\ burst' \in Seq(AirBytes) /\ air' \in Seq(AirBytes)
    BY <1>3, <2>3, <2>4, SMTT(30) DEF ListenRead, RxOK
  <2>. QED
    BY <1>1, <2>1, <2>5 DEF RxOK
<1>4. CASE ListenEnd
  <2>1. TxOK' /\ UNCHANGED <<taken, air, airpos, lost, quiet>> /\ burst' = <<>>
    BY <1>4 DEF ListenEnd, TxOK, tx, radio
  <2>2. block_from_modem' \in {block_from_modem, <<>>}
    BY <1>4 DEF ListenEnd
  <2>3. block_to_client' \in {block_from_modem, block_to_client}
    BY <1>4 DEF ListenEnd
  <2>4. <<>> \in Seq(AirBytes)
    OBVIOUS
  <2>5. stale' \in 0..2
    <3>. DEFINE n == Len(block_from_modem)
    <3>1. /\ n \in Nat
          /\ stale' = IF n < 3 THEN n ELSE 0
      BY <1>4 DEF ListenEnd, RxOK
    <3>. HIDE DEF n
    <3>. QED
      BY <3>1
  <2>. QED
    BY <1>1, <2>1, <2>2, <2>3, <2>4, <2>5 DEF RxOK
<1>5. CASE ListenIdle
  BY <1>1, <1>5 DEF ListenIdle, TxOK, RxOK, tx, rx, radio
<1>. QED
  BY <1>2, <1>3, <1>4, <1>5

\* Every step keeps the types.
LEMMA NextTypes == TypeInv /\ [Next]_vars => TypeInv'
<1>1. CASE TypeInv /\ Next
  BY <1>1, ConnsTypes, RadioTypes, EventTypes, NextBlockTypes, ModemTypes DEF Next, Worker
<1>2. CASE TypeInv /\ UNCHANGED vars
  BY <1>2 DEF TypeInv, ConnsOK, ClientOK, TxOK, RxOK, vars, conns, client, tx, rx, radio
<1>. QED
  BY <1>1, <1>2

\* Every variable keeps its type, whatever the clients send and however it is
\* cut into segments: the offset of write_modem stays within the block, no
\* more is read of a connection than arrived, and data_receive never takes a
\* size below that of a header.
THEOREM TypesKept == Spec => []TypeInv
<1>. QED
  BY InitTypes, NextTypes, PTL DEF Spec

\* The same, as the runs check it.
THEOREM TypeCorrect == Spec => []TypeOK
<1>1. TypeInv => TypeOK
  <2>. SUFFICES ASSUME TypeInv PROVE TypeOK
    OBVIOUS
  <2>1. ASSUME NEW c \in Conns
        PROVE  got[c] \in 0..sent[c] /\ sent[c] \in 0..Len(Sends[c]) /\ eof[c] \in 0..1
    BY StreamLayout DEF TypeInv, ConnsOK
  <2>. QED
    BY <2>1 DEF TypeInv, ConnsOK, ClientOK, TxOK, RxOK, TypeOK, Positive
<1>. QED
  BY <1>1, TypesKept, PTL

-----------------------------------------------------------------------------
(***************************************************************************)
(* What the modem takes.                                                   *)
(***************************************************************************)
\* Sequences with the same elements are equal.
LEMMA SameSequence ==
  ASSUME NEW S, NEW s \in Seq(S), NEW t \in Seq(S), Len(s) = Len(t),
         \A i \in 1..Len(s) : s[i] = t[i]
  PROVE  s = t
OBVIOUS

\* Two pieces that follow each other are one.
LEMMA PiecesJoin ==
  ASSUME NEW S, NEW s \in Seq(S), NEW a \in Nat, NEW m \in Nat, NEW b \in Nat,
         a <= m, m <= b, b <= Len(s)
  PROVE  SubSeq(s, a + 1, m) \o SubSeq(s, m + 1, b) = SubSeq(s, a + 1, b)
<1>. DEFINE p == SubSeq(s, a + 1, m)
            q == SubSeq(s, m + 1, b)
            r == SubSeq(s, a + 1, b)
<1>0. a <= b /\ m <= Len(s) /\ Len(s) \in Nat
  OBVIOUS
<1>1. p \in Seq(S) /\ Len(p) = m - a /\ \A i \in 1..(m - a) : p[i] = s[a + i]
  BY <1>0, Piece
<1>2. q \in Seq(S) /\ Len(q) = b - m /\ \A i \in 1..(b - m) : q[i] = s[m + i]
  BY <1>0, Piece
<1>3. r \in Seq(S) /\ Len(r) = b - a /\ \A i \in 1..(b - a) : r[i] = s[a + i]
  BY <1>0, Piece
<1>. HIDE DEF p, q, r
<1>4. p \o q \in Seq(S) /\ Len(p \o q) = b - a
  <2>1. p \in Seq(S) /\ q \in Seq(S)
    BY <1>1, <1>2
  <2>3. p \o q \in Seq(S)
    BY <2>1
  <2>4. Len(p \o q) = Len(p) + Len(q)
    BY <2>1
  <2>2. Len(p) + Len(q) = b - a
    BY <1>1, <1>2
  <2>. QED
    BY <2>2, <2>3, <2>4
<1>5. ASSUME NEW i \in 1..(b - a) PROVE (p \o q)[i] = r[i]
  <2>1. CASE i <= m - a
    <3>1. i \in 1..(m - a) /\ (p \o q)[i] = p[i]
      BY <2>1, <1>1, <1>2
    <3>. QED
      BY <3>1, <1>1, <1>3
  <2>2. CASE i > m - a
    <3>1. i - (m - a) \in 1..(b - m) /\ m + (i - (m - a)) = a + i
      BY <2>2
    <3>2. (p \o q)[i] = q[i - (m - a)]
      <4>1. i \in (Len(p) + 1)..(Len(p) + Len(q))
        BY <2>2, <1>1, <1>2
      <4>2. (p \o q)[i] = q[i - Len(p)]
        BY <4>1, <1>1, <1>2, SMTT(30)
      <4>. QED
        BY <4>2, <1>1
    <3>3. q[i - (m - a)] = s[m + (i - (m - a))]
      BY <3>1, <1>2
    <3>4. r[i] = s[a + i]
      BY <1>3
    <3>. QED
      BY <3>1, <3>2, <3>3, <3>4
  <2>3. i <= m - a \/ i > m - a
    OBVIOUS
  <2>. QED
    BY <2>1, <2>2, <2>3
<1>6. p \o q = r
  BY <1>3, <1>4, <1>5, SameSequence
<1>. QED
  BY <1>6 DEF p, q, r

\* The first piece and the next.
LEMMA FirstPiecesJoin ==
  ASSUME NEW S, NEW s \in Seq(S), NEW m \in Nat, NEW b \in Nat, m <= b, b <= Len(s)
  PROVE  SubSeq(s, 1, m) \o SubSeq(s, m + 1, b) = SubSeq(s, 1, b)
<1>1. 0 \in Nat /\ 0 <= m /\ 0 + 1 = 1
  OBVIOUS
<1>2. SubSeq(s, 0 + 1, m) \o SubSeq(s, m + 1, b) = SubSeq(s, 0 + 1, b)
  BY <1>1, PiecesJoin
<1>. QED
  BY <1>1, <1>2

\* Concatenation is associative.
LEMMA JoinJoin ==
  ASSUME NEW S, NEW s \in Seq(S), NEW t \in Seq(S), NEW u \in Seq(S)
  PROVE  (s \o t) \o u = s \o (t \o u)
<1>1. (s \o t) \o u \in Seq(S) /\ s \o (t \o u) \in Seq(S)
  OBVIOUS
<1>2. Len((s \o t) \o u) = Len(s \o (t \o u))
  OBVIOUS
<1>3. \A i \in 1..Len((s \o t) \o u) : ((s \o t) \o u)[i] = (s \o (t \o u))[i]
  OBVIOUS
<1>. QED
  BY <1>1, <1>2, <1>3, SameSequence

\* What is appended is last.
LEMMA LastOfAppend ==
  ASSUME NEW S, NEW s \in Seq(S), NEW x \in S
  PROVE  Last(Append(s, x)) = x /\ Front(Append(s, x)) = s /\ Append(s, x) # <<>>
<1>. DEFINE t == Append(s, x)
<1>1. t \in Seq(S) /\ Len(t) = Len(s) + 1 /\ t[Len(s) + 1] = x
  OBVIOUS
<1>2. \A i \in 1..Len(s) : t[i] = s[i]
  OBVIOUS
<1>. HIDE DEF t
<1>3. Last(t) = x
  BY <1>1 DEF Last
<1>4. Front(t) = SubSeq(t, 1, Len(s))
  BY <1>1 DEF Front
<1>5. /\ SubSeq(t, 1, Len(s)) \in Seq(S) /\ Len(SubSeq(t, 1, Len(s))) = Len(s)
      /\ \A i \in 1..Len(s) : SubSeq(t, 1, Len(s))[i] = t[i]
  <2>1. Len(s) \in Nat /\ Len(s) <= Len(t)
    BY <1>1
  <2>. QED
    BY <1>1, <2>1, FirstPiece
<1>6. SubSeq(t, 1, Len(s)) = s
  BY <1>2, <1>5, SameSequence
<1>7. t # <<>>
  BY <1>1
<1>. QED
  BY <1>3, <1>4, <1>6, <1>7 DEF t

\* A sequence is its front and its last element.
LEMMA FrontAndLast ==
  ASSUME NEW S, NEW s \in Seq(S), s # <<>>
  PROVE  Front(s) \in Seq(S) /\ Last(s) \in S /\ s = Append(Front(s), Last(s))
<1>1. Len(s) \in Nat /\ Len(s) # 0 /\ Len(s) - 1 \in Nat /\ Len(s) - 1 <= Len(s)
  OBVIOUS
<1>2. Last(s) = s[Len(s)] /\ s[Len(s)] \in S
  BY <1>1 DEF Last
<1>3. /\ Front(s) \in Seq(S) /\ Len(Front(s)) = Len(s) - 1
      /\ \A i \in 1..(Len(s) - 1) : Front(s)[i] = s[i]
  BY <1>1, FirstPiece DEF Front
<1>4. Append(Front(s), Last(s)) \in Seq(S) /\ Len(Append(Front(s), Last(s))) = Len(s)
  BY <1>1, <1>2, <1>3
<1>5. ASSUME NEW i \in 1..Len(s) PROVE s[i] = Append(Front(s), Last(s))[i]
  BY <1>1, <1>2, <1>3
<1>6. s = Append(Front(s), Last(s))
  <2>. DEFINE t == Append(Front(s), Last(s))
  <2>. HIDE DEF t
  <2>1. t \in Seq(S) /\ Len(s) = Len(t) /\ \A i \in 1..Len(s) : s[i] = t[i]
    BY <1>4, <1>5 DEF t
  <2>2. s = t
    BY <2>1, SameSequence
  <2>. QED
    BY <2>2 DEF t
<1>. QED
  BY <1>2, <1>3, <1>6

\* Nothing has been written at the start.
LEMMA InitWire == Init => WireInv
BY FlattenNone DEF Init, WireInv, WireHasBlocks

\* A block that data_process moves to the modem.
LEMMA SendWire ==
  ASSUME TypeInv, WireInv, NEW b \in Seq(ClientBytes), b # <<>>, SendToModem(b)
  PROVE  WireInv'
<1>1. CASE block_to_modem = <<>>
  <2>1. written = 0 /\ wire = FlattenSeq(accepted)
    BY <1>1 DEF WireInv, WireHasBlocks
  <2>2. /\ block_to_modem' = b /\ accepted' = Append(accepted, b)
        /\ written' = 0 /\ wire' = FlattenSeq(accepted)
    BY <1>1, <2>1 DEF SendToModem
  <2>3. accepted \in Seq(Seq(ClientBytes))
    BY DEF TypeInv, TxOK
  <2>4. Last(accepted') = b /\ Front(accepted') = accepted /\ accepted' # <<>>
    BY <2>2, <2>3, LastOfAppend
  <2>5. SubSeq(b, 1, 0) = <<>>
    OBVIOUS
  <2>6. FlattenSeq(accepted) \in Seq(ClientBytes)
    BY <2>3, LayoutExists
  <2>7. FlattenSeq(accepted) \o <<>> = FlattenSeq(accepted)
    BY <2>6
  <2>. QED
    BY <2>2, <2>4, <2>5, <2>7 DEF WireInv, WireHasBlocks
<1>2. CASE block_to_modem # <<>>
  BY <1>2 DEF SendToModem, tx, WireInv, WireHasBlocks
<1>. QED
  BY <1>1, <1>2

\* What the driver takes of the block.
LEMMA WriteWire ==
  ASSUME TypeInv, WireInv, NEW n \in 0..DMA, WriteModem(n)
  PROVE  WireInv'
<1>0. n \in Nat /\ written \in Nat /\ written + n \in 0..Len(block_to_modem)
  BY WriteLength DEF TypeInv
<1>1. accepted' = accepted /\ accepted \in Seq(Seq(ClientBytes)) /\ wire \in Seq(ClientBytes)
  BY DEF WriteModem, TypeInv, TxOK
<1>2. CASE block_to_modem = <<>>
  <2>1. written = 0 /\ wire = FlattenSeq(accepted) /\ Len(block_to_modem) = 0
    BY <1>2 DEF WireInv, WireHasBlocks
  <2>2. n = 0 /\ SubSeq(block_to_modem, written + 1, written + n) = <<>>
    BY <1>0, <1>2, <2>1
  <2>3. wire' = wire
    <3>1. wire' = wire \o <<>>
      BY <2>2 DEF WriteModem
    <3>. QED
      BY <1>1, <3>1
  <2>4. written' = 0 /\ block_to_modem' = <<>>
    BY <2>1, <2>2 DEF WriteModem
  <2>. QED
    BY <1>1, <2>1, <2>3, <2>4 DEF WireInv, WireHasBlocks
<1>3. CASE block_to_modem # <<>>
  <2>. DEFINE f == FlattenSeq(Front(accepted))
              b == block_to_modem
              new == SubSeq(b, written + 1, written + n)
              old == SubSeq(b, 1, written)
  <2>1. accepted # <<>> /\ b = Last(accepted) /\ wire = f \o old
    BY <1>3 DEF WireInv, WireHasBlocks
  <2>2. Front(accepted) \in Seq(Seq(ClientBytes)) /\ accepted = Append(Front(accepted), b)
    BY <1>1, <2>1, FrontAndLast
  <2>3. f \in Seq(ClientBytes)
    BY <2>2, LayoutExists
  <2>4. b \in Seq(ClientBytes) /\ written <= Len(b) /\ written + n <= Len(b) /\ Len(b) \in Nat
    BY <1>0 DEF TypeInv, TxOK
  <2>5. old \in Seq(ClientBytes)
    BY <1>0, <2>4, FirstPiece
  <2>6. new \in Seq(ClientBytes) /\ old \o new = SubSeq(b, 1, written + n)
    <3>1. written <= written + n /\ written + n \in Nat
      BY <1>0
    <3>. QED
      BY <1>0, <2>4, <3>1, Piece, FirstPiecesJoin
  <2>7. wire' = f \o SubSeq(b, 1, written + n)
    <3>1. wire' = wire \o new
      BY DEF WriteModem
    <3>. HIDE DEF f, old, new, b
    <3>2. (f \o old) \o new = f \o (old \o new)
      <4>1. \A s, t, u \in Seq(ClientBytes) : (s \o t) \o u = s \o (t \o u)
        BY JoinJoin
      <4>. QED
        BY <2>3, <2>5, <2>6, <4>1
    <3>. QED
      BY <3>1, <3>2, <2>1, <2>6
  <2>8. CASE written + n = Len(b)
    <3>1. written' = 0 /\ block_to_modem' = <<>>
      BY <2>8 DEF WriteModem
    <3>2. SubSeq(b, 1, Len(b)) = b
      BY <2>4
    <3>3. FlattenSeq(accepted) = f \o b
      <4>1. FlattenSeq(Append(Front(accepted), b)) = f \o b
        BY <2>2, <2>4, FlattenAppend
      <4>. QED
        BY <4>1, <2>2
    <3>. QED
      BY <3>1, <3>2, <3>3, <2>7, <2>8, <1>1 DEF WireInv, WireHasBlocks
  <2>9. CASE written + n # Len(b)
    <3>1. written' = written + n /\ block_to_modem' = b
      BY <2>9 DEF WriteModem
    <3>. QED
      BY <3>1, <2>1, <2>7, <1>1, <1>3 DEF WireInv, WireHasBlocks
  <2>. QED
    BY <2>8, <2>9
<1>. QED
  BY <1>2, <1>3

\* Every step keeps it.
LEMMA NextWire == TypeInv /\ WireInv /\ [Next]_vars => WireInv'
<1>. SUFFICES ASSUME TypeInv, WireInv, [Next]_vars PROVE WireInv'
  OBVIOUS
<1>1. CASE UNCHANGED tx
  BY <1>1 DEF WireInv, WireHasBlocks, tx
<1>2. CASE NextBlock
  <2>. DEFINE b == SubSeq(block_from_client, 1, client_block_size)
  <2>1. b \in Seq(ClientBytes) /\ b # <<>> /\ DataProcess(b)
    BY <1>2, BlockCut DEF NextBlock, TypeInv
  <2>. HIDE DEF b
  <2>2. SendToModem(b) \/ UNCHANGED tx
    BY <2>1 DEF DataProcess
  <2>. QED
    BY <1>1, <2>1, <2>2, SendWire
<1>3. ASSUME NEW n \in 0..DMA, WriteModem(n) PROVE WireInv'
  BY <1>3, WriteWire
<1>. QED
  BY <1>1, <1>2, <1>3
  DEF Next, Worker, vars, Accept, Close, Deliver, Arrive, Lose, Silence, Register, WaitEvent,
      DataReceiveEnd, DataReceive, BlocksDone, EventsDone, ListenRead, ListenEnd, ListenIdle

\* What the modem took is the accepted blocks, whole and in order, up to the
\* offset of write_modem in the last one, whatever part of it each write() of
\* the driver takes.
THEOREM WireWhole == Spec => []WireHasBlocks
<1>1. WireInv => WireHasBlocks
  BY DEF WireInv
<1>. QED
  BY <1>1, InitTypes, NextTypes, InitWire, NextWire, PTL DEF Spec

-----------------------------------------------------------------------------
(***************************************************************************)
(* What the clients are handed.                                            *)
(***************************************************************************)
\* A byte appended is one more.
LEMMA BytesOfAppend ==
  ASSUME NEW S, NEW s \in Seq(S), NEW x \in S
  PROVE  BytesOf(Append(s, x)) = BytesOf(s) \cup {x}
<1>. DEFINE t == Append(s, x)
<1>1. Len(s) \in Nat /\ Len(t) = Len(s) + 1 /\ t[Len(s) + 1] = x
  OBVIOUS
<1>2. \A i \in 1..Len(s) : t[i] = s[i]
  OBVIOUS
<1>. HIDE DEF t
<1>3. 1..Len(t) = (1..Len(s)) \cup {Len(s) + 1}
  BY <1>1
<1>4. {t[i] : i \in 1..Len(t)} = {s[i] : i \in 1..Len(s)} \cup {x}
  BY <1>1, <1>2, <1>3
<1>. QED
  BY <1>4 DEF BytesOf, t

\* The bytes of two sequences are those of both.
LEMMA BytesOfJoin ==
  ASSUME NEW S, NEW s \in Seq(S), NEW t \in Seq(S)
  PROVE  BytesOf(s \o t) = BytesOf(s) \cup BytesOf(t)
<1>. DEFINE u == s \o t
<1>1. Len(s) \in Nat /\ Len(t) \in Nat /\ Len(u) = Len(s) + Len(t)
  OBVIOUS
<1>2. \A i \in 1..Len(s) : u[i] = s[i]
  OBVIOUS
<1>3. \A i \in 1..Len(t) : u[Len(s) + i] = t[i]
  OBVIOUS
<1>. HIDE DEF u
<1>4. ASSUME NEW i \in 1..Len(u) PROVE u[i] \in BytesOf(s) \cup BytesOf(t)
  <2>1. CASE i \in 1..Len(s)
    BY <2>1, <1>2 DEF BytesOf
  <2>2. CASE i \notin 1..Len(s)
    <3>1. i - Len(s) \in 1..Len(t) /\ Len(s) + (i - Len(s)) = i
      BY <2>2, <1>1
    <3>2. u[Len(s) + (i - Len(s))] = t[i - Len(s)]
      BY <3>1, <1>3
    <3>. QED
      BY <3>1, <3>2 DEF BytesOf
  <2>. QED
    BY <2>1, <2>2
<1>5. ASSUME NEW i \in 1..Len(s) PROVE s[i] \in BytesOf(u)
  <2>1. i \in 1..Len(u) /\ u[i] = s[i]
    BY <1>1, <1>2
  <2>. QED
    BY <2>1 DEF BytesOf
<1>6. ASSUME NEW i \in 1..Len(t) PROVE t[i] \in BytesOf(u)
  <2>1. Len(s) + i \in 1..Len(u) /\ u[Len(s) + i] = t[i]
    BY <1>1, <1>3
  <2>. QED
    BY <2>1 DEF BytesOf
<1>7. BytesOf(u) \subseteq BytesOf(s) \cup BytesOf(t)
  BY <1>4 DEF BytesOf
<1>8. BytesOf(s) \subseteq BytesOf(u) /\ BytesOf(t) \subseteq BytesOf(u)
  BY <1>5, <1>6 DEF BytesOf
<1>. QED
  BY <1>7, <1>8 DEF u

\* The two pieces of a sequence without repetition share nothing.
LEMMA BytesOfPieces ==
  ASSUME NEW S, NEW s \in Seq(S), NEW n \in 1..Len(s)
  PROVE  LET p == SubSeq(s, 1, n)
             q == SubSeq(s, n + 1, Len(s))
         IN /\ p \in Seq(S) /\ q \in Seq(S) /\ BytesOf(p) \cup BytesOf(q) \subseteq BytesOf(s)
            /\ (\A i, j \in 1..Len(s) : s[i] = s[j] => i = j)
                 => /\ Apart(p, q)
                    /\ \A i, j \in 1..Len(q) : q[i] = q[j] => i = j
<1>. DEFINE p == SubSeq(s, 1, n)
            q == SubSeq(s, n + 1, Len(s))
<1>1. n \in Nat /\ Len(s) \in Nat /\ n <= Len(s)
  OBVIOUS
<1>2. p \in Seq(S) /\ Len(p) = n /\ \A i \in 1..n : p[i] = s[i]
  BY <1>1, FirstPiece
<1>3. q \in Seq(S) /\ Len(q) = Len(s) - n /\ \A i \in 1..(Len(s) - n) : q[i] = s[n + i]
  BY <1>1, Piece
<1>. HIDE DEF p, q
<1>4. \A i \in 1..n : i \in 1..Len(s)
  BY <1>1
<1>5. \A i \in 1..(Len(s) - n) : n + i \in 1..Len(s)
  BY <1>1
<1>6. BytesOf(p) \cup BytesOf(q) \subseteq BytesOf(s)
  BY <1>2, <1>3, <1>4, <1>5 DEF BytesOf
<1>7. ASSUME \A i, j \in 1..Len(s) : s[i] = s[j] => i = j
      PROVE  Apart(p, q) /\ \A i, j \in 1..Len(q) : q[i] = q[j] => i = j
  <2>1. ASSUME NEW i \in 1..n, NEW j \in 1..(Len(s) - n) PROVE p[i] # q[j]
    <3>1. i # n + j
      BY <1>1
    <3>. QED
      BY <3>1, <1>2, <1>3, <1>4, <1>5, <1>7
  <2>2. Apart(p, q)
    BY <2>1, <1>2, <1>3 DEF Apart, BytesOf
  <2>3. ASSUME NEW i \in 1..(Len(s) - n), NEW j \in 1..(Len(s) - n), q[i] = q[j] PROVE i = j
    <3>1. n + i = n + j
      BY <2>3, <1>3, <1>5, <1>7
    <3>. QED
      BY <3>1, <1>1
  <2>. QED
    BY <2>2, <2>3, <1>3
<1>. QED
  BY <1>2, <1>3, <1>6, <1>7 DEF p, q

\* The empty sequence has none.
LEMMA BytesOfNone == BytesOf(<<>>) = {}
<1>1. Len(<<>>) = 0 /\ 1..0 = {}
  OBVIOUS
<1>. QED
  BY <1>1 DEF BytesOf

\* Nothing is anywhere at the start.
LEMMA InitOnce == Init => OnceInv
<1>. SUFFICES ASSUME Init PROVE OnceInv
  OBVIOUS
<1>1. air = <<>> /\ block_from_modem = <<>> /\ block_to_client = <<>> /\ taken = <<>>
  BY DEF Init
<1>2. Len(<<>>) = 0 /\ 1..0 = {}
  OBVIOUS
<1>. QED
  BY <1>1, <1>2, BytesOfNone DEF OnceInv, Apart

\* A byte arrives: it was not there before.
LEMMA ArriveOnce == ASSUME TypeInv, OnceInv, Arrive PROVE OnceInv'
<1>. DEFINE x == Aired[airpos + 1]
<1>1. airpos \in Nat /\ airpos + 1 \in 1..Len(Aired) /\ x \in AirBytes /\ air \in Seq(AirBytes)
  BY AirLayout DEF Arrive, TypeInv, RxOK
<1>2. air' = Append(air, x) /\ airpos' = airpos + 1 /\ UNCHANGED rx
  BY DEF Arrive
<1>3. Past' = Past \cup {x}
  <2>1. Past' = {Aired[k] : k \in 1..(airpos + 1)}
    BY <1>2 DEF Past
  <2>2. 1..(airpos + 1) = (1..airpos) \cup {airpos + 1}
    BY <1>1
  <2>. QED
    BY <2>1, <2>2 DEF Past
<1>4. x \notin Past
  <2>1. ASSUME NEW k \in 1..airpos PROVE Aired[k] # x
    <3>1. k \in 1..Len(Aired) /\ k # airpos + 1
      BY <1>1, AirLayout
    <3>. QED
      BY <3>1, <1>1, AirLayout
  <2>. QED
    BY <2>1 DEF Past
<1>. HIDE DEF x
<1>5. BytesOf(air') = BytesOf(air) \cup {x}
  BY <1>1, <1>2, BytesOfAppend
<1>6. \A i, j \in 1..Len(air') : air'[i] = air'[j] => i = j
  <2>1. Len(air) \in Nat /\ Len(air') = Len(air) + 1 /\ air'[Len(air) + 1] = x
    BY <1>1, <1>2
  <2>2. \A i \in 1..Len(air) : air'[i] = air[i] /\ air[i] # x
    <3>1. \A i \in 1..Len(air) : air'[i] = air[i]
      BY <1>1, <1>2
    <3>2. \A i \in 1..Len(air) : air[i] \in Past
      BY DEF OnceInv, BytesOf
    <3>. QED
      BY <3>1, <3>2, <1>4
  <2>3. \A i \in 1..Len(air') : i \in 1..Len(air) \/ i = Len(air) + 1
    BY <2>1
  <2>4. \A i, j \in 1..Len(air) : air[i] = air[j] => i = j
    BY DEF OnceInv
  <2>. QED
    BY <2>1, <2>2, <2>3, <2>4
<1>7. UNCHANGED <<block_from_modem, block_to_client, taken>>
  BY <1>2 DEF rx
<1>8. /\ BytesOf(air) \cup BytesOf(block_from_modem) \cup BytesOf(block_to_client) \subseteq Past
      /\ Apart(air, block_from_modem) /\ Apart(air, block_to_client)
      /\ Apart(block_from_modem, block_to_client)
      /\ \A i \in 1..Len(taken) :
           /\ taken[i] # <<>> /\ BytesOf(taken[i]) \subseteq Past /\ Apart(taken[i], air)
           /\ Apart(taken[i], block_from_modem) /\ Apart(taken[i], block_to_client)
      /\ \A i, j \in 1..Len(taken) : i # j => Apart(taken[i], taken[j])
  BY DEF OnceInv
<1>9. /\ BytesOf(air') \cup BytesOf(block_from_modem) \cup BytesOf(block_to_client) \subseteq Past'
      /\ Apart(air', block_from_modem) /\ Apart(air', block_to_client)
  BY <1>3, <1>4, <1>5, <1>8 DEF Apart
<1>10. \A i \in 1..Len(taken) : BytesOf(taken[i]) \subseteq Past' /\ Apart(taken[i], air')
  BY <1>3, <1>4, <1>5, <1>8 DEF Apart
<1>. QED
  BY <1>6, <1>7, <1>8, <1>9, <1>10 DEF OnceInv

\* A byte is lost.
LEMMA LoseOnce == ASSUME TypeInv, OnceInv, Lose PROVE OnceInv'
<1>1. airpos \in Nat /\ airpos' = airpos + 1 /\ UNCHANGED <<rx, air>>
  BY DEF Lose, TypeInv, RxOK
<1>2. Past \subseteq Past'
  BY <1>1 DEF Past
<1>3. UNCHANGED <<block_from_modem, block_to_client, taken, air>>
  BY <1>1 DEF rx
<1>4. /\ BytesOf(air) \cup BytesOf(block_from_modem) \cup BytesOf(block_to_client) \subseteq Past'
      /\ \A i \in 1..Len(taken) : BytesOf(taken[i]) \subseteq Past'
  BY <1>2 DEF OnceInv
<1>. QED
  BY <1>3, <1>4 DEF OnceInv

\* Bytes are read: each goes to the block or stays.
LEMMA ReadOnce == ASSUME TypeInv, OnceInv, NEW n \in 1..Len(air), ListenRead(n) PROVE OnceInv'
<1>. DEFINE p == SubSeq(air, 1, n)
            q == SubSeq(air, n + 1, Len(air))
<1>1. air \in Seq(AirBytes) /\ block_from_modem \in Seq(AirBytes)
  BY DEF TypeInv, RxOK
<1>2. /\ p \in Seq(AirBytes) /\ q \in Seq(AirBytes)
      /\ BytesOf(p) \cup BytesOf(q) \subseteq BytesOf(air) /\ Apart(p, q)
      /\ \A i, j \in 1..Len(q) : q[i] = q[j] => i = j
  <2>1. \A i, j \in 1..Len(air) : air[i] = air[j] => i = j
    BY DEF OnceInv
  <2>. QED
    BY <1>1, <2>1, BytesOfPieces
<1>3. /\ block_from_modem' = block_from_modem \o p /\ air' = q
      /\ UNCHANGED <<block_to_client, taken, airpos>>
  BY DEF ListenRead
<1>. HIDE DEF p, q
<1>4. BytesOf(block_from_modem') = BytesOf(block_from_modem) \cup BytesOf(p)
  BY <1>1, <1>2, <1>3, BytesOfJoin
<1>5. Past' = Past
  BY <1>3 DEF Past
<1>6. /\ BytesOf(air) \cup BytesOf(block_from_modem) \cup BytesOf(block_to_client) \subseteq Past
      /\ Apart(air, block_from_modem) /\ Apart(air, block_to_client)
      /\ Apart(block_from_modem, block_to_client)
      /\ \A i \in 1..Len(taken) :
           /\ taken[i] # <<>> /\ BytesOf(taken[i]) \subseteq Past /\ Apart(taken[i], air)
           /\ Apart(taken[i], block_from_modem) /\ Apart(taken[i], block_to_client)
      /\ \A i, j \in 1..Len(taken) : i # j => Apart(taken[i], taken[j])
  BY DEF OnceInv
<1>7. /\ BytesOf(q) \cup BytesOf(block_from_modem') \cup BytesOf(block_to_client) \subseteq Past
      /\ Apart(q, block_from_modem') /\ Apart(q, block_to_client)
      /\ Apart(block_from_modem', block_to_client)
  BY <1>2, <1>4, <1>6 DEF Apart
<1>8. \A i \in 1..Len(taken) : Apart(taken[i], q) /\ Apart(taken[i], block_from_modem')
  BY <1>2, <1>4, <1>6 DEF Apart
<1>. QED
  BY <1>2, <1>3, <1>5, <1>6, <1>7, <1>8 DEF OnceInv

\* Silence ends the block: it is dropped, or replaces the one for the clients.
LEMMA EndOnce == ASSUME TypeInv, OnceInv, ListenEnd PROVE OnceInv'
<1>1. UNCHANGED <<taken, air, airpos>> /\ Past' = Past
  BY DEF ListenEnd, radio, Past
<1>2. \/ UNCHANGED <<block_from_modem, block_to_client>>
      \/ block_from_modem' = <<>> /\ block_to_client' \in {block_from_modem, block_to_client}
  BY DEF ListenEnd
<1>3. CASE UNCHANGED <<block_from_modem, block_to_client>>
  BY <1>1, <1>3 DEF OnceInv
<1>4. CASE block_from_modem' = <<>> /\ block_to_client' = block_to_client
  <2>1. BytesOf(block_from_modem') = {}
    BY <1>4, BytesOfNone
  <2>. QED
    BY <1>1, <1>4, <2>1 DEF OnceInv, Apart
<1>5. CASE block_from_modem' = <<>> /\ block_to_client' = block_from_modem
  <2>1. BytesOf(block_from_modem') = {}
    BY <1>5, BytesOfNone
  <2>. QED
    BY <1>1, <1>5, <2>1 DEF OnceInv, Apart
<1>. QED
  BY <1>2, <1>3, <1>4, <1>5

\* The block for the clients is handed to one of them.
LEMMA GiveOnce ==
  ASSUME TypeInv, OnceInv, GiveToClient, UNCHANGED <<air, airpos>>
  PROVE  OnceInv'
<1>1. UNCHANGED block_from_modem /\ block_to_client' = <<>> /\ Past' = Past
  BY DEF GiveToClient, Past
<1>2. BytesOf(block_to_client') = {}
  BY <1>1, BytesOfNone
<1>3. CASE block_to_client = <<>>
  <2>1. taken' = taken
    BY <1>3 DEF GiveToClient
  <2>. QED
    BY <1>1, <1>2, <2>1 DEF OnceInv, Apart
<1>4. CASE block_to_client # <<>>
  <2>1. taken' = Append(taken, block_to_client)
    BY <1>4 DEF GiveToClient
  <2>2. taken \in Seq(Seq(AirBytes)) /\ block_to_client \in Seq(AirBytes)
    BY DEF TypeInv, RxOK
  <2>3. Len(taken) \in Nat /\ Len(taken') = Len(taken) + 1
    BY <2>1, <2>2
  <2>4. taken'[Len(taken) + 1] = block_to_client /\ \A i \in 1..Len(taken) : taken'[i] = taken[i]
    BY <2>1, <2>2
  <2>5. \A i \in 1..Len(taken') : i \in 1..Len(taken) \/ i = Len(taken) + 1
    BY <2>3
  <2>6. /\ BytesOf(air) \cup BytesOf(block_from_modem) \cup BytesOf(block_to_client) \subseteq Past
        /\ Apart(air, block_from_modem) /\ Apart(air, block_to_client)
        /\ Apart(block_from_modem, block_to_client)
        /\ \A i, j \in 1..Len(air) : air[i] = air[j] => i = j
        /\ \A i \in 1..Len(taken) :
             /\ taken[i] # <<>> /\ BytesOf(taken[i]) \subseteq Past /\ Apart(taken[i], air)
             /\ Apart(taken[i], block_from_modem) /\ Apart(taken[i], block_to_client)
        /\ \A i, j \in 1..Len(taken) : i # j => Apart(taken[i], taken[j])
    BY DEF OnceInv
  <2>7. ASSUME NEW i \in 1..Len(taken')
        PROVE  /\ taken'[i] # <<>> /\ BytesOf(taken'[i]) \subseteq Past /\ Apart(taken'[i], air)
               /\ Apart(taken'[i], block_from_modem) /\ Apart(taken'[i], block_to_client')
    BY <1>2, <1>4, <2>4, <2>5, <2>6 DEF Apart
  <2>8. ASSUME NEW i \in 1..Len(taken'), NEW j \in 1..Len(taken'), i # j
        PROVE  Apart(taken'[i], taken'[j])
    <3>1. CASE i \in 1..Len(taken) /\ j \in 1..Len(taken)
      BY <3>1, <2>4, <2>6, <2>8
    <3>2. CASE i \in 1..Len(taken) /\ j = Len(taken) + 1
      BY <3>2, <2>4, <2>6
    <3>3. CASE i = Len(taken) + 1 /\ j \in 1..Len(taken)
      BY <3>3, <2>4, <2>6 DEF Apart
    <3>. QED
      BY <3>1, <3>2, <3>3, <2>5, <2>8
  <2>9. Apart(air, block_to_client') /\ Apart(block_from_modem, block_to_client')
    BY <1>2 DEF Apart
  <2>. QED
    BY <1>1, <1>2, <2>6, <2>7, <2>8, <2>9 DEF OnceInv
<1>. QED
  BY <1>3, <1>4

\* Every step keeps the bytes apart.
LEMMA NextOnce == TypeInv /\ OnceInv /\ [Next]_vars => OnceInv'
<1>. SUFFICES ASSUME TypeInv, OnceInv, [Next]_vars PROVE OnceInv'
  OBVIOUS
<1>1. CASE UNCHANGED <<rx, air, airpos>>
  BY <1>1 DEF OnceInv, Past, rx
<1>2. CASE NextBlock
  <2>1. UNCHANGED <<air, airpos>>
    BY <1>2 DEF NextBlock, radio
  <2>2. GiveToClient \/ UNCHANGED rx
    BY <1>2 DEF NextBlock, DataProcess
  <2>. QED
    BY <1>1, <2>1, <2>2, GiveOnce
<1>3. CASE \E n \in 1..Len(air) : ListenRead(n)
  BY <1>3, ReadOnce
<1>. QED
  BY <1>1, <1>2, <1>3, ArriveOnce, LoseOnce, EndOnce
  DEF Next, Worker, vars, radio, Accept, Close, Deliver, Silence, Register, WaitEvent,
      DataReceiveEnd, DataReceive, BlocksDone, EventsDone, WriteModem, ListenIdle

\* A block received from the air is handed to one client only, and once, for
\* every number of clients that ask for it and however bytes are lost.
THEOREM TakenOnlyOnce == Spec => []TakenOnce
<1>1. TypeInv /\ OnceInv => TakenOnce
  <2>. SUFFICES ASSUME TypeInv, OnceInv, NEW i \in 1..Len(taken), NEW j \in 1..Len(taken),
                       taken[i] = taken[j], i # j
                PROVE  FALSE
    BY DEF TakenOnce
  <2>0. taken[i] # <<>> /\ Apart(taken[i], taken[j])
    BY DEF OnceInv
  <2>1. taken[i] \in Seq(AirBytes)
    <3>1. taken \in Seq(Seq(AirBytes))
      BY DEF TypeInv, RxOK
    <3>. QED
      BY <3>1
  <2>2. 1 \in 1..Len(taken[i])
    BY <2>0, <2>1
  <2>. QED
    BY <2>0, <2>2 DEF Apart, BytesOf
<1>. QED
  BY <1>1, InitTypes, NextTypes, InitOnce, NextOnce, PTL DEF Spec

-----------------------------------------------------------------------------
(***************************************************************************)
(* Silence ends a block.                                                   *)
(***************************************************************************)
\* Every step keeps the account of what the buffer holds.
LEMMA NextBurst == TypeInv /\ BurstInv /\ [Next]_vars => BurstInv'
<1>. SUFFICES ASSUME TypeInv, BurstInv, [Next]_vars PROVE BurstInv'
  OBVIOUS
<1>1. CASE UNCHANGED <<burst, block_from_modem, stale>>
  BY <1>1 DEF BurstInv
<1>2. CASE NextBlock
  <2>1. UNCHANGED <<burst, block_from_modem, stale>>
    BY <1>2 DEF NextBlock, DataProcess, GiveToClient, rx
  <2>. QED
    BY <1>1, <2>1
<1>3. ASSUME NEW n \in 1..Len(air), ListenRead(n) PROVE BurstInv'
  <2>. DEFINE x == SubSeq(air, 1, n)
  <2>1. /\ burst' = burst \o x /\ block_from_modem' = block_from_modem \o x
        /\ stale' = stale
    BY <1>3 DEF ListenRead
  <2>2. x \in Seq(AirBytes)
    <3>1. air \in Seq(AirBytes) /\ n \in Nat /\ n <= Len(air)
      BY DEF TypeInv, RxOK
    <3>. QED
      BY <3>1, FirstPiece
  <2>. HIDE DEF x
  <2>3. /\ Len(burst \o x) = Len(burst) + Len(x)
        /\ Len(block_from_modem \o x) = Len(block_from_modem) + Len(x)
    BY <2>2 DEF TypeInv, RxOK
  <2>4. stale \in Nat /\ Len(burst) \in Nat /\ Len(x) \in Nat
    BY <2>2 DEF TypeInv, RxOK
  <2>5. Len(block_from_modem') = stale' + Len(burst')
    BY <2>1, <2>3, <2>4 DEF BurstInv
  <2>6. stale' = 0 => block_from_modem' = burst'
    BY <2>1 DEF BurstInv
  <2>. QED
    BY <2>5, <2>6 DEF BurstInv
<1>4. CASE ListenEnd
  <2>1. /\ burst' = <<>> /\ block_from_modem # <<>> /\ Len(<<>>) = 0
        /\ stale' = IF Len(block_from_modem) < 3 THEN Len(block_from_modem) ELSE 0
    BY <1>4 DEF ListenEnd
  <2>2. block_from_modem' = IF Len(block_from_modem) < 3 THEN block_from_modem ELSE <<>>
    BY <1>4 DEF ListenEnd
  <2>3. Len(block_from_modem) \in Nat /\ Len(block_from_modem) # 0
    BY <2>1 DEF TypeInv, RxOK
  <2>4. CASE Len(block_from_modem) < 3
    BY <2>1, <2>2, <2>3, <2>4 DEF BurstInv
  <2>5. CASE ~(Len(block_from_modem) < 3)
    BY <2>1, <2>2, <2>5 DEF BurstInv
  <2>. QED
    BY <2>4, <2>5
<1>. QED
  BY <1>1, <1>2, <1>3, <1>4
  DEF Next, Worker, vars, rx, radio, Accept, Close, Deliver, Arrive, Lose, Silence, Register,
      WaitEvent, DataReceiveEnd, DataReceive, BlocksDone, EventsDone, WriteModem, ListenIdle

\* The header of a whole block gives its own size.
LEMMA WholeHeader ==
  ASSUME NEW b \in Seq(AirBytes), IsBlock(b)
  PROVE  Len(b) >= 3 /\ Sizes(b) = {Len(b)}
<1>. DEFINE n == SizeOf(b[1])
<1>1. Len(b) \in Nat /\ Len(b) # 0
  BY DEF IsBlock
<1>2. b[1] \in AirBytes
  BY <1>1
<1>3. n \in Positive
  BY <1>2, ByteSizes
<1>. HIDE DEF n
<1>4. b = [i \in 1..n |-> <<b[1][1], b[1][2], i>>] /\ b[1][3] = 1
  BY DEF IsBlock, Bytes, n
<1>5. n \in Nat /\ 2 \in 1..n /\ n >= 3
  BY <1>3 DEF Positive
<1>. DEFINE o == b[1][1]
            f == b[1][2]
<1>. HIDE DEF o, f
<1>6. b = [i \in 1..n |-> <<o, f, i>>]
  BY <1>4 DEF o, f
<1>7. Len(b) = n
  BY <1>5, <1>6
<1>8. b[2] = <<o, f, 2>>
  BY <1>5, <1>6
<1>. QED
  BY <1>4, <1>5, <1>7, <1>8 DEF Sizes, n, o, f

\* A block that arrived whole between two silences is offered to the clients,
\* for every segmentation and loss on the air, unless it came after one or two
\* bytes that an earlier silence left in the buffer; these go with it.
THEOREM SilenceEnds == Spec => SilenceEndsBlock
<1>1. Init => BurstInv
  BY DEF Init, BurstInv
<1>2. TypeInv /\ BurstInv /\ [Next]_vars => BurstInv'
  BY NextBurst
<1>. DEFINE Offered == block_to_client' = burst
            Spoilt == stale \in 1..2 /\ block_from_modem' = <<>>
<1>3. TypeInv /\ BurstInv /\ ListenEnd /\ IsBlock(burst) => Offered \/ Spoilt
  <2>. SUFFICES ASSUME TypeInv, BurstInv, ListenEnd, IsBlock(burst)
                PROVE  Offered \/ Spoilt
    OBVIOUS
  <2>1. Len(burst) >= 3 /\ Sizes(burst) = {Len(burst)}
    BY WholeHeader DEF TypeInv, RxOK
  <2>2. Len(burst) \in Nat /\ Len(block_from_modem) \in Nat /\ stale \in 0..2
    BY DEF TypeInv, RxOK
  <2>3. Len(block_from_modem) >= 3
    BY <2>1, <2>2 DEF BurstInv
  <2>4. block_from_modem' = <<>>
    BY <2>2, <2>3 DEF ListenEnd
  <2>5. CASE stale = 0
    <3>1. burst = block_from_modem
      BY <2>5 DEF BurstInv
    <3>. QED
      BY <2>1, <2>2, <2>3, <3>1 DEF ListenEnd
  <2>6. CASE stale # 0
    BY <2>2, <2>4, <2>6
  <2>. QED
    BY <2>5, <2>6
<1>4. TypeInv /\ BurstInv => [ListenEnd /\ IsBlock(burst) => Offered \/ Spoilt]_vars
  BY <1>3
<1>. QED
  BY <1>1, <1>2, <1>4, InitTypes, NextTypes, PTL DEF Spec, SilenceEndsBlock

-----------------------------------------------------------------------------
(***************************************************************************)
(* Who is read, and who is inside a block.                                 *)
(***************************************************************************)
\* The queue holds connections that wait for the worker, each once, and what
\* epoll_wait reported stays true until it is handled.
LEMMA NextQueue == TypeInv /\ QueueInv /\ [Next]_vars => QueueInv'
<1>. SUFFICES ASSUME TypeInv, QueueInv, [Next]_vars PROVE QueueInv'
  OBVIOUS
<1>0. /\ conn \in [Conns -> {"none", "queued", "open", "gone"}] /\ queue \in Seq(Conns)
      /\ sent \in [Conns -> Nat] /\ got \in [Conns -> Nat] /\ eof \in [Conns -> 0..1]
      /\ ready \subseteq Conns /\ \A i \in 1..Len(queue) : queue[i] \in Conns
  BY DEF TypeInv, ConnsOK, ClientOK
<1>1. CASE UNCHANGED <<conns, got, ready>>
  BY <1>1 DEF QueueInv, conns
<1>2. ASSUME NEW c \in Conns, Accept(c) PROVE QueueInv'
  <2>1. /\ conn[c] = "none" /\ conn' = [conn EXCEPT ![c] = "queued"]
        /\ queue' = Append(queue, c) /\ UNCHANGED <<sent, eof, got, ready>>
    BY <1>2 DEF Accept, client
  <2>2. Len(queue) \in Nat /\ Len(queue') = Len(queue) + 1 /\ queue'[Len(queue) + 1] = c
    BY <2>1, <1>0
  <2>3. \A i \in 1..Len(queue) : queue'[i] = queue[i] /\ queue[i] # c
    <3>1. \A i \in 1..Len(queue) : queue'[i] = queue[i]
      BY <2>1, <1>0
    <3>. QED
      BY <3>1, <2>1 DEF QueueInv
  <2>4. \A i \in 1..Len(queue') : i \in 1..Len(queue) \/ i = Len(queue) + 1
    BY <2>2
  <2>5. \A i \in 1..Len(queue') : conn'[queue'[i]] = "queued"
    BY <1>0, <2>1, <2>2, <2>3, <2>4 DEF QueueInv
  <2>6. \A i, j \in 1..Len(queue') : queue'[i] = queue'[j] => i = j
    BY <2>2, <2>3, <2>4 DEF QueueInv
  <2>7. \A d \in ready : conn'[d] = "open" /\ (got[d] < sent[d] \/ eof[d] = 1)
    BY <1>0, <2>1 DEF QueueInv
  <2>. QED
    BY <2>1, <2>5, <2>6, <2>7 DEF QueueInv
<1>3. ASSUME NEW c \in Conns, Close(c) PROVE QueueInv'
  <2>1. eof' = [eof EXCEPT ![c] = 1] /\ UNCHANGED <<conn, queue, sent, got, ready>>
    BY <1>3 DEF Close, client
  <2>2. \A d \in ready : eof[d] = 1 => eof'[d] = 1
    BY <1>0, <2>1
  <2>. QED
    BY <2>1, <2>2 DEF QueueInv
<1>4. ASSUME NEW c \in Conns, NEW n \in 1..Len(Sends[c]), Deliver(c, n) PROVE QueueInv'
  <2>1. /\ n \in Nat /\ sent[c] < n /\ sent' = [sent EXCEPT ![c] = n]
        /\ UNCHANGED <<conn, queue, eof, got, ready>>
    BY <1>4 DEF Deliver, client
  <2>2. \A d \in ready : got[d] < sent[d] => got[d] < sent'[d]
    BY <1>0, <2>1
  <2>. QED
    BY <2>1, <2>2 DEF QueueInv
<1>5. CASE Register
  <2>. DEFINE t == Tail(queue)
  <2>1. /\ queue # <<>> /\ conn' = [conn EXCEPT ![Head(queue)] = "open"] /\ queue' = t
        /\ UNCHANGED <<sent, eof, got, ready>>
    BY <1>5 DEF Register, client
  <2>2. /\ Len(queue) \in Nat \ {0} /\ Len(t) = Len(queue) - 1 /\ Head(queue) = queue[1]
        /\ 1 \in 1..Len(queue)
    BY <2>1, <1>0
  <2>3. \A i \in 1..Len(t) : t[i] = queue[i + 1] /\ i + 1 \in 1..Len(queue) /\ i + 1 # 1
    BY <2>1, <2>2, <1>0
  <2>. HIDE DEF t
  <2>4. \A i \in 1..Len(t) : conn'[t[i]] = "queued"
    <3>. SUFFICES ASSUME NEW i \in 1..Len(t) PROVE conn'[t[i]] = "queued"
      OBVIOUS
    <3>1. t[i] = queue[i + 1] /\ i + 1 \in 1..Len(queue) /\ i + 1 # 1
      BY <2>3
    <3>2. queue[i + 1] # queue[1]
      BY <3>1, <2>2 DEF QueueInv
    <3>3. conn[queue[i + 1]] = "queued" /\ queue[i + 1] \in Conns
      BY <3>1, <1>0 DEF QueueInv
    <3>4. t[i] \in Conns /\ t[i] # Head(queue) /\ conn[t[i]] = "queued"
      BY <3>1, <3>2, <3>3, <2>2
    <3>. QED
      BY <3>4, <2>1, <1>0
  <2>5. \A i, j \in 1..Len(t) : t[i] = t[j] => i = j
    <3>. SUFFICES ASSUME NEW i \in 1..Len(t), NEW j \in 1..Len(t), t[i] = t[j] PROVE i = j
      OBVIOUS
    <3>1. i + 1 = j + 1
      BY <2>3 DEF QueueInv
    <3>. QED
      BY <3>1
  <2>6. \A d \in ready : conn'[d] = "open"
    BY <1>0, <2>1 DEF QueueInv
  <2>. QED
    BY <2>1, <2>4, <2>5, <2>6 DEF QueueInv
<1>6. CASE WaitEvent
  BY <1>6 DEF WaitEvent, QueueInv, conns
<1>7. ASSUME NEW c \in Conns, DataReceiveEnd(c) PROVE QueueInv'
  <2>1. /\ conn[c] = "open" /\ conn' = [conn EXCEPT ![c] = "gone"]
        /\ got' = [got EXCEPT ![c] = sent[c]] /\ ready' = ready \ {c}
        /\ UNCHANGED <<queue, sent, eof>>
    BY <1>7 DEF DataReceiveEnd, QueueInv
  <2>2. \A i \in 1..Len(queue) : conn'[queue[i]] = "queued"
    BY <1>0, <2>1 DEF QueueInv
  <2>3. \A d \in ready' : conn'[d] = "open" /\ got'[d] = got[d]
    BY <1>0, <2>1 DEF QueueInv
  <2>. QED
    BY <2>1, <2>2, <2>3 DEF QueueInv
<1>8. ASSUME NEW c \in Conns, DataReceive(c) PROVE QueueInv'
  <2>1. /\ got' = [got EXCEPT ![c] = sent[c]] /\ ready' = ready \ {c}
        /\ UNCHANGED <<conn, queue, sent, eof>>
    BY <1>8 DEF DataReceive, conns
  <2>2. \A d \in ready' : got'[d] = got[d]
    BY <1>0, <2>1
  <2>. QED
    BY <2>1, <2>2 DEF QueueInv
<1>. QED
  BY <1>1, <1>2, <1>3, <1>4, <1>5, <1>6, <1>7, <1>8
  DEF Next, Worker, vars, client, Arrive, Lose, Silence, NextBlock, BlocksDone, EventsDone,
      WriteModem, ListenRead, ListenEnd, ListenIdle

\* Nobody is inside a block before the first byte.
LEMMA NotInside == \A c : ~Inside(c, 0)
BY DEF Inside

\* When clients do not start a block while another one's is half sent, all
\* there is of the others was read as long as somebody is inside a block.
LEMMA NextAlone == Exclusive = 1 /\ TypeInv /\ QueueInv /\ AloneInv /\ [Next]_vars => AloneInv'
<1>. SUFFICES ASSUME Exclusive = 1, TypeInv, QueueInv, AloneInv, [Next]_vars PROVE AloneInv'
  OBVIOUS
<1>0. /\ conn \in [Conns -> {"none", "queued", "open", "gone"}]
      /\ sent \in [Conns -> Nat] /\ got \in [Conns -> Nat] /\ eof \in [Conns -> 0..1]
      /\ \A i \in 1..Len(queue) : queue[i] \in Conns
  BY DEF TypeInv, ConnsOK
<1>1. CASE UNCHANGED <<conns, got>>
  BY <1>1 DEF AloneInv, conns
<1>2. ASSUME NEW c \in Conns, conn[c] # "gone", NEW v, v # "gone",
             conn' = [conn EXCEPT ![c] = v], UNCHANGED <<sent, eof, got>>
      PROVE  AloneInv'
  <2>1. \A d \in Conns : conn'[d] = "gone" <=> conn[d] = "gone"
    BY <1>0, <1>2
  <2>. QED
    BY <1>2, <2>1 DEF AloneInv
<1>3. ASSUME NEW c \in Conns, Accept(c) PROVE AloneInv'
  BY <1>2, <1>3 DEF Accept, client
<1>4. CASE Register
  <2>1. queue \in Seq(Conns) /\ queue # <<>>
    BY <1>4 DEF Register, TypeInv, ConnsOK
  <2>2. Head(queue) = queue[1] /\ 1 \in 1..Len(queue)
    BY <2>1
  <2>3. Head(queue) \in Conns /\ conn[Head(queue)] = "queued"
    BY <2>2, <1>0 DEF QueueInv
  <2>. QED
    BY <2>3, <1>2, <1>4 DEF Register, client
<1>5. ASSUME NEW c \in Conns, Close(c) PROVE AloneInv'
  <2>1. eof' = [eof EXCEPT ![c] = 1] /\ UNCHANGED <<conn, sent, got>> /\ MayDeliver(c, 0)
    BY <1>5 DEF Close, client
  <2>2. \A d \in Conns \ {c} : Inside(d, sent[d]) \/ Inside(d, got[d]) => conn[d] = "gone"
    BY <2>1 DEF MayDeliver
  <2>3. \A d \in Conns \ {c} : eof'[d] = eof[d]
    BY <1>0, <2>1
  <2>. QED
    BY <2>1, <2>2, <2>3 DEF AloneInv
<1>6. ASSUME NEW c \in Conns, NEW n \in 1..Len(Sends[c]), Deliver(c, n) PROVE AloneInv'
  <2>1. /\ n \in Nat /\ sent' = [sent EXCEPT ![c] = n] /\ UNCHANGED <<conn, eof, got>>
        /\ MayDeliver(c, n)
    BY <1>6 DEF Deliver, client
  <2>2. \A d \in Conns \ {c} :
          /\ Inside(d, sent[d]) \/ Inside(d, got[d]) => conn[d] = "gone"
          /\ Inside(c, n) => got[d] = sent[d] /\ (eof[d] = 0 \/ conn[d] = "gone")
    BY <2>1 DEF MayDeliver
  <2>3. sent'[c] = n /\ \A d \in Conns \ {c} : sent'[d] = sent[d]
    BY <1>0, <2>1
  <2>4. ASSUME NEW o \in Conns, NEW d \in Conns \ {o}, conn[o] # "gone", conn[d] # "gone",
               Inside(o, sent'[o]) \/ Inside(o, got[o])
        PROVE  got[d] = sent'[d] /\ eof[d] = 0 /\ ~Inside(d, sent'[d])
    <3>1. o = c
      BY <2>2, <2>3, <2>4
    <3>2. d # c /\ sent'[d] = sent[d] /\ ~Inside(d, sent[d])
      BY <2>2, <2>3, <2>4, <3>1
    <3>3. CASE Inside(c, n)
      BY <3>1, <3>2, <3>3, <2>2, <2>4
    <3>4. CASE ~Inside(c, n)
      <4>1. Inside(c, got[c])
        BY <3>1, <3>4, <2>3, <2>4
      <4>. QED
        BY <4>1, <3>1, <3>2, <2>4 DEF AloneInv
    <3>. QED
      BY <3>3, <3>4
  <2>. QED
    BY <2>1, <2>4 DEF AloneInv
<1>7. ASSUME NEW c \in Conns, DataReceiveEnd(c) \/ DataReceive(c) PROVE AloneInv'
  <2>1. /\ got' = [got EXCEPT ![c] = sent[c]] /\ UNCHANGED <<sent, eof>>
        /\ conn' = [conn EXCEPT ![c] = "gone"] \/ conn' = conn
    BY <1>7 DEF DataReceiveEnd, DataReceive, conns
  <2>2. got'[c] = sent[c] /\ \A d \in Conns \ {c} : got'[d] = got[d]
    BY <1>0, <2>1
  <2>3. \A d \in Conns : conn'[d] # "gone" => conn[d] # "gone"
    BY <1>0, <2>1
  <2>4. ASSUME NEW o \in Conns, NEW d \in Conns \ {o}, conn'[o] # "gone", conn'[d] # "gone",
               Inside(o, sent[o]) \/ Inside(o, got'[o])
        PROVE  got'[d] = sent[d] /\ eof[d] = 0 /\ ~Inside(d, sent[d])
    <3>1. Inside(o, sent[o]) \/ Inside(o, got[o])
      BY <2>2, <2>4
    <3>2. got[d] = sent[d] /\ eof[d] = 0 /\ ~Inside(d, sent[d])
      BY <3>1, <2>3, <2>4 DEF AloneInv
    <3>. QED
      BY <3>2, <2>2
  <2>. QED
    BY <2>1, <2>4 DEF AloneInv
<1>. QED
  BY <1>1, <1>3, <1>4, <1>5, <1>6, <1>7
  DEF Next, Worker, vars, client, Arrive, Lose, Silence, WaitEvent, NextBlock, BlocksDone,
      EventsDone, WriteModem, ListenRead, ListenEnd, ListenIdle

-----------------------------------------------------------------------------
(***************************************************************************)
(* The blocks cut out of the streams.                                      *)
(***************************************************************************)
\* b, which was read of o between the end of a block, at k, and g, starts
\* with the block f of size n, whole or not, and then has what follows it.
Segment(o, k, g, b, f, n) ==
  /\ f = Blocks(o, k) + 1 /\ n = Stream[o][f].size
  /\ b \in Seq(ClientBytes) /\ Len(b) = g - k /\ b # <<>>
  /\ b[1][1] = o /\ SizeOf(b[1]) = n
  /\ Len(b) >= 2 => Sizes(b) = {n}
  /\ g - k < n => Inside(o, g) /\ Blocks(o, g) = Blocks(o, k)
  /\ g - k >= n => /\ SubSeq(b, 1, n) = Bytes(o, f, n)
                   /\ SubSeq(b, n + 1, Len(b)) = SubSeq(Sends[o], k + n + 1, g)
                   /\ ~Inside(o, k + n) /\ Blocks(o, k + n) = f

\* There is such a block.
LEMMA BytesOfSegment ==
  ASSUME NEW o \in Conns, NEW k \in Nat, NEW g \in Nat, k < g, g <= Len(Sends[o]),
         ~Inside(o, k), NEW b \in Seq(ClientBytes), Len(b) = g - k,
         \A i \in 1..(g - k) : b[i] = Sends[o][k + i]
  PROVE  \E f \in 1..Len(Stream[o]), n \in Positive : Segment(o, k, g, b, f, n)
<1>0. Sends[o] \in Seq(ClientBytes) /\ Len(Sends[o]) \in Nat /\ k <= g /\ k < Len(Sends[o])
  BY StreamLayout
<1>1. b \in Seq(ClientBytes) /\ Len(b) = g - k /\ \A i \in 1..(g - k) : b[i] = Sends[o][k + i]
  OBVIOUS
<1>2. PICK f \in 1..Len(Stream[o]) :
           /\ f = Blocks(o, k) + 1
           /\ Stream[o][f].size \in Positive /\ k + Stream[o][f].size <= Len(Sends[o])
           /\ \A i \in 1..Stream[o][f].size : Sends[o][k + i] = <<o, f, i>>
           /\ \A i \in 1..(Stream[o][f].size - 1) :
                Inside(o, k + i) /\ Blocks(o, k + i) = Blocks(o, k)
           /\ ~Inside(o, k + Stream[o][f].size)
           /\ Blocks(o, k + Stream[o][f].size) = f
  BY <1>0, NextBlockOf, SMTT(30)
<1>. DEFINE n == Stream[o][f].size
<1>3. n \in Positive /\ n \in Nat /\ n >= 3
  <2>1. n \in Positive
    BY <1>2
  <2>. HIDE DEF n
  <2>. QED
    BY <2>1 DEF Positive
<1>. HIDE DEF n
<1>4. 1 \in 1..(g - k) /\ g - k \in Nat
  BY <1>0
<1>5. \A i \in 1..n : Sends[o][k + i] = <<o, f, i>>
  BY <1>2 DEF n
<1>6. 1 \in 1..n /\ 2 \in 1..n
  BY <1>3
<1>7. b[1] = <<o, f, 1>> /\ b # <<>>
  <2>1. b[1] = Sends[o][k + 1]
    BY <1>1, <1>4
  <2>2. Sends[o][k + 1] = <<o, f, 1>>
    BY <1>5, <1>6
  <2>3. Len(b) # 0 /\ Len(<<>>) = 0
    BY <1>1, <1>4
  <2>. QED
    BY <2>1, <2>2, <2>3
<1>8. b[1] \in ClientBytes
  BY <1>1, <1>4
<1>9. SizeOf(b[1]) = n
  BY <1>7, <1>8, ByteSizes DEF n
<1>10. ASSUME Len(b) >= 2 PROVE Sizes(b) = {n}
  <2>1. 2 \in 1..(g - k)
    BY <1>1, <1>4, <1>10
  <2>2. b[2] = <<o, f, 2>>
    BY <2>1, <1>1, <1>5, <1>6
  <2>. QED
    BY <2>2, <1>7, <1>9 DEF Sizes
<1>11. ASSUME g - k < n PROVE Inside(o, g) /\ Blocks(o, g) = Blocks(o, k)
  <2>1. g - k \in 1..(n - 1) /\ k + (g - k) = g
    BY <1>0, <1>3, <1>11
  <2>2. Inside(o, k + (g - k)) /\ Blocks(o, k + (g - k)) = Blocks(o, k)
    BY <2>1, <1>2 DEF n
  <2>. QED
    BY <2>1, <2>2
<1>12. ASSUME g - k >= n
       PROVE  /\ SubSeq(b, 1, n) = Bytes(o, f, n)
              /\ SubSeq(b, n + 1, Len(b)) = SubSeq(Sends[o], k + n + 1, g)
  <2>1. n <= Len(b) /\ Len(b) \in Nat
    BY <1>1, <1>4, <1>12
  <2>2. /\ SubSeq(b, 1, n) \in Seq(ClientBytes) /\ Len(SubSeq(b, 1, n)) = n
        /\ \A i \in 1..n : SubSeq(b, 1, n)[i] = b[i]
    BY <1>1, <1>3, <2>1, FirstPiece
  <2>3. \A i \in 1..n : i \in 1..(g - k) /\ SubSeq(b, 1, n)[i] = <<o, f, i>>
    <3>. SUFFICES ASSUME NEW i \in 1..n
                  PROVE  i \in 1..(g - k) /\ SubSeq(b, 1, n)[i] = <<o, f, i>>
      OBVIOUS
    <3>1. i \in 1..(g - k)
      BY <1>3, <1>4, <1>12
    <3>. QED
      BY <3>1, <2>2, <1>1, <1>5
  <2>4. SubSeq(b, 1, n) = Bytes(o, f, n)
    <3>. DEFINE s == SubSeq(b, 1, n)
    <3>1. s \in Seq(ClientBytes) /\ Len(s) = n /\ \A i \in 1..n : s[i] = <<o, f, i>>
      BY <2>2, <2>3
    <3>. HIDE DEF s
    <3>2. s = [i \in 1..n |-> s[i]]
      BY <3>1
    <3>3. s = [i \in 1..n |-> <<o, f, i>>]
      BY <3>1, <3>2
    <3>. QED
      BY <3>3 DEF Bytes, s
  <2>5. SubSeq(b, n + 1, Len(b)) = SubSeq(Sends[o], k + n + 1, g)
    <3>. DEFINE s == SubSeq(b, n + 1, Len(b))
                t == SubSeq(Sends[o], (k + n) + 1, g)
    <3>1. /\ s \in Seq(ClientBytes) /\ Len(s) = Len(b) - n
          /\ \A i \in 1..(Len(b) - n) : s[i] = b[n + i]
      BY <1>1, <1>3, <2>1, Piece
    <3>2. k + n \in Nat /\ k + n <= g
      BY <1>3, <1>12
    <3>3. /\ t \in Seq(ClientBytes) /\ Len(t) = g - (k + n)
          /\ \A i \in 1..(g - (k + n)) : t[i] = Sends[o][(k + n) + i]
      BY <1>0, <3>2, Piece, SMTT(30)
    <3>. HIDE DEF s, t
    <3>4. Len(b) - n = g - (k + n) /\ Len(s) = Len(t)
      BY <1>1, <1>3, <3>1, <3>3
    <3>5. ASSUME NEW i \in 1..Len(s) PROVE s[i] = t[i]
      <4>1. i \in 1..(Len(b) - n) /\ i \in 1..(g - (k + n))
        BY <3>1, <3>4
      <4>2. n + i \in 1..(g - k) /\ k + (n + i) = (k + n) + i
        BY <4>1, <1>1, <1>3, <1>4
      <4>3. b[n + i] = Sends[o][k + (n + i)]
        BY <4>2, <1>1
      <4>. QED
        BY <4>1, <4>2, <4>3, <3>1, <3>3
    <3>6. s = t
      BY <3>1, <3>3, <3>4, <3>5, SameSequence
    <3>. QED
      BY <3>6 DEF s, t
  <2>. QED
    BY <2>4, <2>5
<1>13. ~Inside(o, k + n) /\ Blocks(o, k + n) = f
  BY <1>2 DEF n
<1>14. Segment(o, k, g, b, f, n)
  <2>1. f = Blocks(o, k) + 1 /\ n = Stream[o][f].size
    BY <1>2 DEF n
  <2>2. b \in Seq(ClientBytes) /\ Len(b) = g - k /\ b # <<>> /\ b[1][1] = o /\ SizeOf(b[1]) = n
    BY <1>1, <1>7, <1>9
  <2>. QED
    BY <2>1, <2>2, <1>10, <1>11, <1>12, <1>13 DEF Segment
<1>. QED
  BY <1>3, <1>14

\* The same of a piece of the stream.
LEMMA SegmentShape ==
  ASSUME NEW o \in Conns, NEW k \in Nat, NEW g \in Nat, k < g, g <= Len(Sends[o]), ~Inside(o, k)
  PROVE  \E f \in 1..Len(Stream[o]), n \in Positive :
           Segment(o, k, g, SubSeq(Sends[o], k + 1, g), f, n)
<1>. DEFINE b == SubSeq(Sends[o], k + 1, g)
<1>1. b \in Seq(ClientBytes) /\ Len(b) = g - k /\ \A i \in 1..(g - k) : b[i] = Sends[o][k + i]
  <2>1. Sends[o] \in Seq(ClientBytes) /\ k <= g
    BY StreamLayout
  <2>. QED
    BY <2>1, Piece
<1>. HIDE DEF b
<1>2. \E f \in 1..Len(Stream[o]), n \in Positive : Segment(o, k, g, b, f, n)
  BY <1>1, BytesOfSegment
<1>. QED
  BY <1>2 DEF b

\* The blocks that were processed are those that were sent.
ServedWhole ==
  \A c \in Conns : \A i \in 1..Len(served[c]) : served[c][i] = Bytes(c, i, Stream[c][i].size)

\* c was read to the end of a block, and all its blocks were processed.
Finished(c) == ~Inside(c, got[c]) /\ Len(served[c]) = Blocks(c, got[c])

\* The buffer holds what was read of o after its first k bytes.
Holds(o, k) ==
  /\ conn[o] # "gone" /\ k < got[o] /\ ~Inside(o, k)
  /\ block_from_client = SubSeq(Sends[o], k + 1, got[o]) /\ Len(served[o]) = Blocks(o, k)
  /\ pc = "blocks" => cur = o
  /\ pc # "blocks" => Len(block_from_client) < SizeOf(block_from_client[1])
  /\ Len(block_from_client) >= 2 => client_block_size = SizeOf(block_from_client[1])

\* Nobody has anything in the buffer; one connection has.
AllFinished == \A c \in Conns : conn[c] # "gone" => Finished(c)
OthersFinished(o) == \A c \in Conns \ {o} : conn[c] # "gone" => Finished(c)
Held == \E o \in Conns, k \in Nat : Holds(o, k) /\ OthersFinished(o)

\* The invariant in these terms, for an empty buffer.
LEMMA FramesNone ==
  TypeInv /\ block_from_client = <<>> => (FramesInv <=> ServedWhole /\ AllFinished)
BY DEF FramesInv, ServedWhole, AllFinished, Finished

\* For a buffer that holds something there is one connection it is of.
LEMMA FramesSome ==
  TypeInv /\ block_from_client # <<>> => (FramesInv <=> ServedWhole /\ Held)
<1>. SUFFICES ASSUME TypeInv, block_from_client # <<>>
              PROVE  FramesInv <=> ServedWhole /\ Held
  OBVIOUS
<1>0. /\ block_from_client \in Seq(ClientBytes) /\ got \in [Conns -> Nat]
      /\ \A c \in Conns : got[c] <= Len(Sends[c])
  <2>1. \A c \in Conns : Len(Sends[c]) \in Nat
    BY StreamLayout
  <2>. QED
    BY <2>1 DEF TypeInv, ConnsOK, ClientOK
<1>1. Len(block_from_client) \in Nat /\ Len(block_from_client) # 0
  BY <1>0
<1>2. ASSUME FramesInv
      PROVE  /\ ServedWhole /\ Owner \in Conns /\ Cut \in Nat /\ Holds(Owner, Cut)
             /\ OthersFinished(Owner)
  <2>1. Owner \in Conns /\ Cut \in Nat
    BY <1>2 DEF FramesInv
  <2>2. Cut < got[Owner]
    BY <1>0, <1>1, <2>1 DEF Cut
  <2>. QED
    BY <1>2, <2>1, <2>2 DEF FramesInv, ServedWhole, OthersFinished, Finished, Holds
<1>3. ASSUME ServedWhole, NEW o \in Conns, NEW k \in Nat, Holds(o, k), OthersFinished(o)
      PROVE  FramesInv
  <2>1. got[o] \in Nat /\ k < got[o] /\ got[o] <= Len(Sends[o]) /\ ~Inside(o, k)
    BY <1>0, <1>3 DEF Holds
  <2>2. block_from_client = SubSeq(Sends[o], k + 1, got[o])
    BY <1>3 DEF Holds
  <2>3. Owner = o /\ Len(block_from_client) = got[o] - k
    <3>1. \E f, n : Segment(o, k, got[o], block_from_client, f, n)
      BY <2>1, <2>2, SegmentShape
    <3>. QED
      BY <3>1 DEF Owner, Segment
  <2>4. Cut = k
    BY <2>1, <2>3 DEF Cut
  <2>. QED
    BY <1>3, <2>3, <2>4 DEF FramesInv, ServedWhole, OthersFinished, Finished, Holds
<1>. QED
  BY <1>2, <1>3 DEF Held

\* The lengths that matter about the buffer.
LEMMA Lengths ==
  ASSUME TypeInv
  PROVE  /\ got \in [Conns -> Nat] /\ sent \in [Conns -> Nat]
         /\ served \in [Conns -> Seq(Seq(ClientBytes))]
         /\ block_from_client \in Seq(ClientBytes)
         /\ \A c \in Conns : /\ Len(Sends[c]) \in Nat /\ Sends[c] \in Seq(ClientBytes)
                             /\ got[c] <= sent[c] /\ sent[c] <= Len(Sends[c])
                             /\ got[c] <= Len(Sends[c])
<1>1. \A c \in Conns : Len(Sends[c]) \in Nat /\ Sends[c] \in Seq(ClientBytes)
  BY StreamLayout
<1>. QED
  BY <1>1 DEF TypeInv, ConnsOK, ClientOK

\* It starts with nothing cut and nothing in the buffer.
LEMMA InitFrames == Init => FramesInv
<1>. SUFFICES ASSUME Init PROVE FramesInv
  OBVIOUS
<1>1. TypeInv
  BY InitTypes
<1>2. /\ block_from_client = <<>> /\ \A c \in Conns : got[c] = 0 /\ served[c] = <<>>
  BY DEF Init
<1>3. Len(<<>>) = 0 /\ 1..0 = {}
  OBVIOUS
<1>4. \A c : Blocks(c, 0) = 0 /\ ~Inside(c, 0)
  BY BlocksStep, NotInside, 0 \in Nat
<1>. QED
  BY <1>1, <1>2, <1>3, <1>4, FramesNone DEF ServedWhole, AllFinished, Finished

\* Steps that leave the buffer and what was read alone.
LEMMA SameFrames ==
  ASSUME TypeInv, FramesInv,
         UNCHANGED <<got, cur, block_from_client, client_block_size, served>>,
         \A c \in Conns : conn'[c] = "gone" <=> conn[c] = "gone",
         pc' = pc \/ (pc # "blocks" /\ pc' # "blocks")
  PROVE  FramesInv'
<1>1. Owner' = Owner /\ Cut' = Cut
  BY DEF Owner, Cut
<1>2. \A c \in Conns : \A i \in 1..Len(served'[c]) : served'[c][i] = Bytes(c, i, Stream[c][i].size)
  BY DEF FramesInv
<1>3. \A c \in Conns : conn'[c] # "gone" /\ (block_from_client' = <<>> \/ c # Owner')
       => ~Inside(c, got'[c]) /\ Len(served'[c]) = Blocks(c, got'[c])
  BY <1>1 DEF FramesInv
<1>4. block_from_client' # <<>> =>
       /\ Owner' \in Conns /\ conn'[Owner'] # "gone" /\ Cut' \in Nat /\ ~Inside(Owner', Cut')
       /\ block_from_client' = SubSeq(Sends[Owner'], Cut' + 1, got'[Owner'])
       /\ Len(served'[Owner']) = Blocks(Owner', Cut')
       /\ pc' = "blocks" => cur' = Owner'
       /\ pc' # "blocks" => Len(block_from_client') < SizeOf(block_from_client'[1])
       /\ Len(block_from_client') >= 2 => client_block_size' = SizeOf(block_from_client'[1])
  BY <1>1 DEF FramesInv
<1>. QED
  BY <1>2, <1>3, <1>4 DEF FramesInv

\* Between events the rest of the buffer is shorter than its block, so its
\* connection is inside one.
LEMMA HolderInside ==
  ASSUME TypeInv, pc # "blocks", NEW o \in Conns, NEW k \in Nat, Holds(o, k)
  PROVE  Inside(o, got[o]) /\ Blocks(o, got[o]) = Blocks(o, k) /\ block_from_client # <<>>
<1>1. got[o] \in Nat /\ k < got[o] /\ got[o] <= Len(Sends[o]) /\ ~Inside(o, k)
  BY Lengths DEF Holds
<1>2. block_from_client = SubSeq(Sends[o], k + 1, got[o])
  BY DEF Holds
<1>3. Len(block_from_client) < SizeOf(block_from_client[1])
  BY DEF Holds
<1>4. PICK f \in 1..Len(Stream[o]), n \in Positive :
           Segment(o, k, got[o], block_from_client, f, n)
  BY <1>1, <1>2, SegmentShape
<1>. QED
  BY <1>3, <1>4 DEF Segment

\* A connection that ended is never the one whose block is half read: only
\* what is left of itself is thrown away.
LEMMA EndFrames ==
  ASSUME TypeInv, TypeInv', QueueInv, AloneInv, FramesInv, NEW c \in Conns, DataReceiveEnd(c)
  PROVE  FramesInv'
<1>1. /\ pc = "events" /\ c \in ready /\ eof[c] = 1
      /\ got' = [got EXCEPT ![c] = sent[c]] /\ conn' = [conn EXCEPT ![c] = "gone"]
      /\ block_from_client' = <<>> /\ served' = served
  BY DEF DataReceiveEnd
<1>2. conn[c] = "open"
  BY <1>1 DEF QueueInv
<1>3. ASSUME NEW d \in Conns, conn'[d] # "gone"
      PROVE  d # c /\ conn[d] # "gone" /\ got'[d] = got[d]
  BY <1>1, <1>3, Lengths DEF TypeInv, ConnsOK
<1>4. ASSUME NEW d \in Conns, conn'[d] # "gone" PROVE Finished(d)
  <2>1. CASE block_from_client = <<>>
    BY <1>3, <1>4, <2>1, FramesNone DEF AllFinished
  <2>2. CASE block_from_client # <<>>
    <3>1. PICK o \in Conns, k \in Nat : Holds(o, k) /\ OthersFinished(o)
      BY <2>2, FramesSome DEF Held
    <3>2. CASE d # o
      BY <1>3, <1>4, <3>1, <3>2 DEF OthersFinished
    <3>3. CASE d = o
      <4>1. Inside(o, got[o])
        BY <1>1, <3>1, HolderInside
      <4>2. eof[c] = 0
        BY <4>1, <3>3, <1>2, <1>3, <1>4 DEF AloneInv
      <4>. QED
        BY <4>2, <1>1
    <3>. QED
      BY <3>2, <3>3
  <2>. QED
    BY <2>1, <2>2
<1>5. AllFinished'
  BY <1>1, <1>3, <1>4 DEF AllFinished, Finished
<1>6. ServedWhole'
  <2>1. ServedWhole
    BY FramesNone, FramesSome
  <2>. QED
    BY <1>1, <2>1 DEF ServedWhole
<1>7. TypeInv' /\ block_from_client' = <<>> => (FramesInv' <=> ServedWhole' /\ AllFinished')
  <2>1. (TypeInv /\ block_from_client = <<>> => (FramesInv <=> ServedWhole /\ AllFinished))'
    BY FramesNone, PTL
  <2>. QED
    BY <2>1
<1>. QED
  BY <1>1, <1>5, <1>6, <1>7

\* What is read of a connection follows what the buffer holds of it, or the
\* buffer is empty: the others are not inside a block.
LEMMA ReaderHolds ==
  ASSUME TypeInv, QueueInv, AloneInv, FramesInv, NEW c \in ready, pc = "events", eof[c] = 0
  PROVE  \E k \in Nat :
           /\ k <= got[c] /\ got[c] < sent[c] /\ ~Inside(c, k) /\ conn[c] = "open"
           /\ block_from_client = SubSeq(Sends[c], k + 1, got[c])
           /\ Len(served[c]) = Blocks(c, k) /\ OthersFinished(c)
           /\ Len(block_from_client) >= 2 => client_block_size = SizeOf(block_from_client[1])
<1>1. c \in Conns /\ conn[c] = "open" /\ got[c] < sent[c]
  BY DEF QueueInv, TypeInv, ClientOK
<1>2. CASE block_from_client = <<>>
  <2>1. got[c] \in Nat /\ Finished(c) /\ OthersFinished(c)
    BY <1>1, <1>2, FramesNone, Lengths DEF AllFinished, OthersFinished
  <2>2. SubSeq(Sends[c], got[c] + 1, got[c]) = <<>> /\ Len(<<>>) = 0
    BY <2>1
  <2>. QED
    BY <1>1, <1>2, <2>1, <2>2 DEF Finished
<1>3. CASE block_from_client # <<>>
  <2>1. PICK o \in Conns, k \in Nat : Holds(o, k) /\ OthersFinished(o)
    BY <1>3, FramesSome DEF Held
  <2>2. o = c
    <3>. SUFFICES ASSUME o # c PROVE FALSE
      OBVIOUS
    <3>1. Inside(o, got[o])
      BY <2>1, HolderInside
    <3>2. got[c] = sent[c]
      BY <1>1, <2>1, <3>1 DEF AloneInv, Holds
    <3>. QED
      BY <1>1, <3>2, Lengths
  <2>3. /\ k <= got[c] /\ ~Inside(c, k) /\ Len(served[c]) = Blocks(c, k)
        /\ block_from_client = SubSeq(Sends[c], k + 1, got[c]) /\ OthersFinished(c)
        /\ Len(block_from_client) >= 2 => client_block_size = SizeOf(block_from_client[1])
    BY <2>1, <2>2, Lengths DEF Holds
  <2>. QED
    BY <1>1, <2>3
<1>. QED
  BY <1>2, <1>3

\* data_receive puts what it reads behind what it has.
LEMMA ReceiveFrames ==
  ASSUME TypeInv, TypeInv', QueueInv, AloneInv, FramesInv, NEW c \in Conns, DataReceive(c)
  PROVE  FramesInv'
<1>. DEFINE buf == block_from_client \o SubSeq(Sends[c], got[c] + 1, sent[c])
<1>1. /\ pc = "events" /\ c \in ready /\ eof[c] = 0
      /\ got' = [got EXCEPT ![c] = sent[c]] /\ UNCHANGED <<conn, served>>
      /\ block_from_client' = buf
  BY DEF DataReceive, conns
<1>2. \/ client_block_size = 0 /\ Len(buf) < 2 /\ pc' = "events"
      \/ /\ client_block_size = 0 /\ Len(buf) >= 2 /\ client_block_size' \in Sizes(buf)
         /\ pc' = "blocks" /\ cur' = c
      \/ /\ client_block_size # 0 /\ UNCHANGED client_block_size
         /\ pc' = "blocks" /\ cur' = c
  BY <1>1 DEF DataReceive
<1>3. PICK k \in Nat :
        /\ k <= got[c] /\ got[c] < sent[c] /\ ~Inside(c, k) /\ conn[c] = "open"
        /\ block_from_client = SubSeq(Sends[c], k + 1, got[c])
        /\ Len(served[c]) = Blocks(c, k) /\ OthersFinished(c)
        /\ Len(block_from_client) >= 2 => client_block_size = SizeOf(block_from_client[1])
  BY <1>1, ReaderHolds
<1>4. /\ got[c] \in Nat /\ sent[c] \in Nat /\ got[c] <= sent[c] /\ sent[c] <= Len(Sends[c])
      /\ Sends[c] \in Seq(ClientBytes) /\ block_from_client \in Seq(ClientBytes)
      /\ k < sent[c]
  BY <1>3, Lengths
<1>5. buf = SubSeq(Sends[c], k + 1, sent[c])
  BY <1>3, <1>4, PiecesJoin
<1>. HIDE DEF buf
<1>6. PICK n \in Positive :
        /\ buf \in Seq(ClientBytes) /\ buf # <<>> /\ SizeOf(buf[1]) = n
        /\ Len(buf) >= 2 => Sizes(buf) = {n}
  <2>1. PICK f \in 1..Len(Stream[c]), n \in Positive :
             Segment(c, k, sent[c], buf, f, n)
    BY <1>3, <1>4, <1>5, SegmentShape
  <2>. QED
    BY <2>1 DEF Segment
<1>7. Len(block_from_client) >= 2 => block_from_client[1] = buf[1] /\ Len(buf) >= 2
  <2>1. SubSeq(Sends[c], got[c] + 1, sent[c]) \in Seq(ClientBytes)
    BY <1>4, Piece
  <2>. QED
    BY <1>4, <2>1, SMTT(30) DEF buf
<1>8. client_block_size # 0 <=> Len(block_from_client) >= 2
  BY DEF TypeInv, ClientOK
<1>9. Len(buf) >= 2 => client_block_size' = n
  <2>1. client_block_size # 0 => client_block_size = n
    BY <1>3, <1>6, <1>7, <1>8
  <2>. QED
    BY <1>2, <1>6, <2>1
<1>10. Len(buf) < 2 => Len(buf) < n
  BY <1>6 DEF Positive
<1>11. pc' = "blocks" => cur' = c
  BY <1>2
<1>12. pc' # "blocks" => Len(buf) < 2
  BY <1>2
<1>13. got'[c] = sent[c] /\ \A d \in Conns \ {c} : got'[d] = got[d]
  BY <1>1, Lengths
<1>14. Holds(c, k)'
  BY <1>1, <1>3, <1>4, <1>5, <1>6, <1>9, <1>10, <1>11, <1>12, <1>13 DEF Holds
<1>15. OthersFinished(c)'
  BY <1>1, <1>3, <1>13 DEF OthersFinished, Finished
<1>16. ServedWhole'
  <2>1. ServedWhole
    BY FramesNone, FramesSome
  <2>. QED
    BY <1>1, <2>1 DEF ServedWhole
<1>17. TypeInv' /\ block_from_client' # <<>> => (FramesInv' <=> ServedWhole' /\ Held')
  <2>1. (TypeInv /\ block_from_client # <<>> => (FramesInv <=> ServedWhole /\ Held))'
    BY FramesSome, PTL
  <2>. QED
    BY <2>1
<1>18. Held'
  BY <1>14, <1>15 DEF Held
<1>. QED
  BY <1>1, <1>6, <1>16, <1>17, <1>18

\* What the buffer holds when its blocks are processed.
LEMMA BlocksHold ==
  ASSUME TypeInv, FramesInv, pc = "blocks"
  PROVE  \E k \in Nat, f \in 1..Len(Stream[cur]) :
           /\ cur \in Conns /\ k < got[cur] /\ conn[cur] # "gone"
           /\ ~Inside(cur, k) /\ Len(served[cur]) = Blocks(cur, k) /\ OthersFinished(cur)
           /\ client_block_size \in Positive /\ block_from_client # <<>>
           /\ Segment(cur, k, got[cur], block_from_client, f, client_block_size)
<1>1. /\ client_block_size \in Positive /\ Len(block_from_client) >= 2
      /\ block_from_client \in Seq(ClientBytes)
  BY DEF TypeInv, ClientOK
<1>2. block_from_client # <<>>
  BY <1>1
<1>3. PICK o \in Conns, k \in Nat : Holds(o, k) /\ OthersFinished(o)
  BY <1>2, FramesSome DEF Held
<1>4. cur = o /\ k < got[o] /\ ~Inside(o, k) /\ conn[o] # "gone" /\ Len(served[o]) = Blocks(o, k)
  BY <1>3 DEF Holds
<1>5. got[o] \in Nat /\ got[o] <= Len(Sends[o])
  BY Lengths
<1>6. block_from_client = SubSeq(Sends[o], k + 1, got[o])
  BY <1>3 DEF Holds
<1>7. PICK f \in 1..Len(Stream[o]), n \in Positive :
           Segment(o, k, got[o], block_from_client, f, n)
  BY <1>4, <1>5, <1>6, SegmentShape
<1>8. n = client_block_size
  BY <1>1, <1>3, <1>7 DEF Holds, Segment
<1>. QED
  BY <1>1, <1>2, <1>3, <1>4, <1>7, <1>8

\* One block is cut off the buffer: it is the next one of the connection.
LEMMA CutFrames ==
  ASSUME TypeInv, TypeInv', FramesInv, NextBlock
  PROVE  FramesInv'
<1>. DEFINE n == client_block_size
            b == SubSeq(block_from_client, 1, n)
            rest == SubSeq(block_from_client, n + 1, Len(block_from_client))
            o == cur
            g == got[cur]
<1>1. /\ pc = "blocks" /\ Len(block_from_client) >= n /\ DataProcess(b)
      /\ block_from_client' = rest /\ UNCHANGED <<conns, got, cur>>
      /\ \/ Len(rest) >= 2 /\ client_block_size' \in Sizes(rest) /\ pc' = "blocks"
         \/ ~(Len(rest) >= 2) /\ pc' = "events"
  BY DEF NextBlock
<1>2. PICK k \in Nat, f \in 1..Len(Stream[o]) :
        /\ o \in Conns /\ k < g /\ conn[o] # "gone"
        /\ ~Inside(o, k) /\ Len(served[o]) = Blocks(o, k) /\ OthersFinished(o)
        /\ n \in Positive /\ block_from_client # <<>>
        /\ Segment(o, k, g, block_from_client, f, n)
  BY <1>1, BlocksHold
<1>3. served' = [served EXCEPT ![o] = Append(served[o], b)]
  BY <1>1 DEF DataProcess
<1>. HIDE DEF n, b, rest, o, g
<1>4. n \in Nat /\ n >= 3
  BY <1>2 DEF Positive
<1>5. /\ f = Blocks(o, k) + 1 /\ n = Stream[o][f].size
      /\ Len(block_from_client) = g - k /\ g - k >= n
  BY <1>1, <1>2 DEF Segment
<1>6. /\ b = Bytes(o, f, n) /\ rest = SubSeq(Sends[o], k + n + 1, g)
      /\ ~Inside(o, k + n) /\ Blocks(o, k + n) = f
  BY <1>2, <1>5 DEF Segment, b, rest
<1>7. g \in Nat /\ g <= Len(Sends[o]) /\ k + n \in Nat /\ k + n <= g
  BY <1>2, <1>4, <1>5, Lengths, SMTT(30) DEF g, o
<1>8. /\ served[o] \in Seq(Seq(ClientBytes)) /\ Len(served[o]) = f - 1 /\ b \in Seq(ClientBytes)
      /\ served \in [Conns -> Seq(Seq(ClientBytes))]
  <2>1. served[o] \in Seq(Seq(ClientBytes)) /\ served \in [Conns -> Seq(Seq(ClientBytes))]
    BY <1>2, Lengths
  <2>2. Len(served[o]) = f - 1
    BY <1>2, <1>5
  <2>3. b \in Seq(ClientBytes)
    BY <1>1, BlockCut DEF TypeInv, b, n
  <2>. QED
    BY <2>1, <2>2, <2>3
<1>9. /\ served'[o] = Append(served[o], b)
      /\ \A d \in Conns \ {o} : served'[d] = served[d]
  BY <1>2, <1>3, <1>8
<1>10. Len(served'[o]) = f
  BY <1>8, <1>9
<1>11. ServedWhole'
  <2>1. ServedWhole
    BY FramesNone, FramesSome
  <2>2. ASSUME NEW i \in 1..Len(served'[o]) PROVE served'[o][i] = Bytes(o, i, Stream[o][i].size)
    <3>1. CASE i = f
      <4>1. served'[o][f] = b
        BY <1>8, <1>9
      <4>. QED
        BY <4>1, <3>1, <1>5, <1>6
    <3>2. CASE i # f
      <4>1. i \in 1..Len(served[o])
        BY <3>2, <1>8, <1>10
      <4>2. served'[o][i] = served[o][i]
        BY <4>1, <1>8, <1>9
      <4>. QED
        BY <4>1, <4>2, <2>1, <1>2 DEF ServedWhole
    <3>. QED
      BY <3>1, <3>2
  <2>3. ASSUME NEW d \in Conns, NEW i \in 1..Len(served'[d])
        PROVE  served'[d][i] = Bytes(d, i, Stream[d][i].size)
    <3>1. CASE d = o
      BY <2>2, <3>1
    <3>2. CASE d # o
      BY <2>1, <3>2, <1>9 DEF ServedWhole
    <3>. QED
      BY <3>1, <3>2
  <2>. QED
    BY <2>3 DEF ServedWhole
<1>12. UNCHANGED <<conn, got>>
  BY <1>1 DEF conns
<1>13. OthersFinished(o)'
  <2>1. o' = o
    BY <1>1 DEF o
  <2>2. ASSUME NEW d \in Conns \ {o}, conn[d] # "gone"
        PROVE  ~Inside(d, got[d]) /\ Len(served'[d]) = Blocks(d, got[d])
    BY <2>2, <1>2, <1>9 DEF OthersFinished, Finished
  <2>. QED
    BY <2>1, <2>2, <1>12 DEF OthersFinished, Finished
<1>14. CASE k + n = g
  <2>1. rest = <<>>
    BY <1>6, <1>7, <1>14
  <2>2. pc' = "events" /\ block_from_client' = <<>>
    BY <1>1, <2>1
  <2>3. ASSUME NEW d \in Conns, conn[d] # "gone"
        PROVE  ~Inside(d, got[d]) /\ Len(served'[d]) = Blocks(d, got[d])
    <3>1. CASE d = o
      BY <3>1, <1>6, <1>10, <1>14 DEF g, o
    <3>2. CASE d # o
      BY <3>2, <2>3, <1>2, <1>9 DEF OthersFinished, Finished
    <3>. QED
      BY <3>1, <3>2
  <2>4. AllFinished'
    BY <2>3, <1>12 DEF AllFinished, Finished
  <2>5. TypeInv' /\ block_from_client' = <<>> => (FramesInv' <=> ServedWhole' /\ AllFinished')
    <3>1. (TypeInv /\ block_from_client = <<>> => (FramesInv <=> ServedWhole /\ AllFinished))'
      BY FramesNone, PTL
    <3>. QED
      BY <3>1
  <2>. QED
    BY <2>2, <2>4, <2>5, <1>11
<1>15. CASE k + n < g
  <2>1. PICK h \in 1..Len(Stream[o]), m \in Positive : Segment(o, k + n, g, rest, h, m)
    BY <1>2, <1>6, <1>7, <1>15, SegmentShape
  <2>2. rest # <<>> /\ SizeOf(rest[1]) = m /\ (Len(rest) >= 2 => Sizes(rest) = {m})
    BY <2>1 DEF Segment
  <2>3. m \in Nat /\ m >= 3 /\ Len(rest) \in Nat
    BY <2>1, SMTT(30) DEF Segment, Positive
  <2>4. got'[o] = g /\ cur' = o
    BY <1>1 DEF g, o
  <2>5. pc' # "blocks" => Len(rest) < m
    BY <1>1, <2>3
  <2>6. Len(rest) >= 2 => client_block_size' = m
    BY <1>1, <2>2
  <2>7. Len(served'[o]) = Blocks(o, k + n)
    BY <1>6, <1>10
  <2>8. \E p \in Conns, j \in Nat : Holds(p, j)' /\ OthersFinished(p)'
    <3>1. PICK p \in Conns : p = o
      BY <1>2
    <3>2. PICK j \in Nat : j = k + n
      BY <1>7
    <3>3. Holds(p, j)'
      BY <3>1, <3>2, <1>1, <1>2, <1>6, <1>12, <1>15, <2>2, <2>4, <2>5, <2>6, <2>7 DEF Holds
    <3>4. OthersFinished(p)'
      <4>1. ASSUME NEW d \in Conns \ {p}, conn[d] # "gone"
            PROVE  ~Inside(d, got[d]) /\ Len(served'[d]) = Blocks(d, got[d])
        BY <4>1, <3>1, <1>2, <1>9 DEF OthersFinished, Finished
      <4>. QED
        BY <4>1, <1>12 DEF OthersFinished, Finished
    <3>. QED
      BY <3>3, <3>4
  <2>9. Held'
    BY <2>8 DEF Held
  <2>10. TypeInv' /\ block_from_client' # <<>> => (FramesInv' <=> ServedWhole' /\ Held')
    <3>1. (TypeInv /\ block_from_client # <<>> => (FramesInv <=> ServedWhole /\ Held))'
      BY FramesSome, PTL
    <3>. QED
      BY <3>1
  <2>. QED
    BY <1>1, <1>11, <2>2, <2>9, <2>10
<1>. QED
  BY <1>7, <1>14, <1>15

\* The loop over the blocks ends when the rest is shorter than its block.
LEMMA DoneFrames ==
  ASSUME TypeInv, TypeInv', FramesInv, BlocksDone
  PROVE  FramesInv'
<1>1. /\ pc = "blocks" /\ Len(block_from_client) < client_block_size /\ pc' = "events"
      /\ UNCHANGED <<conn, got, cur, block_from_client, client_block_size, served>>
  BY DEF BlocksDone, conns, client
<1>2. PICK k \in Nat, f \in 1..Len(Stream[cur]) :
        /\ cur \in Conns /\ k < got[cur] /\ conn[cur] # "gone"
        /\ ~Inside(cur, k) /\ Len(served[cur]) = Blocks(cur, k) /\ OthersFinished(cur)
        /\ client_block_size \in Positive /\ block_from_client # <<>>
        /\ Segment(cur, k, got[cur], block_from_client, f, client_block_size)
  BY <1>1, BlocksHold
<1>3. SizeOf(block_from_client[1]) = client_block_size
  BY <1>2 DEF Segment
<1>4. Owner' = Owner /\ Cut' = Cut
  BY <1>1 DEF Owner, Cut
<1>5. /\ \A c \in Conns : \A i \in 1..Len(served'[c]) :
           served'[c][i] = Bytes(c, i, Stream[c][i].size)
      /\ \A c \in Conns : conn'[c] # "gone" /\ (block_from_client' = <<>> \/ c # Owner')
           => ~Inside(c, got'[c]) /\ Len(served'[c]) = Blocks(c, got'[c])
  BY <1>1, <1>4 DEF FramesInv
<1>6. /\ Owner' \in Conns /\ conn'[Owner'] # "gone" /\ Cut' \in Nat /\ ~Inside(Owner', Cut')
      /\ block_from_client' = SubSeq(Sends[Owner'], Cut' + 1, got'[Owner'])
      /\ Len(served'[Owner']) = Blocks(Owner', Cut')
      /\ Len(block_from_client') < SizeOf(block_from_client'[1])
      /\ Len(block_from_client') >= 2 => client_block_size' = SizeOf(block_from_client'[1])
  BY <1>1, <1>2, <1>3, <1>4 DEF FramesInv
<1>. QED
  BY <1>1, <1>5, <1>6 DEF FramesInv

\* Every step keeps the blocks cut as they were sent.
LEMMA NextFrames ==
  ASSUME TypeInv, TypeInv', QueueInv, AloneInv, FramesInv, [Next]_vars
  PROVE  FramesInv'
<1>0. conn \in [Conns -> {"none", "queued", "open", "gone"}] /\ queue \in Seq(Conns)
  BY DEF TypeInv, ConnsOK
<1>1. CASE UNCHANGED <<client, conn>> /\ (pc' = pc \/ (pc # "blocks" /\ pc' # "blocks"))
  BY <1>1, SameFrames DEF client
<1>2. ASSUME NEW c \in Conns, Accept(c) PROVE FramesInv'
  <2>1. conn[c] = "none" /\ conn' = [conn EXCEPT ![c] = "queued"] /\ UNCHANGED <<client, pc>>
    BY <1>2 DEF Accept
  <2>2. \A d \in Conns : conn'[d] = "gone" <=> conn[d] = "gone"
    BY <1>0, <2>1
  <2>. QED
    BY <2>1, <2>2, SameFrames DEF client
<1>3. CASE Register
  <2>1. /\ queue # <<>> /\ conn' = [conn EXCEPT ![Head(queue)] = "open"]
        /\ UNCHANGED <<client, pc>>
    BY <1>3 DEF Register
  <2>2. Head(queue) = queue[1] /\ 1 \in 1..Len(queue) /\ queue[1] \in Conns
    BY <1>0, <2>1
  <2>3. conn[Head(queue)] = "queued"
    BY <2>2 DEF QueueInv
  <2>4. \A d \in Conns : conn'[d] = "gone" <=> conn[d] = "gone"
    BY <1>0, <2>1, <2>3
  <2>. QED
    BY <2>1, <2>4, SameFrames DEF client
<1>4. CASE WaitEvent
  <2>1. /\ UNCHANGED <<conn, got, cur, block_from_client, client_block_size, served>>
        /\ pc = "queue" /\ pc' = "events"
    BY <1>4 DEF WaitEvent, conns
  <2>. QED
    BY <2>1, SameFrames
<1>5. ASSUME NEW c \in Conns, DataReceiveEnd(c) \/ DataReceive(c) PROVE FramesInv'
  BY <1>5, EndFrames, ReceiveFrames
<1>6. CASE NextBlock \/ BlocksDone
  BY <1>6, CutFrames, DoneFrames
<1>. QED
  BY <1>1, <1>2, <1>3, <1>4, <1>5, <1>6
  DEF Next, Worker, vars, conns, Close, Deliver, Arrive, Lose, Silence, EventsDone,
      WriteModem, ListenRead, ListenEnd, ListenIdle

\* data_receive cuts what a client sends into the blocks the client sent,
\* whole and in order, however it is cut into segments, and processes them as
\* soon as they are complete, whoever else connects, sends or closes; as long
\* as the clients do not send while a block of another one is half sent, since
\* they all share one buffer.
THEOREM FramesCut == ASSUME Exclusive = 1 PROVE Spec => []FramesInOrder
<1>1. Init => TypeInv /\ QueueInv /\ AloneInv /\ FramesInv
  <2>1. Init => QueueInv
    BY DEF Init, QueueInv
  <2>2. Init => AloneInv
    BY NotInside DEF Init, AloneInv
  <2>. QED
    BY <2>1, <2>2, InitTypes, InitFrames
<1>2. TypeInv /\ QueueInv /\ AloneInv /\ FramesInv /\ [Next]_vars
        => (TypeInv /\ QueueInv /\ AloneInv /\ FramesInv)'
  BY NextTypes, NextQueue, NextAlone, NextFrames
<1>3. TypeInv /\ FramesInv => FramesInOrder
  <2>. SUFFICES ASSUME TypeInv, FramesInv PROVE FramesInOrder
    OBVIOUS
  <2>1. ServedWhole
    BY FramesNone, FramesSome
  <2>2. ASSUME NEW c \in Conns, conn[c] = "open", pc # "blocks"
        PROVE  Len(served[c]) = Blocks(c, got[c])
    <3>1. CASE block_from_client = <<>>
      BY <2>2, <3>1, FramesNone DEF AllFinished, Finished
    <3>2. CASE block_from_client # <<>>
      <4>1. PICK o \in Conns, k \in Nat : Holds(o, k) /\ OthersFinished(o)
        BY <3>2, FramesSome DEF Held
      <4>2. CASE c = o
        <5>1. Blocks(o, got[o]) = Blocks(o, k)
          BY <2>2, <4>1, HolderInside
        <5>. QED
          BY <4>1, <4>2, <5>1 DEF Holds
      <4>3. CASE c # o
        BY <2>2, <4>1, <4>3 DEF OthersFinished, Finished
      <4>. QED
        BY <4>2, <4>3
    <3>. QED
      BY <3>1, <3>2
  <2>. QED
    BY <2>1, <2>2 DEF FramesInOrder, ServedWhole
<1>. QED
  BY <1>1, <1>2, <1>3, PTL DEF Spec

=============================================================================
