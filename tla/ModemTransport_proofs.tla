------------------------ MODULE ModemTransport_proofs ------------------------
(***************************************************************************)
(* Proofs about the block transport: types, and, when a round trip fits    *)
(* both timeouts, that blocks arrive whole and once and that an            *)
(* acknowledged block was delivered, however many packets the channel      *)
(* loses or damages.                                                       *)
(***************************************************************************)
EXTENDS ModemTransport, TLAPS, FiniteSetTheorems

(***************************************************************************)
(* The operators of the model.                                             *)
(***************************************************************************)
\* A set of natural numbers that is not empty has a least element: the
\* intervals from 0 to its elements are well-founded by inclusion.
LEMMA LeastNumber ==
  ASSUME NEW T \in SUBSET Nat, T # {}
  PROVE  \E m \in T : \A n \in T : m <= n
<1>. DEFINE R == StrictSubsetOrdering(Nat)
            U == {0..n : n \in T}
<1>1. IsWellFoundedOn(R, FiniteSubsetsOf(Nat))
  BY FS_StrictSubsetOrderingWellFounded
<1>2. U \subseteq FiniteSubsetsOf(Nat) /\ U # {}
  <2>1. ASSUME NEW n \in T PROVE 0..n \subseteq Nat /\ IsFiniteSet(0..n)
    BY FS_Interval
  <2>. QED
    BY <2>1 DEF FiniteSubsetsOf
<1>3. \E x \in U : \A y \in U : ~(<<y, x>> \in R)
  <2>. HIDE DEF R, U
  <2>. QED
    BY <1>1, <1>2, WFMin
<1>4. PICK m \in T : \A n \in T : ~(<<0..n, 0..m>> \in R)
  BY <1>3
<1>5. ASSUME NEW n \in T, n < m PROVE FALSE
  <2>1. 0..n \subseteq 0..m /\ 0..n # 0..m /\ 0..n \subseteq Nat /\ 0..m \subseteq Nat
    BY <1>5
  <2>2. <<0..n, 0..m>> \in R
    BY <2>1 DEF StrictSubsetOrdering
  <2>. QED
    BY <2>2, <1>4
<1>. QED
  BY <1>5

\* The loop of SEND_DATA (modem-sender.cpp:126) stops at a packet the mask
\* misses, or at the end of the block, and passes only packets of the mask.
LEMMA Skip ==
  ASSUME snd.idx \in Nat, snd.total \in Nat, snd.idx <= snd.total
  PROVE  /\ SkipDelivered \in snd.idx..snd.total
         /\ SkipDelivered = snd.total \/ SkipDelivered \notin snd.mask
         /\ \A j \in snd.idx..(SkipDelivered - 1) : j \in snd.mask
<1>. DEFINE T == {i \in snd.idx..snd.total : i = snd.total \/ i \notin snd.mask}
            Stop(i) == /\ i = snd.total \/ i \notin snd.mask
                       /\ \A j \in snd.idx..(i - 1) : j \in snd.mask
<1>1. T \in SUBSET Nat /\ T # {}
  OBVIOUS
<1>2. PICK m \in T : \A n \in T : m <= n
  <2>. HIDE DEF T
  <2>. QED
    BY <1>1, LeastNumber
<1>3. m \in snd.idx..snd.total /\ Stop(m)
  <2>1. ASSUME NEW j \in snd.idx..(m - 1), j \notin snd.mask PROVE FALSE
    BY <1>2, <2>1
  <2>. QED
    BY <1>2, <2>1
<1>4. SkipDelivered = CHOOSE i \in snd.idx..snd.total : Stop(i)
  BY DEF SkipDelivered
<1>5. SkipDelivered \in snd.idx..snd.total /\ Stop(SkipDelivered)
  <2>. HIDE DEF Stop
  <2>. QED
    BY <1>3, <1>4
<1>. QED
  BY <1>5

\* The places of a list of n packets, and their n numbers.
LEMMA Numbers ==
  ASSUME NEW n \in Nat
  PROVE  /\ IsFiniteSet(1..n) /\ Cardinality(1..n) = n
         /\ IsFiniteSet(0..(n - 1)) /\ Cardinality(0..(n - 1)) = n
<1>1. 0 \in Int /\ 1 \in Int /\ n \in Int /\ n - 1 \in Int
  OBVIOUS
<1>2. /\ IsFiniteSet(1..n) /\ Cardinality(1..n) = IF 1 > n THEN 0 ELSE n - 1 + 1
      /\ IsFiniteSet(0..(n - 1))
      /\ Cardinality(0..(n - 1)) = IF 0 > n - 1 THEN 0 ELSE n - 1 - 0 + 1
  BY <1>1, FS_Interval
<1>. QED
  BY <1>2

\* The packets of a list have numbers.
LEMMA HaveNumbers ==
  ASSUME NEW list \in Seq(Packets)
  PROVE  /\ \A j \in DOMAIN list : list[j].number \in Nat
         /\ DOMAIN list = 1..Len(list) /\ Len(list) \in Nat
<1>1. \A j \in DOMAIN list : list[j] \in Packets
  OBVIOUS
<1>. QED
  BY <1>1 DEF Packets

\* The packets before packet i: not i itself, and fewer than the list has.
LEMMA BeforeSize ==
  ASSUME NEW list \in Seq(Packets), NEW i \in DOMAIN list
  PROVE  /\ IsFiniteSet(Before(list, i))
         /\ Before(list, i) \subseteq DOMAIN list
         /\ i \notin Before(list, i)
         /\ Cardinality(Before(list, i)) \in 0..(Len(list) - 1)
<1>1. DOMAIN list = 1..Len(list) /\ Len(list) \in Nat
  OBVIOUS
<1>2. Before(list, i) \subseteq 1..Len(list) /\ i \notin Before(list, i)
  <2>1. list[i].number \in Nat
    BY HaveNumbers
  <2>. QED
    BY <1>1, <2>1 DEF Before
<1>3. IsFiniteSet(1..Len(list)) /\ Cardinality(1..Len(list)) = Len(list)
  BY <1>1, Numbers
<1>4. /\ IsFiniteSet((1..Len(list)) \ {i})
      /\ Cardinality((1..Len(list)) \ {i}) = Len(list) - 1
  <2>. DEFINE S == 1..Len(list)
  <2>1. i \in S /\ IsFiniteSet(S) /\ Cardinality(S) = Len(list)
    BY <1>1, <1>3
  <2>. HIDE DEF S
  <2>2. IsFiniteSet(S \ {i}) /\ Cardinality(S \ {i}) = Len(list) - 1
    BY <2>1, FS_RemoveElement
  <2>. QED
    BY <2>2 DEF S
<1>5. Before(list, i) \in SUBSET ((1..Len(list)) \ {i})
  BY <1>2
<1>6. /\ IsFiniteSet(Before(list, i))
      /\ Cardinality(Before(list, i)) <= Len(list) - 1
  BY <1>4, <1>5, FS_Subset
<1>7. Cardinality(Before(list, i)) \in Nat
  BY <1>6, FS_CardinalityType
<1>. QED
  BY <1>1, <1>2, <1>6, <1>7

\* Of two packets one comes before the other, and has fewer before it.
LEMMA BeforeDiffers ==
  ASSUME NEW list \in Seq(Packets), NEW i \in DOMAIN list, NEW j \in DOMAIN list, i # j
  PROVE  Cardinality(Before(list, i)) # Cardinality(Before(list, j))
<1>1. ASSUME NEW a \in DOMAIN list, NEW c \in DOMAIN list, a \in Before(list, c)
      PROVE  Cardinality(Before(list, a)) < Cardinality(Before(list, c))
  <2>. DEFINE A == Before(list, a)
              C == Before(list, c)
  <2>1. A \subseteq C
    <3>1. \A x \in DOMAIN list : list[x].number \in Nat
      BY HaveNumbers
    <3>2. DOMAIN list \subseteq Nat
      OBVIOUS
    <3>. QED
      BY <1>1, <3>1, <3>2 DEF Before
  <2>2. a \in C /\ a \notin A
    BY <1>1, BeforeSize
  <2>3. IsFiniteSet(A) /\ IsFiniteSet(C) /\ Cardinality(A) \in Nat /\ Cardinality(C) \in Nat
    BY BeforeSize
  <2>. HIDE DEF A, C
  <2>4. Cardinality(A) <= Cardinality(C) /\ (Cardinality(C) = Cardinality(A) => C = A)
    BY <2>1, <2>3, FS_Subset
  <2>5. Cardinality(A) < Cardinality(C)
    BY <2>2, <2>3, <2>4
  <2>. QED
    BY <2>5 DEF A, C
<1>2. i \in Before(list, j) \/ j \in Before(list, i)
  <2>1. list[i].number \in Nat /\ list[j].number \in Nat
    BY HaveNumbers
  <2>2. i \in Nat /\ j \in Nat
    OBVIOUS
  <2>. QED
    BY <2>1, <2>2 DEF Before
<1>3. /\ Cardinality(Before(list, i)) \in Nat
      /\ Cardinality(Before(list, j)) \in Nat
  BY BeforeSize
<1>. QED
  BY <1>1, <1>2, <1>3

\* Every place of the sorted list has a packet: the places 0..n - 1 are as
\* many as the packets, and no two packets have the same.
LEMMA PlaceTaken ==
  ASSUME NEW list \in Seq(Packets), NEW k \in DOMAIN list
  PROVE  \E i \in DOMAIN list : Cardinality(Before(list, i)) = k - 1
<1>. DEFINE n == Len(list)
            f == [i \in 1..n |-> Cardinality(Before(list, i))]
<1>1. DOMAIN list = 1..n /\ n \in Nat /\ k \in 1..n
  OBVIOUS
<1>2. f \in Injection(1..n, 0..(n - 1))
  <2>1. \A i \in 1..n : f[i] \in 0..(n - 1)
    BY <1>1, BeforeSize
  <2>2. \A i, j \in 1..n : f[i] = f[j] => i = j
    BY <1>1, BeforeDiffers
  <2>. QED
    BY <2>1, <2>2 DEF Injection, IsInjective
<1>3. /\ IsFiniteSet(0..(n - 1))
      /\ Cardinality(1..n) = n /\ Cardinality(0..(n - 1)) = n
  BY <1>1, Numbers
<1>4. f \in Surjection(1..n, 0..(n - 1))
  <2>. HIDE DEF f, n
  <2>. QED
    BY <1>2, <1>3, FS_Injection
<1>5. \E i \in 1..n : f[i] = k - 1
  <2>1. k - 1 \in 0..(n - 1)
    BY <1>1
  <2>. HIDE DEF f, n
  <2>. QED
    BY <1>4, <2>1 DEF Surjection
<1>. QED
  BY <1>1, <1>5

\* Sorting (modem-receiver.cpp:149) puts each packet into the one place its
\* rank gives it: place k has the packet that k - 1 packets come before.
LEMMA SortedPlaces ==
  ASSUME NEW list \in Seq(Packets)
  PROVE  /\ Sorted(list) \in Seq(Packets) /\ Len(Sorted(list)) = Len(list)
         /\ \A k \in DOMAIN list : \E i \in DOMAIN list :
              Cardinality(Before(list, i)) = k - 1 /\ Sorted(list)[k] = list[i]
<1>. DEFINE Place(k) == CHOOSE i \in DOMAIN list : Cardinality(Before(list, i)) = k - 1
<1>1. ASSUME NEW k \in DOMAIN list
      PROVE  Place(k) \in DOMAIN list /\ Cardinality(Before(list, Place(k))) = k - 1
  BY PlaceTaken
<1>2. Sorted(list) = [k \in DOMAIN list |-> list[Place(k)]]
  BY DEF Sorted
<1>. HIDE DEF Place
<1>3. \A k \in DOMAIN list : Sorted(list)[k] = list[Place(k)]
  BY <1>2
<1>4. Sorted(list) \in [1..Len(list) -> Packets]
  BY <1>1, <1>2
<1>. QED
  BY <1>1, <1>3, <1>4, SMTT(30)

\* As many packets as the block has, with different numbers below that, have
\* all the numbers of the block.
LEMMA AllNumbers ==
  ASSUME NEW list \in Seq(Packets),
         \A j \in DOMAIN list : list[j].number < Len(list),
         \A i, j \in DOMAIN list : list[i].number = list[j].number => i = j
  PROVE  \A n \in 0..(Len(list) - 1) : \E j \in DOMAIN list : list[j].number = n
<1>. DEFINE n == Len(list)
            f == [i \in 1..n |-> list[i].number]
<1>1. DOMAIN list = 1..n /\ n \in Nat /\ \A j \in 1..n : list[j].number \in Nat
  BY HaveNumbers
<1>2. f \in Injection(1..n, 0..(n - 1))
  <2>1. \A i \in 1..n : f[i] \in 0..(n - 1)
    BY <1>1
  <2>. QED
    BY <1>1, <2>1 DEF Injection, IsInjective
<1>3. /\ IsFiniteSet(0..(n - 1))
      /\ Cardinality(1..n) = n /\ Cardinality(0..(n - 1)) = n
  BY <1>1, Numbers
<1>4. f \in Surjection(1..n, 0..(n - 1))
  <2>. HIDE DEF f, n
  <2>. QED
    BY <1>2, <1>3, FS_Injection
<1>5. \A x \in 0..(n - 1) : \E i \in 1..n : f[i] = x
  <2>. HIDE DEF f, n
  <2>. QED
    BY <1>4 DEF Surjection
<1>. QED
  BY <1>1, <1>5

\* A list with as many packets as block b has, all of block b, with different
\* numbers below that, is the whole block once it is sorted.
LEMMA SortedWhole ==
  ASSUME NEW list \in Seq(Packets), NEW b \in Blocks, Len(list) = Totals[b],
         \A j \in DOMAIN list : list[j].blk = b /\ list[j].number < Len(list),
         \A i, j \in DOMAIN list : list[i].number = list[j].number => i = j
  PROVE  Sorted(list) = Whole(b)
<1>1. DOMAIN list = 1..Len(list) /\ Len(list) \in Nat
  OBVIOUS
<1>2. \A j \in DOMAIN list : list[j].number \in Nat
  BY HaveNumbers
<1>3. ASSUME NEW i \in DOMAIN list
      PROVE  Cardinality(Before(list, i)) = list[i].number
  <2>. DEFINE S == Before(list, i)
              m == list[i].number
              f == [j \in S |-> list[j].number]
  <2>1. m \in Nat /\ m < Len(list)
    BY <1>2
  <2>2. S = {j \in DOMAIN list : list[j].number < m}
    BY <1>2 DEF Before
  <2>3. f \in Injection(S, 0..(m - 1))
    <3>1. \A j \in S : f[j] \in 0..(m - 1)
      BY <1>2, <2>1, <2>2
    <3>2. \A j, k \in S : f[j] = f[k] => j = k
      BY <2>2
    <3>. QED
      BY <3>1, <3>2 DEF Injection, IsInjective
  <2>4. \A x \in 0..(m - 1) : \E j \in S : f[j] = x
    <3>1. \A x \in 0..(Len(list) - 1) : \E j \in DOMAIN list : list[j].number = x
      BY AllNumbers
    <3>2. TAKE x \in 0..(m - 1)
    <3>3. x \in 0..(Len(list) - 1) /\ x < m
      BY <1>1, <2>1
    <3>4. PICK j \in DOMAIN list : list[j].number = x
      BY <3>1, <3>3
    <3>5. j \in S /\ f[j] = x
      BY <2>2, <3>3, <3>4
    <3>. QED
      BY <3>5
  <2>5. IsFiniteSet(0..(m - 1)) /\ Cardinality(0..(m - 1)) = m
    <3>. HIDE DEF m
    <3>. QED
      BY <2>1, Numbers
  <2>6. f \in Surjection(S, 0..(m - 1))
    <3>1. f \in [S -> 0..(m - 1)]
      BY <2>3 DEF Injection
    <3>. HIDE DEF f, S
    <3>. QED
      BY <2>4, <3>1 DEF Surjection
  <2>. HIDE DEF f, S, m
  <2>7. Cardinality(S) = m
    BY <2>3, <2>5, <2>6, FS_Injection
  <2>. QED
    BY <2>7 DEF S, m
<1>4. ASSUME NEW k \in DOMAIN list
      PROVE  Sorted(list)[k] = [blk |-> b, number |-> k - 1]
  <2>1. PICK i \in DOMAIN list : Cardinality(Before(list, i)) = k - 1 /\ Sorted(list)[k] = list[i]
    BY SortedPlaces
  <2>2. list[i].blk = b /\ list[i].number = k - 1 /\ list[i] \in Packets
    BY <1>3, <2>1
  <2>. QED
    BY <2>1, <2>2 DEF Packets
<1>5. Sorted(list) = [k \in 1..Len(list) |-> Sorted(list)[k]]
  BY <1>1, SortedPlaces
<1>. QED
  BY <1>1, <1>4, <1>5 DEF Whole

-----------------------------------------------------------------------------
(***************************************************************************)
(* Types.                                                                  *)
(***************************************************************************)
ToRMessages ==
  [type : {"RTS"}, total : Nat] \cup [type : {"DATA"}, blk : Blocks, number : Nat]
    \cup [type : Damage]
ToSMessages ==
  [type : {"ACK"}, total : Nat, mask : SUBSET Nat, need : Int] \cup [type : Damage]
Flight(messages) == [m : messages, ttl : 0..MaxDelay]

Active == snd.state # "IDLE"

TypeInv ==
  /\ TypeOK
  /\ toR \in Seq(Flight(ToRMessages)) /\ toS \in Seq(Flight(ToSMessages))
  /\ snd.idx <= snd.total
  /\ snd.state # "SEND_DATA" => snd.idx = 0
  /\ Active => snd.blk \in Blocks

\* The constants.
LEMMA Consts ==
  /\ MAX_ERRORS \in Nat /\ MAX_ERRORS > 0 /\ S_WAIT \in Nat /\ R_WAIT \in Nat
  /\ MaxDelay \in Nat /\ MaxFaults \in Nat
  /\ Len(Totals) \in Nat /\ Blocks = 1..Len(Totals)
  /\ \A b \in Blocks : Totals[b] \in Nat /\ Totals[b] > 0
<1>1. MAX_ERRORS \in Nat \ {0} /\ S_WAIT \in Nat \ {0} /\ R_WAIT \in Nat \ {0}
  BY TransportAssumption
<1>2. MaxDelay \in Nat /\ MaxFaults \in Nat
  BY TransportAssumption
<1>3. Totals \in Seq(Nat \ {0})
  BY TransportAssumption
<1>4. Len(Totals) \in Nat /\ \A b \in 1..Len(Totals) : Totals[b] \in Nat \ {0}
  BY <1>3
<1>. QED
  BY <1>1, <1>2, <1>4 DEF Blocks

\* reset() leaves an automaton of its type.
LEMMA ResetTypes ==
  SReset \in SenderType /\ RReset \in ReceiverType
<1>1. [e \in SErrors |-> 0] \in [SErrors -> 0..(MAX_ERRORS - 1)]
  BY Consts
<1>2. [e \in RErrors |-> 0] \in [RErrors -> 0..(MAX_ERRORS - 1)]
  BY Consts
<1>3. 0 \in 0..Len(Totals) /\ {} \in SUBSET Nat /\ <<>> \in Seq(Packets)
  BY Consts
<1>. QED
  BY <1>1, <1>2, <1>3 DEF SReset, RReset, SenderType, ReceiverType

\* error(err) of the sender (modem-sender.cpp:142-173): the limit resets the
\* automaton, a timeout without an ACK goes back to the RTS, anything else
\* restarts the stopwatch; the block and its mask stay.
LEMMA SErrorIs ==
  ASSUME TypeInv, NEW e \in SErrors
  PROVE  /\ SError(e) \in SenderType
         /\ snd.err[e] + 1 = MAX_ERRORS => SError(e) = SReset
         /\ snd.err[e] + 1 # MAX_ERRORS =>
              /\ SError(e).blk = snd.blk /\ SError(e).total = snd.total
              /\ SError(e).mask = snd.mask /\ SError(e).idx = snd.idx
              /\ SError(e).acked = snd.acked
              /\ IF ~snd.acked /\ e = "ACK_TIMEOUT"
                   THEN SError(e).state = "SEND_RTS"
                   ELSE SError(e).state = snd.state /\ SError(e).time = 0
<1>. DEFINE counted == [snd EXCEPT !.err[e] = @ + 1]
<1>0. snd \in SenderType
  BY DEF TypeInv, TypeOK
<1>1. snd.err \in [SErrors -> 0..(MAX_ERRORS - 1)]
  BY <1>0 DEF SenderType
<1>2. counted.err[e] = snd.err[e] + 1 /\ counted.err = [snd.err EXCEPT ![e] = @ + 1]
  BY <1>0, <1>1 DEF SenderType
<1>3. CASE snd.err[e] + 1 = MAX_ERRORS
  BY <1>2, <1>3, ResetTypes DEF SError
<1>4. CASE snd.err[e] + 1 # MAX_ERRORS
  <2>1. counted.err \in [SErrors -> 0..(MAX_ERRORS - 1)]
    BY <1>1, <1>2, <1>4, Consts
  <2>2. counted \in SenderType
    BY <1>0, <2>1 DEF SenderType
  <2>3. SError(e) = IF ~snd.acked /\ e = "ACK_TIMEOUT"
                      THEN [counted EXCEPT !.state = "SEND_RTS"]
                      ELSE [counted EXCEPT !.time = 0]
    BY <1>2, <1>4 DEF SError
  <2>4. /\ counted.blk = snd.blk /\ counted.total = snd.total /\ counted.mask = snd.mask
        /\ counted.idx = snd.idx /\ counted.acked = snd.acked /\ counted.state = snd.state
    BY <1>0 DEF SenderType
  <2>. HIDE DEF counted
  <2>5. SError(e) \in SenderType
    <3>1. [counted EXCEPT !.state = "SEND_RTS"] \in SenderType
      BY <2>2 DEF SenderType
    <3>2. [counted EXCEPT !.time = 0] \in SenderType
      BY <2>2 DEF SenderType
    <3>. QED
      BY <2>3, <3>1, <3>2
  <2>. QED
    BY <1>4, <2>2, <2>3, <2>4, <2>5 DEF SenderType
<1>. QED
  BY <1>3, <1>4

\* error(err) of the receiver (modem-receiver.cpp:171-192): the limit resets
\* the automaton, a timeout asks again, anything else restarts the stopwatch;
\* what was received stays.
LEMMA RErrorIs ==
  ASSUME TypeInv, NEW e \in RErrors
  PROVE  /\ RError(e) \in ReceiverType
         /\ rcv.err[e] + 1 = MAX_ERRORS => RError(e) = RReset
         /\ rcv.err[e] + 1 # MAX_ERRORS =>
              /\ RError(e).total = rcv.total /\ RError(e).mask = rcv.mask
              /\ RError(e).list = rcv.list
              /\ IF e = "TIMEOUT_WAIT_DATA"
                   THEN RError(e).state = "SEND_ACK"
                   ELSE RError(e).state = rcv.state /\ RError(e).time = 0
<1>. DEFINE counted == [rcv EXCEPT !.err[e] = @ + 1]
<1>0. rcv \in ReceiverType
  BY DEF TypeInv, TypeOK
<1>1. rcv.err \in [RErrors -> 0..(MAX_ERRORS - 1)]
  BY <1>0 DEF ReceiverType
<1>2. counted.err[e] = rcv.err[e] + 1 /\ counted.err = [rcv.err EXCEPT ![e] = @ + 1]
  BY <1>0, <1>1 DEF ReceiverType
<1>3. CASE rcv.err[e] + 1 = MAX_ERRORS
  BY <1>2, <1>3, ResetTypes DEF RError
<1>4. CASE rcv.err[e] + 1 # MAX_ERRORS
  <2>1. counted.err \in [RErrors -> 0..(MAX_ERRORS - 1)]
    BY <1>1, <1>2, <1>4, Consts
  <2>2. counted \in ReceiverType
    BY <1>0, <2>1 DEF ReceiverType
  <2>3. RError(e) = IF e = "TIMEOUT_WAIT_DATA"
                      THEN [counted EXCEPT !.state = "SEND_ACK"]
                      ELSE [counted EXCEPT !.time = 0]
    BY <1>2, <1>4 DEF RError
  <2>4. /\ counted.total = rcv.total /\ counted.mask = rcv.mask
        /\ counted.list = rcv.list /\ counted.state = rcv.state
    BY <1>0 DEF ReceiverType
  <2>. HIDE DEF counted
  <2>5. RError(e) \in ReceiverType
    BY <2>2, <2>3, SMTT(30) DEF ReceiverType
  <2>. QED
    BY <1>4, <2>2, <2>3, <2>4, <2>5 DEF ReceiverType
<1>. QED
  BY <1>3, <1>4

\* The first element of a sequence and the rest.
LEMMA TailIs ==
  ASSUME NEW S, NEW q \in Seq(S), q # <<>>
  PROVE  /\ q[1] \in S /\ 1 \in DOMAIN q /\ DOMAIN q = 1..Len(q) /\ Len(q) \in Nat
         /\ Tail(q) \in Seq(S) /\ Len(Tail(q)) = Len(q) - 1
         /\ DOMAIN Tail(q) = 1..(Len(q) - 1)
         /\ \A i \in DOMAIN Tail(q) : i + 1 \in DOMAIN q /\ Tail(q)[i] = q[i + 1]
  OBVIOUS

\* A sequence with one more element.
LEMMA AppendIs ==
  ASSUME NEW S, NEW q \in Seq(S), NEW x \in S
  PROVE  /\ Append(q, x) \in Seq(S) /\ Len(Append(q, x)) = Len(q) + 1
         /\ DOMAIN q = 1..Len(q) /\ Len(q) \in Nat
         /\ DOMAIN Append(q, x) = 1..(Len(q) + 1)
         /\ \A i \in DOMAIN q : Append(q, x)[i] = q[i]
         /\ Append(q, x)[Len(q) + 1] = x
  OBVIOUS

\* What is on the channel.
LEMMA Elements ==
  ASSUME TypeInv
  PROVE  /\ \A i \in DOMAIN toR :
              /\ toR[i] \in Flight(ToRMessages) /\ toR[i].m \in ToRMessages
              /\ toR[i].ttl \in 0..MaxDelay
              /\ toR[i].m.type \in {"RTS", "DATA"} \cup Damage
              /\ toR[i].m.type = "RTS" => toR[i].m.total \in Nat
              /\ toR[i].m.type = "DATA" => toR[i].m.blk \in Blocks /\ toR[i].m.number \in Nat
         /\ \A i \in DOMAIN toS :
              /\ toS[i] \in Flight(ToSMessages) /\ toS[i].m \in ToSMessages
              /\ toS[i].ttl \in 0..MaxDelay
              /\ toS[i].m.type \in {"ACK"} \cup Damage
              /\ toS[i].m.type = "ACK" =>
                   toS[i].m.total \in Nat /\ toS[i].m.mask \in SUBSET Nat /\ toS[i].m.need \in Int
<1>1. ASSUME NEW i \in DOMAIN toR
      PROVE  /\ toR[i] \in Flight(ToRMessages) /\ toR[i].m \in ToRMessages
             /\ toR[i].ttl \in 0..MaxDelay
  <2>1. toR[i] \in Flight(ToRMessages)
    BY DEF TypeInv
  <2>. QED
    BY <2>1 DEF Flight
<1>2. ASSUME NEW i \in DOMAIN toS
      PROVE  /\ toS[i] \in Flight(ToSMessages) /\ toS[i].m \in ToSMessages
             /\ toS[i].ttl \in 0..MaxDelay
  <2>1. toS[i] \in Flight(ToSMessages)
    BY DEF TypeInv
  <2>. QED
    BY <2>1 DEF Flight
<1>3. ASSUME NEW m \in ToRMessages
      PROVE  /\ m.type \in {"RTS", "DATA"} \cup Damage
             /\ m.type = "RTS" => m.total \in Nat
             /\ m.type = "DATA" => m.blk \in Blocks /\ m.number \in Nat
  BY DEF ToRMessages, Damage
<1>4. ASSUME NEW m \in ToSMessages
      PROVE  /\ m.type \in {"ACK"} \cup Damage
             /\ m.type = "ACK" => m.total \in Nat /\ m.mask \in SUBSET Nat /\ m.need \in Int
  BY DEF ToSMessages, Damage
<1>. QED
  BY <1>1, <1>2, <1>3, <1>4

\* What the sender accepts is an ACK for a block of its length.
LEMMA GoodAck ==
  ASSUME TypeInv, toS # <<>>, SCheck(toS[1].m) = "none"
  PROVE  /\ toS[1].m.type = "ACK" /\ toS[1].m.total = snd.total
         /\ toS[1].m.mask \in SUBSET Nat /\ toS[1].m.need \in Int
<1>1. 1 \in DOMAIN toS
  BY TailIs DEF TypeInv
<1>. QED
  BY <1>1, Elements DEF SCheck, Damage

\* What the receiver accepts is a packet of a block.
LEMMA GoodData ==
  ASSUME TypeInv, toR # <<>>, RCheck(toR[1].m) = "none"
  PROVE  toR[1].m.type = "DATA" /\ toR[1].m.blk \in Blocks /\ toR[1].m.number \in Nat
<1>1. 1 \in DOMAIN toR
  BY TailIs DEF TypeInv
<1>. QED
  BY <1>1, Elements DEF RCheck, Damage

\* A check that fails names an error of the automaton.
LEMMA ChecksNameErrors ==
  /\ \A m : SCheck(m) # "none" => SCheck(m) \in SErrors
  /\ \A m : RCheck(m) # "none" => RCheck(m) \in RErrors
  BY DEF SCheck, RCheck, SErrors, RErrors

\* What an action of the sender leaves is a state of the automaton.
LEMMA SenderSteps ==
  ASSUME TypeInv
  PROVE  /\ SIdle => snd' \in SenderType
         /\ SendRTS => snd' \in SenderType
         /\ SAck => snd' \in SenderType
         /\ SendData => snd' \in SenderType
         /\ Tick => snd' \in SenderType
<1>0. snd \in SenderType
  BY DEF TypeInv, TypeOK
<1>1. ASSUME SIdle PROVE snd' \in SenderType
  <2>1. next \in 0..Len(Totals) /\ Totals[next] \in Nat
    BY <1>1, Consts DEF SIdle
  <2>. QED
    BY <1>0, <1>1, <2>1 DEF SIdle, SenderType
<1>2. ASSUME SendRTS PROVE snd' \in SenderType
  BY <1>0, <1>2 DEF SendRTS, SenderType
<1>3. ASSUME SAck PROVE snd' \in SenderType
  <2>1. toS[1].m.mask \in SUBSET Nat
    BY <1>3, GoodAck DEF SAck
  <2>2. SReset.err \in [SErrors -> 0..(MAX_ERRORS - 1)]
    BY ResetTypes DEF SenderType
  <2>3. CASE toS[1].m.need > 0
    <3>1. snd' = [snd EXCEPT !.state = "SEND_DATA", !.mask = toS[1].m.mask,
                    !.acked = TRUE, !.err = SReset.err]
      BY <1>3, <2>3 DEF SAck
    <3>. QED
      BY <1>0, <2>1, <2>2, <3>1 DEF SenderType
  <2>4. CASE ~(toS[1].m.need > 0)
    BY <1>3, <2>4, ResetTypes DEF SAck
  <2>. QED
    BY <2>3, <2>4
<1>4. ASSUME SendData PROVE snd' \in SenderType
  <2>1. SkipDelivered \in Nat
    BY <1>0, Skip DEF TypeInv, SenderType
  <2>2. CASE SkipDelivered = snd.total
    <3>1. snd' = [snd EXCEPT !.idx = 0, !.state = "WAIT_ACK", !.time = 0]
      BY <1>4, <2>2 DEF SendData
    <3>. QED
      BY <1>0, <3>1 DEF SenderType
  <2>3. CASE SkipDelivered # snd.total
    <3>1. snd' = [snd EXCEPT !.idx = SkipDelivered + 1]
      BY <1>4, <2>3 DEF SendData
    <3>. QED
      BY <1>0, <2>1, <3>1 DEF SenderType
  <2>. QED
    BY <2>2, <2>3
<1>5. ASSUME Tick PROVE snd' \in SenderType
  BY <1>0, <1>5 DEF Tick, SenderType
<1>. QED
  BY <1>1, <1>2, <1>3, <1>4, <1>5

\* What an action of the receiver leaves is a state of the automaton.
LEMMA ReceiverSteps ==
  ASSUME TypeInv
  PROVE  /\ RListen => rcv' \in ReceiverType
         /\ SendACK => rcv' \in ReceiverType
         /\ RData => rcv' \in ReceiverType
         /\ Tick => rcv' \in ReceiverType
<1>0. rcv \in ReceiverType
  BY DEF TypeInv, TypeOK
<1>1. ASSUME RListen PROVE rcv' \in ReceiverType
  <2>1. toR[1].m.type = "RTS" => toR[1].m.total \in Nat
    BY <1>1, TailIs, Elements DEF RListen, TypeInv
  <2>. QED
    BY <1>0, <1>1, <2>1 DEF RListen, ReceiverType
<1>2. ASSUME SendACK PROVE rcv' \in ReceiverType
  BY <1>0, <1>2 DEF SendACK, ReceiverType
<1>3. ASSUME RData PROVE rcv' \in ReceiverType
  <2>. DEFINE packet == [blk |-> toR[1].m.blk, number |-> toR[1].m.number]
              list == Append(rcv.list, packet)
              state == CASE Len(list) = rcv.total -> "PROCESS_DATA"
                         [] Len(list) # rcv.total /\ toR[1].m.number = rcv.total - 1 -> "SEND_ACK"
                         [] OTHER -> "RECEIVE_DATA"
  <2>1. toR[1].m.number \in Nat /\ packet \in Packets
    BY <1>3, GoodData DEF RData, Packets
  <2>2. list \in Seq(Packets) /\ rcv.mask \cup {toR[1].m.number} \in SUBSET Nat
    BY <1>0, <2>1 DEF ReceiverType
  <2>3. state \in {"LISTEN", "SEND_ACK", "RECEIVE_DATA", "PROCESS_DATA"}
    OBVIOUS
  <2>4. RReset.err \in [RErrors -> 0..(MAX_ERRORS - 1)]
    BY ResetTypes DEF ReceiverType
  <2>5. rcv' = [rcv EXCEPT !.mask = @ \cup {toR[1].m.number}, !.list = list,
                  !.err = RReset.err, !.state = state, !.time = 0]
    BY <1>3 DEF RData
  <2>. HIDE DEF list, state
  <2>. QED
    BY <1>0, <2>2, <2>3, <2>4, <2>5 DEF ReceiverType
<1>4. ASSUME Tick PROVE rcv' \in ReceiverType
  <2>1. [rcv EXCEPT !.time = @ + 1] \in ReceiverType
    BY <1>0 DEF ReceiverType
  <2>. QED
    BY <1>0, <1>4, <2>1 DEF Tick
<1>. QED
  BY <1>1, <1>2, <1>3, <1>4

\* A packet put on the channel has its whole delay before it.
LEMMA Flying ==
  ASSUME NEW S, NEW m \in S
  PROVE  Fly(m) \in Flight(S) /\ Fly(m).m = m /\ Fly(m).ttl = MaxDelay
  BY Consts DEF Fly, Flight

\* A tick ages every packet that is not due, and changes nothing else of it.
LEMMA Aging ==
  ASSUME NEW S, NEW q \in Seq(Flight(S))
  PROVE  /\ Age(q) \in Seq(Flight(S)) /\ DOMAIN Age(q) = DOMAIN q /\ Len(Age(q)) = Len(q)
         /\ \A i \in DOMAIN q :
              /\ Age(q)[i].m = q[i].m
              /\ Age(q)[i].ttl = IF q[i].ttl > 0 THEN q[i].ttl - 1 ELSE 0
<1>1. DOMAIN q = 1..Len(q) /\ Len(q) \in Nat /\ \A i \in DOMAIN q : q[i] \in Flight(S)
  OBVIOUS
<1>2. ASSUME NEW i \in DOMAIN q
      PROVE  /\ Age(q)[i] \in Flight(S) /\ Age(q)[i].m = q[i].m
             /\ Age(q)[i].ttl = IF q[i].ttl > 0 THEN q[i].ttl - 1 ELSE 0
  <2>1. q[i] \in Flight(S)
    BY <1>1
  <2>2. Age(q)[i] = [q[i] EXCEPT !.ttl = IF @ > 0 THEN @ - 1 ELSE 0]
    BY DEF Age
  <2>. QED
    BY <2>1, <2>2, Consts, SMTT(30) DEF Flight
<1>3. Age(q) = [i \in 1..Len(q) |-> Age(q)[i]]
  BY <1>1 DEF Age
<1>4. Age(q) \in [1..Len(q) -> Flight(S)]
  BY <1>1, <1>2, <1>3
<1>. QED
  BY <1>1, <1>2, <1>4

\* A packet that arrives damaged takes the place of the packet that was sent.
LEMMA Spoiling ==
  ASSUME NEW S, NEW q \in Seq(Flight(S)), q # <<>>, NEW d, [type |-> d] \in S
  PROVE  LET r == [q EXCEPT ![1].m = [type |-> d]]
         IN  /\ r \in Seq(Flight(S)) /\ DOMAIN r = DOMAIN q /\ Len(r) = Len(q)
             /\ r[1].m = [type |-> d] /\ r[1].ttl = q[1].ttl
             /\ \A i \in DOMAIN q : i # 1 => r[i] = q[i]
<1>. DEFINE r == [q EXCEPT ![1].m = [type |-> d]]
<1>1. /\ DOMAIN q = 1..Len(q) /\ Len(q) \in Nat /\ 1 \in DOMAIN q
      /\ \A i \in DOMAIN q : q[i] \in Flight(S)
  BY TailIs
<1>2. r[1] = [q[1] EXCEPT !.m = [type |-> d]] /\ \A i \in DOMAIN q : i # 1 => r[i] = q[i]
  BY <1>1
<1>3. r[1] \in Flight(S) /\ r[1].m = [type |-> d] /\ r[1].ttl = q[1].ttl
  BY <1>1, <1>2 DEF Flight
<1>4. r \in [1..Len(q) -> Flight(S)] /\ DOMAIN r = DOMAIN q
  BY <1>1, <1>2, <1>3
<1>. QED
  BY <1>1, <1>2, <1>3, <1>4

\* The initial state has these types.
LEMMA TypesInit == Init => TypeInv
<1>. SUFFICES ASSUME Init PROVE TypeInv
  OBVIOUS
<1>1. TypeOK
  <2>1. snd \in SenderType /\ rcv \in ReceiverType
    BY ResetTypes DEF Init
  <2>2. faults \in 0..MaxFaults /\ next \in 1..(Len(Totals) + 1)
    BY Consts DEF Init
  <2>3. sent \in [Blocks -> {"pending", "ok", "failed"}]
    BY DEF Init
  <2>4. delivered \in Seq(Seq(Packets)) /\ stranded \in BOOLEAN
    <3>1. \A S : <<>> \in Seq(S)
      OBVIOUS
    <3>. QED
      BY <3>1 DEF Init
  <2>. QED
    BY <2>1, <2>2, <2>3, <2>4 DEF TypeOK
<1>2. toR \in Seq(Flight(ToRMessages)) /\ toS \in Seq(Flight(ToSMessages))
  BY DEF Init
<1>3. snd.state = "IDLE" /\ snd.idx = 0 /\ snd.total = 0
  BY DEF Init, SReset
<1>. QED
  BY <1>1, <1>2, <1>3 DEF TypeInv, Active

\* Every step keeps them.
LEMMA TypesStep == TypeInv /\ [Next]_vars => TypeInv'
<1>. SUFFICES ASSUME TypeInv, [Next]_vars PROVE TypeInv'
  OBVIOUS
<1>0. /\ TypeOK /\ snd \in SenderType /\ rcv \in ReceiverType
      /\ snd.idx \in Nat /\ snd.total \in Nat /\ snd.blk \in 0..Len(Totals)
  BY DEF TypeInv, TypeOK, SenderType
<1>. DEFINE SndOK == /\ snd \in SenderType /\ snd.idx <= snd.total
                     /\ snd.state # "SEND_DATA" => snd.idx = 0
                     /\ Active => snd.blk \in Blocks
            ChannelOK == toR \in Seq(Flight(ToRMessages)) /\ toS \in Seq(Flight(ToSMessages))
            OutcomeOK == sent \in [Blocks -> {"pending", "ok", "failed"}] /\ stranded \in BOOLEAN
<1>r. \A m : m \in ToRMessages => Append(toR, Fly(m)) \in Seq(Flight(ToRMessages))
  BY Flying, AppendIs DEF TypeInv
<1>s. Append(toS, Fly(Ack)) \in Seq(Flight(ToSMessages))
  <2>1. Ack \in ToSMessages
    BY <1>0 DEF Ack, ToSMessages, ReceiverType
  <2>. QED
    BY <2>1, Flying, AppendIs DEF TypeInv
<1>f. ASSUME NEW e \in SErrors, SFails(e), snd.state = "WAIT_ACK" PROVE SndOK' /\ OutcomeOK'
  <2>1. SndOK'
    <3>1. CASE snd.err[e] + 1 = MAX_ERRORS
      <4>1. snd' = SReset /\ snd' \in SenderType
        BY <1>f, <3>1, SErrorIs DEF SFails
      <4>. QED
        BY <4>1 DEF SReset, Active
    <3>2. CASE snd.err[e] + 1 # MAX_ERRORS
      BY <1>0, <1>f, <3>2, SErrorIs DEF SFails, TypeInv, Active
    <3>. QED
      BY <3>1, <3>2
  <2>2. OutcomeOK'
    BY <1>0, <1>f DEF SFails, TypeOK, outcome
  <2>. QED
    BY <2>1, <2>2
<1>1. CASE SIdle
  <2>1. SndOK'
    <3>1. snd' \in SenderType
      BY <1>1, SenderSteps
    <3>2. snd.idx = 0 /\ next \in Blocks
      BY <1>1 DEF SIdle, TypeInv
    <3>3. /\ snd'.idx = snd.idx /\ snd'.state = "SEND_RTS" /\ snd'.blk = next
          /\ snd'.total \in Nat
      BY <1>0, <1>1, <3>1 DEF SIdle, SenderType
    <3>. QED
      BY <3>1, <3>2, <3>3 DEF Active
  <2>2. next' \in 1..(Len(Totals) + 1)
    BY <1>0, <1>1, Consts DEF SIdle, TypeOK
  <2>. QED
    BY <1>0, <1>1, <2>1, <2>2 DEF SIdle, TypeInv, TypeOK, outcome
<1>2. CASE SendRTS
  <2>1. SndOK'
    BY <1>0, <1>2, SenderSteps DEF SendRTS, TypeInv, SenderType, Active
  <2>2. toR' \in Seq(Flight(ToRMessages))
    <3>1. [type |-> "RTS", total |-> snd.total] \in ToRMessages
      BY <1>0 DEF ToRMessages
    <3>. QED
      BY <1>2, <1>r, <3>1 DEF SendRTS
  <2>. QED
    BY <1>0, <1>2, <2>1, <2>2 DEF SendRTS, TypeInv, TypeOK, outcome
<1>3. CASE SBadPacket
  <2>1. SndOK' /\ OutcomeOK'
    BY <1>3, <1>f, ChecksNameErrors DEF SBadPacket
  <2>2. toS' \in Seq(Flight(ToSMessages))
    BY <1>3, TailIs DEF SBadPacket, TypeInv
  <2>. QED
    BY <1>0, <1>3, <2>1, <2>2 DEF SBadPacket, TypeInv, TypeOK
<1>4. CASE SAck
  <2>1. snd' \in SenderType
    BY <1>4, SenderSteps
  <2>2. SndOK'
    <3>1. CASE toS[1].m.need > 0
      BY <1>0, <1>4, <2>1, <3>1 DEF SAck, TypeInv, SenderType, Active
    <3>2. CASE ~(toS[1].m.need > 0)
      BY <1>0, <1>4, <2>1, <3>2 DEF SAck, SReset, Active
    <3>. QED
      BY <3>1, <3>2
  <2>3. OutcomeOK'
    BY <1>0, <1>4 DEF SAck, TypeOK, outcome
  <2>4. toS' \in Seq(Flight(ToSMessages))
    BY <1>4, TailIs DEF SAck, TypeInv
  <2>. QED
    BY <1>0, <1>4, <2>2, <2>3, <2>4 DEF SAck, TypeInv, TypeOK
<1>5. CASE STimeout
  <2>1. SndOK' /\ OutcomeOK'
    BY <1>5, <1>f DEF STimeout, SErrors
  <2>. QED
    BY <1>0, <1>5, <2>1 DEF STimeout, TypeInv, TypeOK
<1>6. CASE SendData
  <2>1. snd' \in SenderType /\ SkipDelivered \in snd.idx..snd.total
    BY <1>0, <1>6, SenderSteps, Skip DEF TypeInv
  <2>2. SndOK'
    <3>1. CASE SkipDelivered = snd.total
      <4>1. snd' = [snd EXCEPT !.idx = 0, !.state = "WAIT_ACK", !.time = 0]
        BY <1>6, <3>1 DEF SendData
      <4>. QED
        BY <1>0, <1>6, <2>1, <4>1 DEF SendData, TypeInv, SenderType, Active
    <3>2. CASE SkipDelivered # snd.total
      <4>1. snd' = [snd EXCEPT !.idx = SkipDelivered + 1]
        BY <1>6, <3>2 DEF SendData
      <4>2. /\ snd'.idx = SkipDelivered + 1 /\ snd'.total = snd.total
            /\ snd'.state = snd.state /\ snd'.blk = snd.blk
        BY <1>0, <4>1 DEF SenderType
      <4>. QED
        BY <1>0, <1>6, <2>1, <3>2, <4>2 DEF SendData, TypeInv, Active
    <3>. QED
      BY <3>1, <3>2
  <2>3. toR' \in Seq(Flight(ToRMessages))
    <3>1. [type |-> "DATA", blk |-> snd.blk, number |-> SkipDelivered] \in ToRMessages
      <4>1. snd.blk \in Blocks /\ SkipDelivered \in Nat
        BY <1>0, <1>6, <2>1 DEF SendData, TypeInv, Active
      <4>. QED
        BY <4>1 DEF ToRMessages
    <3>. QED
      BY <1>6, <1>r, <3>1 DEF SendData, TypeInv
  <2>. QED
    BY <1>0, <1>6, <2>2, <2>3 DEF SendData, TypeInv, TypeOK, outcome
<1>7. CASE RListen
  <2>1. rcv' \in ReceiverType /\ toR' \in Seq(Flight(ToRMessages))
    BY <1>7, ReceiverSteps, TailIs DEF RListen, TypeInv
  <2>. QED
    BY <1>0, <1>7, <2>1 DEF RListen, TypeInv, TypeOK, outcome, Active
<1>8. CASE SendACK
  <2>1. rcv' \in ReceiverType /\ toS' \in Seq(Flight(ToSMessages))
    BY <1>8, <1>s, ReceiverSteps DEF SendACK
  <2>. QED
    BY <1>0, <1>8, <2>1 DEF SendACK, TypeInv, TypeOK, outcome, Active
<1>9. CASE RBadPacket
  <2>1. rcv' \in ReceiverType /\ toR' \in Seq(Flight(ToRMessages))
    BY <1>9, RErrorIs, ChecksNameErrors, TailIs DEF RBadPacket, TypeInv
  <2>. QED
    BY <1>0, <1>9, <2>1 DEF RBadPacket, TypeInv, TypeOK, outcome, Active
<1>10. CASE RData
  <2>1. rcv' \in ReceiverType /\ toR' \in Seq(Flight(ToRMessages))
    BY <1>10, ReceiverSteps, TailIs DEF RData, TypeInv
  <2>. QED
    BY <1>0, <1>10, <2>1 DEF RData, TypeInv, TypeOK, outcome, Active
<1>11. CASE RTimeout
  <2>1. rcv' \in ReceiverType
    BY <1>11, RErrorIs DEF RTimeout, RErrors
  <2>. QED
    BY <1>0, <1>11, <2>1 DEF RTimeout, TypeInv, TypeOK, outcome, Active
<1>12. CASE ProcessData
  <2>1. rcv' \in ReceiverType /\ toS' \in Seq(Flight(ToSMessages))
    BY <1>12, <1>s, ResetTypes DEF ProcessData
  <2>2. delivered' \in Seq(Seq(Packets))
    <3>1. rcv.list \in Seq(Packets)
      BY <1>0 DEF ReceiverType
    <3>2. Sorted(rcv.list) \in Seq(Packets)
      BY <3>1, SortedPlaces
    <3>. QED
      BY <1>0, <1>12, <3>2 DEF ProcessData, TypeOK
  <2>. QED
    BY <1>0, <1>12, <2>1, <2>2 DEF ProcessData, TypeInv, TypeOK, outcome, Active
<1>13. CASE Lose
  <2>1. faults' \in 0..MaxFaults
    BY <1>0, <1>13, Consts DEF Lose, TypeOK
  <2>2. ChannelOK'
    BY <1>13, TailIs DEF Lose, TypeInv
  <2>. QED
    BY <1>0, <1>13, <2>1, <2>2 DEF Lose, TypeInv, TypeOK, outcome, Active
<1>14. CASE Spoil
  <2>1. faults' \in 0..MaxFaults
    BY <1>0, <1>14, Consts DEF Spoil, TypeOK
  <2>2. ChannelOK'
    <3>1. \A d \in Damage : [type |-> d] \in ToRMessages /\ [type |-> d] \in ToSMessages
      BY DEF ToRMessages, ToSMessages
    <3>2. PICK d \in Damage :
            \/ toR # <<>> /\ toR' = [toR EXCEPT ![1].m = [type |-> d]] /\ UNCHANGED toS
            \/ toS # <<>> /\ toS' = [toS EXCEPT ![1].m = [type |-> d]] /\ UNCHANGED toR
      BY <1>14 DEF Spoil
    <3>3. toR # <<>> => [toR EXCEPT ![1].m = [type |-> d]] \in Seq(Flight(ToRMessages))
      BY <3>1, Spoiling DEF TypeInv
    <3>4. toS # <<>> => [toS EXCEPT ![1].m = [type |-> d]] \in Seq(Flight(ToSMessages))
      BY <3>1, Spoiling DEF TypeInv
    <3>. QED
      BY <3>2, <3>3, <3>4 DEF TypeInv
  <2>. QED
    BY <1>0, <1>14, <2>1, <2>2 DEF Spoil, TypeInv, TypeOK, outcome, Active
<1>15. CASE Tick
  <2>1. snd' \in SenderType /\ rcv' \in ReceiverType
    BY <1>15, SenderSteps, ReceiverSteps
  <2>2. SndOK'
    BY <1>0, <1>15, <2>1 DEF Tick, TypeInv, SenderType, Active
  <2>3. ChannelOK'
    BY <1>15, Aging DEF Tick, TypeInv
  <2>. QED
    BY <1>0, <1>15, <2>1, <2>2, <2>3 DEF Tick, TypeInv, TypeOK, outcome
<1>16. CASE UNCHANGED vars
  BY <1>16 DEF vars, outcome, TypeInv, TypeOK, Active
<1>. QED
  BY <1>1, <1>2, <1>3, <1>4, <1>5, <1>6, <1>7, <1>8, <1>9, <1>10, <1>11, <1>12, <1>13,
     <1>14, <1>15, <1>16 DEF Next, Sender, Receiver

\* Types hold whatever the channel does and however slow it is.
THEOREM TypeCorrect == Spec => []TypeOK
<1>1. Spec => []TypeInv
  BY TypesInit, TypesStep, PTL DEF Spec
<1>2. TypeInv => TypeOK
  BY DEF TypeInv
<1>. QED
  BY <1>1, <1>2, PTL

-----------------------------------------------------------------------------
(***************************************************************************)
(* What makes blocks arrive whole, as long as no block was given up while  *)
(* the receiver was busy with it.  At any moment either packets of one     *)
(* round are under way or an answer is, never both; and because a round    *)
(* trip is over before a timeout, nothing of an earlier round is left when *)
(* an automaton asks again.                                                *)
(***************************************************************************)
\* A round trip fits the timeouts of both automata: true of the values of the
\* code, 10 and 3 ticks, on a radio link that delivers within a tick.
Timely == 2 * MaxDelay <= S_WAIT /\ 2 * MaxDelay <= R_WAIT

Listening == rcv.state = "LISTEN"
IsType(i, t) == toR[i].m.type = t
WasDelivered(b) == \E k \in DOMAIN delivered : delivered[k] = Whole(b)
Done == Active /\ WasDelivered(snd.blk)

\* The packets of this round that are still to be sent.
Remaining == {n \in snd.idx..(snd.total - 1) : snd.state = "SEND_DATA" /\ n \notin snd.mask}

\* A round of packets is under way.
Streaming == snd.acked /\ toS = <<>> /\ rcv.state \in {"LISTEN", "RECEIVE_DATA"}

\* The blocks put out, in the order they were submitted in.
InOrder ==
  \A j, k \in DOMAIN delivered, b, c \in Blocks :
    j < k /\ delivered[j] = Whole(b) /\ delivered[k] = Whole(c) => b < c

\* Blocks and their outcome.
HistoryInv ==
  /\ \A b \in Blocks : b >= next \/ (Active /\ b = snd.blk) => sent[b] = "pending"
  /\ Active => snd.blk = next - 1 /\ snd.total = Totals[snd.blk]
  /\ \A k \in DOMAIN delivered : \E b \in Blocks : b < next /\ delivered[k] = Whole(b)
  /\ InOrder
  /\ \A b \in Blocks : sent[b] = "ok" => WasDelivered(b)

\* The sender between blocks and before an announcement.
SenderInv ==
  /\ snd.state = "SEND_DATA" => snd.acked
  /\ snd.state \in {"IDLE", "SEND_RTS"} =>
       ~snd.acked /\ \A i \in DOMAIN toR : ~IsType(i, "RTS")
  /\ snd.state = "IDLE" => Listening /\ toS = <<>>
  /\ snd.state = "SEND_RTS" => IF Listening THEN toS = <<>> ELSE toR = <<>>

\* An announcement: one at a time, ahead of everything unless it opens the block.
RtsInv ==
  /\ \A i, j \in DOMAIN toR : IsType(i, "RTS") /\ IsType(j, "RTS") => i = j
  /\ \A i \in DOMAIN toR : IsType(i, "RTS") =>
       /\ toR[i].m.total = snd.total
       /\ IF Listening THEN ~snd.acked /\ toS = <<>> ELSE i = 1 /\ rcv.state # "PROCESS_DATA"

\* The packets of a round, under way and still to be sent: in order, each new
\* to the receiver, and no answer under way.
RoundInv ==
  /\ \A i \in DOMAIN toR : IsType(i, "DATA") =>
       /\ Streaming /\ toR[i].m.blk = snd.blk /\ toR[i].m.number < snd.total
       /\ snd.state = "SEND_DATA" => toR[i].m.number < snd.idx
       /\ rcv.state = "RECEIVE_DATA" => toR[i].m.number \notin rcv.mask
  /\ \A i, j \in DOMAIN toR :
       IsType(i, "DATA") /\ IsType(j, "DATA") /\ i < j => toR[i].m.number < toR[j].m.number
  /\ \A n \in Remaining : Streaming /\ (rcv.state = "RECEIVE_DATA" => n \notin rcv.mask)

\* An answer: one at a time, up to date, and asking for nothing exactly when
\* the block was put out.
AckInv ==
  /\ Len(toS) <= 1
  /\ toS # <<>> => rcv.state \in {"LISTEN", "RECEIVE_DATA"}
  /\ toS # <<>> /\ toS[1].m.type = "ACK" =>
       /\ toS[1].m.total = snd.total /\ toS[1].m.need >= 0
       /\ toS[1].m.need = 0 <=> Done
       /\ rcv.state = "RECEIVE_DATA" => toS[1].m.mask = rcv.mask

\* The receiver's list: different packets of the sender's block.
ReceiverInv ==
  /\ Listening => rcv.list = <<>>
  /\ ~Listening =>
       /\ Active /\ rcv.total = snd.total
       /\ \A j \in DOMAIN rcv.list :
            /\ rcv.list[j].blk = snd.blk /\ rcv.list[j].number < rcv.total
            /\ rcv.list[j].number \in rcv.mask
       /\ \A i, j \in DOMAIN rcv.list : rcv.list[i].number = rcv.list[j].number => i = j
  /\ rcv.state \in {"SEND_ACK", "RECEIVE_DATA"} => Len(rcv.list) < rcv.total
  /\ rcv.state = "PROCESS_DATA" => Len(rcv.list) = rcv.total /\ snd.acked

\* After a block was put out nothing of it is left to arrive.
DoneInv ==
  Done => /\ Listening /\ snd.acked
          /\ \A i \in DOMAIN toR : ~IsType(i, "DATA")
          /\ Remaining = {}

\* The stopwatches and the packets: the first half of a round trip is over
\* within MaxDelay of a start, the whole within twice that.
TimeInv ==
  /\ \A i, j \in DOMAIN toR : i < j => toR[i].ttl <= toR[j].ttl
  /\ snd.state = "WAIT_ACK" =>
       /\ \A i \in DOMAIN toR : snd.time + toR[i].ttl <= MaxDelay
       /\ Listening /\ toS # <<>> => snd.time + toS[1].ttl <= 2 * MaxDelay
       /\ rcv.state = "PROCESS_DATA" => snd.time <= MaxDelay
  /\ rcv.state = "RECEIVE_DATA" =>
       /\ toS # <<>> => rcv.time + toS[1].ttl <= MaxDelay
       /\ snd.acked => \A i \in DOMAIN toR : rcv.time + toR[i].ttl <= 2 * MaxDelay
       /\ Remaining # {} => rcv.time <= MaxDelay

Safe ==
  /\ HistoryInv /\ SenderInv /\ RtsInv /\ RoundInv /\ AckInv /\ ReceiverInv /\ DoneInv /\ TimeInv

\* The fields of the automata.
LEMMA Fields ==
  ASSUME TypeInv
  PROVE  /\ snd.state \in {"IDLE", "SEND_RTS", "WAIT_ACK", "SEND_DATA"}
         /\ snd.blk \in 0..Len(Totals) /\ snd.total \in Nat /\ snd.mask \in SUBSET Nat
         /\ snd.idx \in Nat /\ snd.acked \in BOOLEAN /\ snd.time \in Nat
         /\ rcv.state \in {"LISTEN", "SEND_ACK", "RECEIVE_DATA", "PROCESS_DATA"}
         /\ rcv.total \in Nat /\ rcv.mask \in SUBSET Nat /\ rcv.list \in Seq(Packets)
         /\ rcv.time \in Nat /\ Remaining \in SUBSET Nat
<1>1. snd \in SenderType /\ rcv \in ReceiverType
  BY DEF TypeInv, TypeOK
<1>2. Remaining \in SUBSET Nat
  BY <1>1 DEF SenderType, Remaining
<1>. QED
  BY <1>1, <1>2 DEF SenderType, ReceiverType

\* Blocks of different numbers differ.
LEMMA WholeDiffers ==
  ASSUME NEW b \in Blocks, NEW c \in Blocks, Whole(b) = Whole(c)
  PROVE  b = c
<1>1. 1 \in 1..Totals[b] /\ 1 \in 1..Totals[c]
  BY Consts
<1>2. Whole(b)[1] = [blk |-> b, number |-> 0] /\ Whole(c)[1] = [blk |-> c, number |-> 0]
  BY <1>1 DEF Whole
<1>. QED
  BY <1>2

\* The initial state.
LEMMA SafeInit == ASSUME Init PROVE Safe
<1>1. /\ snd.state = "IDLE" /\ ~snd.acked /\ rcv.state = "LISTEN" /\ rcv.list = <<>>
      /\ toR = <<>> /\ toS = <<>> /\ delivered = <<>> /\ \A b \in Blocks : sent[b] = "pending"
  BY DEF Init, SReset, RReset
<1>2. Remaining = {} /\ ~Done /\ Listening /\ ~Active
  BY <1>1 DEF Remaining, Done, Active, Listening
<1>. QED
  BY <1>1, <1>2 DEF Safe, HistoryInv, InOrder, SenderInv, RtsInv, RoundInv, AckInv,
     ReceiverInv, DoneInv, TimeInv

-----------------------------------------------------------------------------
\* What is left in the channel to the receiver without its first packet: no
\* announcement unless the receiver listens, and the rest of the round.
Rest(q) ==
  /\ DOMAIN q = 1..(Len(toR) - 1) /\ Len(toR) \in Nat
  /\ \A i \in DOMAIN q : q[i].ttl \in 0..MaxDelay
  /\ \A i, j \in DOMAIN q : q[i].m.type = "RTS" /\ q[j].m.type = "RTS" => i = j
  /\ \A i \in DOMAIN q : q[i].m.type = "RTS" =>
       /\ q[i].m.total = snd.total /\ Listening /\ ~snd.acked /\ toS = <<>>
       /\ ~IsType(1, "RTS") /\ snd.state \notin {"IDLE", "SEND_RTS"}
  /\ \A i \in DOMAIN q : q[i].m.type = "DATA" =>
       /\ Streaming /\ ~Done /\ q[i].m.blk = snd.blk
       /\ q[i].m.number \in Nat /\ q[i].m.number < snd.total
       /\ snd.state = "SEND_DATA" => q[i].m.number < snd.idx
       /\ rcv.state = "RECEIVE_DATA" => q[i].m.number \notin rcv.mask
       /\ IsType(1, "DATA") => toR[1].m.number < q[i].m.number
  /\ \A i, j \in DOMAIN q :
       q[i].m.type = "DATA" /\ q[j].m.type = "DATA" /\ i < j =>
         q[i].m.number < q[j].m.number
  /\ \A i, j \in DOMAIN q : i < j => q[i].ttl <= q[j].ttl
  /\ \A i \in DOMAIN q :
       /\ snd.state = "WAIT_ACK" => snd.time + q[i].ttl <= MaxDelay
       /\ rcv.state = "RECEIVE_DATA" /\ snd.acked => rcv.time + q[i].ttl <= 2 * MaxDelay

\* It is what the invariant says of the packets after the first.
LEMMA Cut ==
  ASSUME TypeInv, Safe, toR # <<>>, NEW q, q = Tail(toR)
  PROVE  Rest(q)
<1>1. /\ DOMAIN toR = 1..Len(toR) /\ DOMAIN q = 1..(Len(toR) - 1) /\ Len(toR) \in Nat
      /\ 1 \in DOMAIN toR
      /\ \A i \in DOMAIN q : i + 1 \in DOMAIN toR /\ q[i] = toR[i + 1]
  BY TailIs DEF TypeInv
<1>2. \A i \in DOMAIN q : i \in Nat /\ i + 1 # 1 /\ 1 < i + 1
  BY <1>1
<1>3. ASSUME NEW i \in DOMAIN q, NEW j \in DOMAIN q
      PROVE  /\ q[i].m.type = "RTS" /\ q[j].m.type = "RTS" => i = j
             /\ i < j => q[i].ttl <= q[j].ttl
             /\ q[i].m.type = "DATA" /\ q[j].m.type = "DATA" /\ i < j =>
                  q[i].m.number < q[j].m.number
  <2>1. /\ i + 1 \in DOMAIN toR /\ j + 1 \in DOMAIN toR /\ q[i] = toR[i + 1] /\ q[j] = toR[j + 1]
        /\ i \in Nat /\ j \in Nat /\ (i < j => i + 1 < j + 1)
    BY <1>1, <1>2
  <2>2. IsType(i + 1, "RTS") /\ IsType(j + 1, "RTS") => i + 1 = j + 1
    BY <2>1 DEF Safe, RtsInv
  <2>3. i + 1 < j + 1 => toR[i + 1].ttl <= toR[j + 1].ttl
    BY <2>1 DEF Safe, TimeInv
  <2>4. IsType(i + 1, "DATA") /\ IsType(j + 1, "DATA") /\ i + 1 < j + 1 =>
          toR[i + 1].m.number < toR[j + 1].m.number
    BY <2>1 DEF Safe, RoundInv
  <2>. QED
    BY <2>1, <2>2, <2>3, <2>4 DEF IsType
<1>4. ASSUME NEW i \in DOMAIN q
      PROVE  /\ q[i].ttl \in 0..MaxDelay
             /\ q[i].m.type = "RTS" =>
                  /\ q[i].m.total = snd.total /\ Listening /\ ~snd.acked /\ toS = <<>>
                  /\ ~IsType(1, "RTS") /\ snd.state \notin {"IDLE", "SEND_RTS"}
             /\ q[i].m.type = "DATA" =>
                  /\ Streaming /\ ~Done /\ q[i].m.blk = snd.blk
                  /\ q[i].m.number \in Nat /\ q[i].m.number < snd.total
                  /\ snd.state = "SEND_DATA" => q[i].m.number < snd.idx
                  /\ rcv.state = "RECEIVE_DATA" => q[i].m.number \notin rcv.mask
                  /\ IsType(1, "DATA") => toR[1].m.number < q[i].m.number
             /\ snd.state = "WAIT_ACK" => snd.time + q[i].ttl <= MaxDelay
             /\ rcv.state = "RECEIVE_DATA" /\ snd.acked => rcv.time + q[i].ttl <= 2 * MaxDelay
  <2>. DEFINE k == i + 1
  <2>1. k \in DOMAIN toR /\ q[i] = toR[k] /\ k # 1 /\ 1 < k
    BY <1>1, <1>2
  <2>. HIDE DEF k
  <2>2. /\ toR[k].ttl \in 0..MaxDelay
        /\ toR[k].m.type = "DATA" => toR[k].m.number \in Nat
    BY <2>1, Elements
  <2>3. IsType(k, "RTS") =>
          /\ toR[k].m.total = snd.total /\ Listening /\ ~snd.acked /\ toS = <<>>
          /\ ~IsType(1, "RTS")
    BY <1>1, <2>1 DEF Safe, RtsInv
  <2>4. IsType(k, "RTS") => snd.state \notin {"IDLE", "SEND_RTS"}
    BY <2>1 DEF Safe, SenderInv
  <2>5. IsType(k, "DATA") =>
          /\ Streaming /\ toR[k].m.blk = snd.blk /\ toR[k].m.number < snd.total
          /\ snd.state = "SEND_DATA" => toR[k].m.number < snd.idx
          /\ rcv.state = "RECEIVE_DATA" => toR[k].m.number \notin rcv.mask
          /\ IsType(1, "DATA") => toR[1].m.number < toR[k].m.number
    BY <1>1, <2>1 DEF Safe, RoundInv
  <2>6. IsType(k, "DATA") => ~Done
    BY <2>1 DEF Safe, DoneInv
  <2>7. /\ snd.state = "WAIT_ACK" => snd.time + toR[k].ttl <= MaxDelay
        /\ rcv.state = "RECEIVE_DATA" /\ snd.acked => rcv.time + toR[k].ttl <= 2 * MaxDelay
    BY <2>1 DEF Safe, TimeInv
  <2>8. (IsType(k, "RTS") <=> q[i].m.type = "RTS") /\ (IsType(k, "DATA") <=> q[i].m.type = "DATA")
    BY <2>1 DEF IsType
  <2>. QED
    BY <2>1, <2>2, <2>3, <2>4, <2>5, <2>6, <2>7, <2>8
<1>. QED
  BY <1>1, <1>3, <1>4 DEF Rest

\* The channel loses a packet.
LEMMA SafeLose == ASSUME TypeInv, Safe, Lose PROVE Safe'
<1>1. /\ UNCHANGED <<snd, rcv, next, sent, delivered>>
      /\ \/ toR # <<>> /\ toR' = Tail(toR) /\ UNCHANGED toS
         \/ toS # <<>> /\ toS' = Tail(toS) /\ UNCHANGED toR
  BY DEF Lose, outcome
<1>2. /\ Remaining' = Remaining /\ (Done' <=> Done) /\ (Active' <=> Active)
      /\ (Listening' <=> Listening) /\ \A b : WasDelivered(b)' <=> WasDelivered(b)
  BY <1>1 DEF Remaining, Done, WasDelivered, Active, Listening
<1>3. CASE toR # <<>> /\ toR' = Tail(toR) /\ UNCHANGED toS
  <2>1. Rest(toR')
    BY <1>3, Cut
  <2>2. HistoryInv'
    BY <1>1, <1>2 DEF Safe, HistoryInv, InOrder
  <2>3. SenderInv'
    BY <1>1, <1>2, <1>3, <2>1 DEF Safe, SenderInv, IsType, Rest
  <2>4. RtsInv'
    BY <1>1, <1>2, <1>3, <2>1 DEF Safe, RtsInv, IsType, Rest
  <2>5. RoundInv'
    BY <1>1, <1>2, <1>3, <2>1 DEF Safe, RoundInv, IsType, Streaming, Rest
  <2>6. AckInv'
    BY <1>1, <1>2, <1>3 DEF Safe, AckInv
  <2>7. ReceiverInv'
    BY <1>1, <1>2 DEF Safe, ReceiverInv
  <2>8. DoneInv'
    BY <1>1, <1>2, <2>1 DEF Safe, DoneInv, IsType, Rest
  <2>9. TimeInv'
    BY <1>1, <1>2, <1>3, <2>1 DEF Safe, TimeInv, Rest
  <2>. QED
    BY <2>2, <2>3, <2>4, <2>5, <2>6, <2>7, <2>8, <2>9 DEF Safe
<1>4. CASE toS # <<>> /\ toS' = Tail(toS) /\ UNCHANGED toR
  <2>1. toS' = <<>> /\ toS # <<>>
    BY <1>4, TailIs DEF Safe, AckInv, TypeInv
  <2>2. HistoryInv'
    BY <1>1, <1>2 DEF Safe, HistoryInv, InOrder
  <2>3. SenderInv'
    BY <1>1, <1>2, <1>4, <2>1 DEF Safe, SenderInv, IsType
  <2>4. RtsInv'
    BY <1>1, <1>2, <1>4, <2>1 DEF Safe, RtsInv, IsType
  <2>5. RoundInv'
    BY <1>1, <1>2, <1>4, <2>1 DEF Safe, RoundInv, IsType, Streaming
  <2>6. AckInv'
    BY <2>1 DEF AckInv
  <2>7. ReceiverInv'
    BY <1>1, <1>2 DEF Safe, ReceiverInv
  <2>8. DoneInv'
    BY <1>1, <1>2, <1>4 DEF Safe, DoneInv, IsType
  <2>9. TimeInv'
    BY <1>1, <1>2, <1>4, <2>1 DEF Safe, TimeInv
  <2>. QED
    BY <2>2, <2>3, <2>4, <2>5, <2>6, <2>7, <2>8, <2>9 DEF Safe
<1>. QED
  BY <1>1, <1>3, <1>4

\* A packet is damaged on the channel.
LEMMA SafeSpoil == ASSUME TypeInv, Safe, Spoil PROVE Safe'
<1>1. UNCHANGED <<snd, rcv, next, sent, delivered>>
  BY DEF Spoil, outcome
<1>2. PICK d \in Damage :
        \/ toR # <<>> /\ toR' = [toR EXCEPT ![1].m = [type |-> d]] /\ UNCHANGED toS
        \/ toS # <<>> /\ toS' = [toS EXCEPT ![1].m = [type |-> d]] /\ UNCHANGED toR
  BY DEF Spoil
<1>3. /\ Remaining' = Remaining /\ (Done' <=> Done) /\ (Active' <=> Active)
      /\ (Listening' <=> Listening) /\ \A b : WasDelivered(b)' <=> WasDelivered(b)
  BY <1>1 DEF Remaining, Done, WasDelivered, Active, Listening
<1>4. HistoryInv' /\ ReceiverInv'
  BY <1>1, <1>3 DEF Safe, HistoryInv, InOrder, ReceiverInv
<1>5. [type |-> d] \in ToRMessages /\ [type |-> d] \in ToSMessages
  BY DEF ToRMessages, ToSMessages
<1>6. CASE toR # <<>> /\ toR' = [toR EXCEPT ![1].m = [type |-> d]] /\ UNCHANGED toS
  <2>1. /\ DOMAIN toR' = DOMAIN toR /\ toR'[1].m = [type |-> d] /\ toR'[1].ttl = toR[1].ttl
        /\ \A i \in DOMAIN toR : i # 1 => toR'[i] = toR[i]
    BY <1>5, <1>6, Spoiling DEF TypeInv
  <2>2. d \notin {"RTS", "DATA"}
    BY DEF Damage
  <2>3. \A i \in DOMAIN toR' : i \in DOMAIN toR /\ toR'[i].ttl = toR[i].ttl
    BY <2>1
  <2>4. \A i \in DOMAIN toR' :
          toR'[i].m.type = "RTS" \/ toR'[i].m.type = "DATA" =>
            toR'[i].m = toR[i].m /\ toR'[i].m.type = toR[i].m.type
    BY <2>1, <2>2
  <2>5. SenderInv'
    BY <1>1, <1>3, <1>6, <2>3, <2>4 DEF Safe, SenderInv, IsType
  <2>6. RtsInv'
    <3>1. ASSUME NEW i \in DOMAIN toR', NEW j \in DOMAIN toR',
                 toR'[i].m.type = "RTS", toR'[j].m.type = "RTS"
          PROVE  i = j
      BY <2>3, <2>4, <3>1 DEF Safe, RtsInv, IsType
    <3>2. ASSUME NEW i \in DOMAIN toR', toR'[i].m.type = "RTS"
          PROVE  /\ toR'[i].m.total = snd'.total
                 /\ IF Listening' THEN ~snd'.acked /\ toS' = <<>>
                                  ELSE i = 1 /\ rcv'.state # "PROCESS_DATA"
      BY <1>1, <1>3, <1>6, <2>3, <2>4, <3>2 DEF Safe, RtsInv, IsType
    <3>. QED
      BY <3>1, <3>2 DEF RtsInv, IsType
  <2>7. RoundInv'
    <3>1. ASSUME NEW i \in DOMAIN toR', toR'[i].m.type = "DATA"
          PROVE  /\ Streaming' /\ toR'[i].m.blk = snd'.blk /\ toR'[i].m.number < snd'.total
                 /\ snd'.state = "SEND_DATA" => toR'[i].m.number < snd'.idx
                 /\ rcv'.state = "RECEIVE_DATA" => toR'[i].m.number \notin rcv'.mask
      BY <1>1, <1>6, <2>3, <2>4, <3>1 DEF Safe, RoundInv, IsType, Streaming
    <3>2. ASSUME NEW i \in DOMAIN toR', NEW j \in DOMAIN toR',
                 toR'[i].m.type = "DATA", toR'[j].m.type = "DATA", i < j
          PROVE  toR'[i].m.number < toR'[j].m.number
      BY <2>3, <2>4, <3>2 DEF Safe, RoundInv, IsType
    <3>3. \A n \in Remaining' : Streaming' /\ (rcv'.state = "RECEIVE_DATA" => n \notin rcv'.mask)
      BY <1>1, <1>3, <1>6 DEF Safe, RoundInv, Streaming
    <3>. QED
      BY <3>1, <3>2, <3>3 DEF RoundInv, IsType
  <2>8. AckInv'
    BY <1>1, <1>3, <1>6 DEF Safe, AckInv
  <2>9. DoneInv'
    BY <1>1, <1>3, <2>3, <2>4 DEF Safe, DoneInv, IsType
  <2>10. TimeInv'
    BY <1>1, <1>3, <1>6, <2>3 DEF Safe, TimeInv
  <2>. QED
    BY <1>4, <2>5, <2>6, <2>7, <2>8, <2>9, <2>10 DEF Safe
<1>7. CASE toS # <<>> /\ toS' = [toS EXCEPT ![1].m = [type |-> d]] /\ UNCHANGED toR
  <2>1. /\ Len(toS') = Len(toS) /\ toS'[1].m = [type |-> d] /\ toS'[1].ttl = toS[1].ttl
        /\ toS' # <<>> /\ toS # <<>>
    BY <1>5, <1>7, Spoiling, TailIs DEF TypeInv
  <2>2. toS'[1].m.type # "ACK"
    BY <2>1 DEF Damage
  <2>3. SenderInv'
    BY <1>1, <1>3, <1>7, <2>1 DEF Safe, SenderInv, IsType
  <2>4. RtsInv'
    BY <1>1, <1>3, <1>7, <2>1 DEF Safe, RtsInv, IsType
  <2>5. RoundInv'
    BY <1>1, <1>3, <1>7, <2>1 DEF Safe, RoundInv, IsType, Streaming
  <2>6. AckInv'
    BY <1>1, <1>3, <2>1, <2>2 DEF Safe, AckInv
  <2>7. DoneInv'
    BY <1>1, <1>3, <1>7 DEF Safe, DoneInv, IsType
  <2>8. TimeInv'
    BY <1>1, <1>3, <1>7, <2>1 DEF Safe, TimeInv
  <2>. QED
    BY <1>4, <2>3, <2>4, <2>5, <2>6, <2>7, <2>8 DEF Safe
<1>. QED
  BY <1>2, <1>6, <1>7

\* A tick: the stopwatches that run and the packets under way advance together.
LEMMA SafeTick == ASSUME TypeInv, Safe, Tick PROVE Safe'
<1>1. /\ UNCHANGED <<next, sent, delivered>> /\ toR' = Age(toR) /\ toS' = Age(toS)
      /\ snd.state \in {"IDLE", "WAIT_ACK"} /\ rcv.state \in {"LISTEN", "RECEIVE_DATA"}
      /\ toR # <<>> => toR[1].ttl > 0
      /\ snd.state = "WAIT_ACK" /\ toS # <<>> => toS[1].ttl > 0
  BY DEF Tick, outcome
<1>2. /\ snd'.state = snd.state /\ snd'.blk = snd.blk /\ snd'.total = snd.total
      /\ snd'.mask = snd.mask /\ snd'.idx = snd.idx /\ snd'.acked = snd.acked
      /\ snd.state = "WAIT_ACK" => snd'.time = snd.time + 1
  BY Fields DEF Tick, TypeInv, TypeOK, SenderType
<1>3. /\ rcv'.state = rcv.state /\ rcv'.total = rcv.total /\ rcv'.mask = rcv.mask
      /\ rcv'.list = rcv.list
      /\ rcv.state = "RECEIVE_DATA" => rcv'.time = rcv.time + 1
  BY Fields DEF Tick, TypeInv, TypeOK, ReceiverType
<1>4. /\ Remaining' = {} /\ Remaining = {} /\ (Done' <=> Done) /\ (Active' <=> Active)
      /\ (Listening' <=> Listening) /\ \A b : WasDelivered(b)' <=> WasDelivered(b)
  BY <1>1, <1>2, <1>3 DEF Remaining, Done, WasDelivered, Active, Listening
<1>5. /\ DOMAIN toR' = DOMAIN toR /\ DOMAIN toR = 1..Len(toR) /\ Len(toR) \in Nat
      /\ \A i \in DOMAIN toR :
           /\ toR'[i].m = toR[i].m /\ toR[i].ttl \in 0..MaxDelay
           /\ toR'[i].ttl = IF toR[i].ttl > 0 THEN toR[i].ttl - 1 ELSE 0
  BY <1>1, Aging, Elements DEF TypeInv
<1>6. /\ Len(toS') = Len(toS) /\ (toS' = <<>> <=> toS = <<>>)
      /\ toS # <<>> =>
           /\ toS'[1].m = toS[1].m /\ toS[1].ttl \in 0..MaxDelay
           /\ toS'[1].ttl = IF toS[1].ttl > 0 THEN toS[1].ttl - 1 ELSE 0
  <2>1. /\ toS' \in Seq(Flight(ToSMessages)) /\ Len(toS') = Len(toS)
        /\ \A i \in DOMAIN toS :
             /\ toS'[i].m = toS[i].m
             /\ toS'[i].ttl = IF toS[i].ttl > 0 THEN toS[i].ttl - 1 ELSE 0
    BY <1>1, Aging DEF TypeInv
  <2>2. toS' = <<>> <=> toS = <<>>
    BY <2>1 DEF TypeInv
  <2>3. toS # <<>> => 1 \in DOMAIN toS
    BY TailIs DEF TypeInv
  <2>. QED
    BY <2>1, <2>2, <2>3, Elements
<1>7. \A i \in DOMAIN toR : toR[i].ttl > 0 /\ toR'[i].ttl = toR[i].ttl - 1
  <2>1. ASSUME NEW i \in DOMAIN toR PROVE toR[1].ttl > 0 /\ toR[1].ttl <= toR[i].ttl
    <3>1. 1 \in DOMAIN toR /\ toR # <<>> /\ (i = 1 \/ 1 < i)
      BY <1>5, <2>1
    <3>2. toR[1].ttl > 0 /\ toR[1].ttl \in Nat
      BY <1>1, <1>5, <3>1
    <3>. QED
      BY <3>1, <3>2 DEF Safe, TimeInv
  <2>. QED
    BY <1>5, <2>1
<1>8. HistoryInv' /\ ReceiverInv'
  <2>1. HistoryInv'
    BY <1>1, <1>2, <1>4 DEF Safe, HistoryInv, InOrder
  <2>2. ReceiverInv'
    BY <1>2, <1>3, <1>4 DEF Safe, ReceiverInv
  <2>. QED
    BY <2>1, <2>2
<1>9. SenderInv' /\ RtsInv'
  <2>1. toR' = <<>> <=> toR = <<>>
    BY <1>1, Aging DEF TypeInv
  <2>2. SenderInv'
    BY <1>2, <1>3, <1>4, <1>5, <1>6, <2>1 DEF Safe, SenderInv, IsType
  <2>3. RtsInv'
    BY <1>2, <1>3, <1>4, <1>5, <1>6 DEF Safe, RtsInv, IsType
  <2>. QED
    BY <2>2, <2>3
<1>10. RoundInv'
  <2>1. ASSUME NEW i \in DOMAIN toR', toR'[i].m.type = "DATA"
        PROVE  /\ Streaming' /\ toR'[i].m.blk = snd'.blk /\ toR'[i].m.number < snd'.total
               /\ snd'.state = "SEND_DATA" => toR'[i].m.number < snd'.idx
               /\ rcv'.state = "RECEIVE_DATA" => toR'[i].m.number \notin rcv'.mask
    BY <1>2, <1>3, <1>5, <1>6, <2>1 DEF Safe, RoundInv, IsType, Streaming
  <2>2. ASSUME NEW i \in DOMAIN toR', NEW j \in DOMAIN toR',
               toR'[i].m.type = "DATA", toR'[j].m.type = "DATA", i < j
        PROVE  toR'[i].m.number < toR'[j].m.number
    BY <1>5, <2>2 DEF Safe, RoundInv, IsType
  <2>. QED
    BY <1>4, <2>1, <2>2 DEF RoundInv, IsType
<1>11. AckInv' /\ DoneInv'
  BY <1>2, <1>3, <1>4, <1>5, <1>6 DEF Safe, AckInv, DoneInv, IsType
<1>12. TimeInv'
  <2>1. \A i, j \in DOMAIN toR' : i < j => toR'[i].ttl <= toR'[j].ttl
    BY <1>5, <1>7 DEF Safe, TimeInv
  <2>2. ASSUME snd'.state = "WAIT_ACK"
        PROVE  /\ \A i \in DOMAIN toR' : snd'.time + toR'[i].ttl <= MaxDelay
               /\ Listening' /\ toS' # <<>> => snd'.time + toS'[1].ttl <= 2 * MaxDelay
    <3>1. snd.state = "WAIT_ACK" /\ snd'.time = snd.time + 1 /\ snd.time \in Nat
      BY <1>2, <2>2, Fields
    <3>2. \A i \in DOMAIN toR' : snd'.time + toR'[i].ttl <= MaxDelay
      BY <1>5, <1>7, <3>1, Consts DEF Safe, TimeInv
    <3>3. toS' # <<>> => toS'[1].ttl = toS[1].ttl - 1 /\ toS[1].ttl \in Nat
      BY <1>1, <1>6, <3>1
    <3>. QED
      BY <1>4, <1>6, <3>1, <3>2, <3>3, Consts DEF Safe, TimeInv
  <2>3. ASSUME rcv'.state = "RECEIVE_DATA"
        PROVE  /\ toS' # <<>> => rcv'.time + toS'[1].ttl <= MaxDelay
               /\ snd'.acked => \A i \in DOMAIN toR' : rcv'.time + toR'[i].ttl <= 2 * MaxDelay
    <3>1. rcv.state = "RECEIVE_DATA" /\ rcv'.time = rcv.time + 1 /\ rcv.time \in Nat
      BY <1>3, <2>3, Fields
    <3>2. toS # <<>> => toS[1].ttl > 0
      BY <1>1 DEF Safe, SenderInv
    <3>3. toS' # <<>> => rcv'.time + toS'[1].ttl <= MaxDelay
      BY <1>6, <3>1, <3>2, Consts DEF Safe, TimeInv
    <3>4. snd'.acked => \A i \in DOMAIN toR' : rcv'.time + toR'[i].ttl <= 2 * MaxDelay
      BY <1>2, <1>5, <1>7, <3>1, Consts DEF Safe, TimeInv
    <3>. QED
      BY <3>3, <3>4
  <2>. QED
    BY <1>1, <1>3, <1>4, <2>1, <2>2, <2>3 DEF TimeInv
<1>. QED
  BY <1>8, <1>9, <1>10, <1>11, <1>12 DEF Safe

\* LISTEN: an announcement opens the block, anything else is ignored.
LEMMA SafeRListen == ASSUME TypeInv, Safe, RListen PROVE Safe'
<1>1. /\ UNCHANGED <<snd, toS, next, sent, delivered>> /\ rcv.state = "LISTEN" /\ Listening
      /\ toR # <<>> /\ toR' = Tail(toR)
  BY DEF RListen, outcome, Listening
<1>2. Rest(toR') /\ 1 \in DOMAIN toR /\ toR[1].m.type \in {"RTS", "DATA"} \cup Damage
  BY <1>1, Cut, TailIs, Elements DEF TypeInv
<1>3. /\ Remaining' = Remaining /\ (Done' <=> Done) /\ (Active' <=> Active)
      /\ \A b : WasDelivered(b)' <=> WasDelivered(b)
  BY <1>1 DEF Remaining, Done, WasDelivered, Active
<1>4. rcv.list = <<>>
  BY <1>1 DEF Safe, ReceiverInv
<1>5. HistoryInv'
  BY <1>1, <1>3 DEF Safe, HistoryInv, InOrder
<1>6. CASE toR[1].m.type # "RTS"
  <2>1. rcv' = rcv /\ Listening'
    BY <1>1, <1>6 DEF RListen, Listening
  <2>2. SenderInv'
    BY <1>1, <1>2, <1>3, <2>1 DEF Safe, SenderInv, IsType, Rest
  <2>3. RtsInv'
    BY <1>1, <1>2, <2>1 DEF Safe, RtsInv, IsType, Rest
  <2>4. RoundInv'
    BY <1>1, <1>2, <1>3, <2>1 DEF Safe, RoundInv, IsType, Streaming, Rest
  <2>5. AckInv' /\ ReceiverInv'
    BY <1>1, <1>3, <2>1 DEF Safe, AckInv, ReceiverInv
  <2>6. DoneInv'
    BY <1>1, <1>2, <1>3, <2>1 DEF Safe, DoneInv, IsType, Rest
  <2>7. TimeInv'
    BY <1>1, <1>2, <1>3, <2>1 DEF Safe, TimeInv, Rest
  <2>. QED
    BY <1>5, <2>2, <2>3, <2>4, <2>5, <2>6, <2>7 DEF Safe
<1>7. CASE toR[1].m.type = "RTS"
  <2>1. /\ rcv'.state = "SEND_ACK" /\ rcv'.total = toR[1].m.total /\ rcv'.mask = {}
        /\ rcv'.list = <<>> /\ ~Listening'
    BY <1>1, <1>4, <1>7 DEF RListen, TypeInv, TypeOK, ReceiverType, Listening
  <2>2. toR[1].m.total = snd.total /\ ~snd.acked /\ toS = <<>>
    BY <1>1, <1>2, <1>7 DEF Safe, RtsInv, IsType
  <2>3. snd.state = "WAIT_ACK" /\ Active
    BY <1>2, <1>7, <2>2, Fields DEF Safe, SenderInv, IsType, Active
  <2>4. /\ \A i \in DOMAIN toR' : toR'[i].m.type # "RTS"
        /\ \A i \in DOMAIN toR' : toR'[i].m.type # "DATA"
    BY <1>2, <1>7, <2>2 DEF Rest, IsType, Streaming
  <2>5. Remaining = {} /\ ~Done
    BY <2>2, <2>3 DEF Remaining, Safe, DoneInv
  <2>6. SenderInv' /\ RtsInv' /\ RoundInv'
    BY <1>1, <1>3, <2>1, <2>3, <2>4, <2>5 DEF SenderInv, RtsInv, RoundInv, IsType
  <2>7. AckInv'
    BY <1>1, <2>2 DEF AckInv
  <2>8. ReceiverInv'
    <3>1. snd.total > 0
      BY <2>3, Consts DEF Safe, HistoryInv, TypeInv
    <3>. QED
      BY <1>1, <1>3, <2>1, <2>2, <2>3, <3>1 DEF ReceiverInv
  <2>9. DoneInv'
    BY <1>3, <2>5 DEF DoneInv
  <2>10. TimeInv'
    BY <1>1, <1>2, <2>1 DEF TimeInv, Rest
  <2>. QED
    BY <1>5, <2>6, <2>7, <2>8, <2>9, <2>10 DEF Safe
<1>. QED
  BY <1>6, <1>7

\* SEND_ACK: the answer is sent when nothing else is under way.
LEMMA SafeSendACK == ASSUME TypeInv, Safe, SendACK PROVE Safe'
<1>1. /\ UNCHANGED <<snd, toR, next, sent, delivered>> /\ rcv.state = "SEND_ACK"
      /\ toS' = Append(toS, Fly(Ack))
  BY DEF SendACK, outcome
<1>2. /\ rcv'.state = "RECEIVE_DATA" /\ rcv'.total = rcv.total /\ rcv'.mask = rcv.mask
      /\ rcv'.list = rcv.list /\ rcv'.time = 0 /\ ~Listening' /\ ~Listening
  BY <1>1 DEF SendACK, TypeInv, TypeOK, ReceiverType, Listening
<1>3. /\ Remaining' = Remaining /\ (Done' <=> Done) /\ (Active' <=> Active)
      /\ \A b : WasDelivered(b)' <=> WasDelivered(b)
  BY <1>1 DEF Remaining, Done, WasDelivered, Active
<1>4. toS = <<>> /\ ~Done /\ Remaining = {} /\ \A i \in DOMAIN toR : ~IsType(i, "DATA")
  <2>1. toS = <<>>
    BY <1>1 DEF Safe, AckInv
  <2>2. ~Done
    BY <1>2 DEF Safe, DoneInv
  <2>3. ~Streaming
    BY <1>1 DEF Streaming
  <2>. QED
    BY <2>1, <2>2, <2>3 DEF Safe, RoundInv
<1>5. /\ Len(toS') = 1 /\ toS' # <<>> /\ toS'[1].m = Ack /\ toS'[1].ttl = MaxDelay
      /\ Ack.type = "ACK" /\ Ack.total = rcv.total /\ Ack.mask = rcv.mask
      /\ Ack.need = rcv.total - Len(rcv.list)
  <2>1. toS' = <<Fly(Ack)>>
    BY <1>1, <1>4
  <2>. QED
    BY <2>1 DEF Fly, Ack
<1>6. HistoryInv'
  BY <1>1, <1>3 DEF Safe, HistoryInv, InOrder
<1>7. SenderInv'
  BY <1>1, <1>2, <1>3 DEF Safe, SenderInv, IsType
<1>8. RtsInv'
  BY <1>1, <1>2 DEF Safe, RtsInv, IsType
<1>9. RoundInv'
  BY <1>1, <1>3, <1>4 DEF RoundInv, IsType
<1>10. AckInv'
  <2>1. rcv.total = snd.total /\ rcv.total - Len(rcv.list) > 0
    BY <1>1, <1>2, Fields DEF Safe, ReceiverInv
  <2>. QED
    BY <1>1, <1>2, <1>3, <1>4, <1>5, <2>1, Fields DEF AckInv
<1>11. ReceiverInv'
  BY <1>1, <1>2, <1>3 DEF Safe, ReceiverInv
<1>12. DoneInv'
  BY <1>3, <1>4 DEF DoneInv
<1>13. TimeInv'
  <2>1. \A i \in DOMAIN toR : toR[i].ttl \in 0..MaxDelay
    BY Elements
  <2>. QED
    BY <1>1, <1>2, <1>3, <1>4, <1>5, <2>1, Consts DEF Safe, TimeInv
<1>. QED
  BY <1>6, <1>7, <1>8, <1>9, <1>10, <1>11, <1>12, <1>13 DEF Safe

\* RECEIVE_DATA, a bad packet: counted, and at the limit the block is dropped.
LEMMA SafeRBadPacket == ASSUME TypeInv, Safe, RBadPacket PROVE Safe'
<1>1. /\ UNCHANGED <<snd, toS, next, sent, delivered>> /\ rcv.state = "RECEIVE_DATA"
      /\ toR # <<>> /\ toR' = Tail(toR) /\ ~Listening
  BY DEF RBadPacket, outcome, Listening
<1>2. Rest(toR') /\ 1 \in DOMAIN toR /\ toR[1].ttl \in 0..MaxDelay
  BY <1>1, Cut, TailIs, Elements DEF TypeInv
<1>3. /\ Remaining' = Remaining /\ (Done' <=> Done) /\ (Active' <=> Active)
      /\ \A b : WasDelivered(b)' <=> WasDelivered(b)
  BY <1>1 DEF Remaining, Done, WasDelivered, Active
<1>4. \A i \in DOMAIN toR' : toR'[i].m.type # "RTS"
  BY <1>1, <1>2 DEF Rest
<1>5. \/ /\ rcv'.state = "RECEIVE_DATA" /\ rcv'.total = rcv.total /\ rcv'.mask = rcv.mask
         /\ rcv'.list = rcv.list /\ rcv'.time = 0 /\ ~Listening'
      \/ rcv'.state = "LISTEN" /\ rcv'.list = <<>> /\ Listening'
  <2>. DEFINE e == RCheck(toR[1].m)
  <2>1. e \in RErrors /\ e # "TIMEOUT_WAIT_DATA" /\ rcv' = RError(e)
    BY ChecksNameErrors DEF RBadPacket, RCheck
  <2>. HIDE DEF e
  <2>2. CASE rcv.err[e] + 1 = MAX_ERRORS
    BY <2>1, <2>2, RErrorIs DEF RReset, Listening
  <2>3. CASE rcv.err[e] + 1 # MAX_ERRORS
    BY <1>1, <2>1, <2>3, RErrorIs DEF Listening
  <2>. QED
    BY <2>2, <2>3
<1>6. HistoryInv'
  BY <1>1, <1>3 DEF Safe, HistoryInv, InOrder
<1>7. SenderInv'
  BY <1>1, <1>2, <1>3, <1>4 DEF Safe, SenderInv, IsType
<1>8. RtsInv'
  BY <1>4 DEF RtsInv, IsType
<1>9. RoundInv'
  BY <1>1, <1>2, <1>3, <1>5 DEF Safe, RoundInv, IsType, Streaming, Rest
<1>10. AckInv'
  BY <1>1, <1>3, <1>5 DEF Safe, AckInv
<1>11. ReceiverInv'
  BY <1>1, <1>3, <1>5 DEF Safe, ReceiverInv
<1>12. DoneInv'
  BY <1>1, <1>3 DEF Safe, DoneInv
<1>13. TimeInv'
  <2>1. \A i, j \in DOMAIN toR' : i < j => toR'[i].ttl <= toR'[j].ttl
    BY <1>2 DEF Rest
  <2>2. ASSUME snd.state = "WAIT_ACK"
        PROVE  /\ \A i \in DOMAIN toR' : snd.time + toR'[i].ttl <= MaxDelay
               /\ toS # <<>> => snd.time + toS[1].ttl <= 2 * MaxDelay
    <3>1. snd.time + toR[1].ttl <= MaxDelay
      BY <1>2, <2>2 DEF Safe, TimeInv
    <3>2. snd.time <= MaxDelay
      BY <1>2, <3>1, Fields, Consts
    <3>3. toS # <<>> => toS[1].ttl \in 0..MaxDelay
      BY TailIs, Elements DEF TypeInv
    <3>. QED
      BY <1>2, <2>2, <3>2, <3>3, Fields, Consts, SMTT(30) DEF Rest
  <2>3. /\ \A i \in DOMAIN toR' : toR'[i].ttl \in 0..MaxDelay
        /\ toS # <<>> => toS[1].ttl \in 0..MaxDelay
    BY <1>2, TailIs, Elements DEF Rest, TypeInv
  <2>. QED
    BY <1>1, <1>3, <1>5, <2>1, <2>2, <2>3, Consts DEF TimeInv
<1>. QED
  BY <1>6, <1>7, <1>8, <1>9, <1>10, <1>11, <1>12, <1>13 DEF Safe

\* RECEIVE_DATA, a packet of the block: it is new, and when it is the last of
\* the round or completes the list nothing of the round is left.
LEMMA SafeRData == ASSUME TypeInv, Safe, RData PROVE Safe'
<1>. DEFINE n == toR[1].m.number
            packet == [blk |-> toR[1].m.blk, number |-> n]
            list == Append(rcv.list, packet)
<1>1. /\ UNCHANGED <<snd, toS, next, sent, delivered>> /\ rcv.state = "RECEIVE_DATA"
      /\ toR # <<>> /\ toR' = Tail(toR) /\ ~Listening /\ RCheck(toR[1].m) = "none"
  BY DEF RData, outcome, Listening
<1>2. /\ Rest(toR') /\ 1 \in DOMAIN toR /\ IsType(1, "DATA") /\ n \in Nat
      /\ toR[1].m.blk \in Blocks /\ toR[1].ttl \in 0..MaxDelay
  BY <1>1, Cut, TailIs, Elements, GoodData DEF TypeInv, IsType
<1>3. /\ Remaining' = Remaining /\ (Done' <=> Done) /\ (Active' <=> Active)
      /\ \A b : WasDelivered(b)' <=> WasDelivered(b)
  BY <1>1 DEF Remaining, Done, WasDelivered, Active
<1>4. /\ toS = <<>> /\ snd.acked /\ toR[1].m.blk = snd.blk /\ n < snd.total /\ n \notin rcv.mask
      /\ snd.state = "SEND_DATA" => n < snd.idx
  BY <1>1, <1>2 DEF Safe, RoundInv, Streaming
<1>5. ~Done /\ rcv.total = snd.total /\ Active
  BY <1>1 DEF Safe, DoneInv, ReceiverInv
<1>6. packet \in Packets /\ packet.blk = snd.blk /\ packet.number = n
  BY <1>2, <1>4 DEF Packets
<1>7. /\ list \in Seq(Packets) /\ Len(list) = Len(rcv.list) + 1
      /\ DOMAIN rcv.list = 1..Len(rcv.list) /\ Len(rcv.list) \in Nat
      /\ DOMAIN list = 1..(Len(rcv.list) + 1)
      /\ \A i \in DOMAIN rcv.list : list[i] = rcv.list[i]
      /\ list[Len(rcv.list) + 1] = packet
  BY <1>6, Fields, AppendIs
<1>8. /\ rcv'.total = rcv.total /\ rcv'.mask = rcv.mask \cup {n} /\ rcv'.list = list
      /\ rcv'.time = 0
      /\ rcv'.state = CASE Len(list) = rcv.total -> "PROCESS_DATA"
                        [] Len(list) # rcv.total /\ n = rcv.total - 1 -> "SEND_ACK"
                        [] OTHER -> "RECEIVE_DATA"
  BY DEF RData, TypeInv, TypeOK, ReceiverType
<1>. HIDE DEF list, packet, n
<1>9. ~Listening' /\ rcv'.state \in {"PROCESS_DATA", "SEND_ACK", "RECEIVE_DATA"}
  BY <1>8 DEF Listening
<1>10. /\ \A i \in DOMAIN toR' : toR'[i].m.type # "RTS"
       /\ \A i \in DOMAIN toR' : toR'[i].m.type = "DATA" =>
            /\ toR'[i].m.number \in Nat /\ n < toR'[i].m.number /\ toR'[i].m.number < snd.total
            /\ toR'[i].m.number \notin rcv.mask
  BY <1>1, <1>2 DEF Rest, n
<1>11. \A r \in Remaining : r \in Nat /\ n < r /\ r < snd.total /\ r \notin rcv.mask
  <2>1. \A r \in Remaining : snd.state = "SEND_DATA" /\ r \in snd.idx..(snd.total - 1)
    BY DEF Remaining
  <2>2. \A r \in Remaining : r \notin rcv.mask
    BY <1>1 DEF Safe, RoundInv
  <2>. QED
    BY <1>2, <1>4, <2>1, <2>2, Fields
<1>12. /\ \A i \in DOMAIN list : list[i].blk = snd.blk /\ list[i].number < rcv.total
       /\ \A i \in DOMAIN list : list[i].number \in rcv.mask \cup {n}
       /\ \A i, j \in DOMAIN list : list[i].number = list[j].number => i = j
  <2>1. /\ \A i \in DOMAIN rcv.list : rcv.list[i].blk = snd.blk
        /\ \A i \in DOMAIN rcv.list : rcv.list[i].number < rcv.total
        /\ \A i \in DOMAIN rcv.list : rcv.list[i].number \in rcv.mask
        /\ \A i, j \in DOMAIN rcv.list : rcv.list[i].number = rcv.list[j].number => i = j
    BY <1>1 DEF Safe, ReceiverInv
  <2>2. ASSUME NEW i \in DOMAIN list
        PROVE  \/ i \in DOMAIN rcv.list /\ list[i] = rcv.list[i]
               \/ i = Len(rcv.list) + 1 /\ list[i] = packet
    BY <1>7
  <2>. QED
    BY <1>4, <1>5, <1>6, <2>1, <2>2
<1>13. rcv'.state # "RECEIVE_DATA" =>
         (\A i \in DOMAIN toR' : toR'[i].m.type # "DATA") /\ Remaining = {}
  <2>1. CASE Len(list) = rcv.total
    <3>1. \A x \in 0..(rcv.total - 1) : \E i \in DOMAIN list : list[i].number = x
      <4>1. list \in Seq(Packets)
        BY <1>7
      <4>2. \A j \in DOMAIN list : list[j].number < Len(list)
        BY <1>12, <2>1
      <4>3. \A i, j \in DOMAIN list : list[i].number = list[j].number => i = j
        BY <1>12
      <4>4. \A x \in 0..(Len(list) - 1) : \E i \in DOMAIN list : list[i].number = x
        BY <4>1, <4>2, <4>3, AllNumbers, Zenon
      <4>. QED
        BY <2>1, <4>4
    <3>2. \A x \in Nat : n < x /\ x < snd.total => x \in rcv.mask
      <4>1. SUFFICES ASSUME NEW x \in Nat, n < x, x < snd.total PROVE x \in rcv.mask
        OBVIOUS
      <4>2. x \in 0..(rcv.total - 1) /\ x # n
        BY <1>2, <1>5, <4>1, Fields
      <4>. QED
        BY <1>12, <3>1, <4>2
    <3>. QED
      BY <1>10, <1>11, <3>2
  <2>2. CASE Len(list) # rcv.total /\ n = rcv.total - 1
    <3>1. \A x \in Nat : ~(n < x /\ x < snd.total)
      BY <1>2, <1>5, <2>2, Fields
    <3>. QED
      BY <1>10, <1>11, <3>1
  <2>. QED
    BY <1>8, <2>1, <2>2
<1>14. Len(rcv.list) + 1 <= rcv.total
  BY <1>1, <1>7, Fields DEF Safe, ReceiverInv
<1>15. HistoryInv'
  BY <1>1, <1>3 DEF Safe, HistoryInv, InOrder
<1>16. SenderInv'
  BY <1>1, <1>3, <1>4, <1>5, <1>10, Fields DEF Safe, SenderInv, IsType, Active
<1>17. RtsInv'
  BY <1>10 DEF RtsInv, IsType
<1>18. RoundInv'
  <2>1. CASE rcv'.state # "RECEIVE_DATA"
    BY <1>3, <1>13, <2>1 DEF RoundInv, IsType
  <2>2. CASE rcv'.state = "RECEIVE_DATA"
    <3>1. Streaming'
      BY <1>1, <1>4, <2>2 DEF Streaming
    <3>2. ASSUME NEW i \in DOMAIN toR', toR'[i].m.type = "DATA"
          PROVE  toR'[i].m.number \notin rcv'.mask
      BY <1>2, <1>8, <1>10, <3>2
    <3>3. \A r \in Remaining' : r \notin rcv'.mask
      BY <1>2, <1>3, <1>8, <1>11
    <3>. QED
      BY <1>1, <1>2, <3>1, <3>2, <3>3 DEF RoundInv, IsType, Rest
  <2>. QED
    BY <2>1, <2>2
<1>19. AckInv'
  BY <1>1, <1>4 DEF AckInv
<1>20. ReceiverInv'
  <2>1. rcv'.state \in {"SEND_ACK", "RECEIVE_DATA"} => Len(rcv'.list) < rcv'.total
    BY <1>7, <1>8, <1>14, Fields
  <2>2. rcv'.state = "PROCESS_DATA" => Len(rcv'.list) = rcv'.total
    BY <1>8
  <2>. QED
    BY <1>1, <1>3, <1>4, <1>5, <1>8, <1>9, <1>12, <2>1, <2>2 DEF ReceiverInv
<1>21. DoneInv'
  BY <1>3, <1>5 DEF DoneInv
<1>22. TimeInv'
  <2>1. snd.state = "WAIT_ACK" => snd.time <= MaxDelay
    <3>1. snd.state = "WAIT_ACK" => snd.time + toR[1].ttl <= MaxDelay
      BY <1>2 DEF Safe, TimeInv
    <3>. QED
      BY <1>2, <3>1, Fields, Consts
  <2>2. \A i \in DOMAIN toR' : toR'[i].ttl \in 0..MaxDelay
    BY <1>2 DEF Rest
  <2>3. \A i, j \in DOMAIN toR' : i < j => toR'[i].ttl <= toR'[j].ttl
    BY <1>2 DEF Rest
  <2>4. snd'.state = "WAIT_ACK" => \A i \in DOMAIN toR' : snd'.time + toR'[i].ttl <= MaxDelay
    BY <1>1, <1>2 DEF Rest
  <2>5. rcv'.time = 0 /\ 0 <= MaxDelay
        /\ \A i \in DOMAIN toR' : rcv'.time + toR'[i].ttl <= 2 * MaxDelay
    BY <1>8, <2>2, Consts
  <2>. QED
    BY <1>1, <1>4, <2>1, <2>3, <2>4, <2>5 DEF TimeInv
<1>. QED
  BY <1>15, <1>16, <1>17, <1>18, <1>19, <1>20, <1>21, <1>22 DEF Safe

\* RECEIVE_DATA, too long without a packet: what was under way has arrived, so
\* the receiver asks again, or drops the block, with nothing under way.
LEMMA SafeRTimeout == ASSUME TypeInv, Safe, Timely, RTimeout PROVE Safe'
<1>1. /\ UNCHANGED <<snd, toR, toS, next, sent, delivered>> /\ rcv.state = "RECEIVE_DATA"
      /\ rcv.time > R_WAIT /\ ~Listening
  BY DEF RTimeout, outcome, Listening
<1>2. /\ Remaining' = Remaining /\ (Done' <=> Done) /\ (Active' <=> Active)
      /\ \A b : WasDelivered(b)' <=> WasDelivered(b)
  BY <1>1 DEF Remaining, Done, WasDelivered, Active
<1>3. rcv.time > 2 * MaxDelay /\ rcv.time > MaxDelay
  BY <1>1, Fields, Consts DEF Timely
<1>4. toS = <<>>
  <2>1. toS # <<>> => toS[1].ttl \in 0..MaxDelay /\ rcv.time + toS[1].ttl <= MaxDelay
    BY <1>1, TailIs, Elements DEF TypeInv, Safe, TimeInv
  <2>. QED
    BY <1>3, <2>1, Fields, Consts
<1>5. snd.acked => toR = <<>>
  <2>1. snd.acked => \A i \in DOMAIN toR :
          toR[i].ttl \in 0..MaxDelay /\ rcv.time + toR[i].ttl <= 2 * MaxDelay
    BY <1>1, Elements DEF Safe, TimeInv
  <2>2. toR # <<>> => 1 \in DOMAIN toR
    BY TailIs DEF TypeInv
  <2>. QED
    BY <1>3, <2>1, <2>2, Fields, Consts, SMTT(30)
<1>6. Remaining = {} /\ \A i \in DOMAIN toR : ~IsType(i, "DATA")
  <2>1. Remaining = {}
    BY <1>1, <1>3, Fields, Consts DEF Safe, TimeInv
  <2>2. \A i \in DOMAIN toR : IsType(i, "DATA") => snd.acked
    BY DEF Safe, RoundInv, Streaming
  <2>. QED
    BY <1>5, <2>1, <2>2
<1>7. \/ /\ rcv'.state = "SEND_ACK" /\ rcv'.total = rcv.total /\ rcv'.mask = rcv.mask
         /\ rcv'.list = rcv.list /\ ~Listening'
      \/ rcv'.state = "LISTEN" /\ rcv'.list = <<>> /\ Listening'
  <2>1. "TIMEOUT_WAIT_DATA" \in RErrors /\ rcv' = RError("TIMEOUT_WAIT_DATA")
    BY DEF RTimeout, RErrors
  <2>2. CASE rcv.err["TIMEOUT_WAIT_DATA"] + 1 = MAX_ERRORS
    BY <2>1, <2>2, RErrorIs DEF RReset, Listening
  <2>3. CASE rcv.err["TIMEOUT_WAIT_DATA"] + 1 # MAX_ERRORS
    BY <2>1, <2>3, RErrorIs DEF Listening
  <2>. QED
    BY <2>2, <2>3
<1>8. HistoryInv'
  BY <1>1, <1>2 DEF Safe, HistoryInv, InOrder
<1>9. SenderInv'
  BY <1>1, <1>2, <1>4, <1>7 DEF Safe, SenderInv, IsType
<1>10. RtsInv'
  <2>1. \A i \in DOMAIN toR : ~snd.acked
    BY <1>5
  <2>. QED
    BY <1>1, <1>4, <1>7, <2>1 DEF Safe, RtsInv, IsType
<1>11. RoundInv'
  BY <1>1, <1>2, <1>6 DEF RoundInv, IsType
<1>12. AckInv'
  BY <1>1, <1>4 DEF AckInv
<1>13. ReceiverInv'
  BY <1>1, <1>2, <1>7 DEF Safe, ReceiverInv
<1>14. DoneInv'
  BY <1>1, <1>2 DEF Safe, DoneInv
<1>15. TimeInv'
  BY <1>1, <1>4, <1>7 DEF Safe, TimeInv
<1>. QED
  BY <1>8, <1>9, <1>10, <1>11, <1>12, <1>13, <1>14, <1>15 DEF Safe

\* PROCESS_DATA: the block is put out, for the first time, and acknowledged.
LEMMA SafeProcessData == ASSUME TypeInv, Safe, ProcessData PROVE Safe'
<1>1. /\ UNCHANGED <<snd, toR, next, sent>> /\ rcv.state = "PROCESS_DATA" /\ ~Listening
      /\ delivered' = Append(delivered, Sorted(rcv.list)) /\ toS' = Append(toS, Fly(Ack))
      /\ rcv' = RReset
  BY DEF ProcessData, outcome, Listening
<1>2. rcv'.state = "LISTEN" /\ rcv'.list = <<>> /\ Listening'
  BY <1>1 DEF RReset, Listening
<1>3. /\ Active /\ rcv.total = snd.total /\ Len(rcv.list) = rcv.total /\ snd.acked
      /\ \A j \in DOMAIN rcv.list : rcv.list[j].blk = snd.blk /\ rcv.list[j].number < rcv.total
      /\ \A i, j \in DOMAIN rcv.list : rcv.list[i].number = rcv.list[j].number => i = j
  BY <1>1 DEF Safe, ReceiverInv
<1>4. snd.blk \in Blocks /\ snd.total = Totals[snd.blk] /\ snd.blk = next - 1 /\ ~Done
  BY <1>1, <1>3 DEF Safe, HistoryInv, DoneInv, TypeInv
<1>5. Sorted(rcv.list) = Whole(snd.blk)
  <2>. DEFINE b == snd.blk
              list == rcv.list
  <2>1. /\ list \in Seq(Packets) /\ b \in Blocks /\ Len(list) = Totals[b]
        /\ \A j \in DOMAIN list : list[j].blk = b /\ list[j].number < Len(list)
        /\ \A i, j \in DOMAIN list : list[i].number = list[j].number => i = j
    BY <1>3, <1>4, Fields
  <2>. HIDE DEF b, list
  <2>2. Sorted(list) = Whole(b)
    BY <2>1, SortedWhole
  <2>. QED
    BY <2>2 DEF b, list
<1>6. /\ delivered \in Seq(Seq(Packets)) /\ Len(delivered) \in Nat
      /\ DOMAIN delivered = 1..Len(delivered) /\ DOMAIN delivered' = 1..(Len(delivered) + 1)
      /\ \A k \in DOMAIN delivered : delivered'[k] = delivered[k]
      /\ delivered'[Len(delivered) + 1] = Whole(snd.blk)
  <2>1. delivered \in Seq(Seq(Packets)) /\ Sorted(rcv.list) \in Seq(Packets)
    BY Fields, SortedPlaces DEF TypeInv, TypeOK
  <2>. QED
    BY <1>1, <1>5, <2>1, AppendIs
<1>7. \A k \in DOMAIN delivered' :
        \/ k \in DOMAIN delivered /\ delivered'[k] = delivered[k]
        \/ k = Len(delivered) + 1 /\ delivered'[k] = Whole(snd.blk)
  BY <1>6
<1>8. /\ toS = <<>> /\ ~Streaming /\ Remaining = {} /\ \A i \in DOMAIN toR : ~IsType(i, "DATA")
      /\ \A i \in DOMAIN toR : ~IsType(i, "RTS")
  <2>1. toS = <<>> /\ ~Streaming
    BY <1>1 DEF Safe, AckInv, Streaming
  <2>. QED
    BY <1>1, <2>1 DEF Safe, RoundInv, RtsInv, Listening
<1>9. /\ Len(toS') = 1 /\ toS' # <<>> /\ toS'[1].m = Ack /\ toS'[1].ttl = MaxDelay
      /\ Ack.type = "ACK" /\ Ack.total = rcv.total /\ Ack.need = 0
  <2>1. toS' = <<Fly(Ack)>>
    BY <1>1, <1>8
  <2>2. rcv.total - Len(rcv.list) = 0
    BY <1>3, Fields
  <2>. QED
    BY <2>1, <2>2 DEF Fly, Ack
<1>10. /\ Remaining' = Remaining /\ (Active' <=> Active)
       /\ \A b : WasDelivered(b) => WasDelivered(b)'
       /\ WasDelivered(snd.blk)' /\ Done'
  <2>1. \A b : WasDelivered(b) => WasDelivered(b)'
    BY <1>6 DEF WasDelivered
  <2>2. WasDelivered(snd.blk)'
    <3>1. Len(delivered) + 1 \in DOMAIN delivered'
      BY <1>6
    <3>. QED
      BY <1>1, <1>6, <3>1 DEF WasDelivered
  <2>. QED
    BY <1>1, <1>3, <2>1, <2>2 DEF Remaining, Active, Done
<1>11. HistoryInv'
  <2>1. \A b \in Blocks : b >= next' \/ (Active' /\ b = snd'.blk) => sent'[b] = "pending"
    BY <1>1, <1>10 DEF Safe, HistoryInv, InOrder
  <2>2. Active' => snd'.blk = next' - 1 /\ snd'.total = Totals[snd'.blk]
    BY <1>1, <1>10 DEF Safe, HistoryInv, InOrder
  <2>3. \A k \in DOMAIN delivered' : \E b \in Blocks : b < next' /\ delivered'[k] = Whole(b)
    <3>1. snd.blk < next
      BY <1>4, Fields DEF TypeInv, TypeOK
    <3>. QED
      BY <1>1, <1>4, <1>7, <3>1 DEF Safe, HistoryInv, InOrder
  <2>4. InOrder'
    <3>1. SUFFICES ASSUME NEW j \in DOMAIN delivered', NEW k \in DOMAIN delivered',
                          NEW b \in Blocks, NEW c \in Blocks,
                          j < k, delivered'[j] = Whole(b), delivered'[k] = Whole(c)
                   PROVE  b < c
      BY DEF InOrder
    <3>2. j \in DOMAIN delivered /\ delivered[j] = Whole(b)
      BY <1>6, <3>1
    <3>3. CASE k \in DOMAIN delivered
      BY <1>6, <3>1, <3>2, <3>3 DEF Safe, HistoryInv, InOrder
    <3>4. CASE k \notin DOMAIN delivered
      <4>1. c = snd.blk
        BY <1>4, <1>7, <3>1, <3>4, WholeDiffers
      <4>2. PICK d \in Blocks : d < next /\ delivered[j] = Whole(d)
        BY <3>2 DEF Safe, HistoryInv, InOrder
      <4>3. b = d /\ b # snd.blk
        BY <1>3, <1>4, <3>2, <4>2, WholeDiffers DEF Done, WasDelivered
      <4>. QED
        BY <1>4, <4>1, <4>2, <4>3, Consts DEF TypeInv, TypeOK
    <3>. QED
      BY <3>3, <3>4
  <2>5. \A b \in Blocks : sent'[b] = "ok" => WasDelivered(b)'
    BY <1>1, <1>10 DEF Safe, HistoryInv, InOrder
  <2>. QED
    BY <2>1, <2>2, <2>3, <2>4, <2>5 DEF HistoryInv
<1>12. SenderInv'
  BY <1>1, <1>2, <1>3, <1>8, <1>10 DEF Safe, SenderInv, IsType, Active
<1>13. RtsInv' /\ RoundInv'
  BY <1>1, <1>8, <1>10 DEF RtsInv, RoundInv, IsType
<1>14. AckInv'
  BY <1>1, <1>2, <1>3, <1>9, <1>10 DEF AckInv
<1>15. ReceiverInv'
  BY <1>2 DEF ReceiverInv
<1>16. DoneInv'
  BY <1>1, <1>2, <1>3, <1>8, <1>10 DEF DoneInv, IsType
<1>17. TimeInv'
  <2>1. snd.state = "WAIT_ACK" => snd.time + MaxDelay <= 2 * MaxDelay
    BY <1>1, Fields, Consts DEF Safe, TimeInv
  <2>. QED
    BY <1>1, <1>2, <1>9, <2>1 DEF Safe, TimeInv
<1>. QED
  BY <1>11, <1>12, <1>13, <1>14, <1>15, <1>16, <1>17 DEF Safe

\* IDLE: a new block, of which nothing was put out and nothing is under way.
LEMMA SafeSIdle == ASSUME TypeInv, Safe, SIdle PROVE Safe'
<1>1. /\ UNCHANGED <<rcv, toR, toS, sent, delivered>> /\ snd.state = "IDLE" /\ next \in Blocks
      /\ next' = next + 1
  BY DEF SIdle, outcome
<1>2. /\ snd'.state = "SEND_RTS" /\ snd'.blk = next /\ snd'.total = Totals[next]
      /\ snd'.acked = snd.acked /\ Active' /\ ~Active /\ (Listening' <=> Listening)
  BY <1>1 DEF SIdle, TypeInv, TypeOK, SenderType, Active, Listening
<1>3. /\ Listening /\ toS = <<>> /\ ~snd.acked /\ rcv.list = <<>>
      /\ \A i \in DOMAIN toR : ~IsType(i, "RTS")
  BY <1>1 DEF Safe, SenderInv, ReceiverInv
<1>4. \A i \in DOMAIN toR : ~IsType(i, "DATA")
  BY <1>3 DEF Safe, RoundInv, Streaming
<1>5. Remaining' = {}
  BY <1>2 DEF Remaining
<1>6. \A b : WasDelivered(b)' <=> WasDelivered(b)
  BY <1>1 DEF WasDelivered
<1>7. ~WasDelivered(next)
  <2>. SUFFICES ASSUME NEW k \in DOMAIN delivered, delivered[k] = Whole(next) PROVE FALSE
    BY DEF WasDelivered
  <2>1. PICK b \in Blocks : b < next /\ delivered[k] = Whole(b)
    BY DEF Safe, HistoryInv, InOrder
  <2>2. b = next
    BY <1>1, <2>1, WholeDiffers
  <2>. QED
    BY <1>1, <2>1, <2>2, Consts
<1>8. ~Done'
  BY <1>2, <1>6, <1>7 DEF Done
<1>9. HistoryInv'
  <2>1. next \in Nat /\ \A b \in Blocks : b \in Nat
    BY <1>1, Consts
  <2>2. \A b \in Blocks : b >= next' \/ (Active' /\ b = snd'.blk) => sent'[b] = "pending"
    BY <1>1, <1>2, <2>1 DEF Safe, HistoryInv, InOrder
  <2>3. snd'.blk = next' - 1 /\ snd'.total = Totals[snd'.blk]
    BY <1>1, <1>2, <2>1
  <2>4. \A k \in DOMAIN delivered' : \E b \in Blocks : b < next' /\ delivered'[k] = Whole(b)
    BY <1>1, <2>1 DEF Safe, HistoryInv, InOrder
  <2>5. InOrder' /\ \A b \in Blocks : sent'[b] = "ok" => WasDelivered(b)'
    BY <1>1, <1>6 DEF Safe, HistoryInv, InOrder
  <2>. QED
    BY <2>2, <2>3, <2>4, <2>5 DEF HistoryInv
<1>10. SenderInv'
  BY <1>1, <1>2, <1>3 DEF SenderInv, IsType
<1>11. RtsInv' /\ RoundInv'
  BY <1>1, <1>3, <1>4, <1>5 DEF RtsInv, RoundInv, IsType
<1>12. AckInv'
  BY <1>1, <1>3 DEF AckInv
<1>13. ReceiverInv' /\ DoneInv'
  BY <1>1, <1>2, <1>3, <1>8 DEF ReceiverInv, DoneInv, Listening
<1>14. TimeInv'
  BY <1>1, <1>2, <1>3 DEF Safe, TimeInv, Listening
<1>. QED
  BY <1>9, <1>10, <1>11, <1>12, <1>13, <1>14 DEF Safe

\* SEND_RTS: the only announcement under way, and the first of the packets when
\* the receiver has taken an earlier one.
LEMMA SafeSendRTS == ASSUME TypeInv, Safe, SendRTS PROVE Safe'
<1>. DEFINE rts == [type |-> "RTS", total |-> snd.total]
<1>1. /\ UNCHANGED <<rcv, toS, next, sent, delivered>> /\ snd.state = "SEND_RTS"
      /\ toR' = Append(toR, Fly(rts))
  BY DEF SendRTS, outcome
<1>2. /\ snd'.state = "WAIT_ACK" /\ snd'.blk = snd.blk /\ snd'.total = snd.total
      /\ snd'.acked = snd.acked /\ snd'.time = 0
      /\ Active' /\ Active /\ (Listening' <=> Listening)
  BY <1>1 DEF SendRTS, TypeInv, TypeOK, SenderType, Active, Listening
<1>3. /\ Remaining' = {} /\ (Done' <=> Done) /\ \A b : WasDelivered(b)' <=> WasDelivered(b)
  BY <1>1, <1>2 DEF Remaining, Done, WasDelivered
<1>4. /\ ~snd.acked /\ (IF Listening THEN toS = <<>> ELSE toR = <<>>)
      /\ \A i \in DOMAIN toR : toR[i].m.type # "RTS"
  BY <1>1 DEF Safe, SenderInv, IsType
<1>5. ~Done /\ rcv.state # "PROCESS_DATA"
  BY <1>4 DEF Safe, DoneInv, ReceiverInv
<1>6. \A i \in DOMAIN toR : toR[i].m.type # "DATA"
  BY <1>4 DEF Safe, RoundInv, Streaming, IsType
<1>7. /\ DOMAIN toR = 1..Len(toR) /\ Len(toR) \in Nat
      /\ DOMAIN toR' = 1..(Len(toR) + 1)
      /\ \A i \in DOMAIN toR : toR'[i] = toR[i]
      /\ toR'[Len(toR) + 1].m = rts /\ toR'[Len(toR) + 1].ttl = MaxDelay
  <2>1. rts \in ToRMessages
    BY Fields DEF ToRMessages
  <2>2. Fly(rts) \in Flight(ToRMessages) /\ Fly(rts).m = rts /\ Fly(rts).ttl = MaxDelay
    BY <2>1, Flying
  <2>. QED
    BY <1>1, <2>2, AppendIs DEF TypeInv
<1>8. \A i \in DOMAIN toR' :
        \/ i \in DOMAIN toR /\ toR'[i] = toR[i] /\ i <= Len(toR)
        \/ i = Len(toR) + 1 /\ toR'[i].m = rts /\ toR'[i].ttl = MaxDelay
  BY <1>7
<1>9. \A i \in DOMAIN toR' : toR'[i].m.type = "RTS" => i = Len(toR) + 1 /\ toR'[i].m = rts
  BY <1>4, <1>8
<1>10. \A i \in DOMAIN toR' : toR'[i].m.type # "DATA"
  BY <1>6, <1>8
<1>11. HistoryInv'
  BY <1>1, <1>2, <1>3 DEF Safe, HistoryInv, InOrder
<1>12. SenderInv'
  BY <1>2 DEF SenderInv
<1>13. RtsInv'
  <2>1. ~Listening => Len(toR) + 1 = 1
    BY <1>4
  <2>. QED
    BY <1>1, <1>2, <1>4, <1>5, <1>9, <2>1 DEF RtsInv, IsType
<1>14. RoundInv'
  BY <1>3, <1>10 DEF RoundInv, IsType
<1>15. AckInv'
  BY <1>1, <1>2, <1>3 DEF Safe, AckInv
<1>16. ReceiverInv' /\ DoneInv'
  BY <1>1, <1>2, <1>3, <1>5 DEF Safe, ReceiverInv, DoneInv
<1>17. TimeInv'
  <2>1. \A i \in DOMAIN toR : toR[i].ttl \in 0..MaxDelay
    BY Elements
  <2>2. \A i \in DOMAIN toR' : toR'[i].ttl \in 0..MaxDelay
    BY <1>8, <2>1, Consts
  <2>3. \A i, j \in DOMAIN toR' : i < j => toR'[i].ttl <= toR'[j].ttl
    <3>1. SUFFICES ASSUME NEW i \in DOMAIN toR', NEW j \in DOMAIN toR', i < j
                   PROVE  toR'[i].ttl <= toR'[j].ttl
      OBVIOUS
    <3>2. i \in DOMAIN toR /\ toR'[i] = toR[i]
      BY <1>7, <3>1
    <3>3. CASE j \in DOMAIN toR
      BY <1>7, <3>1, <3>2, <3>3 DEF Safe, TimeInv
    <3>4. CASE j \notin DOMAIN toR
      BY <1>8, <2>1, <3>2, <3>4
    <3>. QED
      BY <3>3, <3>4
  <2>4. snd'.time = 0 /\ \A i \in DOMAIN toR' : snd'.time + toR'[i].ttl <= MaxDelay
    BY <1>2, <2>2, Consts
  <2>. QED
    BY <1>1, <1>2, <1>3, <1>4, <1>5, <2>3, <2>4, Consts DEF Safe, TimeInv
<1>. QED
  BY <1>11, <1>12, <1>13, <1>14, <1>15, <1>16, <1>17 DEF Safe

\* An error of the sender, with nothing of a round under way: the block is
\* given up with the receiver back in LISTEN, or the sender waits on, or it
\* announces the block once more when the channel to the receiver is empty.
LEMMA SafeSFails ==
  ASSUME TypeInv, Safe, ~stranded', snd.state = "WAIT_ACK", NEW e \in SErrors, SFails(e),
         UNCHANGED <<rcv, toR, next, delivered>>,
         toS' = <<>> \/ (toS' = toS /\ ~Listening),
         \A i \in DOMAIN toR : ~IsType(i, "DATA"),
         Listening => \A i \in DOMAIN toR : ~IsType(i, "RTS"),
         e = "ACK_TIMEOUT" => toR = <<>>
  PROVE  Safe'
<1>1. /\ Active /\ (Listening' <=> Listening) /\ Remaining = {}
      /\ \A b : WasDelivered(b)' <=> WasDelivered(b)
  BY DEF Active, Listening, WasDelivered, Remaining
<1>2. /\ snd.blk = next - 1 /\ snd.blk \in Blocks /\ snd.total = Totals[snd.blk]
      /\ next \in Nat /\ \A b \in Blocks : b \in Nat
  BY <1>1, Consts DEF Safe, HistoryInv, TypeInv, TypeOK
<1>3. CASE snd.err[e] + 1 = MAX_ERRORS
  <2>1. /\ snd' = SReset /\ sent' = [sent EXCEPT ![snd.blk] = "failed"]
        /\ rcv.state = "LISTEN" /\ Listening
    BY <1>3, SErrorIs DEF SFails, Listening
  <2>2. snd'.state = "IDLE" /\ ~snd'.acked /\ ~Active' /\ ~Done' /\ toS' = <<>>
    BY <2>1 DEF SReset, Active, Done
  <2>3. Remaining' = {}
    BY <2>2 DEF Remaining
  <2>4. HistoryInv'
    <3>1. \A b \in Blocks : b >= next => b # snd.blk
      BY <1>2
    <3>2. \A b \in Blocks : sent'[b] = IF b = snd.blk THEN "failed" ELSE sent[b]
      BY <2>1 DEF TypeInv, TypeOK
    <3>3. \A b \in Blocks : b >= next' \/ (Active' /\ b = snd'.blk) => sent'[b] = "pending"
      BY <2>2, <3>1, <3>2 DEF Safe, HistoryInv, InOrder
    <3>4. \A b \in Blocks : sent'[b] = "ok" => WasDelivered(b)'
      BY <1>1, <3>2 DEF Safe, HistoryInv, InOrder
    <3>5. /\ \A k \in DOMAIN delivered' : \E b \in Blocks : b < next' /\ delivered'[k] = Whole(b)
          /\ InOrder'
      BY DEF Safe, HistoryInv, InOrder
    <3>. QED
      BY <2>2, <3>3, <3>4, <3>5 DEF HistoryInv
  <2>5. SenderInv'
    BY <1>1, <2>1, <2>2 DEF SenderInv, IsType
  <2>6. RtsInv' /\ RoundInv'
    BY <2>1, <2>3 DEF RtsInv, RoundInv, IsType
  <2>7. AckInv' /\ DoneInv'
    BY <2>2 DEF AckInv, DoneInv
  <2>8. ReceiverInv'
    BY <1>1, <2>1 DEF Safe, ReceiverInv, Listening
  <2>9. TimeInv'
    BY <2>1, <2>2 DEF Safe, TimeInv
  <2>. QED
    BY <2>4, <2>5, <2>6, <2>7, <2>8, <2>9 DEF Safe
<1>4. CASE snd.err[e] + 1 # MAX_ERRORS
  <2>1. /\ sent' = sent /\ snd'.blk = snd.blk /\ snd'.total = snd.total /\ snd'.mask = snd.mask
        /\ snd'.idx = snd.idx /\ snd'.acked = snd.acked
        /\ \/ snd'.state = "SEND_RTS" /\ ~snd.acked /\ toR = <<>>
           \/ snd'.state = "WAIT_ACK" /\ snd'.time = 0
    BY <1>4, SErrorIs DEF SFails, outcome
  <2>2. Active' /\ Remaining' = {} /\ (Done' <=> Done)
    BY <1>1, <2>1 DEF Active, Remaining, Done
  <2>3. HistoryInv'
    BY <1>1, <2>1, <2>2 DEF Safe, HistoryInv, InOrder
  <2>4. SenderInv'
    BY <1>1, <2>1 DEF SenderInv, IsType
  <2>5. RtsInv'
    BY <1>1, <2>1 DEF Safe, RtsInv, IsType
  <2>6. RoundInv'
    BY <2>2 DEF RoundInv, IsType
  <2>7. AckInv'
    BY <1>1, <2>1, <2>2 DEF Safe, AckInv
  <2>8. ReceiverInv'
    BY <1>1, <2>1, <2>2 DEF Safe, ReceiverInv
  <2>9. DoneInv'
    BY <1>1, <2>1, <2>2 DEF Safe, DoneInv, IsType
  <2>10. TimeInv'
    <3>1. \A i \in DOMAIN toR : toR[i].ttl \in 0..MaxDelay
      BY Elements
    <3>2. snd'.state = "WAIT_ACK" =>
            /\ \A i \in DOMAIN toR' : snd'.time + toR'[i].ttl <= MaxDelay
            /\ snd'.time <= MaxDelay
      BY <2>1, <3>1, Consts
    <3>. QED
      BY <1>1, <2>1, <2>2, <3>2 DEF Safe, TimeInv
  <2>. QED
    BY <2>3, <2>4, <2>5, <2>6, <2>7, <2>8, <2>9, <2>10 DEF Safe
<1>. QED
  BY <1>3, <1>4

\* The only element of a sequence leaves it empty.
LEMMA OneLeft ==
  ASSUME NEW S, NEW q \in Seq(S), q # <<>>, Len(q) <= 1
  PROVE  Tail(q) = <<>>
  OBVIOUS

\* An answer under way: nothing of a round is, and nothing else of an answer.
LEMMA Answered ==
  ASSUME TypeInv, Safe, toS # <<>>
  PROVE  /\ Tail(toS) = <<>> /\ Remaining = {} /\ \A i \in DOMAIN toR : ~IsType(i, "DATA")
         /\ Listening => \A i \in DOMAIN toR : ~IsType(i, "RTS")
         /\ rcv.state \in {"LISTEN", "RECEIVE_DATA"} /\ toS[1].ttl \in 0..MaxDelay
<1>1. Tail(toS) = <<>> /\ toS[1].ttl \in 0..MaxDelay
  <2>1. 1 \in DOMAIN toS /\ toS \in Seq(Flight(ToSMessages)) /\ Len(toS) <= 1
    BY TailIs DEF TypeInv, Safe, AckInv
  <2>2. Tail(toS) = <<>>
    BY <2>1, OneLeft
  <2>. QED
    BY <2>1, <2>2, Elements
<1>2. ~Streaming
  BY DEF Streaming
<1>3. Remaining = {} /\ \A i \in DOMAIN toR : ~IsType(i, "DATA")
  BY <1>2 DEF Safe, RoundInv
<1>4. Listening => \A i \in DOMAIN toR : ~IsType(i, "RTS")
  BY DEF Safe, RtsInv
<1>. QED
  BY <1>1, <1>3, <1>4 DEF Safe, AckInv

\* WAIT_ACK, a bad packet.
LEMMA SafeSBadPacket == ASSUME TypeInv, Safe, ~stranded', SBadPacket PROVE Safe'
<1>. DEFINE e == SCheck(toS[1].m)
<1>1. /\ snd.state = "WAIT_ACK" /\ toS # <<>> /\ toS' = Tail(toS) /\ SFails(e)
      /\ UNCHANGED <<rcv, toR, next, delivered>>
  BY DEF SBadPacket
<1>2. e \in SErrors /\ e # "ACK_TIMEOUT"
  BY ChecksNameErrors DEF SBadPacket, SCheck
<1>3. toS' = <<>> /\ (\A i \in DOMAIN toR : ~IsType(i, "DATA"))
      /\ (Listening => \A i \in DOMAIN toR : ~IsType(i, "RTS"))
  BY <1>1, Answered
<1>. HIDE DEF e
<1>. QED
  BY <1>1, <1>2, <1>3, SafeSFails

\* WAIT_ACK, too long without an answer: what was under way has arrived.
LEMMA SafeSTimeout == ASSUME TypeInv, Safe, Timely, ~stranded', STimeout PROVE Safe'
<1>1. /\ snd.state = "WAIT_ACK" /\ snd.time > S_WAIT /\ SFails("ACK_TIMEOUT")
      /\ UNCHANGED <<rcv, toR, toS, next, delivered>> /\ "ACK_TIMEOUT" \in SErrors
  BY DEF STimeout, SErrors
<1>2. snd.time > 2 * MaxDelay /\ snd.time > MaxDelay
  BY <1>1, Fields, Consts DEF Timely
<1>3. toR = <<>>
  <2>1. \A i \in DOMAIN toR : toR[i].ttl \in 0..MaxDelay /\ snd.time + toR[i].ttl <= MaxDelay
    BY <1>1, Elements DEF Safe, TimeInv
  <2>2. toR # <<>> => 1 \in DOMAIN toR
    BY TailIs DEF TypeInv
  <2>. QED
    BY <1>2, <2>1, <2>2, Fields, Consts
<1>4. Listening => toS = <<>>
  <2>1. Listening /\ toS # <<>> =>
          toS[1].ttl \in 0..MaxDelay /\ snd.time + toS[1].ttl <= 2 * MaxDelay
    BY <1>1, Answered DEF Safe, TimeInv
  <2>. QED
    BY <1>2, <2>1, Fields, Consts
<1>5. toS' = <<>> \/ (toS' = toS /\ ~Listening)
  BY <1>1, <1>4
<1>6. \A i \in DOMAIN toR : ~IsType(i, "DATA") /\ ~IsType(i, "RTS")
  BY <1>3
<1>. QED
  BY <1>1, <1>3, <1>5, <1>6, SafeSFails

\* WAIT_ACK, an answer: it asks for what the receiver misses now, or nothing is
\* missing because the block was put out.
LEMMA SafeSAck == ASSUME TypeInv, Safe, SAck PROVE Safe'
<1>. DEFINE ack == toS[1].m
<1>1. /\ snd.state = "WAIT_ACK" /\ toS # <<>> /\ toS' = Tail(toS)
      /\ UNCHANGED <<rcv, toR, next, delivered>> /\ snd.idx = 0 /\ Active
  BY DEF SAck, TypeInv, Active
<1>2. /\ ack.type = "ACK" /\ ack.total = snd.total
      /\ ack.mask \in SUBSET Nat /\ ack.need \in Int
  BY GoodAck DEF SAck
<1>3. /\ toS' = <<>> /\ Remaining = {} /\ \A i \in DOMAIN toR : ~IsType(i, "DATA")
      /\ Listening => \A i \in DOMAIN toR : ~IsType(i, "RTS")
      /\ rcv.state \in {"LISTEN", "RECEIVE_DATA"} /\ toS[1].ttl \in 0..MaxDelay
  BY <1>1, Answered
<1>4. /\ ack.need >= 0 /\ (ack.need = 0 <=> Done)
      /\ rcv.state = "RECEIVE_DATA" => ack.mask = rcv.mask
  BY <1>1, <1>2 DEF Safe, AckInv
<1>5. (Listening' <=> Listening) /\ \A b : WasDelivered(b)' <=> WasDelivered(b)
  BY <1>1 DEF Listening, WasDelivered
<1>6. AckInv'
  BY <1>3 DEF AckInv
<1>7. CASE ack.need > 0
  <2>1. /\ snd' = [snd EXCEPT !.state = "SEND_DATA", !.mask = ack.mask,
                     !.acked = TRUE, !.err = SReset.err]
        /\ sent' = sent
    BY <1>7 DEF SAck, outcome
  <2>2. /\ snd'.state = "SEND_DATA" /\ snd'.blk = snd.blk /\ snd'.total = snd.total
        /\ snd'.mask = ack.mask /\ snd'.idx = 0 /\ snd'.acked /\ Active'
    BY <1>1, <2>1 DEF TypeInv, TypeOK, SenderType, Active
  <2>3. ~Done' /\ ~Done
    BY <1>1, <1>4, <1>5, <1>7, <2>2 DEF Done
  <2>4. \A n \in Remaining' : n \notin ack.mask
    BY <2>2 DEF Remaining
  <2>5. Streaming'
    BY <1>1, <1>3, <2>2 DEF Streaming
  <2>6. HistoryInv'
    BY <1>1, <1>5, <2>1, <2>2 DEF Safe, HistoryInv, InOrder
  <2>7. SenderInv'
    BY <2>2 DEF SenderInv
  <2>8. RtsInv'
    BY <1>1, <1>3, <1>5, <2>2 DEF Safe, RtsInv, IsType
  <2>9. RoundInv'
    BY <1>1, <1>3, <1>4, <2>4, <2>5 DEF RoundInv, IsType
  <2>10. ReceiverInv'
    BY <1>1, <1>5, <2>2 DEF Safe, ReceiverInv
  <2>11. DoneInv'
    BY <2>3 DEF DoneInv
  <2>12. TimeInv'
    <3>1. rcv.state = "RECEIVE_DATA" => rcv.time <= MaxDelay
      <4>1. rcv.state = "RECEIVE_DATA" => rcv.time + toS[1].ttl <= MaxDelay
        BY <1>1 DEF Safe, TimeInv
      <4>. QED
        BY <1>3, <4>1, Fields, Consts
    <3>2. rcv.state = "RECEIVE_DATA" =>
            \A i \in DOMAIN toR : rcv.time + toR[i].ttl <= 2 * MaxDelay
      BY <3>1, Elements, Fields, Consts
    <3>. QED
      BY <1>1, <1>3, <2>2, <3>1, <3>2 DEF Safe, TimeInv
  <2>. QED
    BY <1>6, <2>6, <2>7, <2>8, <2>9, <2>10, <2>11, <2>12 DEF Safe
<1>8. CASE ~(ack.need > 0)
  <2>1. snd' = SReset /\ sent' = [sent EXCEPT ![snd.blk] = "ok"]
    BY <1>8 DEF SAck
  <2>2. snd'.state = "IDLE" /\ ~snd'.acked /\ ~Active' /\ ~Done'
    BY <2>1 DEF SReset, Active, Done
  <2>3. Done /\ Listening /\ rcv.state = "LISTEN" /\ WasDelivered(snd.blk)
    BY <1>2, <1>4, <1>8 DEF Safe, DoneInv, Done, Listening
  <2>4. Remaining' = {}
    BY <2>2 DEF Remaining
  <2>5. HistoryInv'
    <3>1. \A b \in Blocks : b >= next => b # snd.blk
      BY <1>1, Consts DEF Safe, HistoryInv, TypeInv, TypeOK
    <3>2. \A b \in Blocks : sent'[b] = IF b = snd.blk THEN "ok" ELSE sent[b]
      BY <2>1 DEF TypeInv, TypeOK
    <3>3. \A b \in Blocks : b >= next' \/ (Active' /\ b = snd'.blk) => sent'[b] = "pending"
      BY <1>1, <2>2, <3>1, <3>2 DEF Safe, HistoryInv, InOrder
    <3>4. \A b \in Blocks : sent'[b] = "ok" => WasDelivered(b)'
      BY <1>5, <2>3, <3>2 DEF Safe, HistoryInv, InOrder
    <3>5. /\ \A k \in DOMAIN delivered' : \E b \in Blocks : b < next' /\ delivered'[k] = Whole(b)
          /\ InOrder'
      BY <1>1 DEF Safe, HistoryInv, InOrder
    <3>. QED
      BY <2>2, <3>3, <3>4, <3>5 DEF HistoryInv
  <2>6. SenderInv'
    BY <1>1, <1>3, <1>5, <2>2, <2>3 DEF SenderInv, IsType
  <2>7. RtsInv' /\ RoundInv'
    BY <1>1, <1>3, <2>3, <2>4 DEF RtsInv, RoundInv, IsType
  <2>8. ReceiverInv' /\ DoneInv'
    BY <1>1, <1>5, <2>2, <2>3 DEF Safe, ReceiverInv, DoneInv
  <2>9. TimeInv'
    BY <1>1, <2>2, <2>3 DEF Safe, TimeInv
  <2>. QED
    BY <1>6, <2>5, <2>6, <2>7, <2>8, <2>9 DEF Safe
<1>. QED
  BY <1>7, <1>8

\* SEND_DATA: the next packet the receiver misses, or the end of the round.
LEMMA SafeSendData == ASSUME TypeInv, Safe, SendData PROVE Safe'
<1>. DEFINE n == SkipDelivered
            data == [type |-> "DATA", blk |-> snd.blk, number |-> n]
<1>1. /\ UNCHANGED <<rcv, toS, next, sent, delivered>> /\ snd.state = "SEND_DATA"
      /\ snd.acked /\ Active /\ (Listening' <=> Listening)
      /\ \A b : WasDelivered(b)' <=> WasDelivered(b)
  BY DEF SendData, outcome, Safe, SenderInv, Active, Listening, WasDelivered
<1>2. n \in snd.idx..snd.total /\ (n = snd.total \/ n \notin snd.mask)
  BY Fields, Skip DEF TypeInv
<1>3. \A i \in DOMAIN toR : IsType(i, "DATA") =>
        /\ Streaming /\ toR[i].m.blk = snd.blk
        /\ toR[i].m.number \in Nat /\ toR[i].m.number < snd.idx /\ toR[i].m.number < snd.total
        /\ rcv.state = "RECEIVE_DATA" => toR[i].m.number \notin rcv.mask
  BY <1>1, Elements DEF Safe, RoundInv, IsType
<1>4. CASE n = snd.total
  <2>1. snd' = [snd EXCEPT !.idx = 0, !.state = "WAIT_ACK", !.time = 0] /\ toR' = toR
    BY <1>4 DEF SendData
  <2>2. /\ snd'.state = "WAIT_ACK" /\ snd'.blk = snd.blk /\ snd'.total = snd.total
        /\ snd'.acked /\ snd'.time = 0 /\ Active'
    BY <1>1, <2>1 DEF TypeInv, TypeOK, SenderType, Active
  <2>3. Remaining' = {} /\ (Done' <=> Done) /\ (Streaming' <=> Streaming)
    BY <1>1, <2>2 DEF Remaining, Done, Streaming
  <2>4. HistoryInv'
    BY <1>1, <2>2 DEF Safe, HistoryInv, InOrder
  <2>5. SenderInv'
    BY <2>2 DEF SenderInv
  <2>6. RtsInv'
    BY <1>1, <2>1, <2>2 DEF Safe, RtsInv, IsType
  <2>7. RoundInv'
    BY <1>1, <1>3, <2>1, <2>2, <2>3 DEF Safe, RoundInv, IsType
  <2>8. AckInv'
    BY <1>1, <2>2, <2>3 DEF Safe, AckInv
  <2>9. ReceiverInv'
    BY <1>1, <2>2 DEF Safe, ReceiverInv
  <2>10. DoneInv'
    BY <1>1, <2>1, <2>2, <2>3 DEF Safe, DoneInv, IsType
  <2>11. TimeInv'
    <3>1. \A i \in DOMAIN toR : toR[i].ttl \in 0..MaxDelay
      BY Elements
    <3>2. toS # <<>> => toS[1].ttl \in 0..MaxDelay
      BY Answered
    <3>3. /\ \A i \in DOMAIN toR' : snd'.time + toR'[i].ttl <= MaxDelay
          /\ toS' # <<>> => snd'.time + toS'[1].ttl <= 2 * MaxDelay
          /\ snd'.time <= MaxDelay
      BY <1>1, <2>1, <2>2, <3>1, <3>2, Consts
    <3>. QED
      BY <1>1, <2>1, <2>2, <2>3, <3>3 DEF Safe, TimeInv
  <2>. QED
    BY <2>4, <2>5, <2>6, <2>7, <2>8, <2>9, <2>10, <2>11 DEF Safe
<1>5. CASE n # snd.total
  <2>1. snd' = [snd EXCEPT !.idx = n + 1] /\ toR' = Append(toR, Fly(data))
    BY <1>5 DEF SendData
  <2>2. /\ snd'.state = "SEND_DATA" /\ snd'.blk = snd.blk /\ snd'.total = snd.total
        /\ snd'.mask = snd.mask /\ snd'.idx = n + 1 /\ snd'.acked /\ Active'
    BY <1>1, <2>1 DEF TypeInv, TypeOK, SenderType, Active
  <2>3. n \in Nat /\ snd.idx <= n /\ n < snd.total /\ n \notin snd.mask /\ n \in Remaining
    BY <1>1, <1>2, <1>5, Fields DEF Remaining
  <2>4. /\ Streaming /\ toS = <<>> /\ ~Done
        /\ rcv.state = "RECEIVE_DATA" => n \notin rcv.mask /\ rcv.time <= MaxDelay
    BY <2>3 DEF Safe, RoundInv, DoneInv, TimeInv, Streaming
  <2>5. Streaming' /\ ~Done'
    BY <1>1, <2>2, <2>4 DEF Streaming, Done
  <2>6. \A r \in Remaining' : (r \in Remaining /\ rcv.state = "RECEIVE_DATA") => r \notin rcv.mask
    BY DEF Safe, RoundInv
  <2>7. \A r \in Remaining' : r \in Remaining
    BY <1>1, <2>2, <2>3, Fields DEF Remaining
  <2>8. /\ DOMAIN toR = 1..Len(toR) /\ Len(toR) \in Nat
        /\ DOMAIN toR' = 1..(Len(toR) + 1)
        /\ \A i \in DOMAIN toR : toR'[i] = toR[i]
        /\ toR'[Len(toR) + 1].m = data /\ toR'[Len(toR) + 1].ttl = MaxDelay
    <3>1. data \in ToRMessages
      BY <1>1, <2>3 DEF ToRMessages, TypeInv
    <3>2. Fly(data) \in Flight(ToRMessages) /\ Fly(data).m = data /\ Fly(data).ttl = MaxDelay
      BY <3>1, Flying
    <3>. QED
      BY <2>1, <3>2, AppendIs DEF TypeInv
  <2>9. /\ data.type = "DATA" /\ data.blk = snd.blk /\ data.number = n
    OBVIOUS
  <2>. HIDE DEF data, n
  <2>10. \A i \in DOMAIN toR' :
           \/ i \in DOMAIN toR /\ toR'[i] = toR[i] /\ i <= Len(toR)
           \/ i = Len(toR) + 1 /\ toR'[i].m = data /\ toR'[i].ttl = MaxDelay
    BY <2>8
  <2>11. HistoryInv'
    BY <1>1, <2>2 DEF Safe, HistoryInv, InOrder
  <2>12. SenderInv'
    BY <2>2 DEF SenderInv
  <2>13. RtsInv'
    <3>1. \A i \in DOMAIN toR' : toR'[i].m.type = "RTS" => i \in DOMAIN toR /\ toR'[i] = toR[i]
      BY <2>9, <2>10
    <3>2. ASSUME NEW i \in DOMAIN toR', NEW j \in DOMAIN toR',
                 toR'[i].m.type = "RTS", toR'[j].m.type = "RTS"
          PROVE  i = j
      BY <3>1, <3>2 DEF Safe, RtsInv, IsType
    <3>3. ASSUME NEW i \in DOMAIN toR', toR'[i].m.type = "RTS"
          PROVE  /\ toR'[i].m.total = snd'.total
                 /\ IF Listening' THEN ~snd'.acked /\ toS' = <<>>
                                  ELSE i = 1 /\ rcv'.state # "PROCESS_DATA"
      BY <1>1, <2>2, <3>1, <3>3 DEF Safe, RtsInv, IsType
    <3>. QED
      BY <3>2, <3>3 DEF RtsInv, IsType
  <2>14. RoundInv'
    <3>1. ASSUME NEW i \in DOMAIN toR', toR'[i].m.type = "DATA"
          PROVE  /\ toR'[i].m.blk = snd.blk /\ toR'[i].m.number < snd.total
                 /\ toR'[i].m.number < n + 1
                 /\ rcv.state = "RECEIVE_DATA" => toR'[i].m.number \notin rcv.mask
      <4>1. CASE i \in DOMAIN toR /\ toR'[i] = toR[i]
        BY <1>3, <2>3, <3>1, <4>1, Fields DEF IsType
      <4>2. CASE toR'[i].m = data
        BY <2>3, <2>4, <2>9, <4>2
      <4>. QED
        BY <2>10, <4>1, <4>2
    <3>2. ASSUME NEW i \in DOMAIN toR', NEW j \in DOMAIN toR',
                 toR'[i].m.type = "DATA", toR'[j].m.type = "DATA", i < j
          PROVE  toR'[i].m.number < toR'[j].m.number
      <4>1. i \in DOMAIN toR /\ toR'[i] = toR[i]
        BY <2>8, <3>2
      <4>2. CASE j \in DOMAIN toR
        BY <2>8, <3>2, <4>1, <4>2 DEF Safe, RoundInv, IsType
      <4>3. CASE j \notin DOMAIN toR
        <5>1. toR'[j].m.number = n
          BY <2>9, <2>10, <4>3
        <5>2. toR[i].m.number \in Nat /\ toR[i].m.number < snd.idx
          BY <1>3, <3>2, <4>1 DEF IsType
        <5>. QED
          BY <2>3, <4>1, <5>1, <5>2, Fields
      <4>. QED
        BY <4>2, <4>3
    <3>. QED
      BY <1>1, <2>2, <2>5, <2>6, <2>7, <3>1, <3>2 DEF RoundInv, IsType
  <2>15. AckInv'
    BY <1>1, <2>4 DEF AckInv
  <2>16. ReceiverInv'
    BY <1>1, <2>2 DEF Safe, ReceiverInv
  <2>17. DoneInv'
    BY <2>5 DEF DoneInv
  <2>18. TimeInv'
    <3>1. \A i \in DOMAIN toR : toR[i].ttl \in 0..MaxDelay
      BY Elements
    <3>2. \A i, j \in DOMAIN toR' : i < j => toR'[i].ttl <= toR'[j].ttl
      <4>1. SUFFICES ASSUME NEW i \in DOMAIN toR', NEW j \in DOMAIN toR', i < j
                     PROVE  toR'[i].ttl <= toR'[j].ttl
        OBVIOUS
      <4>2. i \in DOMAIN toR /\ toR'[i] = toR[i]
        BY <2>8, <4>1
      <4>3. CASE j \in DOMAIN toR
        BY <2>8, <4>1, <4>2, <4>3 DEF Safe, TimeInv
      <4>4. CASE j \notin DOMAIN toR
        BY <2>10, <3>1, <4>2, <4>4
      <4>. QED
        BY <4>3, <4>4
    <3>3. rcv.state = "RECEIVE_DATA" =>
            \A i \in DOMAIN toR' : rcv.time + toR'[i].ttl <= 2 * MaxDelay
      <4>1. \A i \in DOMAIN toR' : toR'[i].ttl \in 0..MaxDelay
        BY <2>10, <3>1, Consts
      <4>. QED
        BY <2>4, <4>1, Fields, Consts
    <3>. QED
      BY <1>1, <2>2, <2>4, <3>2, <3>3 DEF TimeInv
  <2>. QED
    BY <2>11, <2>12, <2>13, <2>14, <2>15, <2>16, <2>17, <2>18 DEF Safe
<1>. QED
  BY <1>4, <1>5

-----------------------------------------------------------------------------
\* A given-up reception is not forgotten.
LEMMA StaysStranded == ASSUME TypeInv, [Next]_vars, stranded PROVE stranded'
<1>1. CASE SBadPacket \/ STimeout
  BY <1>1 DEF SBadPacket, STimeout, SFails, outcome
<1>2. CASE SAck
  BY <1>2 DEF SAck, outcome
<1>3. CASE SIdle \/ SendRTS \/ SendData
  BY <1>3 DEF SIdle, SendRTS, SendData, outcome
<1>4. CASE Receiver
  BY <1>4 DEF Receiver, RListen, SendACK, RBadPacket, RData, RTimeout, ProcessData, outcome
<1>5. CASE Lose \/ Spoil \/ Tick \/ UNCHANGED vars
  BY <1>5 DEF Lose, Spoil, Tick, vars, outcome
<1>. QED
  BY <1>1, <1>2, <1>3, <1>4, <1>5 DEF Next, Sender

\* A step that changes nothing.
LEMMA SafeStutter == ASSUME Safe, UNCHANGED vars PROVE Safe'
<1>1. UNCHANGED <<snd, rcv, toR, toS, next, sent, delivered>>
  BY DEF vars, outcome
<1>2. /\ Remaining' = Remaining /\ (Done' <=> Done) /\ (Active' <=> Active)
      /\ (Listening' <=> Listening) /\ (Streaming' <=> Streaming)
      /\ \A b : WasDelivered(b)' <=> WasDelivered(b)
  BY <1>1 DEF Remaining, Done, WasDelivered, Active, Listening, Streaming
<1>3. HistoryInv' /\ SenderInv' /\ RtsInv' /\ RoundInv'
  BY <1>1, <1>2 DEF Safe, HistoryInv, InOrder, SenderInv, RtsInv, RoundInv,
     IsType
<1>4. AckInv' /\ ReceiverInv' /\ DoneInv' /\ TimeInv'
  BY <1>1, <1>2 DEF Safe, AckInv, ReceiverInv, DoneInv, TimeInv, IsType
<1>. QED
  BY <1>3, <1>4 DEF Safe

\* Every step keeps the invariant, unless it gives up a block the receiver is
\* busy with.
LEMMA SafeStep == ASSUME TypeInv, Safe, Timely, ~stranded', [Next]_vars PROVE Safe'
<1>1. CASE Sender
  BY <1>1, SafeSIdle, SafeSendRTS, SafeSBadPacket, SafeSAck, SafeSTimeout, SafeSendData
     DEF Sender
<1>2. CASE Receiver
  BY <1>2, SafeRListen, SafeSendACK, SafeRBadPacket, SafeRData, SafeRTimeout, SafeProcessData
     DEF Receiver
<1>3. CASE Lose \/ Spoil \/ Tick \/ UNCHANGED vars
  BY <1>3, SafeLose, SafeSpoil, SafeTick, SafeStutter
<1>. QED
  BY <1>1, <1>2, <1>3 DEF Next

\* The invariant holds of every behaviour over a channel in time, as long as no
\* block was given up while the receiver was busy with it.
THEOREM Invariance == ASSUME Timely PROVE Spec => [](TypeInv /\ (~stranded => Safe))
<1>1. Init => TypeInv /\ (~stranded => Safe)
  BY TypesInit, SafeInit
<1>2. TypeInv /\ (~stranded => Safe) /\ [Next]_vars => (TypeInv /\ (~stranded => Safe))'
  <2>1. SUFFICES ASSUME TypeInv, ~stranded => Safe, [Next]_vars
                 PROVE  TypeInv' /\ (~stranded' => Safe')
    OBVIOUS
  <2>2. TypeInv'
    BY <2>1, TypesStep
  <2>3. ~stranded' => ~stranded
    BY <2>1, StaysStranded
  <2>. QED
    BY <2>1, <2>2, <2>3, SafeStep
<1>. QED
  BY <1>1, <1>2, PTL DEF Spec

\* Blocks arrive whole, whatever number of packets is lost or damaged: nothing
\* of an earlier round or of another block gets into the receiver's list.
THEOREM Intact == ASSUME Timely PROVE Spec => []DeliveredIntact
<1>1. TypeInv /\ (~stranded => Safe) => DeliveredIntact
  BY DEF DeliveredIntact, Safe, HistoryInv
<1>. QED
  BY <1>1, Invariance, PTL

\* An acknowledged block was put out: an ACK that asks for nothing is an ACK of
\* the block the sender waits for.
THEOREM AckTrue == ASSUME Timely PROVE Spec => []AckMeansDelivered
<1>1. TypeInv /\ (~stranded => Safe) => AckMeansDelivered
  BY DEF AckMeansDelivered, Safe, HistoryInv, WasDelivered
<1>. QED
  BY <1>1, Invariance, PTL

\* No block is put out twice or after a later one: when it is put out, nothing
\* that could open it again is under way.
THEOREM Ordered == ASSUME Timely PROVE Spec => []DeliveredInOrder
<1>1. TypeInv /\ (~stranded => Safe) => DeliveredInOrder
  BY DEF DeliveredInOrder, Safe, HistoryInv, InOrder
<1>. QED
  BY <1>1, Invariance, PTL
=============================================================================
