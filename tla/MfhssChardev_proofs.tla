------------------------- MODULE MfhssChardev_proofs -------------------------
(***************************************************************************)
(* Proofs about the character driver, for any finite set of programs and   *)
(* any bounds.  While the flag word was not raced for, one program is      *)
(* inside, nobody holds an old copy of the word (Sole), and the signals    *)
(* of a reception or a completion that are on their way, from the status   *)
(* register through the handler to the flag, are one at most (Received,    *)
(* Completion).                                                            *)
(***************************************************************************)
EXTENDS MfhssChardev, FiniteSetTheorems, TLAPS

Types ==
  /\ word \in Words /\ isrword \in Words /\ reg \in [Users -> Words]
  /\ irq \in [rx : Int, tx : Int]
  /\ pc \in [Users -> Places]
  /\ isr \in {"idle", "rx", "tx", "rx_next", "tx_next"} /\ todo \in Nat
  /\ dma_sr \in 0..1 /\ mlip_sr \in 0..1 /\ dst \in {"empty", "new", "old"}
  /\ hw \in Seq(Users \X (0..MaxWrites))
  /\ aired \in [Users -> 0..MaxWrites]
  /\ next \in [Users -> 1..(MaxWrites + 1)]
  /\ tries \in 0..MaxTries /\ half \in 0..MaxHalf
  /\ ghosts \subseteq Kinds
  /\ \A u \in Users : pc[u] \in {"write", "write_loaded"} => next[u] <= MaxWrites

\* IrqsBalanced, with names for its sets.
RxUsers == {u \in Users : HasRx(u)}
TxUsers == {u \in Users : HasTx(u)}

Counted ==
  /\ irq.rx = Cardinality(RxUsers) + half
  /\ irq.tx = Cardinality(TxUsers)

\* free_irq waits for the line it frees, which owes no more runs than it has
\* requests.
Handlers ==
  /\ Serving("rx") => todo < irq.rx
  /\ Serving("tx") => todo < irq.tx
  /\ isr \in {"rx_next", "tx_next"} => todo > 0

\* A device that is marked open has somebody who will mark it closed.
Marked ==
  half = 0 /\ word["is_open"] = 1 => \E u \in Users : pc[u] \notin {"out", "tested"}

\* One program at a time, and every copy of the flag word is up to date.
Sole ==
  "raced" \notin ghosts =>
    /\ \A u, v \in Users : pc[u] # "out" /\ pc[v] # "out" => u = v
    /\ isr \in {"rx", "tx"} => isrword = word /\ \A u \in Users : pc[u] \notin Loaded
    /\ \A u \in Users :
         /\ pc[u] \in Loaded => reg[u] = word
         /\ pc[u] \in Inside \cup Leaving => word["is_open"] = 1

Copying == \E u \in Users : pc[u] \in {"copied", "read_loaded"}

\* The signals of a reception that are on their way: a later run of the handler
\* signals the frame once more, but no frame that has been read.
Received ==
  ghosts \cap {"raced", "overrun", "signal", "again"} = {} =>
    /\ dst # "new" => dma_sr = 0
    /\ dst # "new" \/ dma_sr = 1 =>
         (isr # "rx" /\ word["rx_interrupt"] = 0) \/ Copying

\* The frame of a write and the one signal of its completion.
Completion ==
  ghosts \cap {"raced", "timeout", "signal"} = {} =>
    /\ \A u \in Users :
         /\ pc[u] \notin {"write", "write_loaded"} => aired[u] = next[u] - 1
         /\ pc[u] = "write" =>
              \/ /\ hw = <<<<u, next[u]>>>> /\ aired[u] = next[u] - 1
                 /\ mlip_sr = 0 /\ isr # "tx" /\ word["tx_interrupt"] = 0
              \/ /\ hw = <<>> /\ aired[u] = next[u]
                 /\ mlip_sr = 1 => isr # "tx" /\ word["tx_interrupt"] = 0
                 /\ isr = "tx" => word["tx_interrupt"] = 0
         /\ pc[u] = "write_loaded" =>
              hw = <<>> /\ aired[u] = next[u] /\ mlip_sr = 0 /\ isr # "tx"
    /\ (\A u \in Users : pc[u] \notin {"write", "write_loaded"}) =>
         hw = <<>> /\ mlip_sr = 0 /\ isr # "tx" /\ word["tx_interrupt"] = 0

IInv == Types /\ Counted /\ Handlers /\ Marked /\ Sole /\ UnreadIsSignalled /\ Received
        /\ Completion

\* Nobody is in a set of users that is empty.
LEMMA NobodyCounted == Cardinality({}) = 0
BY FS_EmptySet

\* The initial states satisfy the inductive invariant.
LEMMA InitHolds == Init => IInv
PROOF
<1>. SUFFICES ASSUME Init PROVE IInv
  OBVIOUS
<1>1. Types
  BY UsersAssumption DEF Init, Types, Words, Zero, Flags, Places, Kinds
<1>2. Counted
  <2>1. RxUsers = {} /\ TxUsers = {}
    BY DEF Init, RxUsers, TxUsers, HasRx, HasTx, Opening, Inside
  <2>. QED
    BY <2>1, NobodyCounted DEF Init, Counted
<1>3. Handlers /\ Marked /\ UnreadIsSignalled
  BY DEF Init, Handlers, Serving, Marked, UnreadIsSignalled, Zero, Flags
<1>4. Sole
  BY DEF Init, Sole, Loaded, Inside, Leaving
<1>5. Received /\ Completion
  BY DEF Init, Received, Completion, Zero, Flags
<1>. QED
  BY <1>1, <1>2, <1>3, <1>4, <1>5 DEF IInv

\* The set of users is finite, and so are its parts.
LEMMA UsersFinite ==
  /\ IsFiniteSet(RxUsers) /\ Cardinality(RxUsers) \in Nat
  /\ IsFiniteSet(TxUsers) /\ Cardinality(TxUsers) \in Nat
PROOF
<1>1. RxUsers \in SUBSET Users /\ TxUsers \in SUBSET Users
  BY DEF RxUsers, TxUsers
<1>. QED
  BY <1>1, UsersAssumption, FS_Subset, FS_CardinalityType

\* No step leaves the types.
LEMMA TypesStep ==
  ASSUME Types, Handlers, [Next]_vars
  PROVE  Types'
PROOF
<1>. USE UsersAssumption
<1>1. CASE RxFrame
  BY <1>1 DEF RxFrame, Note, handler, counts, Types, Words, Zero, Flags, Kinds, Places,
       Opening, Loaded, Inside, Leaving
<1>2. CASE HwDone
  <2>1. Head(hw) \in Users \X (0..MaxWrites) /\ hw' \in Seq(Users \X (0..MaxWrites))
    BY <1>2 DEF HwDone, Types
  <2>2. \A u \in Users : Head(hw) = <<u, aired[u] + 1>> => aired[u] + 1 \in 0..MaxWrites
    BY <2>1
  <2>3. aired' \in [Users -> 0..MaxWrites]
    <3>1. \A u \in Users : aired'[u] \in 0..MaxWrites
      BY <1>2, <2>2 DEF HwDone, Types
    <3>2. aired' = [u \in Users |-> aired'[u]]
      BY <1>2 DEF HwDone
    <3>. QED
      BY <3>1, <3>2
  <2>4. mlip_sr' \in 0..1 /\ UNCHANGED <<word, irq, pc, reg, isr, isrword, todo, dma_sr, dst,
                                        next, tries, half, ghosts>>
    BY <1>2 DEF HwDone, handler, counts
  <2>. QED
    BY <2>1, <2>3, <2>4 DEF Types
<1>3. CASE IrqRx
  BY <1>3 DEF IrqRx, RxRun, Hits, Note, Loaded, counts, Types, Words, Zero, Flags, Kinds,
       Places, Opening, Inside, Leaving
<1>4. CASE IrqTx
  BY <1>4 DEF IrqTx, TxRun, Hits, Note, Loaded, counts, Types, Words, Zero, Flags, Kinds,
       Places, Opening, Inside, Leaving
<1>5. CASE IrqStore
  BY <1>5 DEF IrqStore, io, counts, Types, Words, Zero, Flags, Kinds, Places, Opening,
       Loaded, Inside, Leaving
<1>6. ASSUME NEW u \in Users, OpenTest(u) PROVE Types'
  BY <1>6 DEF OpenTest, Note, Opening, io, handler, counts, Goto, Types, Words, Zero,
       Flags, Kinds, Places, Loaded, Inside, Leaving
<1>7. ASSUME NEW u \in Users, OpenRx(u) PROVE Types'
  <2>1. irq' \in [rx : Int, tx : Int]
    BY <1>7 DEF OpenRx, Types
  <2>2. pc' \in [Users -> Places]
    BY <1>7 DEF OpenRx, Goto, Types, Places, Opening, Inside, Leaving
  <2>3. \A v \in Users : pc'[v] \in {"write", "write_loaded"} => pc[v] = pc'[v]
    BY <1>7 DEF OpenRx, Goto, Types
  <2>4. half' \in 0..MaxHalf
    BY <1>7 DEF OpenRx, counts, Types
  <2>5. todo' \in Nat
    BY <1>7 DEF OpenRx, Owed, Types
  <2>. QED
    BY <1>7, <2>1, <2>2, <2>3, <2>4, <2>5 DEF OpenRx, io, counts, Types
<1>8. ASSUME NEW u \in Users, OpenTx(u) PROVE Types'
  <2>1. irq' \in [rx : Int, tx : Int]
    BY <1>8 DEF OpenTx, Types
  <2>2. pc' \in [Users -> Places]
    BY <1>8 DEF OpenTx, Goto, Types, Places, Opening, Inside, Leaving
  <2>3. \A v \in Users : pc'[v] \in {"write", "write_loaded"} => pc[v] = pc'[v]
    BY <1>8 DEF OpenTx, Goto, Types
  <2>4. half' \in 0..MaxHalf
    BY <1>8 DEF OpenTx, counts, Types
  <2>5. todo' \in Nat
    BY <1>8 DEF OpenTx, Owed, Types
  <2>. QED
    BY <1>8, <2>1, <2>2, <2>3, <2>4, <2>5 DEF OpenTx, io, counts, Types
<1>9. ASSUME NEW u \in Users, OpenLoad(u) PROVE Types'
  BY <1>9 DEF OpenLoad, Load, Collides, Note, io, handler, counts, Goto, Types, Words,
       Zero, Flags, Kinds, Places, Opening, Loaded, Inside, Leaving
<1>10. ASSUME NEW u \in Users, OpenStore(u) PROVE Types'
  BY <1>10 DEF OpenStore, Store, io, handler, counts, Goto, Types, Words, Zero, Flags,
       Kinds, Places, Opening, Loaded, Inside, Leaving
<1>11. ASSUME NEW u \in Users, Read(u) PROVE Types'
  BY <1>11 DEF Read, Talks, io, handler, counts, Goto, Types, Words, Zero, Flags, Kinds,
       Places, Opening, Loaded, Inside, Leaving
<1>12. ASSUME NEW u \in Users, ReadTimeout(u) PROVE Types'
  BY <1>12 DEF ReadTimeout, io, handler, counts, Goto, Types, Words, Zero, Flags, Kinds,
       Places, Opening, Loaded, Inside, Leaving
<1>13. ASSUME NEW u \in Users, ReadCopy(u) PROVE Types'
  BY <1>13 DEF ReadCopy, Note, io, handler, counts, Goto, Types, Words, Zero, Flags,
       Kinds, Places, Opening, Loaded, Inside, Leaving
<1>14. ASSUME NEW u \in Users, ReadLoad(u) PROVE Types'
  BY <1>14 DEF ReadLoad, Load, Collides, Note, io, handler, counts, Goto, Types, Words,
       Zero, Flags, Kinds, Places, Opening, Loaded, Inside, Leaving
<1>15. ASSUME NEW u \in Users, ReadStore(u) PROVE Types'
  BY <1>15 DEF ReadStore, Store, Note, io, handler, counts, Goto, Types, Words, Zero,
       Flags, Kinds, Places, Opening, Loaded, Inside, Leaving
<1>16. ASSUME NEW u \in Users, Write(u) PROVE Types'
  <2>. DEFINE S == Users \X (0..MaxWrites)
              f == <<u, next[u]>>
              g == [i \in DOMAIN hw |-> <<hw[i][1], 0>>]
  <2>1. f \in S /\ hw \in Seq(S)
    BY <1>16 DEF Write, Types
  <2>2. g \in Seq(S)
    <3>1. \A i \in 1..Len(hw) : hw[i] \in S
      BY <2>1
    <3>2. \A i \in 1..Len(hw) : <<hw[i][1], 0>> \in S
      BY <3>1
    <3>. QED
      BY <2>1, <3>2
  <2>3. hw' \in Seq(S)
    <3>. HIDE DEF f, g, S
    <3>1. hw' \in {Append(hw, f), Append(g, f), <<f>>}
      BY <1>16 DEF Write, Started, f, g
    <3>2. Append(hw, f) \in Seq(S) /\ Append(g, f) \in Seq(S)
      BY <2>1, <2>2
    <3>3. <<f>> \in Seq(S)
      BY <2>1
    <3>. QED
      BY <3>1, <3>2, <3>3
  <2>4. pc' \in [Users -> Places]
    BY <1>16 DEF Write, Goto, Types, Places, Inside
  <2>5. \A v \in Users : pc'[v] \in {"write", "write_loaded"} => next[v] <= MaxWrites
    BY <1>16 DEF Write, Goto, Types
  <2>. QED
    BY <1>16, <2>3, <2>4, <2>5 DEF Write, handler, Types
<1>17. ASSUME NEW u \in Users, WriteTimeout(u) PROVE Types'
  BY <1>17 DEF WriteTimeout, Note, io, handler, counts, Goto, Types, Words, Zero, Flags,
       Kinds, Places, Opening, Loaded, Inside, Leaving
<1>18. ASSUME NEW u \in Users, WriteDone(u) PROVE Types'
  BY <1>18 DEF WriteDone, Note, Collides, io, handler, counts, Goto, Types, Words, Zero,
       Flags, Kinds, Places, Opening, Loaded, Inside, Leaving
<1>19. ASSUME NEW u \in Users, WriteStore(u) PROVE Types'
  BY <1>19 DEF WriteStore, Store, io, handler, counts, Goto, Types, Words, Zero, Flags,
       Kinds, Places, Opening, Loaded, Inside, Leaving
<1>20. ASSUME NEW u \in Users, FreeRx(u) PROVE Types'
  <2>1. irq' \in [rx : Int, tx : Int]
    <3>1. irq' = [irq EXCEPT !.rx = @ - 1]
      BY <1>20 DEF FreeRx
    <3>2. irq = [rx |-> irq.rx, tx |-> irq.tx] /\ irq.rx \in Int /\ irq.tx \in Int
      BY DEF Types
    <3>3. irq' = [rx |-> irq.rx - 1, tx |-> irq.tx]
      BY <3>1, <3>2
    <3>. QED
      BY <3>2, <3>3
  <2>2. pc' \in [Users -> Places]
    BY <1>20 DEF FreeRx, Goto, Types, Places, Opening, Inside, Leaving
  <2>3. \A v \in Users : pc'[v] \in {"write", "write_loaded"} => pc[v] = pc'[v]
    BY <1>20 DEF FreeRx, Goto, Types
  <2>4. half' \in 0..MaxHalf
    BY <1>20 DEF FreeRx, counts, Types
  <2>. QED
    BY <1>20, <2>1, <2>2, <2>3, <2>4 DEF FreeRx, Serving, io, handler, counts, Types
<1>21. ASSUME NEW u \in Users, FreeTx(u) PROVE Types'
  <2>1. irq' \in [rx : Int, tx : Int]
    <3>1. irq' = [irq EXCEPT !.tx = @ - 1]
      BY <1>21 DEF FreeTx
    <3>2. irq = [rx |-> irq.rx, tx |-> irq.tx] /\ irq.rx \in Int /\ irq.tx \in Int
      BY DEF Types
    <3>3. irq' = [rx |-> irq.rx, tx |-> irq.tx - 1]
      BY <3>1, <3>2
    <3>. QED
      BY <3>2, <3>3
  <2>2. pc' \in [Users -> Places]
    BY <1>21 DEF FreeTx, Goto, Types, Places, Leaving
  <2>3. \A v \in Users : pc'[v] \in {"write", "write_loaded"} => pc[v] = pc'[v]
    BY <1>21 DEF FreeTx, Goto, Types
  <2>4. reg' \in [Users -> Words] /\ ghosts' \subseteq Kinds
    BY <1>21 DEF FreeTx, Note, Collides, Types, Kinds
  <2>. QED
    BY <1>21, <2>1, <2>2, <2>3, <2>4 DEF FreeTx, io, handler, counts, Types
<1>22. ASSUME NEW u \in Users, ReleaseStore(u) PROVE Types'
  BY <1>22 DEF ReleaseStore, Store, io, handler, counts, Goto, Types, Words, Zero, Flags,
       Kinds, Places, Opening, Loaded, Inside, Leaving
<1>23. CASE UNCHANGED vars
  BY <1>23 DEF vars, Types, Words, Zero, Flags, Kinds, Places, Opening, Loaded, Inside,
       Leaving
<1>24. CASE IrqAgain
  <2>1. todo' \in Nat /\ isrword' \in Words
    BY <1>24 DEF IrqAgain, RxRun, TxRun, Handlers, Types
  <2>2. ghosts' \subseteq Kinds
    BY <1>24 DEF IrqAgain, Hits, Note, Types, Kinds
  <2>3. isr' \in {"rx", "tx"} /\ dma_sr' \in 0..1 /\ mlip_sr' \in 0..1
    BY <1>24 DEF IrqAgain, RxRun, TxRun, Types
  <2>. QED
    BY <1>24, <2>1, <2>2, <2>3 DEF IrqAgain, counts, Types
<1>. QED
  BY <1>1, <1>2, <1>3, <1>4, <1>5, <1>6, <1>7, <1>8, <1>9, <1>10, <1>11, <1>12, <1>13,
       <1>14, <1>15, <1>16, <1>17, <1>18, <1>19, <1>20, <1>21, <1>22, <1>23, <1>24
  DEF Next, Handler, User

\* A handler that runs is requested.
LEMMA HandlersStep ==
  ASSUME Types, Handlers, [Next]_vars
  PROVE  Handlers'
PROOF
<1>. USE UsersAssumption
<1>1. CASE RxFrame
  BY <1>1 DEF RxFrame, Note, handler, counts, Types, Handlers, Serving
<1>2. CASE HwDone
  BY <1>2 DEF HwDone, handler, counts, Types, Handlers, Serving
<1>3. CASE IrqRx
  BY <1>3 DEF IrqRx, RxRun, Hits, Note, Loaded, counts, Types, Handlers, Serving
<1>4. CASE IrqTx
  BY <1>4 DEF IrqTx, TxRun, Hits, Note, Loaded, counts, Types, Handlers, Serving
<1>5. CASE IrqStore
  BY <1>5 DEF IrqStore, io, counts, Types, Handlers, Serving
<1>6. ASSUME NEW u \in Users, OpenTest(u) PROVE Handlers'
  BY <1>6 DEF OpenTest, Note, Opening, io, handler, counts, Goto, Types, Handlers, Serving
<1>7. ASSUME NEW u \in Users, OpenRx(u) PROVE Handlers'
  <2>1. isr' = isr
    BY <1>7 DEF OpenRx
  <2>2. CASE UNCHANGED <<irq, todo>>
    BY <2>1, <2>2 DEF Handlers, Serving
  <2>3. CASE irq' = [irq EXCEPT !.rx = irq.rx + 1] /\ todo' = Owed("rx")
    <3>1. irq'.rx = irq.rx + 1 /\ irq'.tx = irq.tx /\ todo \in Nat
      BY <2>3 DEF Types
    <3>2. CASE Serving("rx")
      BY <2>1, <2>3, <3>1, <3>2 DEF Owed, Handlers, Serving, Types
    <3>3. CASE ~Serving("rx")
      BY <2>1, <2>3, <3>1, <3>3 DEF Owed, Handlers, Serving, Types
    <3>. QED
      BY <3>2, <3>3
  <2>. QED
    BY <1>7, <2>2, <2>3 DEF OpenRx
<1>8. ASSUME NEW u \in Users, OpenTx(u) PROVE Handlers'
  <2>1. isr' = isr
    BY <1>8 DEF OpenTx
  <2>2. CASE UNCHANGED <<irq, todo>>
    BY <2>1, <2>2 DEF Handlers, Serving
  <2>3. CASE irq' = [irq EXCEPT !.tx = irq.tx + 1] /\ todo' = Owed("tx")
    <3>1. irq'.tx = irq.tx + 1 /\ irq'.rx = irq.rx /\ todo \in Nat
      BY <2>3 DEF Types
    <3>2. CASE Serving("tx")
      BY <2>1, <2>3, <3>1, <3>2 DEF Owed, Handlers, Serving, Types
    <3>3. CASE ~Serving("tx")
      BY <2>1, <2>3, <3>1, <3>3 DEF Owed, Handlers, Serving, Types
    <3>. QED
      BY <3>2, <3>3
  <2>. QED
    BY <1>8, <2>2, <2>3 DEF OpenTx
<1>9. ASSUME NEW u \in Users, OpenLoad(u) PROVE Handlers'
  BY <1>9 DEF OpenLoad, Load, Collides, Note, io, handler, counts, Goto, Types, Handlers, Serving
<1>10. ASSUME NEW u \in Users, OpenStore(u) PROVE Handlers'
  BY <1>10 DEF OpenStore, Store, io, handler, counts, Goto, Types, Handlers, Serving
<1>11. ASSUME NEW u \in Users, Read(u) PROVE Handlers'
  BY <1>11 DEF Read, Talks, io, handler, counts, Goto, Types, Handlers, Serving
<1>12. ASSUME NEW u \in Users, ReadTimeout(u) PROVE Handlers'
  BY <1>12 DEF ReadTimeout, io, handler, counts, Goto, Types, Handlers, Serving
<1>13. ASSUME NEW u \in Users, ReadCopy(u) PROVE Handlers'
  BY <1>13 DEF ReadCopy, Note, io, handler, counts, Goto, Types, Handlers, Serving
<1>14. ASSUME NEW u \in Users, ReadLoad(u) PROVE Handlers'
  BY <1>14 DEF ReadLoad, Load, Collides, Note, io, handler, counts, Goto, Types, Handlers, Serving
<1>15. ASSUME NEW u \in Users, ReadStore(u) PROVE Handlers'
  BY <1>15 DEF ReadStore, Store, Note, io, handler, counts, Goto, Types, Handlers, Serving
<1>16. ASSUME NEW u \in Users, Write(u) PROVE Handlers'
  BY <1>16 DEF Write, Talks, Started, io, handler, counts, Goto, Types, Handlers, Serving
<1>17. ASSUME NEW u \in Users, WriteTimeout(u) PROVE Handlers'
  BY <1>17 DEF WriteTimeout, Note, io, handler, counts, Goto, Types, Handlers, Serving
<1>18. ASSUME NEW u \in Users, WriteDone(u) PROVE Handlers'
  BY <1>18 DEF WriteDone, Note, Collides, io, handler, counts, Goto, Types, Handlers, Serving
<1>19. ASSUME NEW u \in Users, WriteStore(u) PROVE Handlers'
  BY <1>19 DEF WriteStore, Store, io, handler, counts, Goto, Types, Handlers, Serving
<1>20. ASSUME NEW u \in Users, FreeRx(u) PROVE Handlers'
  BY <1>20 DEF FreeRx, io, handler, counts, Goto, Types, Handlers, Serving
<1>21. ASSUME NEW u \in Users, FreeTx(u) PROVE Handlers'
  BY <1>21 DEF FreeTx, Note, Collides, io, handler, counts, Goto, Types, Handlers, Serving
<1>22. ASSUME NEW u \in Users, ReleaseStore(u) PROVE Handlers'
  BY <1>22 DEF ReleaseStore, Store, io, handler, counts, Goto, Types, Handlers, Serving
<1>23. CASE UNCHANGED vars
  BY <1>23 DEF vars, Types, Handlers, Serving
<1>24. CASE IrqAgain
  BY <1>24 DEF IrqAgain, RxRun, TxRun, Hits, Note, Loaded, counts, Types, Handlers, Serving
<1>. QED
  BY <1>1, <1>2, <1>3, <1>4, <1>5, <1>6, <1>7, <1>8, <1>9, <1>10, <1>11, <1>12, <1>13,
       <1>14, <1>15, <1>16, <1>17, <1>18, <1>19, <1>20, <1>21, <1>22, <1>23, <1>24
  DEF Next, Handler, User

\* A request of an interrupt makes one user, a free_irq or a failing open unmakes one.
LEMMA CountedStep ==
  ASSUME Types, Counted, [Next]_vars
  PROVE  Counted'
PROOF
<1>. USE UsersAssumption
<1>1. CASE RxFrame
  <2>1. pc' = pc /\ irq' = irq /\ half' = half
    BY <1>1 DEF RxFrame, counts
  <2>. QED
    BY <2>1 DEF Counted, RxUsers, TxUsers, HasRx, HasTx
<1>2. CASE HwDone
  <2>1. pc' = pc /\ irq' = irq /\ half' = half
    BY <1>2 DEF HwDone, counts
  <2>. QED
    BY <2>1 DEF Counted, RxUsers, TxUsers, HasRx, HasTx
<1>3. CASE IrqRx
  <2>1. pc' = pc /\ irq' = irq /\ half' = half
    BY <1>3 DEF IrqRx, counts
  <2>. QED
    BY <2>1 DEF Counted, RxUsers, TxUsers, HasRx, HasTx
<1>4. CASE IrqTx
  <2>1. pc' = pc /\ irq' = irq /\ half' = half
    BY <1>4 DEF IrqTx, counts
  <2>. QED
    BY <2>1 DEF Counted, RxUsers, TxUsers, HasRx, HasTx
<1>5. CASE IrqStore
  <2>1. pc' = pc /\ irq' = irq /\ half' = half
    BY <1>5 DEF IrqStore, counts
  <2>. QED
    BY <2>1 DEF Counted, RxUsers, TxUsers, HasRx, HasTx
<1>6. ASSUME NEW u \in Users, OpenTest(u) PROVE Counted'
  <2>1. \A v \in Users : (HasRx(v)' <=> HasRx(v)) /\ (HasTx(v)' <=> HasTx(v))
    BY <1>6 DEF OpenTest, counts, Goto, HasRx, HasTx, Opening, Inside, Types
  <2>2. RxUsers' = RxUsers /\ TxUsers' = TxUsers
    BY <2>1 DEF RxUsers, TxUsers
  <2>3. irq' = irq /\ half' = half
    BY <1>6 DEF OpenTest, counts, Goto
  <2>. QED
    BY <2>2, <2>3 DEF Counted
<1>7. ASSUME NEW u \in Users, OpenRx(u) PROVE Counted'
  <2>1. CASE irq' = irq /\ pc' = [pc EXCEPT ![u] = "out"]
    <3>1. RxUsers' = RxUsers /\ TxUsers' = TxUsers
      BY <1>7, <2>1 DEF OpenRx, RxUsers, TxUsers, HasRx, HasTx, Opening, Inside, Types
    <3>. QED
      BY <1>7, <2>1, <3>1 DEF OpenRx, counts, Counted
  <2>2. CASE irq' = [irq EXCEPT !.rx = @ + 1] /\ pc' = [pc EXCEPT ![u] = "rx_irq"]
    <3>1. RxUsers' = RxUsers \cup {u} /\ u \notin RxUsers /\ TxUsers' = TxUsers
      BY <1>7, <2>2 DEF OpenRx, RxUsers, TxUsers, HasRx, HasTx, Opening, Inside, Types
    <3>2. Cardinality(RxUsers') = Cardinality(RxUsers) + 1
      BY <3>1, UsersFinite, FS_AddElement
    <3>3. irq'.rx = irq.rx + 1 /\ irq'.tx = irq.tx /\ half' = half
      BY <1>7, <2>2 DEF OpenRx, counts, Types
    <3>. QED
      BY <3>1, <3>2, <3>3, UsersFinite DEF Counted, Types
  <2>. QED
    BY <1>7, <2>1, <2>2 DEF OpenRx, Goto
<1>8. ASSUME NEW u \in Users, OpenTx(u) PROVE Counted'
  <2>1. CASE irq' = irq /\ half' = half + 1 /\ pc' = [pc EXCEPT ![u] = "out"]
    <3>1. RxUsers' = RxUsers \ {u} /\ u \in RxUsers /\ TxUsers' = TxUsers
      BY <1>8, <2>1 DEF OpenTx, RxUsers, TxUsers, HasRx, HasTx, Opening, Inside, Types
    <3>2. Cardinality(RxUsers') = Cardinality(RxUsers) - 1
      BY <3>1, UsersFinite, FS_RemoveElement
    <3>. QED
      BY <2>1, <3>1, <3>2, UsersFinite DEF Counted, Types
  <2>2. CASE /\ irq' = [irq EXCEPT !.tx = @ + 1] /\ half' = half
             /\ pc' = [pc EXCEPT ![u] = "both_irqs"]
    <3>1. TxUsers' = TxUsers \cup {u} /\ u \notin TxUsers /\ RxUsers' = RxUsers
      BY <1>8, <2>2 DEF OpenTx, RxUsers, TxUsers, HasRx, HasTx, Opening, Inside, Types
    <3>2. Cardinality(TxUsers') = Cardinality(TxUsers) + 1
      BY <3>1, UsersFinite, FS_AddElement
    <3>. QED
      BY <2>2, <3>1, <3>2, UsersFinite DEF Counted, Types
  <2>. QED
    BY <1>8, <2>1, <2>2 DEF OpenTx, Goto
<1>9. ASSUME NEW u \in Users, OpenLoad(u) PROVE Counted'
  <2>1. \A v \in Users : (HasRx(v)' <=> HasRx(v)) /\ (HasTx(v)' <=> HasTx(v))
    BY <1>9 DEF OpenLoad, Load, counts, Goto, HasRx, HasTx, Opening, Inside, Types
  <2>2. RxUsers' = RxUsers /\ TxUsers' = TxUsers
    BY <2>1 DEF RxUsers, TxUsers
  <2>3. irq' = irq /\ half' = half
    BY <1>9 DEF OpenLoad, Load, counts, Goto
  <2>. QED
    BY <2>2, <2>3 DEF Counted
<1>10. ASSUME NEW u \in Users, OpenStore(u) PROVE Counted'
  <2>1. \A v \in Users : (HasRx(v)' <=> HasRx(v)) /\ (HasTx(v)' <=> HasTx(v))
    BY <1>10 DEF OpenStore, Store, counts, Goto, HasRx, HasTx, Opening, Inside, Types
  <2>2. RxUsers' = RxUsers /\ TxUsers' = TxUsers
    BY <2>1 DEF RxUsers, TxUsers
  <2>3. irq' = irq /\ half' = half
    BY <1>10 DEF OpenStore, Store, counts, Goto
  <2>. QED
    BY <2>2, <2>3 DEF Counted
<1>11. ASSUME NEW u \in Users, Read(u) PROVE Counted'
  <2>1. \A v \in Users : (HasRx(v)' <=> HasRx(v)) /\ (HasTx(v)' <=> HasTx(v))
    BY <1>11 DEF Read, counts, Goto, HasRx, HasTx, Opening, Inside, Types
  <2>2. RxUsers' = RxUsers /\ TxUsers' = TxUsers
    BY <2>1 DEF RxUsers, TxUsers
  <2>3. irq' = irq /\ half' = half
    BY <1>11 DEF Read, counts, Goto
  <2>. QED
    BY <2>2, <2>3 DEF Counted
<1>12. ASSUME NEW u \in Users, ReadTimeout(u) PROVE Counted'
  <2>1. \A v \in Users : (HasRx(v)' <=> HasRx(v)) /\ (HasTx(v)' <=> HasTx(v))
    BY <1>12 DEF ReadTimeout, counts, Goto, HasRx, HasTx, Opening, Inside, Types
  <2>2. RxUsers' = RxUsers /\ TxUsers' = TxUsers
    BY <2>1 DEF RxUsers, TxUsers
  <2>3. irq' = irq /\ half' = half
    BY <1>12 DEF ReadTimeout, counts, Goto
  <2>. QED
    BY <2>2, <2>3 DEF Counted
<1>13. ASSUME NEW u \in Users, ReadCopy(u) PROVE Counted'
  <2>1. \A v \in Users : (HasRx(v)' <=> HasRx(v)) /\ (HasTx(v)' <=> HasTx(v))
    BY <1>13 DEF ReadCopy, counts, Goto, HasRx, HasTx, Opening, Inside, Types
  <2>2. RxUsers' = RxUsers /\ TxUsers' = TxUsers
    BY <2>1 DEF RxUsers, TxUsers
  <2>3. irq' = irq /\ half' = half
    BY <1>13 DEF ReadCopy, counts, Goto
  <2>. QED
    BY <2>2, <2>3 DEF Counted
<1>14. ASSUME NEW u \in Users, ReadLoad(u) PROVE Counted'
  <2>1. \A v \in Users : (HasRx(v)' <=> HasRx(v)) /\ (HasTx(v)' <=> HasTx(v))
    BY <1>14 DEF ReadLoad, Load, counts, Goto, HasRx, HasTx, Opening, Inside, Types
  <2>2. RxUsers' = RxUsers /\ TxUsers' = TxUsers
    BY <2>1 DEF RxUsers, TxUsers
  <2>3. irq' = irq /\ half' = half
    BY <1>14 DEF ReadLoad, Load, counts, Goto
  <2>. QED
    BY <2>2, <2>3 DEF Counted
<1>15. ASSUME NEW u \in Users, ReadStore(u) PROVE Counted'
  <2>1. \A v \in Users : (HasRx(v)' <=> HasRx(v)) /\ (HasTx(v)' <=> HasTx(v))
    BY <1>15 DEF ReadStore, Store, counts, Goto, HasRx, HasTx, Opening, Inside, Types
  <2>2. RxUsers' = RxUsers /\ TxUsers' = TxUsers
    BY <2>1 DEF RxUsers, TxUsers
  <2>3. irq' = irq /\ half' = half
    BY <1>15 DEF ReadStore, Store, counts, Goto
  <2>. QED
    BY <2>2, <2>3 DEF Counted
<1>16. ASSUME NEW u \in Users, Write(u) PROVE Counted'
  <2>1. \A v \in Users : (HasRx(v)' <=> HasRx(v)) /\ (HasTx(v)' <=> HasTx(v))
    BY <1>16 DEF Write, counts, Goto, HasRx, HasTx, Opening, Inside, Types
  <2>2. RxUsers' = RxUsers /\ TxUsers' = TxUsers
    BY <2>1 DEF RxUsers, TxUsers
  <2>3. irq' = irq /\ half' = half
    BY <1>16 DEF Write, counts, Goto
  <2>. QED
    BY <2>2, <2>3 DEF Counted
<1>17. ASSUME NEW u \in Users, WriteTimeout(u) PROVE Counted'
  <2>1. \A v \in Users : (HasRx(v)' <=> HasRx(v)) /\ (HasTx(v)' <=> HasTx(v))
    BY <1>17 DEF WriteTimeout, counts, Goto, HasRx, HasTx, Opening, Inside, Types
  <2>2. RxUsers' = RxUsers /\ TxUsers' = TxUsers
    BY <2>1 DEF RxUsers, TxUsers
  <2>3. irq' = irq /\ half' = half
    BY <1>17 DEF WriteTimeout, counts, Goto
  <2>. QED
    BY <2>2, <2>3 DEF Counted
<1>18. ASSUME NEW u \in Users, WriteDone(u) PROVE Counted'
  <2>1. \A v \in Users : (HasRx(v)' <=> HasRx(v)) /\ (HasTx(v)' <=> HasTx(v))
    BY <1>18 DEF WriteDone, counts, Goto, HasRx, HasTx, Opening, Inside, Types
  <2>2. RxUsers' = RxUsers /\ TxUsers' = TxUsers
    BY <2>1 DEF RxUsers, TxUsers
  <2>3. irq' = irq /\ half' = half
    BY <1>18 DEF WriteDone, counts, Goto
  <2>. QED
    BY <2>2, <2>3 DEF Counted
<1>19. ASSUME NEW u \in Users, WriteStore(u) PROVE Counted'
  <2>1. \A v \in Users : (HasRx(v)' <=> HasRx(v)) /\ (HasTx(v)' <=> HasTx(v))
    BY <1>19 DEF WriteStore, Store, counts, Goto, HasRx, HasTx, Opening, Inside, Types
  <2>2. RxUsers' = RxUsers /\ TxUsers' = TxUsers
    BY <2>1 DEF RxUsers, TxUsers
  <2>3. irq' = irq /\ half' = half
    BY <1>19 DEF WriteStore, Store, counts, Goto
  <2>. QED
    BY <2>2, <2>3 DEF Counted
<1>20. ASSUME NEW u \in Users, FreeRx(u) PROVE Counted'
  <2>1. irq' = [irq EXCEPT !.rx = @ - 1] /\ pc' = [pc EXCEPT ![u] = "rx_freed"] /\ half' = half
    BY <1>20 DEF FreeRx, Goto, counts
  <2>2. RxUsers' = RxUsers \ {u} /\ u \in RxUsers /\ TxUsers' = TxUsers
    BY <1>20, <2>1 DEF FreeRx, RxUsers, TxUsers, HasRx, HasTx, Opening, Inside, Types
  <2>3. Cardinality(RxUsers') = Cardinality(RxUsers) - 1
    BY <2>2, UsersFinite, FS_RemoveElement
  <2>4. irq'.rx = irq.rx - 1 /\ irq'.tx = irq.tx
    BY <2>1 DEF Types
  <2>5. Cardinality(RxUsers) \in Int /\ half \in Int
    BY UsersFinite DEF Types
  <2>. QED
    BY <2>1, <2>2, <2>3, <2>4, <2>5 DEF Counted
<1>21. ASSUME NEW u \in Users, FreeTx(u) PROVE Counted'
  <2>1. /\ irq' = [irq EXCEPT !.tx = @ - 1] /\ half' = half
        /\ pc' = [pc EXCEPT ![u] = "release_loaded"]
    BY <1>21 DEF FreeTx, Goto, counts
  <2>2. TxUsers' = TxUsers \ {u} /\ u \in TxUsers /\ RxUsers' = RxUsers
    BY <1>21, <2>1 DEF FreeTx, RxUsers, TxUsers, HasRx, HasTx, Opening, Inside, Types
  <2>3. Cardinality(TxUsers') = Cardinality(TxUsers) - 1
    BY <2>2, UsersFinite, FS_RemoveElement
  <2>. QED
    BY <2>1, <2>2, <2>3, UsersFinite DEF Counted, Types
<1>22. ASSUME NEW u \in Users, ReleaseStore(u) PROVE Counted'
  <2>1. \A v \in Users : (HasRx(v)' <=> HasRx(v)) /\ (HasTx(v)' <=> HasTx(v))
    BY <1>22 DEF ReleaseStore, Store, counts, Goto, HasRx, HasTx, Opening, Inside, Types
  <2>2. RxUsers' = RxUsers /\ TxUsers' = TxUsers
    BY <2>1 DEF RxUsers, TxUsers
  <2>3. irq' = irq /\ half' = half
    BY <1>22 DEF ReleaseStore, Store, counts, Goto
  <2>. QED
    BY <2>2, <2>3 DEF Counted
<1>23. CASE UNCHANGED vars
  BY <1>23 DEF vars, Counted, RxUsers, TxUsers, HasRx, HasTx
<1>24. CASE IrqAgain
  <2>1. pc' = pc /\ irq' = irq /\ half' = half
    BY <1>24 DEF IrqAgain, counts
  <2>. QED
    BY <2>1 DEF Counted, RxUsers, TxUsers, HasRx, HasTx
<1>. QED
  BY <1>1, <1>2, <1>3, <1>4, <1>5, <1>6, <1>7, <1>8, <1>9, <1>10, <1>11, <1>12, <1>13,
       <1>14, <1>15, <1>16, <1>17, <1>18, <1>19, <1>20, <1>21, <1>22, <1>23, <1>24
  DEF Next, Handler, User

\* Only who leaves marks the device closed.
LEMMA MarkedStep ==
  ASSUME Types, Counted, Handlers, Marked, [Next]_vars
  PROVE  Marked'
PROOF
<1>. USE UsersAssumption
<1>1. CASE RxFrame
  BY <1>1 DEF RxFrame, Note, handler, counts, Types, Marked, Words, Flags, Places,
       Opening, Loaded, Inside, Leaving
<1>2. CASE HwDone
  BY <1>2 DEF HwDone, handler, counts, Types, Marked, Words, Flags, Places, Opening,
       Loaded, Inside, Leaving
<1>3. CASE IrqRx
  BY <1>3 DEF IrqRx, RxRun, Hits, Note, Loaded, counts, Types, Marked, Words, Flags, Places,
       Opening, Inside, Leaving
<1>4. CASE IrqTx
  BY <1>4 DEF IrqTx, TxRun, Hits, Note, Loaded, counts, Types, Marked, Words, Flags, Places,
       Opening, Inside, Leaving
<1>5. CASE IrqStore
  <2>1. irq.rx > 0 \/ irq.tx > 0
    BY <1>5 DEF IrqStore, Handlers, Serving, Types
  <2>2. half = 0 => \E u \in Users : HasRx(u) \/ HasTx(u)
    <3>1. half = 0 => RxUsers # {} \/ TxUsers # {}
      <4>. SUFFICES ASSUME half = 0, RxUsers = {}, TxUsers = {} PROVE FALSE
        OBVIOUS
      <4>1. Cardinality(RxUsers) = 0 /\ Cardinality(TxUsers) = 0
        BY NobodyCounted
      <4>2. irq.rx = 0 /\ irq.tx = 0
        BY <4>1 DEF Counted
      <4>. QED
        BY <2>1, <4>2
    <3>. QED
      BY <3>1 DEF RxUsers, TxUsers
  <2>3. half = 0 => \E u \in Users : pc[u] \notin {"out", "tested"}
    BY <2>2 DEF HasRx, HasTx, Opening, Inside
  <2>. QED
    BY <1>5, <2>3 DEF IrqStore, counts, Marked
<1>6. ASSUME NEW u \in Users, OpenTest(u) PROVE Marked'
  BY <1>6 DEF OpenTest, Note, Opening, io, handler, counts, Goto, Types, Marked, Words,
       Flags, Places, Loaded, Inside, Leaving
<1>7. ASSUME NEW u \in Users, OpenRx(u) PROVE Marked'
  BY <1>7 DEF OpenRx, Owed, Serving, io, counts, Goto, Types, Marked, Words, Flags, Places,
       Opening, Loaded, Inside, Leaving
<1>8. ASSUME NEW u \in Users, OpenTx(u) PROVE Marked'
  BY <1>8 DEF OpenTx, Owed, Serving, io, counts, Goto, Types, Marked, Words, Flags, Places,
       Opening, Loaded, Inside, Leaving
<1>9. ASSUME NEW u \in Users, OpenLoad(u) PROVE Marked'
  BY <1>9 DEF OpenLoad, Load, Collides, Note, io, handler, counts, Goto, Types, Marked,
       Words, Flags, Places, Opening, Loaded, Inside, Leaving
<1>10. ASSUME NEW u \in Users, OpenStore(u) PROVE Marked'
  BY <1>10 DEF OpenStore, Store, io, handler, counts, Goto, Types, Marked, Words, Flags,
       Places, Opening, Loaded, Inside, Leaving
<1>11. ASSUME NEW u \in Users, Read(u) PROVE Marked'
  BY <1>11 DEF Read, Talks, io, handler, counts, Goto, Types, Marked, Words, Flags,
       Places, Opening, Loaded, Inside, Leaving
<1>12. ASSUME NEW u \in Users, ReadTimeout(u) PROVE Marked'
  BY <1>12 DEF ReadTimeout, io, handler, counts, Goto, Types, Marked, Words, Flags,
       Places, Opening, Loaded, Inside, Leaving
<1>13. ASSUME NEW u \in Users, ReadCopy(u) PROVE Marked'
  BY <1>13 DEF ReadCopy, Note, io, handler, counts, Goto, Types, Marked, Words, Flags,
       Places, Opening, Loaded, Inside, Leaving
<1>14. ASSUME NEW u \in Users, ReadLoad(u) PROVE Marked'
  BY <1>14 DEF ReadLoad, Load, Collides, Note, io, handler, counts, Goto, Types, Marked,
       Words, Flags, Places, Opening, Loaded, Inside, Leaving
<1>15. ASSUME NEW u \in Users, ReadStore(u) PROVE Marked'
  BY <1>15 DEF ReadStore, Store, Note, io, handler, counts, Goto, Types, Marked, Words,
       Flags, Places, Opening, Loaded, Inside, Leaving
<1>16. ASSUME NEW u \in Users, Write(u) PROVE Marked'
  BY <1>16 DEF Write, Talks, Started, io, handler, counts, Goto, Types, Marked, Words,
       Flags, Places, Opening, Loaded, Inside, Leaving
<1>17. ASSUME NEW u \in Users, WriteTimeout(u) PROVE Marked'
  BY <1>17 DEF WriteTimeout, Note, io, handler, counts, Goto, Types, Marked, Words,
       Flags, Places, Opening, Loaded, Inside, Leaving
<1>18. ASSUME NEW u \in Users, WriteDone(u) PROVE Marked'
  BY <1>18 DEF WriteDone, Note, Collides, io, handler, counts, Goto, Types, Marked,
       Words, Flags, Places, Opening, Loaded, Inside, Leaving
<1>19. ASSUME NEW u \in Users, WriteStore(u) PROVE Marked'
  BY <1>19 DEF WriteStore, Store, io, handler, counts, Goto, Types, Marked, Words, Flags,
       Places, Opening, Loaded, Inside, Leaving
<1>20. ASSUME NEW u \in Users, FreeRx(u) PROVE Marked'
  BY <1>20 DEF FreeRx, Serving, io, handler, counts, Goto, Types, Marked, Words, Flags, Places,
       Opening, Loaded, Inside, Leaving
<1>21. ASSUME NEW u \in Users, FreeTx(u) PROVE Marked'
  BY <1>21 DEF FreeTx, Serving, Note, Collides, io, handler, counts, Goto, Types, Marked, Words,
       Flags, Places, Opening, Loaded, Inside, Leaving
<1>22. ASSUME NEW u \in Users, ReleaseStore(u) PROVE Marked'
  BY <1>22 DEF ReleaseStore, Store, io, handler, counts, Goto, Types, Marked, Words,
       Flags, Places, Opening, Loaded, Inside, Leaving
<1>23. CASE UNCHANGED vars
  BY <1>23 DEF vars, Types, Marked, Words, Flags, Places, Opening, Loaded, Inside, Leaving
<1>24. CASE IrqAgain
  BY <1>24 DEF IrqAgain, RxRun, TxRun, Hits, Note, Loaded, counts, Types, Marked, Words, Flags,
       Places,
       Opening, Inside, Leaving
<1>. QED
  BY <1>1, <1>2, <1>3, <1>4, <1>5, <1>6, <1>7, <1>8, <1>9, <1>10, <1>11, <1>12, <1>13,
       <1>14, <1>15, <1>16, <1>17, <1>18, <1>19, <1>20, <1>21, <1>22, <1>23, <1>24
  DEF Next, Handler, User

\* A second program, or an old copy of the word, means a race.
LEMMA SoleStep ==
  ASSUME Types, Sole, [Next]_vars
  PROVE  Sole'
PROOF
<1>. USE UsersAssumption
<1>1. CASE RxFrame
  BY <1>1 DEF RxFrame, Note, handler, counts, Types, Sole, Words, Flags, Kinds, Places,
       Opening, Loaded, Inside, Leaving
<1>2. CASE HwDone
  BY <1>2 DEF HwDone, handler, counts, Types, Sole, Words, Flags, Kinds, Places, Opening,
       Loaded, Inside, Leaving
<1>3. CASE IrqRx
  BY <1>3 DEF IrqRx, RxRun, Hits, Note, Loaded, counts, Types, Sole, Words, Flags, Kinds,
       Places, Opening, Inside, Leaving
<1>4. CASE IrqTx
  BY <1>4 DEF IrqTx, TxRun, Hits, Note, Loaded, counts, Types, Sole, Words, Flags, Kinds,
       Places, Opening, Inside, Leaving
<1>5. CASE IrqStore
  BY <1>5 DEF IrqStore, io, counts, Types, Sole, Words, Flags, Kinds, Places, Opening,
       Loaded, Inside, Leaving
<1>6. ASSUME NEW u \in Users, OpenTest(u) PROVE Sole'
  BY <1>6 DEF OpenTest, Note, Opening, io, handler, counts, Goto, Types, Sole, Words,
       Flags, Kinds, Places, Loaded, Inside, Leaving
<1>7. ASSUME NEW u \in Users, OpenRx(u) PROVE Sole'
  <2>1. pc[u] = "tested" /\ (pc' = [pc EXCEPT ![u] = "rx_irq"] \/ pc' = [pc EXCEPT ![u] = "out"])
    BY <1>7 DEF OpenRx, Goto
  <2>2. \A v \in Users : pc'[v] # "out" => pc[v] # "out"
    BY <2>1 DEF Types
  <2>3. \A v \in Users : pc'[v] \in Loaded \cup Inside \cup Leaving => pc[v] = pc'[v]
    BY <2>1 DEF Types, Loaded, Inside, Leaving
  <2>4. UNCHANGED <<word, reg, isr, isrword, ghosts>>
    BY <1>7 DEF OpenRx
  <2>. QED
    BY <2>2, <2>3, <2>4 DEF Sole
<1>8. ASSUME NEW u \in Users, OpenTx(u) PROVE Sole'
  <2>1. pc[u] = "rx_irq" /\ (pc' = [pc EXCEPT ![u] = "both_irqs"] \/ pc' = [pc EXCEPT ![u] = "out"])
    BY <1>8 DEF OpenTx, Goto
  <2>2. \A v \in Users : pc'[v] # "out" => pc[v] # "out"
    BY <2>1 DEF Types
  <2>3. \A v \in Users : pc'[v] \in Loaded \cup Inside \cup Leaving => pc[v] = pc'[v]
    BY <2>1 DEF Types, Loaded, Inside, Leaving
  <2>4. UNCHANGED <<word, reg, isr, isrword, ghosts>>
    BY <1>8 DEF OpenTx
  <2>. QED
    BY <2>2, <2>3, <2>4 DEF Sole
<1>9. ASSUME NEW u \in Users, OpenLoad(u) PROVE Sole'
  BY <1>9 DEF OpenLoad, Load, Collides, Note, io, handler, counts, Goto, Types, Sole,
       Words, Flags, Kinds, Places, Opening, Loaded, Inside, Leaving
<1>10. ASSUME NEW u \in Users, OpenStore(u) PROVE Sole'
  <2>. SUFFICES ASSUME "raced" \notin ghosts PROVE Sole'
    BY <1>10 DEF OpenStore, Sole
  <2>1. \A v \in Users : v # u => pc[v] = "out"
    BY <1>10 DEF OpenStore, Store, Sole
  <2>2. isr \notin {"rx", "tx"} /\ reg[u] = word
    BY <1>10 DEF OpenStore, Store, Sole, Loaded
  <2>3. word' = [word EXCEPT !["is_open"] = 1] /\ pc' = [pc EXCEPT ![u] = "in"]
    BY <1>10, <2>2 DEF OpenStore, Store, Goto
  <2>4. pc[u] = "open_loaded" /\ UNCHANGED <<isr, isrword, ghosts>>
    BY <1>10 DEF OpenStore, Store, handler
  <2>5. pc'[u] = "in" /\ \A v \in Users : v # u => pc'[v] = "out"
    BY <2>1, <2>3 DEF Types
  <2>6. "in" # "out" => word'["is_open"] = 1
    BY <2>3, <2>4 DEF Types, Sole, Words, Flags, Inside, Leaving
  <2>. QED
    BY <2>2, <2>4, <2>5, <2>6 DEF Sole, Loaded, Inside, Leaving
<1>11. ASSUME NEW u \in Users, Read(u) PROVE Sole'
  BY <1>11 DEF Read, Talks, io, handler, counts, Goto, Types, Sole, Words, Flags, Kinds,
       Places, Opening, Loaded, Inside, Leaving
<1>12. ASSUME NEW u \in Users, ReadTimeout(u) PROVE Sole'
  BY <1>12 DEF ReadTimeout, io, handler, counts, Goto, Types, Sole, Words, Flags, Kinds,
       Places, Opening, Loaded, Inside, Leaving
<1>13. ASSUME NEW u \in Users, ReadCopy(u) PROVE Sole'
  BY <1>13 DEF ReadCopy, Note, io, handler, counts, Goto, Types, Sole, Words, Flags,
       Kinds, Places, Opening, Loaded, Inside, Leaving
<1>14. ASSUME NEW u \in Users, ReadLoad(u) PROVE Sole'
  BY <1>14 DEF ReadLoad, Load, Collides, Note, io, handler, counts, Goto, Types, Sole,
       Words, Flags, Kinds, Places, Opening, Loaded, Inside, Leaving
<1>15. ASSUME NEW u \in Users, ReadStore(u) PROVE Sole'
  <2>. SUFFICES ASSUME "raced" \notin ghosts PROVE Sole'
    BY <1>15 DEF ReadStore, Note, Sole
  <2>1. /\ pc[u] = "read_loaded" /\ \A v \in Users : pc'[v] = IF v = u THEN "in" ELSE pc[v]
        /\ word' = [reg[u] EXCEPT !["rx_interrupt"] = 0] /\ UNCHANGED <<isr, isrword>>
    BY <1>15 DEF ReadStore, Store, Goto, Types, handler
  <2>2. \A v \in Users : v # u => pc[v] = "out"
    BY <2>1 DEF Sole
  <2>3. reg[u] = word /\ isr \notin {"rx", "tx"} /\ word["is_open"] = 1
    BY <2>1 DEF Sole, Loaded, Inside
  <2>4. word'["is_open"] = 1
    BY <2>1, <2>3 DEF Types, Words, Flags
  <2>. QED
    BY <2>1, <2>2, <2>3, <2>4 DEF Sole, Loaded, Inside, Leaving
<1>16. ASSUME NEW u \in Users, Write(u) PROVE Sole'
  BY <1>16 DEF Write, Talks, Started, io, handler, counts, Goto, Types, Sole, Words,
       Flags, Kinds, Places, Opening, Loaded, Inside, Leaving
<1>17. ASSUME NEW u \in Users, WriteTimeout(u) PROVE Sole'
  <2>1. /\ pc[u] = "write" /\ \A v \in Users : pc'[v] = IF v = u THEN "in" ELSE pc[v]
        /\ "raced" \notin ghosts' => "raced" \notin ghosts
        /\ UNCHANGED <<word, reg, isr, isrword>>
    BY <1>17 DEF WriteTimeout, Note, Goto, Types, handler
  <2>. QED
    BY <2>1 DEF Sole, Loaded, Inside, Leaving
<1>18. ASSUME NEW u \in Users, WriteDone(u) PROVE Sole'
  BY <1>18 DEF WriteDone, Note, Collides, io, handler, counts, Goto, Types, Sole, Words,
       Flags, Kinds, Places, Opening, Loaded, Inside, Leaving
<1>19. ASSUME NEW u \in Users, WriteStore(u) PROVE Sole'
  <2>. SUFFICES ASSUME "raced" \notin ghosts PROVE Sole'
    BY <1>19 DEF WriteStore, Sole
  <2>1. \A v \in Users : v # u => pc[v] = "out"
    BY <1>19 DEF WriteStore, Store, Sole
  <2>2. isr \notin {"rx", "tx"} /\ reg[u] = word
    BY <1>19 DEF WriteStore, Store, Sole, Loaded
  <2>3. word' = [word EXCEPT !["tx_interrupt"] = 0] /\ pc' = [pc EXCEPT ![u] = "in"]
    BY <1>19, <2>2 DEF WriteStore, Store, Goto
  <2>4. pc[u] = "write_loaded" /\ UNCHANGED <<isr, isrword, ghosts>>
    BY <1>19 DEF WriteStore, Store, handler
  <2>5. pc'[u] = "in" /\ \A v \in Users : v # u => pc'[v] = "out"
    BY <2>1, <2>3 DEF Types
  <2>6. "in" # "out" => word'["is_open"] = 1
    BY <2>3, <2>4 DEF Types, Sole, Words, Flags, Inside, Leaving
  <2>. QED
    BY <2>2, <2>4, <2>5, <2>6 DEF Sole, Loaded, Inside, Leaving
<1>20. ASSUME NEW u \in Users, FreeRx(u) PROVE Sole'
  <2>1. /\ pc[u] = "in" /\ \A v \in Users : pc'[v] = IF v = u THEN "rx_freed" ELSE pc[v]
        /\ UNCHANGED <<word, reg, isr, isrword, ghosts>>
    BY <1>20 DEF FreeRx, Goto, Types, handler
  <2>. QED
    BY <2>1 DEF Sole, Loaded, Inside, Leaving
<1>21. ASSUME NEW u \in Users, FreeTx(u) PROVE Sole'
  <2>. SUFFICES ASSUME "raced" \notin ghosts, isr \notin {"rx", "tx"} PROVE Sole'
    BY <1>21 DEF FreeTx, Note, Collides, Sole
  <2>1. /\ pc[u] = "rx_freed"
        /\ \A v \in Users : pc'[v] = IF v = u THEN "release_loaded" ELSE pc[v]
        /\ \A v \in Users : reg'[v] = IF v = u THEN word ELSE reg[v]
        /\ UNCHANGED <<word, isr, isrword>>
    BY <1>21 DEF FreeTx, Goto, Types, handler
  <2>. QED
    BY <2>1 DEF Sole, Loaded, Inside, Leaving
<1>22. ASSUME NEW u \in Users, ReleaseStore(u) PROVE Sole'
  <2>. SUFFICES ASSUME "raced" \notin ghosts PROVE Sole'
    BY <1>22 DEF ReleaseStore, Sole
  <2>1. \A v \in Users : v # u => pc[v] = "out"
    BY <1>22 DEF ReleaseStore, Store, Sole
  <2>2. isr \notin {"rx", "tx"} /\ reg[u] = word
    BY <1>22 DEF ReleaseStore, Store, Sole, Loaded
  <2>3. word' = [word EXCEPT !["is_open"] = 0] /\ pc' = [pc EXCEPT ![u] = "out"]
    BY <1>22, <2>2 DEF ReleaseStore, Store, Goto
  <2>4. pc[u] = "release_loaded" /\ UNCHANGED <<isr, isrword, ghosts>>
    BY <1>22 DEF ReleaseStore, Store, handler
  <2>5. pc'[u] = "out" /\ \A v \in Users : v # u => pc'[v] = "out"
    BY <2>1, <2>3 DEF Types
  <2>6. "out" # "out" => word'["is_open"] = 1
    BY <2>3, <2>4 DEF Types, Sole, Words, Flags, Inside, Leaving
  <2>. QED
    BY <2>2, <2>4, <2>5, <2>6 DEF Sole, Loaded, Inside, Leaving
<1>23. CASE UNCHANGED vars
  BY <1>23 DEF vars, Types, Sole, Words, Flags, Kinds, Places, Opening, Loaded, Inside,
       Leaving
<1>24. CASE IrqAgain
  BY <1>24 DEF IrqAgain, RxRun, TxRun, Hits, Note, Loaded, counts, Types, Sole, Words, Flags,
       Kinds,
       Places, Opening, Inside, Leaving
<1>. QED
  BY <1>1, <1>2, <1>3, <1>4, <1>5, <1>6, <1>7, <1>8, <1>9, <1>10, <1>11, <1>12, <1>13,
       <1>14, <1>15, <1>16, <1>17, <1>18, <1>19, <1>20, <1>21, <1>22, <1>23, <1>24
  DEF Next, Handler, User

\* The signal of a frame stays until it is read.
LEMMA UnreadStep ==
  ASSUME Types, Sole, UnreadIsSignalled, [Next]_vars
  PROVE  UnreadIsSignalled'
PROOF
<1>. USE UsersAssumption
<1>1. CASE RxFrame
  BY <1>1 DEF RxFrame, Note, handler, counts, Types, Sole, UnreadIsSignalled, Words,
       Flags, Places, Opening, Loaded, Inside, Leaving
<1>2. CASE HwDone
  BY <1>2 DEF HwDone, handler, counts, Types, Sole, UnreadIsSignalled, Words, Flags,
       Places, Opening, Loaded, Inside, Leaving
<1>3. CASE IrqRx
  BY <1>3 DEF IrqRx, RxRun, Hits, Note, Loaded, counts, Types, Sole, UnreadIsSignalled, Words,
       Flags, Places, Opening, Inside, Leaving
<1>4. CASE IrqTx
  BY <1>4 DEF IrqTx, TxRun, Hits, Note, Loaded, counts, Types, Sole, UnreadIsSignalled, Words,
       Flags, Places, Opening, Inside, Leaving
<1>5. CASE IrqStore
  BY <1>5 DEF IrqStore, io, counts, Types, Sole, UnreadIsSignalled, Words, Flags, Places,
       Opening, Loaded, Inside, Leaving
<1>6. ASSUME NEW u \in Users, OpenTest(u) PROVE UnreadIsSignalled'
  BY <1>6 DEF OpenTest, Note, Opening, io, handler, counts, Goto, Types, Sole,
       UnreadIsSignalled, Words, Flags, Places, Loaded, Inside, Leaving
<1>7. ASSUME NEW u \in Users, OpenRx(u) PROVE UnreadIsSignalled'
  BY <1>7 DEF OpenRx, Owed, Serving, io, counts, Goto, Types, Sole, UnreadIsSignalled, Words,
       Flags, Places, Opening, Loaded, Inside, Leaving
<1>8. ASSUME NEW u \in Users, OpenTx(u) PROVE UnreadIsSignalled'
  BY <1>8 DEF OpenTx, Owed, Serving, io, counts, Goto, Types, Sole, UnreadIsSignalled, Words,
       Flags, Places, Opening, Loaded, Inside, Leaving
<1>9. ASSUME NEW u \in Users, OpenLoad(u) PROVE UnreadIsSignalled'
  BY <1>9 DEF OpenLoad, Load, Collides, Note, io, handler, counts, Goto, Types, Sole,
       UnreadIsSignalled, Words, Flags, Places, Opening, Loaded, Inside, Leaving
<1>10. ASSUME NEW u \in Users, OpenStore(u) PROVE UnreadIsSignalled'
  BY <1>10 DEF OpenStore, Store, io, handler, counts, Goto, Types, Sole,
       UnreadIsSignalled, Words, Flags, Places, Opening, Loaded, Inside, Leaving
<1>11. ASSUME NEW u \in Users, Read(u) PROVE UnreadIsSignalled'
  BY <1>11 DEF Read, Talks, io, handler, counts, Goto, Types, Sole, UnreadIsSignalled,
       Words, Flags, Places, Opening, Loaded, Inside, Leaving
<1>12. ASSUME NEW u \in Users, ReadTimeout(u) PROVE UnreadIsSignalled'
  BY <1>12 DEF ReadTimeout, io, handler, counts, Goto, Types, Sole, UnreadIsSignalled,
       Words, Flags, Places, Opening, Loaded, Inside, Leaving
<1>13. ASSUME NEW u \in Users, ReadCopy(u) PROVE UnreadIsSignalled'
  BY <1>13 DEF ReadCopy, Note, io, handler, counts, Goto, Types, Sole, UnreadIsSignalled,
       Words, Flags, Places, Opening, Loaded, Inside, Leaving
<1>14. ASSUME NEW u \in Users, ReadLoad(u) PROVE UnreadIsSignalled'
  BY <1>14 DEF ReadLoad, Load, Collides, Note, io, handler, counts, Goto, Types, Sole,
       UnreadIsSignalled, Words, Flags, Places, Opening, Loaded, Inside, Leaving
<1>15. ASSUME NEW u \in Users, ReadStore(u) PROVE UnreadIsSignalled'
  BY <1>15 DEF ReadStore, Store, Note, io, handler, counts, Goto, Types, Sole,
       UnreadIsSignalled, Words, Flags, Places, Opening, Loaded, Inside, Leaving
<1>16. ASSUME NEW u \in Users, Write(u) PROVE UnreadIsSignalled'
  BY <1>16 DEF Write, Talks, Started, io, handler, counts, Goto, Types, Sole,
       UnreadIsSignalled, Words, Flags, Places, Opening, Loaded, Inside, Leaving
<1>17. ASSUME NEW u \in Users, WriteTimeout(u) PROVE UnreadIsSignalled'
  BY <1>17 DEF WriteTimeout, Note, io, handler, counts, Goto, Types, Sole,
       UnreadIsSignalled, Words, Flags, Places, Opening, Loaded, Inside, Leaving
<1>18. ASSUME NEW u \in Users, WriteDone(u) PROVE UnreadIsSignalled'
  BY <1>18 DEF WriteDone, Note, Collides, io, handler, counts, Goto, Types, Sole,
       UnreadIsSignalled, Words, Flags, Places, Opening, Loaded, Inside, Leaving
<1>19. ASSUME NEW u \in Users, WriteStore(u) PROVE UnreadIsSignalled'
  BY <1>19 DEF WriteStore, Store, io, handler, counts, Goto, Types, Sole,
       UnreadIsSignalled, Words, Flags, Places, Opening, Loaded, Inside, Leaving
<1>20. ASSUME NEW u \in Users, FreeRx(u) PROVE UnreadIsSignalled'
  BY <1>20 DEF FreeRx, Serving, io, handler, counts, Goto, Types, Sole, UnreadIsSignalled, Words,
       Flags, Places, Opening, Loaded, Inside, Leaving
<1>21. ASSUME NEW u \in Users, FreeTx(u) PROVE UnreadIsSignalled'
  BY <1>21 DEF FreeTx, Serving, Note, Collides, io, handler, counts, Goto, Types, Sole,
       UnreadIsSignalled, Words, Flags, Places, Opening, Loaded, Inside, Leaving
<1>22. ASSUME NEW u \in Users, ReleaseStore(u) PROVE UnreadIsSignalled'
  BY <1>22 DEF ReleaseStore, Store, io, handler, counts, Goto, Types, Sole,
       UnreadIsSignalled, Words, Flags, Places, Opening, Loaded, Inside, Leaving
<1>23. CASE UNCHANGED vars
  BY <1>23 DEF vars, Types, Sole, UnreadIsSignalled, Words, Flags, Places, Opening,
       Loaded, Inside, Leaving
<1>24. CASE IrqAgain
  BY <1>24 DEF IrqAgain, RxRun, TxRun, Hits, Note, Loaded, counts, Types, Sole, UnreadIsSignalled,
       Words,
       Flags, Places, Opening, Inside, Leaving
<1>. QED
  BY <1>1, <1>2, <1>3, <1>4, <1>5, <1>6, <1>7, <1>8, <1>9, <1>10, <1>11, <1>12, <1>13,
       <1>14, <1>15, <1>16, <1>17, <1>18, <1>19, <1>20, <1>21, <1>22, <1>23, <1>24
  DEF Next, Handler, User

\* No second signal for one frame.
LEMMA ReceivedStep ==
  ASSUME Types, Sole, Received, [Next]_vars
  PROVE  Received'
PROOF
<1>. USE UsersAssumption
<1>1. CASE RxFrame
  BY <1>1 DEF RxFrame, Note, handler, counts, Types, Sole, Received, Copying, Words,
       Flags, Places, Opening, Loaded, Inside, Leaving
<1>2. CASE HwDone
  BY <1>2 DEF HwDone, handler, counts, Types, Sole, Received, Copying, Words, Flags,
       Places, Opening, Loaded, Inside, Leaving
<1>3. CASE IrqRx
  BY <1>3 DEF IrqRx, RxRun, Hits, Note, Loaded, counts, Types, Sole, Received, Copying, Words,
       Flags, Places, Opening, Inside, Leaving
<1>4. CASE IrqTx
  BY <1>4 DEF IrqTx, TxRun, Hits, Note, Loaded, counts, Types, Sole, Received, Copying, Words,
       Flags, Places, Opening, Inside, Leaving
<1>5. CASE IrqStore
  BY <1>5 DEF IrqStore, io, counts, Types, Sole, Received, Copying, Words, Flags, Places,
       Opening, Loaded, Inside, Leaving
<1>6. ASSUME NEW u \in Users, OpenTest(u) PROVE Received'
  BY <1>6 DEF OpenTest, Note, Opening, io, handler, counts, Goto, Types, Sole, Received,
       Copying, Words, Flags, Places, Loaded, Inside, Leaving
<1>7. ASSUME NEW u \in Users, OpenRx(u) PROVE Received'
  BY <1>7 DEF OpenRx, Owed, Serving, io, counts, Goto, Types, Sole, Received, Copying, Words,
       Flags, Places, Opening, Loaded, Inside, Leaving
<1>8. ASSUME NEW u \in Users, OpenTx(u) PROVE Received'
  BY <1>8 DEF OpenTx, Owed, Serving, io, counts, Goto, Types, Sole, Received, Copying, Words,
       Flags, Places, Opening, Loaded, Inside, Leaving
<1>9. ASSUME NEW u \in Users, OpenLoad(u) PROVE Received'
  BY <1>9 DEF OpenLoad, Load, Collides, Note, io, handler, counts, Goto, Types, Sole,
       Received, Copying, Words, Flags, Places, Opening, Loaded, Inside, Leaving
<1>10. ASSUME NEW u \in Users, OpenStore(u) PROVE Received'
  BY <1>10 DEF OpenStore, Store, io, handler, counts, Goto, Types, Sole, Received,
       Copying, Words, Flags, Places, Opening, Loaded, Inside, Leaving
<1>11. ASSUME NEW u \in Users, Read(u) PROVE Received'
  BY <1>11 DEF Read, Talks, io, handler, counts, Goto, Types, Sole, Received, Copying,
       Words, Flags, Places, Opening, Loaded, Inside, Leaving
<1>12. ASSUME NEW u \in Users, ReadTimeout(u) PROVE Received'
  BY <1>12 DEF ReadTimeout, io, handler, counts, Goto, Types, Sole, Received, Copying,
       Words, Flags, Places, Opening, Loaded, Inside, Leaving
<1>13. ASSUME NEW u \in Users, ReadCopy(u) PROVE Received'
  <2>. SUFFICES ASSUME ghosts' \cap {"raced", "overrun", "signal", "again"} = {} PROVE Received'
    BY DEF Received
  <2>1. ghosts' = ghosts /\ word["rx_interrupt"] = 1
    BY <1>13 DEF ReadCopy, Note
  <2>2. "raced" \notin ghosts /\ pc[u] = "read"
    BY <1>13, <2>1 DEF ReadCopy
  <2>3. ~Copying
    BY <2>2 DEF Sole, Copying
  <2>4. dma_sr = 0
    BY <2>1, <2>3 DEF Received, Types
  <2>5. UNCHANGED <<dma_sr, isr, word>>
    BY <1>13 DEF ReadCopy, handler
  <2>6. Copying'
    BY <1>13 DEF ReadCopy, Goto, Copying, Types
  <2>. QED
    BY <2>4, <2>5, <2>6 DEF Received, Types
<1>14. ASSUME NEW u \in Users, ReadLoad(u) PROVE Received'
  BY <1>14 DEF ReadLoad, Load, Collides, Note, io, handler, counts, Goto, Types, Sole,
       Received, Copying, Words, Flags, Places, Opening, Loaded, Inside, Leaving
<1>15. ASSUME NEW u \in Users, ReadStore(u) PROVE Received'
  BY <1>15 DEF ReadStore, Store, Note, io, handler, counts, Goto, Types, Sole, Received,
       Copying, Words, Flags, Places, Opening, Loaded, Inside, Leaving
<1>16. ASSUME NEW u \in Users, Write(u) PROVE Received'
  BY <1>16 DEF Write, Talks, Started, io, handler, counts, Goto, Types, Sole, Received,
       Copying, Words, Flags, Places, Opening, Loaded, Inside, Leaving
<1>17. ASSUME NEW u \in Users, WriteTimeout(u) PROVE Received'
  BY <1>17 DEF WriteTimeout, Note, io, handler, counts, Goto, Types, Sole, Received,
       Copying, Words, Flags, Places, Opening, Loaded, Inside, Leaving
<1>18. ASSUME NEW u \in Users, WriteDone(u) PROVE Received'
  BY <1>18 DEF WriteDone, Note, Collides, io, handler, counts, Goto, Types, Sole,
       Received, Copying, Words, Flags, Places, Opening, Loaded, Inside, Leaving
<1>19. ASSUME NEW u \in Users, WriteStore(u) PROVE Received'
  BY <1>19 DEF WriteStore, Store, io, handler, counts, Goto, Types, Sole, Received,
       Copying, Words, Flags, Places, Opening, Loaded, Inside, Leaving
<1>20. ASSUME NEW u \in Users, FreeRx(u) PROVE Received'
  BY <1>20 DEF FreeRx, Serving, io, handler, counts, Goto, Types, Sole, Received, Copying, Words,
       Flags, Places, Opening, Loaded, Inside, Leaving
<1>21. ASSUME NEW u \in Users, FreeTx(u) PROVE Received'
  BY <1>21 DEF FreeTx, Serving, Note, Collides, io, handler, counts, Goto, Types, Sole, Received,
       Copying, Words, Flags, Places, Opening, Loaded, Inside, Leaving
<1>22. ASSUME NEW u \in Users, ReleaseStore(u) PROVE Received'
  BY <1>22 DEF ReleaseStore, Store, io, handler, counts, Goto, Types, Sole, Received,
       Copying, Words, Flags, Places, Opening, Loaded, Inside, Leaving
<1>23. CASE UNCHANGED vars
  BY <1>23 DEF vars, Types, Sole, Received, Copying, Words, Flags, Places, Opening,
       Loaded, Inside, Leaving
<1>24. CASE IrqAgain
  <2>. SUFFICES ASSUME ghosts' \cap {"raced", "overrun", "signal", "again"} = {}
                PROVE  Received'
    BY DEF Received
  <2>1. ghosts \cap {"raced", "overrun", "signal", "again"} = {}
    BY <1>24 DEF IrqAgain, Note
  <2>2. UNCHANGED <<pc, word, dst>>
    BY <1>24 DEF IrqAgain
  <2>3. CASE isr = "tx_next"
    BY <1>24, <2>1, <2>2, <2>3 DEF IrqAgain, TxRun, Received, Copying
  <2>4. CASE isr = "rx_next"
    <3>1. dst # "new" => word["rx_interrupt"] # 0
      BY <1>24, <2>4 DEF IrqAgain, Note
    <3>. QED
      BY <1>24, <2>1, <2>2, <2>4, <3>1 DEF IrqAgain, RxRun, Received, Copying, Types
  <2>. QED
    BY <1>24, <2>3, <2>4 DEF IrqAgain
<1>. QED
  BY <1>1, <1>2, <1>3, <1>4, <1>5, <1>6, <1>7, <1>8, <1>9, <1>10, <1>11, <1>12, <1>13,
       <1>14, <1>15, <1>16, <1>17, <1>18, <1>19, <1>20, <1>21, <1>22, <1>23, <1>24
  DEF Next, Handler, User

\* The tx line runs its handler once, unless the flags were raced for.
LEMMA TxRunsOnce ==
  ASSUME Types, Counted, Handlers, Sole, "raced" \notin ghosts
  PROVE  isr # "tx_next" /\ (Serving("tx") => todo = 0)
PROOF
<1>1. CASE TxUsers = {}
  BY <1>1, NobodyCounted DEF Counted, Handlers, Serving, Types
<1>2. CASE TxUsers # {}
  <2>1. PICK u \in Users : HasTx(u)
    BY <1>2 DEF TxUsers
  <2>2. \A v \in Users : HasTx(v) => pc[v] # "out"
    BY DEF HasTx, Inside
  <2>3. TxUsers = {u}
    BY <2>1, <2>2 DEF Sole, TxUsers
  <2>4. irq.tx = 1
    BY <2>3, FS_Singleton DEF Counted
  <2>. QED
    BY <2>4 DEF Handlers, Serving, Types
<1>. QED
  BY <1>1, <1>2

\* A write ends with the completion of its own frame.
LEMMA CompletionStep ==
  ASSUME Types, Counted, Handlers, Sole, Completion, [Next]_vars
  PROVE  Completion'
PROOF
<1>. USE UsersAssumption
<1>1. CASE RxFrame
  BY <1>1 DEF RxFrame, Note, handler, counts, Types, Sole, Completion, Words, Flags,
       Places, Opening, Loaded, Inside, Leaving
<1>2. CASE HwDone
  <2>. SUFFICES ASSUME ghosts \cap {"raced", "timeout", "signal"} = {} PROVE Completion'
    BY <1>2 DEF HwDone, Completion
  <2>1. PICK u \in Users : pc[u] \in {"write", "write_loaded"}
    BY <1>2 DEF HwDone, Completion
  <2>2. \A v \in Users : v # u => pc[v] = "out"
    BY <2>1 DEF Sole
  <2>3. pc[u] = "write" /\ hw = <<<<u, next[u]>>>> /\ aired[u] = next[u] - 1
        /\ isr # "tx" /\ word["tx_interrupt"] = 0
    BY <1>2, <2>1 DEF HwDone, Completion
  <2>4. Head(hw) = <<u, next[u]>> /\ Tail(hw) = <<>>
    BY <2>3
  <2>5. aired' = [aired EXCEPT ![u] = next[u]] /\ hw' = <<>>
    <3>1. \A v \in Users : Head(hw) = <<v, aired[v] + 1>> <=> v = u
      BY <2>3, <2>4 DEF Types
    <3>2. aired[u] + 1 = next[u]
      BY <2>3 DEF Types
    <3>. QED
      BY <1>2, <2>4, <3>1, <3>2 DEF HwDone, Types
  <2>6. UNCHANGED <<word, pc, isr, next, ghosts>>
    BY <1>2 DEF HwDone, handler, counts
  <2>7. aired'[u] = next[u] /\ \A v \in Users : v # u => aired'[v] = aired[v]
    BY <2>5 DEF Types
  <2>. QED
    BY <2>1, <2>2, <2>3, <2>5, <2>6, <2>7 DEF Completion
<1>3. CASE IrqRx
  BY <1>3 DEF IrqRx, RxRun, Hits, Note, Loaded, counts, Types, Sole, Completion, Words, Flags,
       Places, Opening, Inside, Leaving
<1>4. CASE IrqTx
  BY <1>4 DEF IrqTx, TxRun, Hits, Note, Loaded, counts, Types, Sole, Completion, Words, Flags,
       Places, Opening, Inside, Leaving
<1>5. CASE IrqStore
  BY <1>5 DEF IrqStore, io, counts, Types, Sole, Completion, Words, Flags, Places,
       Opening, Loaded, Inside, Leaving
<1>6. ASSUME NEW u \in Users, OpenTest(u) PROVE Completion'
  BY <1>6 DEF OpenTest, Note, Opening, io, handler, counts, Goto, Types, Sole,
       Completion, Words, Flags, Places, Loaded, Inside, Leaving
<1>7. ASSUME NEW u \in Users, OpenRx(u) PROVE Completion'
  <2>1. UNCHANGED <<hw, aired, next, mlip_sr, isr, word, ghosts>>
    BY <1>7 DEF OpenRx, io, counts
  <2>2. \A v \in Users : pc'[v] = pc[v] \/ {pc[v], pc'[v]} \cap {"write", "write_loaded"} = {}
    BY <1>7 DEF OpenRx, Goto, Types
  <2>. QED
    BY <2>1, <2>2 DEF Completion
<1>8. ASSUME NEW u \in Users, OpenTx(u) PROVE Completion'
  <2>1. UNCHANGED <<hw, aired, next, mlip_sr, isr, word, ghosts>>
    BY <1>8 DEF OpenTx, io, counts
  <2>2. \A v \in Users : pc'[v] = pc[v] \/ {pc[v], pc'[v]} \cap {"write", "write_loaded"} = {}
    BY <1>8 DEF OpenTx, Goto, Types
  <2>. QED
    BY <2>1, <2>2 DEF Completion
<1>9. ASSUME NEW u \in Users, OpenLoad(u) PROVE Completion'
  BY <1>9 DEF OpenLoad, Load, Collides, Note, io, handler, counts, Goto, Types, Sole,
       Completion, Words, Flags, Places, Opening, Loaded, Inside, Leaving
<1>10. ASSUME NEW u \in Users, OpenStore(u) PROVE Completion'
  BY <1>10 DEF OpenStore, Store, io, handler, counts, Goto, Types, Sole, Completion,
       Words, Flags, Places, Opening, Loaded, Inside, Leaving
<1>11. ASSUME NEW u \in Users, Read(u) PROVE Completion'
  BY <1>11 DEF Read, Talks, io, handler, counts, Goto, Types, Sole, Completion, Words,
       Flags, Places, Opening, Loaded, Inside, Leaving
<1>12. ASSUME NEW u \in Users, ReadTimeout(u) PROVE Completion'
  BY <1>12 DEF ReadTimeout, io, handler, counts, Goto, Types, Sole, Completion, Words,
       Flags, Places, Opening, Loaded, Inside, Leaving
<1>13. ASSUME NEW u \in Users, ReadCopy(u) PROVE Completion'
  BY <1>13 DEF ReadCopy, Note, io, handler, counts, Goto, Types, Sole, Completion, Words,
       Flags, Places, Opening, Loaded, Inside, Leaving
<1>14. ASSUME NEW u \in Users, ReadLoad(u) PROVE Completion'
  BY <1>14 DEF ReadLoad, Load, Collides, Note, io, handler, counts, Goto, Types, Sole,
       Completion, Words, Flags, Places, Opening, Loaded, Inside, Leaving
<1>15. ASSUME NEW u \in Users, ReadStore(u) PROVE Completion'
  <2>. SUFFICES ASSUME ghosts \cap {"raced", "timeout", "signal"} = {} PROVE Completion'
    BY <1>15 DEF ReadStore, Note, Completion
  <2>1. pc[u] = "read_loaded" /\ reg[u] = word
    BY <1>15 DEF ReadStore, Store, Sole, Loaded
  <2>2. word'["tx_interrupt"] = word["tx_interrupt"]
    BY <1>15, <2>1 DEF ReadStore, Store, Types, Words, Flags
  <2>3. UNCHANGED <<hw, aired, next, mlip_sr, isr>>
    BY <1>15 DEF ReadStore, io, handler, counts
  <2>4. \A v \in Users : pc'[v] = pc[v] \/ {pc[v], pc'[v]} \cap {"write", "write_loaded"} = {}
    BY <1>15, <2>1 DEF ReadStore, Store, Goto, Types
  <2>. QED
    BY <2>2, <2>3, <2>4 DEF Completion
<1>16. ASSUME NEW u \in Users, Write(u) PROVE Completion'
  <2>. SUFFICES ASSUME ghosts \cap {"raced", "timeout", "signal"} = {} PROVE Completion'
    BY <1>16 DEF Write, Completion
  <2>1. pc[u] = "in" /\ \A v \in Users : v # u => pc[v] = "out"
    BY <1>16 DEF Write, Sole
  <2>2. hw = <<>> /\ mlip_sr = 0 /\ isr # "tx" /\ word["tx_interrupt"] = 0
    BY <2>1 DEF Completion
  <2>3. hw' = <<<<u, next[u]>>>>
    <3>. DEFINE f == <<u, next[u]>>
                g == [i \in DOMAIN hw |-> <<hw[i][1], 0>>]
    <3>1. hw' \in {Append(hw, f), Append(g, f), <<f>>}
      BY <1>16 DEF Write, Started
    <3>2. g = <<>>
      BY <2>2
    <3>. HIDE DEF f, g
    <3>3. Append(hw, f) = <<f>> /\ Append(g, f) = <<f>>
      BY <2>2, <3>2
    <3>. QED
      BY <3>1, <3>3 DEF f
  <2>4. pc' = [pc EXCEPT ![u] = "write"] /\ UNCHANGED <<word, isr, mlip_sr, aired, next>>
    BY <1>16 DEF Write, Goto, handler
  <2>5. pc'[u] = "write" /\ \A v \in Users : v # u => pc'[v] = "out"
    BY <2>1, <2>4 DEF Types
  <2>. QED
    BY <2>1, <2>2, <2>3, <2>4, <2>5 DEF Completion
<1>17. ASSUME NEW u \in Users, WriteTimeout(u) PROVE Completion'
  BY <1>17 DEF WriteTimeout, Note, io, handler, counts, Goto, Types, Sole, Completion,
       Words, Flags, Places, Opening, Loaded, Inside, Leaving
<1>18. ASSUME NEW u \in Users, WriteDone(u) PROVE Completion'
  <2>. SUFFICES ASSUME ghosts' \cap {"raced", "timeout", "signal"} = {} PROVE Completion'
    BY DEF Completion
  <2>1. word["tx_interrupt"] = 1 /\ ghosts \cap {"raced", "timeout", "signal"} = {}
    BY <1>18 DEF WriteDone, Note, Collides
  <2>2. pc[u] = "write" /\ \A v \in Users : v # u => pc[v] = "out"
    BY <1>18, <2>1 DEF WriteDone, Sole
  <2>3. hw = <<>> /\ aired[u] = next[u] /\ mlip_sr = 0 /\ isr # "tx"
    BY <2>1, <2>2 DEF Completion, Types
  <2>4. pc' = [pc EXCEPT ![u] = "write_loaded"] /\ UNCHANGED <<word, isr, mlip_sr, aired,
       next, hw>>
    BY <1>18 DEF WriteDone, Goto, handler, io, counts
  <2>5. pc'[u] = "write_loaded" /\ \A v \in Users : v # u => pc'[v] = "out"
    BY <2>2, <2>4 DEF Types
  <2>6. \A v \in Users : v # u => aired[v] = next[v] - 1
    BY <2>1, <2>2 DEF Completion
  <2>. QED
    BY <2>3, <2>4, <2>5, <2>6 DEF Completion
<1>19. ASSUME NEW u \in Users, WriteStore(u) PROVE Completion'
  BY <1>19 DEF WriteStore, Store, io, handler, counts, Goto, Types, Sole, Completion,
       Words, Flags, Places, Opening, Loaded, Inside, Leaving
<1>20. ASSUME NEW u \in Users, FreeRx(u) PROVE Completion'
  <2>1. ghosts' \cap {"raced", "timeout", "signal"} = {}
            => ghosts \cap {"raced", "timeout", "signal"} = {}
    BY <1>20 DEF FreeRx
  <2>2. UNCHANGED <<hw, aired, next, mlip_sr, isr, word>>
    BY <1>20 DEF FreeRx, io, handler, counts
  <2>3. \A v \in Users : pc'[v] = pc[v] \/ {pc[v], pc'[v]} \cap {"write", "write_loaded"} = {}
    BY <1>20 DEF FreeRx, Goto, Types
  <2>. QED
    BY <2>1, <2>2, <2>3 DEF Completion
<1>21. ASSUME NEW u \in Users, FreeTx(u) PROVE Completion'
  <2>1. ghosts' \cap {"raced", "timeout", "signal"} = {}
            => ghosts \cap {"raced", "timeout", "signal"} = {}
    BY <1>21 DEF FreeTx, Note, Collides
  <2>2. UNCHANGED <<hw, aired, next, mlip_sr, isr, word>>
    BY <1>21 DEF FreeTx, io, handler, counts
  <2>3. \A v \in Users : pc'[v] = pc[v] \/ {pc[v], pc'[v]} \cap {"write", "write_loaded"} = {}
    BY <1>21 DEF FreeTx, Goto, Types
  <2>. QED
    BY <2>1, <2>2, <2>3 DEF Completion
<1>22. ASSUME NEW u \in Users, ReleaseStore(u) PROVE Completion'
  BY <1>22 DEF ReleaseStore, Store, io, handler, counts, Goto, Types, Sole, Completion,
       Words, Flags, Places, Opening, Loaded, Inside, Leaving
<1>23. CASE UNCHANGED vars
  BY <1>23 DEF vars, Types, Sole, Completion, Words, Flags, Places, Opening, Loaded,
       Inside, Leaving
<1>24. CASE IrqAgain
  <2>1. "raced" \notin ghosts' => "raced" \notin ghosts /\ isr = "rx_next"
    BY <1>24, TxRunsOnce DEF IrqAgain, Note
  <2>2. UNCHANGED <<word, pc, hw, aired, next>>
    BY <1>24 DEF IrqAgain, counts
  <2>3. isr = "rx_next" => isr' = "rx" /\ mlip_sr' = mlip_sr
    BY <1>24 DEF IrqAgain, RxRun
  <2>4. ghosts \cap {"raced", "timeout", "signal"} # {} =>
          ghosts' \cap {"raced", "timeout", "signal"} # {}
    BY <1>24 DEF IrqAgain, Note
  <2>. QED
    BY <2>1, <2>2, <2>3, <2>4 DEF Completion
<1>. QED
  BY <1>1, <1>2, <1>3, <1>4, <1>5, <1>6, <1>7, <1>8, <1>9, <1>10, <1>11, <1>12, <1>13,
       <1>14, <1>15, <1>16, <1>17, <1>18, <1>19, <1>20, <1>21, <1>22, <1>23, <1>24
  DEF Next, Handler, User

\* Every behaviour keeps the inductive invariant.
THEOREM Invariance == Spec => []IInv
PROOF
<1>1. Init => IInv
  BY InitHolds
<1>2. IInv /\ [Next]_vars => IInv'
  BY TypesStep, CountedStep, HandlersStep, MarkedStep, SoleStep, UnreadStep, ReceivedStep,
     CompletionStep DEF IInv
<1>. QED
  BY <1>1, <1>2, PTL DEF Spec

\* One request of each interrupt for each program that has the device, and one of rx
\* for each open that failed half way.
THEOREM RequestsBalanced == Spec => []IrqsBalanced
PROOF
<1>1. IInv => IrqsBalanced
  BY DEF IInv, Counted, RxUsers, TxUsers, IrqsBalanced
<1>. QED
  BY <1>1, Invariance, PTL

\* Every variable keeps its type; no interrupt is freed that is not requested.
THEOREM TypeCorrect == Spec => []TypeOK
PROOF
<1>1. IInv => TypeOK
  <2>1. IInv => irq.rx \in Nat /\ irq.tx \in Nat
    BY UsersFinite, UsersAssumption DEF IInv, Types, Counted
  <2>2. IInv => irq \in [rx : Nat, tx : Nat]
    BY <2>1 DEF IInv, Types
  <2>. QED
    BY <2>2 DEF IInv, Types, TypeOK
<1>. QED
  BY <1>1, Invariance, PTL

\* One program has the device, unless opens overlapped or the flag word was raced for.
THEOREM OneUserAtATime == Spec => []OneUser
PROOF
<1>1. IInv => OneUser
  <2>. SUFFICES ASSUME Sole, "raced" \notin ghosts
                PROVE  Cardinality({u \in Users : pc[u] # "out"}) <= 1
    BY DEF IInv, OneUser
  <2>. DEFINE In == {u \in Users : pc[u] # "out"}
  <2>1. CASE In = {}
    BY <2>1, NobodyCounted
  <2>2. CASE In # {}
    <3>1. PICK u \in Users : pc[u] # "out"
      BY <2>2
    <3>2. In = {u}
      BY <3>1 DEF Sole
    <3>3. Cardinality(In) = 1
      BY <3>2, FS_Singleton
    <3>. QED
      BY <3>3
  <2>. QED
    BY <2>1, <2>2
<1>. QED
  BY <1>1, Invariance, PTL

\* A device nobody has can be opened, unless an open had failed half way.
THEOREM DeviceFreeWhenOut == Spec => []FreeWhenOut
PROOF
<1>1. IInv => FreeWhenOut
  BY DEF IInv, Types, Words, Flags, Marked, FreeWhenOut
<1>. QED
  BY <1>1, Invariance, PTL

\* A frame nobody has read is signalled, but for the two named causes.
THEOREM FrameSignalled == Spec => []UnreadIsSignalled
PROOF
<1>1. IInv => UnreadIsSignalled
  BY DEF IInv
<1>. QED
  BY <1>1, Invariance, PTL

\* What write reported as sent is on the air, whole, once and in order.
THEOREM WrittenIsOnAir == Spec => []SentIsOnAir
PROOF
<1>1. IInv => SentIsOnAir
  <2>. SUFFICES ASSUME Types, Completion, ghosts \cap {"raced", "timeout", "signal"} = {}
                PROVE  /\ \A u \in Users : aired[u] \in {next[u] - 1, next[u]}
                       /\ hw # <<>> => \E u \in Users : hw = <<<<u, aired[u] + 1>>>>
    BY DEF IInv, SentIsOnAir
  <2>1. \A u \in Users : aired[u] \in {next[u] - 1, next[u]}
    BY DEF Completion
  <2>2. ASSUME hw # <<>> PROVE \E u \in Users : hw = <<<<u, aired[u] + 1>>>>
    <3>1. PICK u \in Users : pc[u] = "write" /\ hw = <<<<u,
       next[u]>>>> /\ aired[u] = next[u] - 1
      BY <2>2 DEF Completion
    <3>2. aired[u] + 1 = next[u]
      BY <3>1 DEF Types
    <3>. QED
      BY <3>1, <3>2
  <2>. QED
    BY <2>1, <2>2
<1>. QED
  BY <1>1, Invariance, PTL

\* read returns a frame once, but for the four named causes.
THEOREM FrameReadOnce == Spec => ReadOnce
PROOF
<1>1. ASSUME Types, Sole, Received, [Next]_vars, NEW u \in Users,
             pc[u] = "read", pc'[u] = "copied", dst = "old"
      PROVE  ghosts' \cap {"raced", "overrun", "signal", "again"} # {}
  <2>1. PICK v \in Users : User(v)
    BY <1>1 DEF Next, Handler, vars, RxFrame, HwDone, IrqRx, IrqTx, IrqAgain, IrqStore
  <2>2. \E to : pc' = [pc EXCEPT ![v] = to]
    BY <2>1 DEF User, Goto, Load, Store, OpenTest, OpenRx, OpenTx, OpenLoad, OpenStore,
       Read, ReadTimeout, ReadCopy, ReadLoad, ReadStore, Write, WriteTimeout, WriteDone,
       WriteStore,
       FreeRx, FreeTx, ReleaseStore
  <2>3. v = u
    BY <1>1, <2>2 DEF Types
  <2>4. ReadCopy(u)
    BY <1>1, <2>1, <2>3 DEF User, Types, Goto, Load, Store, OpenTest, OpenRx, OpenTx,
       OpenLoad,
       OpenStore, Read, ReadTimeout, ReadLoad, ReadStore, Write, WriteTimeout, WriteDone,
       WriteStore, FreeRx, FreeTx, ReleaseStore
  <2>5. CASE word["rx_interrupt"] = 1 /\ ghosts' = ghosts
    <3>1. ghosts \cap {"raced", "overrun", "signal", "again"} = {} => ~Copying
      BY <1>1 DEF Sole, Copying
    <3>. QED
      BY <1>1, <2>5, <3>1 DEF Received
  <2>6. CASE Note({"signal"})
    BY <2>6 DEF Note
  <2>. QED
    BY <2>4, <2>5, <2>6 DEF ReadCopy
<1>2. IInv /\ [Next]_vars =>
        [\A u \in Users : pc[u] = "read" /\ pc'[u] = "copied" /\ dst = "old"
           => ghosts' \cap {"raced", "overrun", "signal", "again"} # {}]_vars
  BY <1>1 DEF IInv
<1>. QED
  BY <1>2, Invariance, PTL DEF Spec, ReadOnce
=============================================================================
