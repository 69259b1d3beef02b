--------------------------- MODULE MfhssNet_proofs ---------------------------
(***************************************************************************)
(* Proofs about two parts of the mfhss network driver: its transmit path,  *)
(* for any number of frames and openings, and then the registers it shares *)
(* with programs, for any programs, files and values.                      *)
(***************************************************************************)
EXTENDS MfhssNetTx, MfhssRegs, TLAPS

One(b) == IF b THEN 1 ELSE 0

\* A completion that is signalled and not yet taken by the handler.
Pending == One(sr = 1 /\ irq = "idle")

\* The permissions to start a frame that exist or are owed: a running queue,
\* a call that passed the stop, a handler that will wake the queue, and the
\* completions that will raise such a handler.
Permissions ==
  One(queue = "runs") + One(tx = "fire") + One(irq = "ack") + hw + Pending

\* mfhss_tx_pkt runs only on an active device, no handler outlives free_irq.
Idle ==
  /\ phase # "up" => tx = "idle"
  /\ phase = "down" => irq = "idle"

\* Only mfhss_open and mfhss_tx_timeout create a permission.
Budget == Permissions <= 1 + tx_errors

\* Without a timeout a frame in transmission is the remembered buffer.
Current == tx_errors = 0 /\ hw + Pending > 0 => skb = "held"

\* A buffer the driver still owns although no completion will free it.
Abandoned ==
  /\ skb = "held"
  /\ \/ phase = "down"
     \/ phase \in {"up", "closing"} /\ hw + Pending = 0

\* Without a timeout nothing was freed twice, and the buffers given up or
\* about to be are paid for by closes.
Books == tx_errors = 0 => dfree = 0 /\ leaks + One(Abandoned) <= aborts

\* Something in transmission or signalled has a buffer.
HasSkb == hw > 0 \/ sr = 1 => skb # "null"

IInv ==
  /\ TypeOK /\ OpenReleasesAll
  /\ Idle /\ Budget /\ Current /\ Books /\ HasSkb
-----------------------------------------------------------------------------
\* The stage mfhss_open unwinds from covers exactly what it had acquired.
LEMMA UnwindExact == \A i \in 1..5 : close_stage[UnwindStage[i]] = i - 1
BY DEF close_stage, UnwindStage

\* A failed mfhss_open leaves the holdings as they were.
LEMMA FailedOpenHoldsNothing ==
  ASSUME TypeOK, NEW i \in 1..5
  PROVE  mfhss_close_from(UnwindStage[i], Acquire(i - 1)) = res
<1> DEFINE got == {Acquired[j] : j \in 1..(i - 1)}
<1>1. \A r \in Resources : Acquire(i - 1)[r] = res[r] + (IF r \in got THEN 1 ELSE 0)
  BY DEF Acquire
<1>2. close_stage[UnwindStage[i]] = i - 1
  BY UnwindExact
<1>3. \A r \in Resources : mfhss_close_from(UnwindStage[i], Acquire(i - 1))[r] = res[r]
  <2> SUFFICES ASSUME NEW r \in Resources
               PROVE mfhss_close_from(UnwindStage[i], Acquire(i - 1))[r] = res[r]
    OBVIOUS
  <2>1. res[r] \in Int
    BY DEF TypeOK
  <2>2. mfhss_close_from(UnwindStage[i], Acquire(i - 1))[r]
          = Acquire(i - 1)[r] - (IF r \in got THEN 1 ELSE 0)
    BY <1>2 DEF mfhss_close_from
  <2> QED
    BY <1>1, <2>1, <2>2
<1> QED
  BY <1>3 DEF TypeOK, mfhss_close_from

\* A complete acquisition, and STAGE_FREE_ALL, reach every resource.
LEMMA AllReached ==
  /\ Resources = {Acquired[j] : j \in 1..close_stage["STAGE_FREE_ALL"]}
  /\ "irq_tx" \in Resources
<1>1. close_stage["STAGE_FREE_ALL"] = 5
  BY DEF close_stage
<1>2. Acquired[4] = "irq_tx"
  BY DEF Acquired
<1> QED
  BY <1>1, <1>2 DEF Resources

\* Every action keeps the DMA buffers and interrupt lines in step with the
\* phase of the device, and the variables in their types.
LEMMA ResourceStep ==
  ASSUME TypeOK, OpenReleasesAll, [Next]_vars
  PROVE  res' \in [Resources -> Int] /\ OpenReleasesAll'
<1> USE DEF OpenReleasesAll
<1>1. ASSUME NEW i \in 1..5, OpenFails(i)
      PROVE  res' \in [Resources -> Int] /\ OpenReleasesAll'
  <2>1. res' = res /\ phase' = phase
    BY <1>1, FailedOpenHoldsNothing DEF OpenFails
  <2> QED
    BY <2>1 DEF TypeOK
<1>2. CASE Open
  <2>1. \A r \in Resources : res'[r] = res[r] + 1
    BY <1>2 DEF Open, Acquire, Resources
  <2>2. res' \in [Resources -> Int]
    BY <1>2 DEF Open, Acquire, TypeOK
  <2> QED
    BY <1>2, <2>1, <2>2 DEF Open
<1>3. CASE CloseFree
  <2>1. \A r \in Resources : res'[r] = res[r] - 1
    BY <1>3, AllReached DEF CloseFree, mfhss_close_from
  <2>2. res' \in [Resources -> Int]
    BY <1>3 DEF CloseFree, mfhss_close_from, TypeOK
  <2> QED
    BY <1>3, <2>1, <2>2 DEF CloseFree
<1>4. CASE \/ TxStop \/ TxFire \/ HwDone \/ IrqTx \/ IrqAck \/ TxTimeout
           \/ CloseStop \/ CloseOff \/ UNCHANGED vars
  BY <1>4 DEF TypeOK, TxStop, TxFire, HwDone, IrqTx, IrqAck, TxTimeout, CloseStop,
              CloseOff, vars
<1> QED
  BY <1>1, <1>2, <1>3, <1>4 DEF Next

\* No step leaves the types.
LEMMA TypeStep ==
  ASSUME TypeOK, OpenReleasesAll, [Next]_vars
  PROVE  TypeOK'
<1>1. res' \in [Resources -> Int]
  BY ResourceStep
<1> USE BoundsAssumption, <1>1 DEF TypeOK, vars, stats, ghosts
<1>2. ASSUME NEW i \in 1..5, OpenFails(i) PROVE TypeOK'
  BY <1>2 DEF OpenFails
<1>3. CASE Open
  BY <1>3 DEF Open, ResetMlip
<1>4. CASE TxStop
  BY <1>4 DEF TxStop
<1>5. CASE TxFire
  BY <1>5 DEF TxFire
<1>6. CASE HwDone
  BY <1>6 DEF HwDone
<1>7. CASE IrqTx
  BY <1>7 DEF IrqTx
<1>8. CASE IrqAck
  BY <1>8 DEF IrqAck
<1>9. CASE TxTimeout
  BY <1>9 DEF TxTimeout
<1>10. CASE CloseStop \/ CloseOff \/ CloseFree
  BY <1>10 DEF CloseStop, CloseOff, CloseFree
<1>11. CASE UNCHANGED vars
  BY <1>11
<1> QED
  BY <1>2, <1>3, <1>4, <1>5, <1>6, <1>7, <1>8, <1>9, <1>10, <1>11 DEF Next

\* The inductive invariant holds of a device that was never opened.
LEMMA InitInv == Init => IInv
<1> SUFFICES ASSUME Init PROVE IInv
  OBVIOUS
<1>1. TypeOK
  BY BoundsAssumption DEF Init, TypeOK
<1>2. OpenReleasesAll
  BY DEF Init, OpenReleasesAll
<1>3. Idle /\ Budget /\ Current /\ Books /\ HasSkb
  BY DEF Init, Idle, Budget, Permissions, Current, Books, Abandoned, HasSkb, Pending, One
<1> QED
  BY <1>1, <1>2, <1>3 DEF IInv

\* The transmit call and the handler stay inside the phases that allow them.
LEMMA IdleStep == IInv /\ [Next]_vars => Idle'
<1> SUFFICES ASSUME IInv, [Next]_vars PROVE Idle'
  OBVIOUS
<1> USE DEF IInv, TypeOK, stats, ghosts, Idle
<1>1. ASSUME NEW i \in 1..5, OpenFails(i) PROVE Idle'
  BY <1>1 DEF OpenFails
<1>2. CASE Open
  BY <1>2 DEF Open, ResetMlip
<1>3. CASE TxStop
  BY <1>3 DEF TxStop
<1>4. CASE TxFire
  BY <1>4 DEF TxFire
<1>5. CASE HwDone
  BY <1>5 DEF HwDone
<1>6. CASE IrqTx
  BY <1>6 DEF IrqTx
<1>7. CASE IrqAck
  BY <1>7 DEF IrqAck
<1>8. CASE TxTimeout
  BY <1>8 DEF TxTimeout
<1>9. CASE CloseStop
  BY <1>9 DEF CloseStop
<1>10. CASE CloseOff
  BY <1>10 DEF CloseOff
<1>11. CASE CloseFree
  BY <1>11 DEF CloseFree
<1>12. CASE UNCHANGED vars
  BY <1>12 DEF vars
<1> QED
  BY <1>1, <1>2, <1>3, <1>4, <1>5, <1>6, <1>7, <1>8, <1>9, <1>10, <1>11, <1>12 DEF Next

\* Each step pays for the frame it starts.
LEMMA BudgetStep == IInv /\ [Next]_vars => Budget'
<1> SUFFICES ASSUME IInv, [Next]_vars PROVE Budget'
  OBVIOUS
<1> USE DEF IInv, TypeOK, stats, ghosts, Idle, Budget, Permissions, Pending, One
<1>1. ASSUME NEW i \in 1..5, OpenFails(i) PROVE Budget'
  BY <1>1 DEF OpenFails
<1>2. CASE Open
  BY <1>2 DEF Open, ResetMlip
<1>3. CASE TxStop
  BY <1>3 DEF TxStop
<1>4. CASE TxFire
  <2>1. hw' = hw + 1 \/ hw' = hw
    BY <1>4 DEF TxFire
  <2>2. tx = "fire" /\ tx' = "idle" /\ UNCHANGED <<queue, irq, sr, tx_errors>>
    BY <1>4 DEF TxFire
  <2>3. CASE hw' = hw + 1
    BY <2>2, <2>3
  <2>4. CASE hw' = hw
    BY <2>2, <2>4
  <2> QED
    BY <2>1, <2>3, <2>4
<1>5. CASE HwDone
  BY <1>5 DEF HwDone
<1>6. CASE IrqTx
  BY <1>6 DEF IrqTx
<1>7. CASE IrqAck
  BY <1>7 DEF IrqAck
<1>8. CASE TxTimeout
  BY <1>8 DEF TxTimeout
<1>9. CASE CloseStop
  BY <1>9 DEF CloseStop
<1>10. CASE CloseOff
  BY <1>10 DEF CloseOff
<1>11. CASE CloseFree
  BY <1>11 DEF CloseFree
<1>12. CASE UNCHANGED vars
  BY <1>12 DEF vars
<1> QED
  BY <1>1, <1>2, <1>3, <1>4, <1>5, <1>6, <1>7, <1>8, <1>9, <1>10, <1>11, <1>12 DEF Next

\* Without a timeout a transmission keeps its buffer until its interrupt.
LEMMA CurrentStep == IInv /\ [Next]_vars => Current'
<1> SUFFICES ASSUME IInv, [Next]_vars PROVE Current'
  OBVIOUS
<1> USE DEF IInv, TypeOK, stats, ghosts, Idle, Current, Budget, Permissions, Pending, One
<1>1. ASSUME NEW i \in 1..5, OpenFails(i) PROVE Current'
  BY <1>1 DEF OpenFails
<1>2. CASE Open
  BY <1>2 DEF Open, ResetMlip
<1>3. CASE TxStop
  BY <1>3 DEF TxStop
<1>4. CASE TxFire
  BY <1>4 DEF TxFire
<1>5. CASE HwDone
  BY <1>5 DEF HwDone
<1>6. CASE IrqTx
  BY <1>6 DEF IrqTx
<1>7. CASE IrqAck
  BY <1>7 DEF IrqAck
<1>8. CASE TxTimeout
  BY <1>8 DEF TxTimeout
<1>9. CASE CloseStop
  BY <1>9 DEF CloseStop
<1>10. CASE CloseOff
  BY <1>10 DEF CloseOff
<1>11. CASE CloseFree
  BY <1>11 DEF CloseFree
<1>12. CASE UNCHANGED vars
  BY <1>12 DEF vars
<1> QED
  BY <1>1, <1>2, <1>3, <1>4, <1>5, <1>6, <1>7, <1>8, <1>9, <1>10, <1>11, <1>12 DEF Next

\* Without a timeout a free is the first one, and a lost buffer is paid for.
LEMMA BooksStep == IInv /\ [Next]_vars => Books'
<1> SUFFICES ASSUME IInv, [Next]_vars PROVE Books'
  OBVIOUS
<1> USE DEF IInv, TypeOK, stats, ghosts, Idle, Books, Abandoned, Current, Budget, Permissions,
            Pending, One
<1>1. ASSUME NEW i \in 1..5, OpenFails(i) PROVE Books'
  BY <1>1 DEF OpenFails
<1>2. CASE Open
  BY <1>2 DEF Open, ResetMlip
<1>3. CASE TxStop
  BY <1>3 DEF TxStop
<1>4. CASE TxFire
  <2> SUFFICES ASSUME tx_errors = 0 PROVE dfree' = 0 /\ leaks' + One(Abandoned)' <= aborts'
    BY <1>4 DEF TxFire
  <2>1. phase = "up" /\ hw = 0 /\ Pending = 0
    BY <1>4 DEF TxFire
  <2>2. hw' = 1 /\ skb' = "held" /\ UNCHANGED <<phase, irq, sr, dfree, aborts>>
    BY <1>4, <2>1 DEF TxFire
  <2>3. dfree = 0 /\ leaks + One(Abandoned) <= aborts
    OBVIOUS
  <2>4. leaks' = leaks + One(Abandoned)
    BY <1>4, <2>1 DEF TxFire
  <2>5. ~Abandoned'
    BY <2>1, <2>2
  <2> QED
    BY <2>2, <2>3, <2>4, <2>5
<1>5. CASE HwDone
  BY <1>5 DEF HwDone
<1>6. CASE IrqTx
  BY <1>6 DEF IrqTx
<1>7. CASE IrqAck
  BY <1>7 DEF IrqAck
<1>8. CASE TxTimeout
  BY <1>8 DEF TxTimeout
<1>9. CASE CloseStop
  BY <1>9 DEF CloseStop
<1>10. CASE CloseOff
  BY <1>10 DEF CloseOff
<1>11. CASE CloseFree
  BY <1>11 DEF CloseFree
<1>12. CASE UNCHANGED vars
  BY <1>12 DEF vars
<1> QED
  BY <1>1, <1>2, <1>3, <1>4, <1>5, <1>6, <1>7, <1>8, <1>9, <1>10, <1>11, <1>12 DEF Next

\* A started frame has a buffer.
LEMMA HasSkbStep == IInv /\ [Next]_vars => HasSkb'
<1> SUFFICES ASSUME IInv, [Next]_vars PROVE HasSkb'
  OBVIOUS
<1> USE DEF IInv, TypeOK, stats, ghosts, HasSkb
<1>1. ASSUME NEW i \in 1..5, OpenFails(i) PROVE HasSkb'
  BY <1>1 DEF OpenFails
<1>2. CASE Open
  BY <1>2 DEF Open, ResetMlip
<1>3. CASE TxStop
  BY <1>3 DEF TxStop
<1>4. CASE TxFire
  BY <1>4 DEF TxFire
<1>5. CASE HwDone
  BY <1>5 DEF HwDone
<1>6. CASE IrqTx
  BY <1>6 DEF IrqTx
<1>7. CASE IrqAck
  BY <1>7 DEF IrqAck
<1>8. CASE TxTimeout
  BY <1>8 DEF TxTimeout
<1>9. CASE CloseStop
  BY <1>9 DEF CloseStop
<1>10. CASE CloseOff
  BY <1>10 DEF CloseOff
<1>11. CASE CloseFree
  BY <1>11 DEF CloseFree
<1>12. CASE UNCHANGED vars
  BY <1>12 DEF vars
<1> QED
  BY <1>1, <1>2, <1>3, <1>4, <1>5, <1>6, <1>7, <1>8, <1>9, <1>10, <1>11, <1>12 DEF Next

\* Every step of the driver, the stack and the block preserves it.
LEMMA StepInv == IInv /\ [Next]_vars => IInv'
<1> SUFFICES ASSUME IInv, [Next]_vars PROVE IInv'
  OBVIOUS
<1>1. TypeOK /\ OpenReleasesAll
  BY DEF IInv
<1>2. TypeOK' /\ OpenReleasesAll'
  BY <1>1, ResourceStep, TypeStep
<1> QED
  BY <1>2, IdleStep, BudgetStep, CurrentStep, BooksStep, HasSkbStep DEF IInv

\* The transmit path never leaves the inductive invariant.
THEOREM Inductive == Spec => []IInv
<1> QED
  BY InitInv, StepInv, PTL DEF Spec

\* Every variable of the transmit path keeps its type.
THEOREM TypeCorrect == Spec => []TypeOK
<1>1. IInv => TypeOK
  BY DEF IInv
<1> QED
  BY Inductive, <1>1, PTL

\* mfhss_open and mfhss_close hold each DMA buffer and interrupt line once
\* while the device is open and never while it is down.
THEOREM ResourcesBalanced == Spec => []OpenReleasesAll
<1>1. IInv => OpenReleasesAll
  BY DEF IInv
<1> QED
  BY Inductive, <1>1, PTL

\* Until the watchdog fires, irq_tx_handler never frees a buffer twice and
\* only a close during a transmission makes the driver forget one.
THEOREM OwnershipWithoutTimeout == Spec => []OwnedExactly
<1>1. IInv => OwnedExactly
  <2>0. IInv => (irq = "idle" /\ sr = 1 /\ phase \in {"up", "closing"} => skb # "null")
    BY DEF IInv, HasSkb
  <2> SUFFICES ASSUME IInv, tx_errors = 0 PROVE dfree = 0 /\ leaks <= aborts
    BY <2>0 DEF OwnedExactly
  <2>1. dfree = 0 /\ leaks + One(Abandoned) <= aborts
    BY DEF IInv, Books
  <2>2. leaks \in Nat /\ aborts \in Nat
    BY DEF IInv, TypeOK
  <2> QED
    BY <2>1, <2>2 DEF One
<1> QED
  BY Inductive, <1>1, PTL

\* However late completions interleave with new frames, at most one frame
\* per timeout joins the one in transmission on the shared DMA buffer.
THEOREM FlightBound == Spec => []FramesInFlight
<1>1. IInv => FramesInFlight
  BY DEF IInv, TypeOK, Budget, Permissions, Pending, One, FramesInFlight
<1> QED
  BY Inductive, <1>1, PTL
-----------------------------------------------------------------------------
(***************************************************************************)
(* The shared registers.  Latched says what the status register, the       *)
(* handler's copy and link_on can be while none, or only the first, of the *)
(* named causes has happened; Stored says the same of a register between   *)
(* the halves of a store.                                                  *)
(***************************************************************************)

\* The bit that the present state of the link latched.
Event == IF link = 1 THEN "on" ELSE "off"

Latched ==
  /\ cause = {} =>
       /\ reg["sr"] # {} => reg["sr"] = {Event}
       /\ reg["sr"] = {} => isr \notin Bits /\ flag = link
       /\ isr \in Bits => isrword = {Event} /\ flag = link
  /\ cause \subseteq {"both"} =>
       /\ reg["sr"] = {"on"} => link = 1
       /\ isr \notin Bits /\ reg["sr"] = {} /\ flag = 1 => link = 1
       /\ isr \in Bits => isrword = reg["sr"]
       /\ isr = "off" => flag = 0 /\ isrword = {"off"}

Stored ==
  /\ \A f \in Kept : last[f] \subseteq {reg[f]}
  /\ \A u \in Users :
       call[u].op = "store" /\ call[u].alone => value[call[u].file] = call[u].asked

RegIInv == RegTypeOK /\ Latched /\ Stored

\* The initial states satisfy the inductive invariant.
LEMMA RegInitHolds == RegInit => RegIInv
BY FilesAssumption
DEF RegInit, RegIInv, RegTypeOK, Latched, Stored, Out, All, Kept, Bits

Calls == [op : {"none", "store"}, file : All, asked : SUBSET Bits, alone : BOOLEAN]

\* Coming to a file leaves every program at a call.
LEMMA JoinedType ==
  ASSUME RegTypeOK, NEW u \in Users, NEW f, NEW c \in Calls
  PROVE  Joined(u, f, c) \in [Users -> Calls]
PROOF
<1>1. call \in [Users -> Calls]
  BY DEF RegTypeOK, Calls
<1>2. ASSUME NEW w \in Users
      PROVE  [call[w] EXCEPT !.alone = FALSE] \in Calls
  BY <1>1 DEF Calls
<1>. QED
  BY <1>1, <1>2 DEF Joined

\* No step leaves the types.
LEMMA RegTypesStep ==
  ASSUME RegTypeOK, [RegNext]_regVars
  PROVE  RegTypeOK'
PROOF
<1>. USE ValuesAssumption, FilesAssumption, AccessAssumption
<1>1. CASE LinkEvent
  <2>1. link' \in 0..1
    BY <1>1 DEF LinkEvent, RegTypeOK
  <2>2. reg' \in [All -> SUBSET Bits]
    BY <1>1 DEF LinkEvent, RegTypeOK, All, Bits
  <2>3. cause' \subseteq {"both", "overtaken", "user"}
    BY <1>1 DEF LinkEvent, RegTypeOK
  <2>. QED
    BY <1>1, <2>1, <2>2, <2>3 DEF LinkEvent, handler, users, RegTypeOK
<1>2. CASE LinkRequest
  BY <1>2 DEF LinkRequest, handler, users, RegTypeOK, All, Kept, Bits
<1>3. CASE LinkOpen
  BY <1>3 DEF LinkOpen, DriverWrites, handler, users, RegTypeOK, All, Kept, Bits
<1>4. CASE LinkClose
  BY <1>4 DEF LinkClose, DriverWrites, handler, users, RegTypeOK, All, Kept, Bits
<1>5. CASE LinkFree
  BY <1>5 DEF LinkFree, handler, users, RegTypeOK, All, Kept, Bits
<1>6. CASE IrqRaise
  BY <1>6 DEF IrqRaise, users, RegTypeOK, All, Kept, Bits
<1>7. CASE IrqRead
  BY <1>7 DEF IrqRead, users, RegTypeOK, All, Kept, Bits
<1>8. CASE IrqWrite
  BY <1>8 DEF IrqWrite, users, RegTypeOK, All, Kept, Bits
<1>9. ASSUME NEW u \in Users, NEW f \in Access[u],
          Show(u, f)
     PROVE  RegTypeOK'
  <2>1. f \in All /\ reg[f] \in SUBSET Bits
    BY DEF RegTypeOK
  <2>2. call' \in [Users -> Calls]
    BY <1>9, <2>1, JoinedType DEF Show, Out, Calls, All
  <2>3. value' \in [All -> SUBSET Bits]
    BY <1>9, <2>1 DEF Show, RegTypeOK
  <2>. QED
    BY <1>9, <2>2, <2>3 DEF Show, handler, RegTypeOK, Calls
<1>10. ASSUME NEW u \in Users, NEW f \in Access[u],
          StoreNoNumber(u, f)
     PROVE  RegTypeOK'
  BY <1>10 DEF StoreNoNumber, Storing, Out, handler, RegTypeOK, All, Kept, Bits
<1>11. ASSUME NEW u \in Users, NEW f \in Access[u], NEW v \in Values,
          StoreParse(u, f, v)
     PROVE  RegTypeOK'
  <2>1. f \in All /\ v \in SUBSET Bits
    BY DEF RegTypeOK
  <2>2. call' \in [Users -> Calls]
    BY <1>11, <2>1, JoinedType DEF StoreParse, AskStore, Out, Calls, All
  <2>3. value' \in [All -> SUBSET Bits]
    BY <1>11, <2>1 DEF StoreParse, AskStore, RegTypeOK
  <2>. QED
    BY <1>11, <2>2, <2>3 DEF StoreParse, AskStore, handler, RegTypeOK, Calls
<1>12. ASSUME NEW u \in Users,
          StoreWrite(u)
     PROVE  RegTypeOK'
  BY <1>12 DEF StoreWrite, Out, handler, RegTypeOK, All, Kept, Bits
<1>13. CASE UNCHANGED regVars
  BY <1>13 DEF regVars, RegTypeOK, All, Kept, Bits
<1>. QED
  BY <1>1, <1>2, <1>3, <1>4, <1>5, <1>6, <1>7, <1>8, <1>9, <1>10, <1>11, <1>12, <1>13
  DEF RegNext, Interface, Driver

\* Link, latch, handler and flag agree until one of the causes happens.
LEMMA LatchedStep ==
  ASSUME RegTypeOK, Latched, [RegNext]_regVars
  PROVE  Latched'
PROOF
<1>. USE ValuesAssumption, FilesAssumption, AccessAssumption
<1>1. CASE LinkEvent
  <2>1. /\ reg'["sr"] = reg["sr"] \cup {Event'}
        /\ link' = 1 - link /\ UNCHANGED <<flag, isr, isrword>>
    BY <1>1 DEF LinkEvent, handler, RegTypeOK, Event, All
  <2>2. ASSUME cause' = {}
        PROVE  reg["sr"] = {} /\ isr \notin Bits
    BY <1>1, <2>2 DEF LinkEvent
  <2>3. ASSUME cause' \subseteq {"both"}
        PROVE  isr \notin Bits /\ (reg["sr"] = {} \/ cause \subseteq {"both"})
    BY <1>1, <2>3 DEF LinkEvent
  <2>4. link \in 0..1 /\ reg["sr"] \subseteq Bits
    BY DEF RegTypeOK, All
  <2>5. ASSUME cause' = {}
        PROVE  reg'["sr"] = {Event'} /\ isr' \notin Bits
    BY <2>1, <2>2, <2>5
  <2>6. ASSUME cause' \subseteq {"both"}, reg'["sr"] = {"on"}
        PROVE  link' = 1
    <3>1. Event' = "on"
      BY <2>1, <2>6
    <3>. QED
      BY <3>1 DEF Event
  <2>7. ASSUME cause' \subseteq {"both"}
        PROVE  isr' \notin Bits /\ reg'["sr"] # {} /\ isr' # "off"
    BY <2>1, <2>3, <2>7 DEF Bits
  <2>. QED
    BY <2>5, <2>6, <2>7 DEF Latched
<1>2. CASE LinkRequest
  BY <1>2 DEF LinkRequest, handler, users, RegTypeOK, Latched, Event, All, Kept, Bits
<1>3. CASE LinkOpen
  BY <1>3 DEF LinkOpen, DriverWrites, handler, users, RegTypeOK, Latched, Event, All, Kept, Bits
<1>4. CASE LinkClose
  BY <1>4 DEF LinkClose, DriverWrites, handler, users, RegTypeOK, Latched, Event, All, Kept, Bits
<1>5. CASE LinkFree
  BY <1>5 DEF LinkFree, handler, users, RegTypeOK, Latched, Event, All, Kept, Bits
<1>6. CASE IrqRaise
  BY <1>6 DEF IrqRaise, users, RegTypeOK, Latched, Event, All, Kept, Bits
<1>7. CASE IrqRead
  BY <1>7 DEF IrqRead, users, RegTypeOK, Latched, Event, All, Kept, Bits
<1>8. CASE IrqWrite
  <2>1. /\ reg'["sr"] = isrword \ {isr} /\ isr \in Bits /\ isr' = "idle"
        /\ UNCHANGED <<link, flag, cause>>
    BY <1>8 DEF IrqWrite, RegTypeOK, All
  <2>2. isr' \notin Bits /\ isr' # "off"
    BY <2>1 DEF Bits
  <2>3. isr \in isrword /\ isrword \subseteq Bits /\ link \in 0..1
    BY <2>1 DEF RegTypeOK
  <2>4. ASSUME cause' = {}
        PROVE  reg'["sr"] = {} /\ flag' = link'
    BY <2>1, <2>3, <2>4 DEF Latched
  <2>5. ASSUME cause' \subseteq {"both"}, reg'["sr"] = {"on"}
        PROVE  link' = 1
    <3>1. isr = "off" /\ isrword = {"on", "off"}
      BY <2>1, <2>3, <2>5 DEF Bits
    <3>. QED
      BY <2>1, <2>5, <3>1 DEF Latched
  <2>6. ASSUME cause' \subseteq {"both"}, reg'["sr"] = {}, flag' = 1
        PROVE  link' = 1
    <3>1. isrword = {isr} /\ isrword = reg["sr"]
      BY <2>1, <2>3, <2>6 DEF Latched
    <3>2. isr # "off"
      BY <2>1, <2>6 DEF Latched
    <3>. QED
      BY <2>1, <2>6, <3>1, <3>2 DEF Latched, Bits
  <2>. QED
    BY <2>2, <2>4, <2>5, <2>6 DEF Latched
<1>9. ASSUME NEW u \in Users, NEW f \in Access[u],
          Show(u, f)
     PROVE  Latched'
  BY <1>9 DEF Show, Joined, Storing, Out, handler, RegTypeOK,
         Latched, Event, All, Kept, Bits
<1>10. ASSUME NEW u \in Users, NEW f \in Access[u],
          StoreNoNumber(u, f)
     PROVE  Latched'
  BY <1>10 DEF StoreNoNumber, Storing, Out, handler, RegTypeOK,
         Latched, Event, All, Kept, Bits
<1>11. ASSUME NEW u \in Users, NEW f \in Access[u], NEW v \in Values,
          StoreParse(u, f, v)
     PROVE  Latched'
  BY <1>11 DEF StoreParse, AskStore, Joined, Storing, Out, handler, RegTypeOK,
         Latched, Event, All, Kept, Bits
<1>12. ASSUME NEW u \in Users,
          StoreWrite(u)
     PROVE  Latched'
  BY <1>12 DEF StoreWrite, Out, handler, RegTypeOK,
         Latched, Event, All, Kept, Bits
<1>13. CASE UNCHANGED regVars
  BY <1>13 DEF regVars, RegTypeOK, Latched, Event, All, Kept, Bits
<1>. QED
  BY <1>1, <1>2, <1>3, <1>4, <1>5, <1>6, <1>7, <1>8, <1>9, <1>10, <1>11, <1>12, <1>13
  DEF RegNext, Interface, Driver

\* A store that stays alone reaches its register.
LEMMA StoredStep ==
  ASSUME RegTypeOK, Stored, [RegNext]_regVars
  PROVE  Stored'
PROOF
<1>. USE ValuesAssumption, FilesAssumption, AccessAssumption
<1>1. CASE LinkEvent
  BY <1>1 DEF LinkEvent, handler, users, RegTypeOK, Stored, All, Kept, Bits
<1>2. CASE LinkRequest
  BY <1>2 DEF LinkRequest, handler, users, RegTypeOK, Stored, All, Kept, Bits
<1>3. CASE LinkOpen
  BY <1>3 DEF LinkOpen, DriverWrites, handler, users, RegTypeOK, Stored, All, Kept, Bits
<1>4. CASE LinkClose
  BY <1>4 DEF LinkClose, DriverWrites, handler, users, RegTypeOK, Stored, All, Kept, Bits
<1>5. CASE LinkFree
  BY <1>5 DEF LinkFree, handler, users, RegTypeOK, Stored, All, Kept, Bits
<1>6. CASE IrqRaise
  BY <1>6 DEF IrqRaise, users, RegTypeOK, Stored, All, Kept, Bits
<1>7. CASE IrqRead
  BY <1>7 DEF IrqRead, users, RegTypeOK, Stored, All, Kept, Bits
<1>8. CASE IrqWrite
  BY <1>8 DEF IrqWrite, users, RegTypeOK, Stored, All, Kept, Bits
<1>9. ASSUME NEW u \in Users, NEW f \in Access[u],
          Show(u, f)
     PROVE  Stored'
  BY <1>9 DEF Show, Joined, Storing, Out, handler, RegTypeOK,
         Stored, All, Kept, Bits
<1>10. ASSUME NEW u \in Users, NEW f \in Access[u],
          StoreNoNumber(u, f)
     PROVE  Stored'
  BY <1>10 DEF StoreNoNumber, Storing, Out, handler, RegTypeOK,
         Stored, All, Kept, Bits
<1>11. ASSUME NEW u \in Users, NEW f \in Access[u], NEW v \in Values,
          StoreParse(u, f, v)
     PROVE  Stored'
  BY <1>11 DEF StoreParse, AskStore, Joined, Storing, Out, handler, RegTypeOK,
         Stored, All, Kept, Bits
<1>12. ASSUME NEW u \in Users,
          StoreWrite(u)
     PROVE  Stored'
  BY <1>12 DEF StoreWrite, Out, handler, RegTypeOK,
         Stored, All, Kept, Bits
<1>13. CASE UNCHANGED regVars
  BY <1>13 DEF regVars, RegTypeOK, Stored, All, Kept, Bits
<1>. QED
  BY <1>1, <1>2, <1>3, <1>4, <1>5, <1>6, <1>7, <1>8, <1>9, <1>10, <1>11, <1>12, <1>13
  DEF RegNext, Interface, Driver

\* Every behaviour keeps the inductive invariant.
THEOREM RegInvariance == RegSpec => []RegIInv
PROOF
<1>1. RegInit => RegIInv
  BY RegInitHolds
<1>2. RegIInv /\ [RegNext]_regVars => RegIInv'
  BY RegTypesStep, LatchedStep, StoredStep DEF RegIInv
<1>. QED
  BY <1>1, <1>2, PTL DEF RegSpec

\* The handler only takes an event that its copy of the register holds.
THEOREM RegTypeCorrect == RegSpec => []RegTypeOK
PROOF
<1>1. RegIInv => RegTypeOK
  BY DEF RegIInv
<1>. QED
  BY <1>1, RegInvariance, PTL

\* link_on is the state of the link, but for the three named causes.
THEOREM LinkFlagFollows == RegSpec => []LinkFlagRight
PROOF
<1>1. RegIInv => LinkFlagRight
  BY DEF RegIInv, Latched, LinkFlagRight, Settled, Bits
<1>. QED
  BY <1>1, RegInvariance, PTL

\* A register holds the last store no other call on its file got into.
THEOREM LastStoreReached == RegSpec => []LastStoreHolds
PROOF
<1>1. RegIInv => LastStoreHolds
  BY DEF RegIInv, Stored, LastStoreHolds
<1>. QED
  BY <1>1, RegInvariance, PTL
=============================================================================
