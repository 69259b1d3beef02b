------------------------------ MODULE MfhssRegs ------------------------------
(***************************************************************************)
(* Registers of the modem shared by the kernel driver and by programs      *)
(* (PS/modules/mfhssnet): the link interrupt, which reads the link status  *)
(* register, changes it and writes it back without a lock, and the show    *)
(* and store of the register files in sysfs, which pass every value        *)
(* through one cell per file, a->value.                                    *)
(*                                                                         *)
(* A register is the set of its bits that are set.  The status register    *)
(* latches what happened to the link; its interrupt is level-triggered     *)
(* (PS/hw/dt/pl.dtsi:25) and asserted while a latched bit is enabled in    *)
(* LINK IR, which is a register file as well.                              *)
(***************************************************************************)
EXTENDS Naturals, FiniteSets

CONSTANTS Users,     \* the programs that use register files
          Files,     \* the registers that open sets to 1 and close clears:
                     \* MLIP CE, MLIP IR and DMA IR
          Values,    \* the values that programs store
          Access     \* the register files that each program uses

Bits == {"on", "off"}
Kept == Files \cup {"ir"}
All == Kept \cup {"sr"}

ASSUME ValuesAssumption == Values \subseteq SUBSET Bits
ASSUME FilesAssumption == {"sr", "ir"} \cap Files = {}
ASSUME AccessAssumption == Access \in [Users -> SUBSET All]

VARIABLES
  link,     \* whether the link is up
  ifstate,  \* the interface: "down", "opening" (link interrupt requested),
            \* "up" (registers written), "closing" (device switched off)
  flag,     \* priv->flags.bits.link_on
  isr,      \* irq_link_on_handler: "idle", "taken", or the event it has read
  isrword,  \* reg_link_sr, the handler's copy
  reg,      \* the registers: LINK SR is "sr", LINK IR is "ir"
  value,    \* a->value of each register's file
  call,     \* what each program is doing in a register file
  cause,    \* history: what happened to the latched events since the last
            \* one that found nothing latched and no event read
  last      \* history: for every register but "sr" what was written to it
            \* last, as a set of one value; {} if the store was not alone

regVars == <<link, ifstate, flag, isr, isrword, reg, value, call, cause, last>>

\* alone is history: the store's text was a number and no other call on the
\* file came between the two halves.
Out == [op |-> "none", file |-> "sr", asked |-> {}, alone |-> TRUE]

handler == <<flag, isr, isrword>>
users == <<value, call>>

RegInit ==
  /\ link = 0 /\ ifstate = "down" /\ flag = 0
  /\ isr = "idle" /\ isrword = {}
  /\ reg = [f \in All |-> {}] /\ value = [f \in All |-> {}]
  /\ call = [u \in Users |-> Out]
  /\ cause = {} /\ last = [f \in Kept |-> {{}}]
-----------------------------------------------------------------------------
\* The link comes up or goes down and the status register latches it.
LinkEvent ==
  /\ link' = 1 - link
  /\ reg' = [reg EXCEPT !["sr"] = @ \cup {IF link = 0 THEN "on" ELSE "off"}]
  /\ cause' = IF reg["sr"] = {} /\ isr \notin Bits THEN {}
              ELSE cause \cup {IF isr \notin Bits THEN "both" ELSE "overtaken"}
  /\ UNCHANGED <<ifstate, handler, users, last>>

\* mfhss_open: the link interrupt is requested ...
LinkRequest ==
  /\ ifstate = "down" /\ ifstate' = "opening"
  /\ UNCHANGED <<link, handler, reg, users, cause, last>>

\* The driver writes new, a function from registers to their values.
DriverWrites(new) ==
  /\ reg' = [f \in All |-> IF f \in DOMAIN new THEN new[f] ELSE reg[f]]
  /\ last' = [f \in Kept |-> IF f \in DOMAIN new THEN {new[f]} ELSE last[f]]

\* ... and the device is started, both events enabled.
LinkOpen ==
  /\ ifstate = "opening" /\ ifstate' = "up"
  /\ DriverWrites([f \in Kept |-> IF f = "ir" THEN Bits ELSE {"on"}])
  /\ UNCHANGED <<link, handler, users, cause>>

\* mfhss_close: the device is switched off; LINK IR stays as it is ...
LinkClose ==
  /\ ifstate = "up" /\ ifstate' = "closing"
  /\ DriverWrites([f \in Files |-> {}])
  /\ UNCHANGED <<link, handler, users, cause>>

\* ... and the interrupt is freed, which waits for the handler.
LinkFree ==
  /\ ifstate = "closing" /\ isr = "idle" /\ ifstate' = "down"
  /\ UNCHANGED <<link, handler, reg, users, cause, last>>

Asserted == reg["sr"] \cap reg["ir"] # {}

\* An enabled event is latched and the kernel calls irq_link_on_handler.
IrqRaise ==
  /\ ifstate # "down" /\ isr = "idle" /\ Asserted
  /\ isr' = "taken"
  /\ UNCHANGED <<link, ifstate, flag, isrword, reg, users, cause, last>>

\* Mutant: the handler forgets to clear link_on.
IrqRead_OffIgnored ==
  /\ isr = "taken"
  /\ isr' = IF "on" \in reg["sr"] THEN "on"
            ELSE IF "off" \in reg["sr"] THEN "off" ELSE "idle"
  /\ isrword' = reg["sr"]
  /\ flag' = IF isr' = "on" THEN 1 ELSE flag
  /\ UNCHANGED <<link, ifstate, reg, users, cause, last>>

\* irq_link_on_handler reads the status; "on" goes before "off", and there is
\* nothing to do when a program has cleared both.
IrqRead ==
  /\ isr = "taken"
  /\ isr' = IF "on" \in reg["sr"] THEN "on"
            ELSE IF "off" \in reg["sr"] THEN "off" ELSE "idle"
  /\ isrword' = reg["sr"]
  /\ flag' = CASE isr' = "on" -> 1 [] isr' = "off" -> 0 [] OTHER -> flag
  /\ UNCHANGED <<link, ifstate, reg, users, cause, last>>

\* Mutant: the handler writes back what it read.
IrqWrite_NotCleared ==
  /\ isr \in Bits
  /\ reg' = [reg EXCEPT !["sr"] = isrword]
  /\ isr' = "idle" /\ isrword' = {}
  /\ UNCHANGED <<link, ifstate, flag, users, cause, last>>

\* The copy is written back without the event that was taken.
IrqWrite ==
  /\ isr \in Bits
  /\ reg' = [reg EXCEPT !["sr"] = isrword \ {isr}]
  /\ isr' = "idle" /\ isrword' = {}
  /\ UNCHANGED <<link, ifstate, flag, users, cause, last>>
-----------------------------------------------------------------------------
\* Program w is between the two halves of a store to file f.
Storing(w, f) == call[w].op = "store" /\ call[w].file = f

\* Program u comes to file f and is then at c: stores to the file that are
\* under way are no longer alone.
Joined(u, f, c) ==
  [w \in Users |-> IF w = u THEN c
                   ELSE IF Storing(w, f) THEN [call[w] EXCEPT !.alone = FALSE]
                   ELSE call[w]]

AskStore(u, f, v) ==
  /\ call[u] = Out
  /\ call' = Joined(u, f, [op |-> "store", file |-> f, asked |-> v,
                           alone |-> ~\E w \in Users : Storing(w, f)])
  /\ UNCHANGED <<link, ifstate, handler, reg, cause, last>>

\* sysfs_store_reg: the value is parsed into the cell before the lock.
StoreParse(u, f, v) ==
  AskStore(u, f, v) /\ value' = [value EXCEPT ![f] = v]

\* A text that is no number leaves the cell as it is, and so it is what the
\* cell last held that goes to the register.
StoreNoNumber(u, f) ==
  /\ call[u] = Out
  /\ call' = [call EXCEPT ![u] = [Out EXCEPT !.op = "store", !.file = f,
                                             !.alone = FALSE]]
  /\ UNCHANGED <<link, ifstate, handler, reg, value, cause, last>>

\* ... and what the cell holds is written to the register under the lock.
StoreWrite(u) ==
  LET f == call[u].file IN
  /\ call[u].op = "store"
  /\ reg' = [reg EXCEPT ![f] = value[f]]
  /\ last' = [g \in Kept |-> IF g # f THEN last[g]
                             ELSE IF call[u].alone THEN {call[u].asked} ELSE {}]
  /\ cause' = IF f = "sr" /\ (reg'[f] # reg[f] \/ isr \in Bits)
              THEN cause \cup {"user"} ELSE cause
  /\ call' = [call EXCEPT ![u] = Out]
  /\ UNCHANGED <<link, ifstate, handler, value>>

\* Mutant: all files have one cell.
Show_OneCell(u, f) ==
  /\ call[u] = Out
  /\ value' = [g \in All |-> reg[f]]
  /\ call' = Joined(u, f, Out)
  /\ UNCHANGED <<link, ifstate, handler, reg, cause, last>>

\* sysfs_show_reg: the register is read into the cell under the lock; the cell
\* is printed after the unlock, which changes nothing.
Show(u, f) ==
  /\ call[u] = Out
  /\ value' = [value EXCEPT ![f] = reg[f]]
  /\ call' = Joined(u, f, Out)
  /\ UNCHANGED <<link, ifstate, handler, reg, cause, last>>

Interface == LinkRequest \/ LinkOpen \/ LinkClose \/ LinkFree
Driver == IrqRaise \/ IrqRead \/ IrqWrite

RegNext ==
  \/ LinkEvent \/ Interface \/ Driver
  \/ \E u \in Users :
       \/ \E f \in Access[u] :
            \/ Show(u, f) \/ StoreNoNumber(u, f)
            \/ \E v \in Values : StoreParse(u, f, v)
       \/ StoreWrite(u)

RegSpec == RegInit /\ [][RegNext]_regVars

\* The kernel serves an asserted interrupt, and a handler ends.
RegFairSpec == RegSpec /\ WF_regVars(Driver)
-----------------------------------------------------------------------------
RegTypeOK ==
  /\ link \in 0..1 /\ flag \in 0..1
  /\ ifstate \in {"down", "opening", "up", "closing"}
  /\ isr \in {"idle", "taken"} \cup Bits
  /\ isrword \subseteq Bits /\ (isr \in Bits => isr \in isrword)
  /\ reg \in [All -> SUBSET Bits] /\ value \in [All -> SUBSET Bits]
  /\ call \in [Users -> [op : {"none", "store"}, file : All,
                         asked : SUBSET Bits, alone : BOOLEAN]]
  /\ cause \subseteq {"both", "overtaken", "user"}
  /\ last \in [Kept -> SUBSET SUBSET Bits]

Settled == ifstate = "up" /\ isr = "idle" /\ reg["sr"] = {}

\* When every event is handled, link_on is the state of the link, unless two
\* events were latched at a time, one came between the read and the write of
\* the handler, or a program wrote the status register; and it is again as
\* soon as one event is handled to which none of this happens.  Two events
\* latched together leave the flag off at worst.
LinkFlagRight ==
  Settled => /\ cause = {} => flag = link
             /\ cause \subseteq {"both"} /\ flag = 1 => link = 1

\* When the link and the programs come to rest while the interface is open,
\* the handler does too, and an event stays latched only if its bit in LINK IR
\* was cleared by a program.
EventsHandled ==
  <>[](ifstate = "up") /\ <>[][link' = link /\ call' = call]_regVars
    => <>[](isr = "idle" /\ ~Asserted)

\* A register holds what was written to it last, by mfhss_open or mfhss_close
\* or by a program, unless another call on its file, a read included, came
\* between the two halves of the store that wrote it, or its text was no number.
LastStoreHolds == \A f \in Kept : last[f] \subseteq {reg[f]}
=============================================================================
