--------------------------- MODULE KeySync_proofs ---------------------------
(***************************************************************************)
(* Proofs about KeySync: the set of keys the master sends is always the    *)
(* fresh one, until the master loses power it holds a copy of the set the  *)
(* slave will install, and a modem runs with keys of two sets only after   *)
(* an installation that left keys out.  All for every number of keys and   *)
(* any bounds.                                                             *)
(***************************************************************************)
EXTENDS KeySync, TLAPS

\* The states of the master between CREATE_KEYS and the end of the save.
Exchange == {"SEND_KEYS", "SAVE_KEYS", "SAVE_WRITE"}

\* The working file is empty outside an exchange (a master that died while
\* it generated may leave a part of a set).
SrcEmpty == st["m"] \notin Exchange \cup {"DEAD"} => src = NoKeys

\* Where the slave's set is while the master was not power-cycled.
Copies ==
  cycles["m"] = 0 =>
    /\ st["m"] # "SEND_KEYS" => xfer = "idle"
    /\ st["m"] \notin Exchange \cup {"DEAD"} => file["s"] = file["m"]
    /\ st["m"] = "DEAD" => file["s"] \in {file["m"], src}
    /\ st["m"] = "SEND_KEYS" /\ xfer = "idle" => file["s"] \in {file["m"], src}
    /\ st["m"] = "SEND_KEYS" /\ xfer = "written" => file["s"] = src
    /\ st["m"] \in {"SAVE_KEYS", "SAVE_WRITE"} => file["s"] = src

\* The set that is being created is within the bound.
Room == st["m"] = "CREATE_KEYS" => gen < MaxGen

IInv == TypeOK /\ Room /\ SrcEmpty /\ SentIsFresh /\ Copies

\* The constants have the types TypeOK needs.
LEMMA Types ==
  /\ NKeys \in Nat /\ NKeys > 0 /\ MaxGen \in Nat /\ MaxGen > 0
  /\ MaxDrops \in Nat /\ MaxCycles \in Nat
  /\ Keys = 1..NKeys /\ 1 \in Keys /\ 1 \in 1..RUNNING
  /\ None \in None..MaxGen /\ DELIVERED \in None..MaxGen
  BY KeySyncAssumption DEF Keys, None, DELIVERED, RUNNING

\* A set of keys, and what WriteTo leaves in a file, is a file.
LEMMA FileTypes ==
  /\ \A g \in None..MaxGen : KeySet(g) \in [Keys -> None..MaxGen]
  /\ \A f \in [Keys -> None..MaxGen], g \in None..MaxGen, n \in Int :
        WriteTo(f, g, n) \in [Keys -> None..MaxGen]
  BY Types DEF KeySet, WriteTo

\* Writing a whole set to an empty file gives that set.
LEMMA WriteWhole == ASSUME NEW g PROVE WriteTo(NoKeys, g, NKeys) = KeySet(g)
  <1>1. \A k \in Keys : k <= NKeys /\ NoKeys[k] = None
    BY Types DEF NoKeys, KeySet
  <1> QED
    BY <1>1 DEF WriteTo, KeySet

\* The initial states satisfy the inductive invariant.
LEMMA InitIInv == Init => IInv
  <1> SUFFICES ASSUME Init PROVE IInv
    OBVIOUS
  <1> USE DEF Init
  <1>1. PICK f \in Factory : file = [x \in Sides |-> KeySet(f)]
    OBVIOUS
  <1>2. f \in None..MaxGen
    BY KeySyncAssumption, Types DEF None, DELIVERED
  <1>3. file \in [Sides -> [Keys -> None..MaxGen]]
    BY <1>1, <1>2, FileTypes
  <1>4. NoKeys \in [Keys -> None..MaxGen]
    BY Types, FileTypes DEF NoKeys
  <1>5. st \in [Sides -> States] /\ inst \in [Sides -> Keys] /\ boot \in [Sides -> 1..RUNNING]
    BY Types DEF States
  <1>6. gen \in DELIVERED..MaxGen /\ drops \in 0..MaxDrops /\ cycles \in [Sides -> 0..MaxCycles]
    BY Types DEF DELIVERED
  <1>7. TypeOK
    BY <1>3, <1>4, <1>5, <1>6 DEF TypeOK
  <1>8. Room /\ SrcEmpty /\ SentIsFresh
    BY DEF Room, SrcEmpty, SentIsFresh, Sides
  <1>9. Copies
    BY <1>1 DEF Copies, Exchange, Sides
  <1> QED
    BY <1>7, <1>8, <1>9 DEF IInv

\* Every step keeps the types.
LEMMA TypeStep == ASSUME TypeOK, Room, [Next]_vars PROVE TypeOK' /\ Room'
  <1>1. ASSUME NEW x \in Sides, BootKey(x) PROVE TypeOK' /\ Room'
    <2>1. boot' \in [Sides -> 1..RUNNING]
      <3>1. \/ boot' = [boot EXCEPT ![x] = boot[x] + 1]
            \/ boot' = [boot EXCEPT ![x] = SCRIPT]
        BY <1>1 DEF BootKey
      <3>2. boot[x] \in Keys /\ boot \in [Sides -> 1..RUNNING]
        BY <1>1 DEF BootKey, TypeOK
      <3> QED
        BY <3>1, <3>2, Types DEF SCRIPT, RUNNING
    <2>2. hw' \in [Sides -> [Keys -> None..MaxGen]]
      <3>1. hw' = hw \/ hw' = [hw EXCEPT ![x] = [hw[x] EXCEPT ![boot[x]] = file[x][boot[x]]]]
        BY <1>1 DEF BootKey
      <3>2. /\ boot[x] \in Keys /\ file[x][boot[x]] \in None..MaxGen
            /\ hw[x] \in [Keys -> None..MaxGen]
        BY <1>1 DEF BootKey, TypeOK
      <3>3. hw \in [Sides -> [Keys -> None..MaxGen]]
        BY DEF TypeOK
      <3> QED
        BY <3>1, <3>2, <3>3
    <2> QED
      BY <1>1, <2>1, <2>2 DEF BootKey, TypeOK, Room
  <1>2. ASSUME NEW x \in Sides, BootScript(x) PROVE TypeOK' /\ Room'
    <2>1. boot' \in [Sides -> 1..RUNNING]
      BY <1>2, Types DEF BootScript, TypeOK, RUNNING
    <2> QED
      BY <1>2, <2>1 DEF BootScript, TypeOK, Room
  <1>3. ASSUME NEW x \in Sides, PowerCycle(x) PROVE TypeOK' /\ Room'
    <2>1. NoKeys \in [Keys -> None..MaxGen]
      BY Types, FileTypes DEF NoKeys
    <2>2. cycles' \in [Sides -> 0..MaxCycles]
      <3>1. cycles' = [cycles EXCEPT ![x] = cycles[x] + 1] /\ cycles[x] < MaxCycles
        BY <1>3 DEF PowerCycle
      <3>2. cycles \in [Sides -> 0..MaxCycles]
        BY DEF TypeOK
      <3> QED
        BY <3>1, <3>2, Types
    <2>3. hw' \in [Sides -> [Keys -> None..MaxGen]] /\ src' \in [Keys -> None..MaxGen]
      BY <1>3, <2>1 DEF PowerCycle, TypeOK
    <2>4. st' \in [Sides -> States] /\ inst' \in [Sides -> Keys] /\ boot' \in [Sides -> 1..RUNNING]
      BY <1>3, Types DEF PowerCycle, TypeOK, States
    <2>5. Room'
      BY <1>3 DEF Sides, PowerCycle, TypeOK, Room
    <2> QED
      BY <1>3, <2>2, <2>3, <2>4, <2>5 DEF PowerCycle, TypeOK
  <1>4. ASSUME NEW x \in Sides, LinkUp(x) PROVE TypeOK' /\ Room'
    BY <1>4, Types DEF LinkUp, TypeOK, Room, Sides
  <1>5. ASSUME NEW x \in Sides, LinkDrop(x) PROVE TypeOK' /\ Room'
    <2>1. drops' \in 0..MaxDrops
      BY <1>5, Types DEF LinkDrop, TypeOK
    <2> QED
      BY <1>5, <2>1 DEF LinkDrop, LinkDown, TypeOK, Room
  <1>6. ASSUME NEW x \in Sides, LinkLost(x) PROVE TypeOK' /\ Room'
    BY <1>6, Types DEF LinkLost, LinkDown, TypeOK, Room, Sides
  <1>7. ASSUME NEW x \in Sides, Connected(x) PROVE TypeOK' /\ Room'
    BY <1>7, Types DEF Connected, TypeOK, Room, States, Sides
  <1>8. ASSUME NEW x \in Sides, Disconnected(x) PROVE TypeOK' /\ Room'
    BY <1>8, Types DEF Disconnected, TypeOK, Room, States, Sides
  <1>9. ASSUME NEW x \in Sides, InstallKey(x) PROVE TypeOK' /\ Room'
    <2>1. hw' \in [Sides -> [Keys -> None..MaxGen]]
      <3>1. hw' = [hw EXCEPT ![x] = [hw[x] EXCEPT ![inst[x]] = file[x][inst[x]]]]
        BY <1>9 DEF InstallKey
      <3>2. /\ inst[x] \in Keys /\ file[x][inst[x]] \in None..MaxGen
            /\ hw[x] \in [Keys -> None..MaxGen]
        BY <1>9 DEF TypeOK
      <3>3. hw \in [Sides -> [Keys -> None..MaxGen]]
        BY DEF TypeOK
      <3> QED
        BY <3>1, <3>2, <3>3
    <2>2. inst' \in [Sides -> Keys]
      <3>1. \/ inst' = [inst EXCEPT ![x] = inst[x] + 1] /\ inst[x] < NKeys
            \/ inst' = inst
        BY <1>9 DEF InstallKey
      <3>2. inst \in [Sides -> Keys]
        BY DEF TypeOK
      <3> QED
        BY <3>1, <3>2, Types
    <2>3. st' \in [Sides -> States] /\ Room'
      BY <1>9 DEF InstallKey, TypeOK, Room, States, Sides
    <2>4. left' \in [Sides -> {"none", "some", "all"}]
      BY <1>9 DEF InstallKey, TypeOK
    <2> QED
      BY <1>9, <2>1, <2>2, <2>3, <2>4 DEF InstallKey, TypeOK
  <1>10. ASSUME NEW x \in Sides, InstallFails(x) PROVE TypeOK' /\ Room'
    <2>1. left' \in [Sides -> {"none", "some", "all"}]
      BY <1>10 DEF InstallFails, LeftAt, TypeOK
    <2> QED
      BY <1>10, <2>1, Types DEF InstallFails, TypeOK, Room, States, Sides
  <1>11. ASSUME NEW n \in 0..(NKeys - 1), CreateFails(n) PROVE TypeOK' /\ Room'
    <2>1. gen' \in DELIVERED..MaxGen /\ gen + 1 \in None..MaxGen
      BY <1>11, Types DEF CreateFails, TypeOK, Room, DELIVERED, None
    <2>2. src' \in [Keys -> None..MaxGen]
      <3>1. src' = WriteTo(src, gen + 1, n) /\ src \in [Keys -> None..MaxGen] /\ n \in Int
        BY <1>11, Types DEF CreateFails, TypeOK
      <3> QED
        BY <3>1, <2>1, FileTypes
    <2>3. st' \in [Sides -> States] /\ Room'
      BY <1>11 DEF CreateFails, TypeOK, Room, States, Sides
    <2> QED
      BY <1>11, <2>1, <2>2, <2>3 DEF CreateFails, TypeOK
  <1>12. CASE Ping
    BY <1>12, Types DEF Ping, TypeOK, Room, States, Sides
  <1>13. CASE CreateKeys
    <2>1. gen' \in DELIVERED..MaxGen /\ gen + 1 \in None..MaxGen
      BY <1>13, Types DEF CreateKeys, TypeOK, Room, DELIVERED, None
    <2>2. src' \in [Keys -> None..MaxGen]
      <3>1. src' = WriteTo(src, gen + 1, NKeys) /\ src \in [Keys -> None..MaxGen] /\ NKeys \in Int
        BY <1>13, Types DEF CreateKeys, TypeOK
      <3> QED
        BY <3>1, <2>1, FileTypes
    <2>3. st' \in [Sides -> States] /\ Room'
      BY <1>13 DEF CreateKeys, TypeOK, Room, States, Sides
    <2> QED
      BY <1>13, <2>1, <2>2, <2>3 DEF CreateKeys, TypeOK
  <1>14. CASE SendWrite
    BY <1>14, Types DEF SendWrite, TypeOK, Room, Sides
  <1>15. CASE SendOk
    BY <1>15, Types DEF SendOk, TypeOK, Room, States, Sides
  <1>16. CASE SendFails
    BY <1>16, Types DEF SendFails, TypeOK, Room, Sides
  <1>17. CASE SaveTrunc
    BY <1>17, Types, FileTypes DEF SaveTrunc, TypeOK, Room, NoKeys, States, Sides
  <1>18. CASE SaveWrite
    BY <1>18, Types, FileTypes DEF SaveWrite, TypeOK, Room, NoKeys, States, Sides
  <1>19. CASE UNCHANGED vars
    BY <1>19 DEF vars, TypeOK, Room
  <1>20. ASSUME NEW x \in Sides, BootFails(x) PROVE TypeOK' /\ Room'
    <2>1. boot' \in [Sides -> 1..RUNNING]
      BY <1>20, Types DEF BootFails, TypeOK, SCRIPT, RUNNING
    <2>2. left' \in [Sides -> {"none", "some", "all"}]
      BY <1>20 DEF BootFails, LeftAt, TypeOK
    <2> QED
      BY <1>20, <2>1, <2>2 DEF BootFails, TypeOK, Room
  <1>21. ASSUME NEW x \in Sides, Exits(x) PROVE TypeOK' /\ Room'
    BY <1>21, Types DEF Exits, TypeOK, Room, States, Sides
  <1> QED
    BY <1>1, <1>2, <1>3, <1>4, <1>5, <1>6, <1>7, <1>8, <1>9, <1>10, <1>11, <1>12, <1>13,
       <1>14, <1>15, <1>16, <1>17, <1>18, <1>19, <1>20, <1>21 DEF Next, Daemon, Master

\* Every step keeps the working file fresh.
LEMMA FreshStep == ASSUME TypeOK, SrcEmpty, SentIsFresh, [Next]_vars PROVE SrcEmpty' /\ SentIsFresh'
  <1>1. ASSUME NEW x \in Sides, BootKey(x) PROVE SrcEmpty' /\ SentIsFresh'
    BY <1>1 DEF BootKey, TypeOK, SrcEmpty, SentIsFresh, Exchange, Sides
  <1>2. ASSUME NEW x \in Sides, BootScript(x) PROVE SrcEmpty' /\ SentIsFresh'
    BY <1>2 DEF BootScript, TypeOK, SrcEmpty, SentIsFresh, Exchange, Sides
  <1>3. ASSUME NEW x \in Sides, PowerCycle(x) PROVE SrcEmpty' /\ SentIsFresh'
    BY <1>3 DEF PowerCycle, TypeOK, SrcEmpty, SentIsFresh, Exchange, Sides
  <1>4. ASSUME NEW x \in Sides, LinkUp(x) PROVE SrcEmpty' /\ SentIsFresh'
    BY <1>4 DEF LinkUp, TypeOK, SrcEmpty, SentIsFresh, Exchange, Sides
  <1>5. ASSUME NEW x \in Sides, LinkDrop(x) PROVE SrcEmpty' /\ SentIsFresh'
    BY <1>5 DEF LinkDrop, LinkDown, TypeOK, SrcEmpty, SentIsFresh, Exchange, Sides
  <1>6. ASSUME NEW x \in Sides, LinkLost(x) PROVE SrcEmpty' /\ SentIsFresh'
    BY <1>6 DEF LinkLost, LinkDown, TypeOK, SrcEmpty, SentIsFresh, Exchange, Sides
  <1>7. ASSUME NEW x \in Sides, Connected(x) PROVE SrcEmpty' /\ SentIsFresh'
    BY <1>7 DEF Connected, TypeOK, SrcEmpty, SentIsFresh, Exchange, Sides
  <1>8. ASSUME NEW x \in Sides, Disconnected(x) PROVE SrcEmpty' /\ SentIsFresh'
    BY <1>8 DEF Disconnected, TypeOK, SrcEmpty, SentIsFresh, Exchange, Sides
  <1>9. ASSUME NEW x \in Sides, InstallKey(x) PROVE SrcEmpty' /\ SentIsFresh'
    BY <1>9 DEF InstallKey, TypeOK, SrcEmpty, SentIsFresh, Exchange, Sides
  <1>10. ASSUME NEW x \in Sides, InstallFails(x) PROVE SrcEmpty' /\ SentIsFresh'
    BY <1>10 DEF InstallFails, TypeOK, SrcEmpty, SentIsFresh, Exchange, Sides
  <1>11. ASSUME NEW n \in 0..(NKeys - 1), CreateFails(n) PROVE SrcEmpty' /\ SentIsFresh'
    BY <1>11 DEF CreateFails, TypeOK, SrcEmpty, SentIsFresh, Exchange, Sides
  <1>12. CASE Ping
    BY <1>12 DEF Ping, TypeOK, SrcEmpty, SentIsFresh, Exchange, Sides
  <1>13. CASE CreateKeys
    <2>1. src' = KeySet(gen')
      BY <1>13, WriteWhole DEF CreateKeys, SrcEmpty, Exchange
    <2> QED
      BY <1>13, <2>1 DEF CreateKeys, TypeOK, SrcEmpty, SentIsFresh, Exchange, Sides
  <1>14. CASE SendWrite
    BY <1>14 DEF SendWrite, TypeOK, SrcEmpty, SentIsFresh, Exchange, Sides
  <1>15. CASE SendOk
    BY <1>15 DEF SendOk, TypeOK, SrcEmpty, SentIsFresh, Exchange, Sides
  <1>16. CASE SendFails
    BY <1>16 DEF SendFails, TypeOK, SrcEmpty, SentIsFresh, Exchange, Sides
  <1>17. CASE SaveTrunc
    BY <1>17 DEF SaveTrunc, TypeOK, SrcEmpty, SentIsFresh, Exchange, Sides
  <1>18. CASE SaveWrite
    BY <1>18 DEF SaveWrite, TypeOK, SrcEmpty, SentIsFresh, Exchange, Sides
  <1>19. CASE UNCHANGED vars
    BY <1>19 DEF vars, TypeOK, SrcEmpty, SentIsFresh, Exchange, Sides
  <1>20. ASSUME NEW x \in Sides, BootFails(x) PROVE SrcEmpty' /\ SentIsFresh'
    BY <1>20 DEF BootFails, TypeOK, SrcEmpty, SentIsFresh, Exchange, Sides
  <1>21. ASSUME NEW x \in Sides, Exits(x) PROVE SrcEmpty' /\ SentIsFresh'
    BY <1>21 DEF Exits, TypeOK, SrcEmpty, SentIsFresh, Exchange, Sides
  <1> QED
    BY <1>1, <1>2, <1>3, <1>4, <1>5, <1>6, <1>7, <1>8, <1>9, <1>10, <1>11, <1>12, <1>13,
       <1>14, <1>15, <1>16, <1>17, <1>18, <1>19, <1>20, <1>21 DEF Next, Daemon, Master

\* Every step keeps the copies.
LEMMA CopiesStep == ASSUME TypeOK, SrcEmpty, Copies, [Next]_vars PROVE Copies'
  <1>1. ASSUME NEW x \in Sides, BootKey(x) PROVE Copies'
    BY <1>1 DEF BootKey, TypeOK, SrcEmpty, Copies, Exchange, Sides
  <1>2. ASSUME NEW x \in Sides, BootScript(x) PROVE Copies'
    BY <1>2 DEF BootScript, TypeOK, SrcEmpty, Copies, Exchange, Sides
  <1>3. ASSUME NEW x \in Sides, PowerCycle(x) PROVE Copies'
    BY <1>3 DEF PowerCycle, TypeOK, SrcEmpty, Copies, Exchange, Sides
  <1>4. ASSUME NEW x \in Sides, LinkUp(x) PROVE Copies'
    BY <1>4 DEF LinkUp, TypeOK, SrcEmpty, Copies, Exchange, Sides
  <1>5. ASSUME NEW x \in Sides, LinkDrop(x) PROVE Copies'
    BY <1>5 DEF LinkDrop, LinkDown, TypeOK, SrcEmpty, Copies, Exchange, Sides
  <1>6. ASSUME NEW x \in Sides, LinkLost(x) PROVE Copies'
    BY <1>6 DEF LinkLost, LinkDown, TypeOK, SrcEmpty, Copies, Exchange, Sides
  <1>7. ASSUME NEW x \in Sides, Connected(x) PROVE Copies'
    BY <1>7 DEF Connected, TypeOK, SrcEmpty, Copies, Exchange, Sides
  <1>8. ASSUME NEW x \in Sides, Disconnected(x) PROVE Copies'
    BY <1>8 DEF Disconnected, TypeOK, SrcEmpty, Copies, Exchange, Sides
  <1>9. ASSUME NEW x \in Sides, InstallKey(x) PROVE Copies'
    BY <1>9 DEF InstallKey, TypeOK, SrcEmpty, Copies, Exchange, Sides
  <1>10. ASSUME NEW x \in Sides, InstallFails(x) PROVE Copies'
    BY <1>10 DEF InstallFails, TypeOK, SrcEmpty, Copies, Exchange, Sides
  <1>11. ASSUME NEW n \in 0..(NKeys - 1), CreateFails(n) PROVE Copies'
    BY <1>11 DEF CreateFails, TypeOK, SrcEmpty, Copies, Exchange, Sides
  <1>12. CASE Ping
    BY <1>12 DEF Ping, TypeOK, SrcEmpty, Copies, Exchange, Sides
  <1>13. CASE CreateKeys
    BY <1>13 DEF CreateKeys, TypeOK, SrcEmpty, Copies, Exchange, Sides
  <1>14. CASE SendWrite
    BY <1>14 DEF SendWrite, TypeOK, SrcEmpty, Copies, Exchange, Sides
  <1>15. CASE SendOk
    BY <1>15 DEF SendOk, TypeOK, SrcEmpty, Copies, Exchange, Sides
  <1>16. CASE SendFails
    BY <1>16 DEF SendFails, TypeOK, SrcEmpty, Copies, Exchange, Sides
  <1>17. CASE SaveTrunc
    BY <1>17 DEF SaveTrunc, TypeOK, SrcEmpty, Copies, Exchange, Sides
  <1>18. CASE SaveWrite
    BY <1>18 DEF SaveWrite, TypeOK, SrcEmpty, Copies, Exchange, Sides
  <1>19. CASE UNCHANGED vars
    BY <1>19 DEF vars, TypeOK, SrcEmpty, Copies, Exchange, Sides
  <1>20. ASSUME NEW x \in Sides, BootFails(x) PROVE Copies'
    BY <1>20 DEF BootFails, TypeOK, SrcEmpty, Copies, Exchange, Sides
  <1>21. ASSUME NEW x \in Sides, Exits(x) PROVE Copies'
    BY <1>21 DEF Exits, TypeOK, SrcEmpty, Copies, Exchange, Sides
  <1> QED
    BY <1>1, <1>2, <1>3, <1>4, <1>5, <1>6, <1>7, <1>8, <1>9, <1>10, <1>11, <1>12, <1>13,
       <1>14, <1>15, <1>16, <1>17, <1>18, <1>19, <1>20, <1>21 DEF Next, Daemon, Master

\* The conjunction is an inductive invariant.
THEOREM Inductive == Spec => []IInv
  <1>1. IInv /\ [Next]_vars => IInv'
    BY TypeStep, FreshStep, CopiesStep DEF IInv
  <1> QED
    BY InitIInv, <1>1, PTL DEF Spec

\* Type correctness for every number of keys and every bound.
THEOREM TypeCorrect == Spec => []TypeOK
  <1>1. IInv => TypeOK
    BY DEF IInv
  <1> QED
    BY <1>1, Inductive, PTL

\* What the master sends and saves is always the set it generated last
\* (CREATE_KEYS to SAVE_KEYS of daemon-tool.cpp).
THEOREM Fresh == Spec => []SentIsFresh
  <1>1. IInv => SentIsFresh
    BY DEF IInv
  <1> QED
    BY <1>1, Inductive, PTL

\* Until its first power cycle the master holds a copy of the set the slave
\* will install, however often transfers fail and links drop.
THEOREM MasterKeeps == Spec => []MasterKeepsSet
  <1>1. IInv => MasterKeepsSet
    BY DEF IInv, TypeOK, Copies, MasterKeepsSet, Exchange, Sides
  <1> QED
    BY <1>1, Inductive, PTL

-----------------------------------------------------------------------------
(***************************************************************************)
(* The registers.  A key file holds one set, and while the parent process  *)
(* installs it nobody writes it.  While the daemon installs it only scp    *)
(* does, on the slave.  What is half installed is a part of that set, or   *)
(* `left' says that it is not.                                             *)
(***************************************************************************)
\* The sets generated up to n.
SetsBy(n) == {KeySet(g) : g \in None..n}

FilesWhole == file["m"] \in SetsBy(gen) /\ file["s"] \in SetsBy(gen)

\* The daemon waits (or has ended) until the parent process and the script are done.
Boots == \A x \in Sides : boot[x] # RUNNING => st[x] \in {"WAIT_CONNECT", "DEAD"} /\ up[x] = "off"

\* The registers hold one set, or keys were left out.
OneSet(x) == hw[x] \in SetsBy(gen) \/ left[x] = "some"

\* What the parent process has installed so far, and what it leaves.
Booted(x) ==
  /\ boot[x] \in Keys => \A k \in Keys : hw[x][k] = IF k < boot[x] THEN file[x][k] ELSE None
  /\ boot[x] \notin Keys /\ st[x] # "INSTALL" => OneSet(x)

\* What the daemon has installed so far.
Installed(x) ==
  st[x] = "INSTALL" =>
    /\ inst[x] = 1 => OneSet(x)
    /\ left[x] = "some" \/ \A k \in Keys : k < inst[x] => hw[x][k] = file[x][k]

WInv == FilesWhole /\ Boots /\ \A x \in Sides : Booted(x) /\ Installed(x)

\* Sets stay sets when more are generated; one that lacks a key is empty.
LEMMA SetFacts ==
  ASSUME TypeOK
  PROVE  /\ SetsBy(gen) \subseteq SetsBy(gen + 1)
         /\ NoKeys \in SetsBy(gen) /\ KeySet(gen) \in SetsBy(gen)
         /\ \A h \in SetsBy(gen) : \A k \in Keys : h[k] = h[1]
         /\ \A h \in [Keys -> None..MaxGen], f \in SetsBy(gen) :
              (\A k \in Keys : h[k] = f[k]) => h = f
         /\ \A h : Whole(h) <=> h \in SetsBy(gen)
PROOF
<1>. USE Types DEF SetsBy, None, DELIVERED
<1>1. gen \in Nat
  BY DEF TypeOK
<1>2. SetsBy(gen) \subseteq SetsBy(gen + 1)
  BY <1>1
<1>3. NoKeys \in SetsBy(gen) /\ KeySet(gen) \in SetsBy(gen)
  BY <1>1 DEF NoKeys
<1>4. \A h \in SetsBy(gen) : \A k \in Keys : h[k] = h[1]
  BY DEF KeySet
<1>5. \A h \in [Keys -> None..MaxGen],
       f \in SetsBy(gen) : (\A k \in Keys : h[k] = f[k]) => h = f
  BY DEF KeySet
<1>6. \A h : Whole(h) <=> h \in SetsBy(gen)
  BY DEF Whole
<1>. QED
  BY <1>2, <1>3, <1>4, <1>5, <1>6

\* The initial states satisfy it.
LEMMA InitWInv == Init => WInv
PROOF
<1>. SUFFICES ASSUME Init PROVE WInv
  OBVIOUS
<1>1. PICK f \in Factory : file = [x \in Sides |-> KeySet(f)]
  BY DEF Init
<1>2. f \in None..1
  BY <1>1, KeySyncAssumption DEF None, DELIVERED
<1>3. KeySet(f) \in SetsBy(gen)
  BY <1>2 DEF Init, SetsBy, DELIVERED
<1>4. FilesWhole
  BY <1>1, <1>3 DEF FilesWhole, Sides
<1>5. Boots
  BY DEF Init, Boots
<1>6. ASSUME NEW x \in Sides PROVE Booted(x) /\ Installed(x)
  <2>1. hw[x] = NoKeys /\ boot[x] = 1 /\ st[x] = "WAIT_CONNECT"
    BY DEF Init
  <2>2. \A k \in Keys : NoKeys[k] = None /\ ~(k < 1)
    BY Types DEF NoKeys, KeySet
  <2>. QED
    BY <2>1, <2>2, Types DEF Booted, Installed
<1>. QED
  BY <1>4, <1>5, <1>6 DEF WInv

\* Only a whole set is copied to a key file.
LEMMA FilesStep ==
  ASSUME TypeOK, SentIsFresh, FilesWhole, [Next]_vars
  PROVE  FilesWhole'
PROOF
<1>1. CASE UNCHANGED file /\ gen' \in {gen, gen + 1}
  BY <1>1, SetFacts DEF FilesWhole
<1>2. CASE SendWrite
  <2>1. src \in SetsBy(gen)
    BY <1>2, SetFacts DEF SendWrite, SentIsFresh
  <2>. QED
    BY <1>2, <2>1 DEF SendWrite, FilesWhole, TypeOK, Sides
<1>3. CASE SaveTrunc
  BY <1>3, SetFacts DEF SaveTrunc, FilesWhole, TypeOK, Sides
<1>4. CASE SaveWrite
  <2>1. src \in SetsBy(gen)
    BY <1>4, SetFacts DEF SaveWrite, SentIsFresh
  <2>. QED
    BY <1>4, <2>1 DEF SaveWrite, FilesWhole, TypeOK, Sides
<1>5. SendWrite \/ SaveTrunc \/ SaveWrite \/ (UNCHANGED file /\ gen' \in {gen, gen + 1})
  BY DEF Next, Daemon, Master, BootKey, BootFails, BootScript, PowerCycle, LinkUp, LinkDrop,
         LinkLost, LinkDown, Connected, Disconnected, InstallKey, InstallFails, Exits,
         CreateFails, Ping, CreateKeys, SendOk, SendFails, vars
<1>. QED
  BY <1>1, <1>2, <1>3, <1>4, <1>5

\* Without the modem no link comes up.
LEMMA BootsStep ==
  ASSUME TypeOK, Boots, [Next]_vars
  PROVE  Boots'
PROOF
<1>. SUFFICES ASSUME NEW y \in Sides, boot'[y] # RUNNING
              PROVE  st'[y] \in {"WAIT_CONNECT", "DEAD"} /\ up'[y] = "off"
  BY DEF Boots
<1>. DEFINE Off == st'[y] \in {"WAIT_CONNECT", "DEAD"} /\ up'[y] = "off"
<1>0. boot[y] # RUNNING => st[y] \in {"WAIT_CONNECT", "DEAD"} /\ up[y] = "off"
  BY DEF Boots
<1>1. ASSUME NEW x \in Sides, BootKey(x) PROVE Off
  BY <1>0, <1>1, Types DEF BootKey, TypeOK, SCRIPT, RUNNING
<1>2. ASSUME NEW x \in Sides, BootFails(x) PROVE Off
  BY <1>0, <1>2, Types DEF BootFails, TypeOK, SCRIPT, RUNNING
<1>3. ASSUME NEW x \in Sides, BootScript(x) PROVE Off
  BY <1>0, <1>3, Types DEF BootScript, TypeOK, SCRIPT, RUNNING
<1>4. ASSUME NEW x \in Sides, PowerCycle(x) PROVE Off
  BY <1>0, <1>4 DEF PowerCycle, TypeOK
<1>5. ASSUME NEW x \in Sides, LinkUp(x) PROVE Off
  BY <1>0, <1>5 DEF LinkUp, TypeOK, Matched, Radio, Sides
<1>6. ASSUME NEW x \in Sides, LinkDrop(x) PROVE Off
  BY <1>0, <1>6 DEF LinkDrop, LinkDown, TypeOK
<1>7. ASSUME NEW x \in Sides, LinkLost(x) PROVE Off
  BY <1>0, <1>7 DEF LinkLost, LinkDown, TypeOK
<1>8. ASSUME NEW x \in Sides, Connected(x) PROVE Off
  BY <1>0, <1>8 DEF Connected, TypeOK
<1>9. ASSUME NEW x \in Sides, Disconnected(x) PROVE Off
  BY <1>0, <1>9 DEF Disconnected, TypeOK
<1>10. ASSUME NEW x \in Sides, InstallKey(x) PROVE Off
  BY <1>0, <1>10 DEF InstallKey, TypeOK
<1>11. ASSUME NEW x \in Sides, InstallFails(x) PROVE Off
  BY <1>0, <1>11 DEF InstallFails, TypeOK
<1>12. ASSUME NEW x \in Sides, Exits(x) PROVE Off
  BY <1>0, <1>12 DEF Exits, TypeOK
<1>13. ASSUME NEW n \in 0..(NKeys - 1), CreateFails(n) PROVE Off
  BY <1>0, <1>13 DEF CreateFails, TypeOK
<1>14. CASE Ping
  BY <1>0, <1>14 DEF Ping, TypeOK
<1>15. CASE CreateKeys
  BY <1>0, <1>15 DEF CreateKeys, TypeOK
<1>16. CASE SendWrite
  BY <1>0, <1>16 DEF SendWrite, TypeOK
<1>17. CASE SendOk
  BY <1>0, <1>17 DEF SendOk, TypeOK
<1>18. CASE SendFails
  BY <1>0, <1>18 DEF SendFails, TypeOK
<1>19. CASE SaveTrunc
  BY <1>0, <1>19 DEF SaveTrunc, TypeOK
<1>20. CASE SaveWrite
  BY <1>0, <1>20 DEF SaveWrite, TypeOK
<1>21. CASE UNCHANGED vars
  BY <1>0, <1>21 DEF vars, TypeOK
<1>. QED
  BY <1>1, <1>2, <1>3, <1>4, <1>5, <1>6, <1>7, <1>8, <1>9, <1>10, <1>11, <1>12, <1>13, <1>14,
     <1>15, <1>16, <1>17, <1>18, <1>19, <1>20, <1>21 DEF Next, Daemon, Master

\* A step that leaves a modem's registers, its files and the installation
\* that runs alone.
Still(y) ==
  /\ hw'[y] = hw[y] /\ boot'[y] = boot[y] /\ file'[y] = file[y]
  /\ inst'[y] = inst[y] /\ left'[y] = left[y]
  /\ (st'[y] = "INSTALL" <=> st[y] = "INSTALL") /\ gen' \in {gen, gen + 1}

\* Such a step keeps what is installed.
LEMMA StillKeeps ==
  ASSUME TypeOK, NEW y \in Sides, Booted(y), Installed(y), Still(y)
  PROVE  Booted(y)' /\ Installed(y)'
PROOF
<1>1. OneSet(y) => OneSet(y)'
  BY SetFacts DEF Still, OneSet
<1>2. Booted(y)'
  BY <1>1 DEF Still, Booted
<1>3. Installed(y)'
  BY <1>1 DEF Still, Installed
<1>. QED
  BY <1>2, <1>3

\* The steps that are not of this kind.
LEMMA Touches ==
  ASSUME TypeOK, Boots, [Next]_vars, NEW y \in Sides
  PROVE  \/ Still(y)
         \/ BootKey(y) \/ BootFails(y) \/ BootScript(y) \/ PowerCycle(y)
         \/ Disconnected(y) \/ InstallKey(y) \/ InstallFails(y)
         \/ SendWrite /\ y = "s"
         \/ (SaveTrunc \/ SaveWrite) /\ y = "m"
PROOF
<1>1. ASSUME NEW x \in Sides, BootKey(x) PROVE Still(y) \/ BootKey(y)
  BY <1>1 DEF BootKey, TypeOK, Still
<1>2. ASSUME NEW x \in Sides, BootFails(x) PROVE Still(y) \/ BootFails(y)
  BY <1>2 DEF BootFails, TypeOK, Still
<1>3. ASSUME NEW x \in Sides, BootScript(x) PROVE Still(y) \/ BootScript(y)
  BY <1>3 DEF BootScript, TypeOK, Still
<1>4. ASSUME NEW x \in Sides, PowerCycle(x) PROVE Still(y) \/ PowerCycle(y)
  BY <1>4 DEF PowerCycle, TypeOK, Still
<1>5. ASSUME NEW x \in Sides, LinkUp(x) PROVE Still(y)
  BY <1>5 DEF LinkUp, TypeOK, Still, Sides
<1>6. ASSUME NEW x \in Sides, LinkDrop(x) PROVE Still(y)
  BY <1>6 DEF LinkDrop, LinkDown, TypeOK, Still, Sides
<1>7. ASSUME NEW x \in Sides, LinkLost(x) PROVE Still(y)
  BY <1>7 DEF LinkLost, LinkDown, TypeOK, Still, Sides
<1>8. ASSUME NEW x \in Sides, Connected(x) PROVE Still(y)
  BY <1>8 DEF Connected, TypeOK, Still, Sides
<1>9. ASSUME NEW x \in Sides, Disconnected(x) PROVE Still(y) \/ Disconnected(y)
  BY <1>9 DEF Disconnected, TypeOK, Still
<1>10. ASSUME NEW x \in Sides, InstallKey(x) PROVE Still(y) \/ InstallKey(y)
  BY <1>10 DEF InstallKey, TypeOK, Still
<1>11. ASSUME NEW x \in Sides, InstallFails(x) PROVE Still(y) \/ InstallFails(y)
  BY <1>11 DEF InstallFails, TypeOK, Still
<1>12. ASSUME NEW x \in Sides, Exits(x) PROVE Still(y)
  BY <1>12 DEF Exits, TypeOK, Still, Sides
<1>13. ASSUME NEW n \in 0..(NKeys - 1), CreateFails(n) PROVE Still(y)
  BY <1>13 DEF CreateFails, TypeOK, Still, Sides
<1>14. CASE Ping
  BY <1>14 DEF Ping, TypeOK, Still, Sides
<1>15. CASE CreateKeys
  BY <1>15 DEF CreateKeys, TypeOK, Still, Sides
<1>16. CASE SendWrite
  BY <1>16 DEF SendWrite, TypeOK, Still, Sides
<1>17. CASE SendOk
  BY <1>17 DEF SendOk, TypeOK, Still, Sides
<1>18. CASE SendFails
  BY <1>18 DEF SendFails, TypeOK, Still, Sides
<1>19. CASE SaveTrunc
  BY <1>19 DEF SaveTrunc, TypeOK, Still, Sides
<1>20. CASE SaveWrite
  BY <1>20 DEF SaveWrite, TypeOK, Still, Sides
<1>21. CASE UNCHANGED vars
  BY <1>21 DEF vars, TypeOK, Still, Sides
<1>. QED
  BY <1>1, <1>2, <1>3, <1>4, <1>5, <1>6, <1>7, <1>8, <1>9, <1>10, <1>11, <1>12, <1>13, <1>14,
     <1>15, <1>16, <1>17, <1>18, <1>19, <1>20, <1>21 DEF Next, Daemon, Master

\* What was installed before the key that an installation fails at.
LEMMA LeftRight ==
  ASSUME TypeOK, NEW y \in Sides, NEW k \in Keys,
         left' = [left EXCEPT ![y] = LeftAt(y, k)], UNCHANGED <<hw, gen>>,
         k = 1 => OneSet(y)
  PROVE  OneSet(y)'
PROOF
<1>1. left'[y] = LeftAt(y, k)
  BY DEF TypeOK
<1>2. CASE k > 1
  BY <1>1, <1>2 DEF LeftAt, OneSet
<1>3. CASE k = 1
  BY <1>1, <1>3 DEF LeftAt, OneSet
<1>. QED
  BY <1>2, <1>3, Types

\* Writing key k adds it to the first keys of a file that are in the registers.
LEMMA OneMore ==
  ASSUME TypeOK, NEW y \in Sides, NEW k \in Keys,
         hw' = [hw EXCEPT ![y][k] = file[y][k]]
  PROVE  /\ hw'[y] \in [Keys -> None..MaxGen]
         /\ \A j \in Keys : hw'[y][j] = IF j = k THEN file[y][j] ELSE hw[y][j]
         /\ \A j \in Keys : (j < k + 1) <=> (j < k \/ j = k)
PROOF
<1>1. hw[y] \in [Keys -> None..MaxGen] /\ file[y][k] \in None..MaxGen
  BY DEF TypeOK
<1>2. hw'[y] = [hw[y] EXCEPT ![k] = file[y][k]]
  BY DEF TypeOK
<1>3. \A j \in Keys : (j < k + 1) <=> (j < k \/ j = k)
  BY Types
<1>. QED
  BY <1>1, <1>2, <1>3

\* Registers with every key of a file hold one set.
LEMMA AllIsOne ==
  ASSUME TypeOK, FilesWhole, NEW y \in Sides, NEW h \in [Keys -> None..MaxGen],
         \A k \in Keys : h[k] = file[y][k]
  PROVE  h \in SetsBy(gen)
  BY SetFacts DEF FilesWhole, Sides

\* Every step keeps the account of what is installed.
LEMMA RegsStep ==
  ASSUME TypeOK, TypeOK', FilesWhole, Boots, [Next]_vars,
         NEW y \in Sides, Booted(y), Installed(y)
  PROVE  Booted(y)' /\ Installed(y)'
PROOF
<1>0. boot[y] # RUNNING => st[y] # "INSTALL"
  BY DEF Boots
<1>1. RUNNING \notin Keys /\ SCRIPT \notin Keys /\ SCRIPT # RUNNING
  BY Types DEF RUNNING, SCRIPT
<1>2. CASE Still(y)
  BY <1>2, StillKeeps
<1>3. CASE BootKey(y)
  <2>. DEFINE k == boot[y]
  <2>1. /\ k \in Keys /\ hw' = [hw EXCEPT ![y][k] = file[y][k]] /\ boot'[y] = k + 1
        /\ UNCHANGED <<st, file, gen>>
    BY <1>3 DEF BootKey, TypeOK
  <2>2. st[y] # "INSTALL"
    BY <1>0, <1>1, <2>1
  <2>3. \A j \in Keys : hw[y][j] = IF j < k THEN file[y][j] ELSE None
    BY <2>1 DEF Booted
  <2>. HIDE DEF k
  <2>4. \A j \in Keys : hw'[y][j] = IF j < k + 1 THEN file[y][j] ELSE None
    <3>1. /\ \A j \in Keys : hw'[y][j] = IF j = k THEN file[y][j] ELSE hw[y][j]
          /\ \A j \in Keys : (j < k + 1) <=> (j < k \/ j = k)
      BY <2>1, OneMore
    <3>. QED
      BY <2>3, <3>1
  <2>5. k + 1 \notin Keys => hw'[y] \in SetsBy(gen)
    <3>1. k + 1 \notin Keys => \A j \in Keys : j < k + 1
      BY <2>1, Types
    <3>. QED
      BY <2>1, <2>4, <3>1, OneMore, AllIsOne
  <2>6. k + 1 \notin Keys => OneSet(y)'
    BY <2>1, <2>5 DEF OneSet
  <2>. QED
    BY <2>1, <2>2, <2>4, <2>6 DEF Booted, Installed
<1>4. CASE BootFails(y)
  <2>1. /\ boot[y] \in Keys /\ boot'[y] = SCRIPT /\ UNCHANGED <<st, hw, file, gen>>
        /\ left' = [left EXCEPT ![y] = LeftAt(y, boot[y])]
    BY <1>4 DEF BootFails, TypeOK
  <2>2. boot[y] = 1 => OneSet(y)
    <3>. SUFFICES ASSUME boot[y] = 1 PROVE hw[y] \in SetsBy(gen)
      BY DEF OneSet
    <3>1. \A k \in Keys : hw[y][k] = NoKeys[k]
      BY <2>1, Types DEF Booted, NoKeys, KeySet
    <3>2. hw[y] \in [Keys -> None..MaxGen]
      BY DEF TypeOK
    <3>. QED
      BY <3>1, <3>2, SetFacts
  <2>3. OneSet(y)'
    BY <2>1, <2>2, LeftRight
  <2>4. st'[y] # "INSTALL"
    BY <1>0, <1>1, <2>1
  <2>. QED
    BY <1>1, <2>1, <2>3, <2>4 DEF Booted, Installed
<1>5. CASE BootScript(y)
  <2>1. boot[y] = SCRIPT /\ boot'[y] = RUNNING /\ UNCHANGED <<st, hw, file, inst, left, gen>>
    BY <1>5 DEF BootScript, TypeOK
  <2>2. OneSet(y) => OneSet(y)'
    BY <2>1 DEF OneSet
  <2>. QED
    BY <1>1, <2>1, <2>2 DEF Booted, Installed
<1>6. CASE PowerCycle(y)
  <2>1. hw'[y] = NoKeys /\ boot'[y] = 1 /\ st'[y] = "WAIT_CONNECT"
    BY <1>6 DEF PowerCycle, TypeOK
  <2>2. \A k \in Keys : NoKeys[k] = None /\ ~(k < 1)
    BY Types DEF NoKeys, KeySet
  <2>. QED
    BY <2>1, <2>2, Types DEF Booted, Installed
<1>7. CASE Disconnected(y)
  <2>1. /\ st[y] = "WAIT_DISCONNECT" /\ st'[y] = "INSTALL" /\ inst'[y] = 1
        /\ UNCHANGED <<boot, hw, file, left, gen>>
    BY <1>7 DEF Disconnected, TypeOK
  <2>2. boot[y] = RUNNING
    BY <2>1 DEF Boots
  <2>3. OneSet(y)'
    BY <1>1, <2>1, <2>2 DEF Booted, OneSet
  <2>4. \A k \in Keys : ~(k < 1)
    BY Types
  <2>. QED
    BY <1>1, <2>1, <2>2, <2>3, <2>4 DEF Booted, Installed
<1>8. CASE InstallKey(y)
  <2>. DEFINE k == inst[y]
  <2>1. /\ k \in Keys /\ hw' = [hw EXCEPT ![y][k] = file[y][k]] /\ st[y] = "INSTALL"
        /\ UNCHANGED <<boot, file, gen>>
    BY <1>8 DEF InstallKey, TypeOK
  <2>2. boot[y] = RUNNING
    BY <1>0, <2>1
  <2>3. left'[y] = IF k = 1 THEN "none" ELSE left[y]
    BY <1>8 DEF InstallKey, TypeOK
  <2>4. k < NKeys => inst'[y] = k + 1
    BY <1>8 DEF InstallKey, TypeOK
  <2>5. ~(k < NKeys) => st'[y] # "INSTALL"
    BY <1>8 DEF InstallKey, TypeOK
  <2>6. left[y] = "some" \/ \A j \in Keys : j < k => hw[y][j] = file[y][j]
    BY <2>1 DEF Installed
  <2>. HIDE DEF k
  <2>7. left'[y] = "some" \/ \A j \in Keys : j < k + 1 => hw'[y][j] = file[y][j]
    <3>1. /\ \A j \in Keys : hw'[y][j] = IF j = k THEN file[y][j] ELSE hw[y][j]
          /\ \A j \in Keys : (j < k + 1) <=> (j < k \/ j = k)
      BY <2>1, OneMore
    <3>2. CASE k = 1
      <4>1. \A j \in Keys : ~(j < k)
        BY <3>2, Types
      <4>. QED
        BY <3>1, <4>1
    <3>3. CASE k # 1
      BY <2>3, <2>6, <3>1, <3>3
    <3>. QED
      BY <3>2, <3>3
  <2>8. CASE k < NKeys
    <3>1. inst'[y] = k + 1 /\ inst'[y] # 1
      BY <2>1, <2>4, <2>8, Types
    <3>2. st[y] = st'[y]
      BY <1>8, <2>8 DEF InstallKey, k
    <3>. QED
      BY <1>1, <2>1, <2>2, <2>7, <3>1, <3>2 DEF Booted, Installed
  <2>9. CASE ~(k < NKeys)
    <3>1. \A j \in Keys : j < k + 1
      BY <2>1, <2>9, Types
    <3>2. OneSet(y)'
      BY <2>1, <2>7, <3>1, OneMore, AllIsOne DEF OneSet
    <3>. QED
      BY <1>1, <2>1, <2>2, <2>5, <2>9, <3>2 DEF Booted, Installed
  <2>. QED
    BY <2>8, <2>9
<1>9. CASE InstallFails(y)
  <2>1. /\ st[y] = "INSTALL" /\ st'[y] = "DEAD" /\ UNCHANGED <<boot, hw, gen>>
        /\ left' = [left EXCEPT ![y] = LeftAt(y, inst[y])]
    BY <1>9 DEF InstallFails, TypeOK
  <2>2. boot[y] = RUNNING /\ inst[y] \in Keys
    BY <1>0, <2>1 DEF TypeOK
  <2>3. inst[y] = 1 => OneSet(y)
    BY <2>1 DEF Installed
  <2>4. OneSet(y)'
    BY <2>1, <2>2, <2>3, LeftRight
  <2>. QED
    BY <1>1, <2>1, <2>2, <2>4 DEF Booted, Installed
<1>10. CASE SendWrite /\ y = "s"
  <2>1. boot[y] = RUNNING
    BY <1>10 DEF SendWrite, Path, Matched, Radio
  <2>2. UNCHANGED <<st, inst, boot, hw, gen>>
    BY <1>10 DEF SendWrite
  <2>3. /\ left[y] = "some" => left'[y] = "some"
        /\ st[y] = "INSTALL" /\ inst[y] > 1 => left'[y] = "some"
    BY <1>10 DEF SendWrite, TypeOK
  <2>4. inst[y] = 1 \/ inst[y] > 1
    BY Types DEF TypeOK
  <2>5. \A k \in Keys : ~(k < 1)
    BY Types
  <2>6. OneSet(y) => OneSet(y)'
    BY <2>2, <2>3 DEF OneSet
  <2>7. Booted(y)'
    BY <1>1, <2>1, <2>2, <2>6 DEF Booted
  <2>8. Installed(y)'
    BY <2>2, <2>3, <2>4, <2>5, <2>6 DEF Installed
  <2>. QED
    BY <2>7, <2>8
<1>11. CASE (SaveTrunc \/ SaveWrite) /\ y = "m"
  <2>1. /\ st[y] \notin {"WAIT_CONNECT", "DEAD", "INSTALL"} /\ st'[y] # "INSTALL"
        /\ UNCHANGED <<boot, hw, left, gen>>
    BY <1>11 DEF SaveTrunc, SaveWrite, TypeOK, Sides
  <2>2. boot[y] = RUNNING
    BY <2>1 DEF Boots
  <2>3. OneSet(y) => OneSet(y)'
    BY <2>1 DEF OneSet
  <2>. QED
    BY <1>1, <2>1, <2>2, <2>3 DEF Booted, Installed
<1>. QED
  BY <1>2, <1>3, <1>4, <1>5, <1>6, <1>7, <1>8, <1>9, <1>10, <1>11, Touches

\* Files and registers are whole, or `left' says why not, whatever is interrupted.
THEOREM WholeInductive == Spec => [](IInv /\ WInv)
PROOF
<1>1. Init => WInv
  BY InitWInv
<1>2. IInv /\ IInv' /\ WInv /\ [Next]_vars => WInv'
  BY FilesStep, BootsStep, RegsStep DEF IInv, WInv
<1>. QED
  BY <1>1, <1>2, Inductive, PTL DEF Spec

\* A modem that runs has the keys of one set, unless a register file could
\* not be opened after others were written, or scp overtook the slave.
THEOREM RunsWithOneSet == Spec => []KeysOfOneSet
PROOF
<1>1. RUNNING \notin Keys
  BY Types DEF RUNNING
<1>2. IInv /\ WInv => KeysOfOneSet
  BY <1>1, SetFacts DEF IInv, WInv, FilesWhole, Booted, OneSet, KeysOfOneSet, Radio
<1>. QED
  BY <1>2, WholeInductive, PTL

\* A key file is written only while the parent process of its modem has ended:
\* scp needs the link, and the link both radios; the master saves only
\* what it has sent.
LEMMA WritesAreLate ==
  ASSUME TypeOK, Boots, [Next]_vars, NEW x \in Sides, boot[x] \in Keys
  PROVE  file'[x] = file[x]
PROOF
<1>1. boot[x] # RUNNING
  BY Types DEF RUNNING
<1>2. CASE SendWrite
  <2>1. boot["s"] = RUNNING
    BY <1>2 DEF SendWrite, Path, Matched, Radio
  <2>2. x = "m"
    BY <1>1, <2>1 DEF Sides
  <2>. QED
    BY <1>2, <2>2 DEF SendWrite, TypeOK, Sides
<1>3. CASE SaveTrunc \/ SaveWrite
  <2>1. st["m"] \notin {"WAIT_CONNECT", "DEAD"}
    BY <1>3 DEF SaveTrunc, SaveWrite
  <2>2. x = "s"
    BY <1>1, <2>1 DEF Boots, Sides
  <2>. QED
    BY <1>3, <2>2 DEF SaveTrunc, SaveWrite, TypeOK, Sides
<1>4. CASE UNCHANGED file
  BY <1>4
<1>5. SendWrite \/ SaveTrunc \/ SaveWrite \/ UNCHANGED file
  BY DEF Next, Daemon, Master, BootKey, BootFails, BootScript, PowerCycle, LinkUp, LinkDrop,
         LinkLost, LinkDown, Connected, Disconnected, InstallKey, InstallFails, Exits,
         CreateFails, Ping, CreateKeys, SendOk, SendFails, vars
<1>. QED
  BY <1>2, <1>3, <1>4, <1>5

\* The key file is not overwritten while the parent process reads it, for
\* any number of keys, power cycles and losses of the link.
THEOREM ParentIsAlone == Spec => ParentReadsFirst
PROOF
<1>1. TypeOK /\ Boots /\ [Next]_vars
        => [\A x \in Sides : boot[x] \in Keys => file'[x] = file[x]]_vars
  BY WritesAreLate
<1>2. IInv /\ WInv => TypeOK /\ Boots
  BY DEF IInv, WInv
<1>. QED
  BY <1>1, <1>2, WholeInductive, PTL DEF Spec, ParentReadsFirst
=============================================================================
