--------------------------- MODULE ResourceLadder ---------------------------
(***************************************************************************)
(* What a driver owes its resources, whatever order it acquires them in:   *)
(* a resource is taken once, only when everything it needs is held, and    *)
(* given back once, only when nothing that needs it is held any more.      *)
(***************************************************************************)
CONSTANTS Res,     \* the resources
          Needs    \* Needs[r]: the resources that must be held while r is

VARIABLE held      \* the resources held

Init == held = {}

Acquire(r) ==
  /\ r \notin held
  /\ Needs[r] \subseteq held
  /\ held' = held \cup {r}

Release(r) ==
  /\ r \in held
  /\ \A q \in held \ {r} : r \notin Needs[q]
  /\ held' = held \ {r}

Next == \E r \in Res : Acquire(r) \/ Release(r)

Spec == Init /\ [][Next]_held
=============================================================================
