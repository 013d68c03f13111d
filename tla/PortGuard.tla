------------------------------ MODULE PortGuard ------------------------------
(***************************************************************************)
(* What CTP promises about line cards' backplane ports, without frames or  *)
(* neighbours: ports open late and close at once.  A card counts ticks     *)
(* from the moment it hears a fabric card.  Before Listen ticks none of    *)
(* its ports is open, before Total ticks at most one, and going back       *)
(* closes all of them and starts the count again.                          *)
(***************************************************************************)
EXTENDS Naturals

CONSTANTS
  Guarded,       \* the line cards
  Ports,         \* their backplane ports
  Listen, Total  \* ticks before the first port, and before the others, may open

VARIABLES wait, ports

Allowed(w) ==
  {p \in SUBSET Ports : /\ w < Listen => p = {}
                        /\ w < Total => \A x, y \in p : x = y}

Init == wait = [c \in Guarded |-> 0] /\ ports = [c \in Guarded |-> {}]

(* One more tick; a port may open when its time has come. *)
Wait(c) ==
  /\ wait[c] < Total
  /\ wait' = [wait EXCEPT ![c] = @ + 1]
  /\ \E p \in Allowed(wait[c] + 1) : ports' = [ports EXCEPT ![c] = p]

(* A card that has waited may change its mind about what to open. *)
Reassign(c) ==
  /\ wait[c] = Total
  /\ \E p \in Allowed(Total) : ports' = [ports EXCEPT ![c] = p]
  /\ UNCHANGED wait

Block(c) ==
  /\ wait' = [wait EXCEPT ![c] = 0]
  /\ ports' = [ports EXCEPT ![c] = {}]

Next == \E c \in Guarded : Wait(c) \/ Reassign(c) \/ Block(c)

Spec == Init /\ [][Next]_<<wait, ports>>
=============================================================================
