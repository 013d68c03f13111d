------------------------------ MODULE CtpClaims ------------------------------
(***************************************************************************)
(* What the comments of the source say of CTP, where the code does not do  *)
(* it.  Each property is refuted by a run of its own.                      *)
(***************************************************************************)
EXTENDS CtpSettled

Announced(s, type) == \E l \in Slot : \E i \in DOMAIN inbox'[l] :
  inbox'[l][i].type = type /\ inbox'[l][i].slot = s

(* chassis_bpdu.c:797, "Repeat select another LC to be Root LC, and        *)
(* annouce to everyone": a root FC that hears its designated LC leave, and *)
(* knows of another live LC, announces one.                                *)
ReselectsOnLeave ==
  [][\A s \in FabricCard :
       /\ card[s].state = FORWARDING /\ card[s].root = s
       /\ \E l \in LineCard \ {card[s].design} : card[s].age[l] >= LiveAge
       /\ inbox[s] # << >> /\ Head(inbox[s]).type = "FC_CHANGE"
       /\ Head(inbox[s]).slot = card[s].design
       /\ RoundReceive(s)
       => Announced(s, "HELLO")]_roundVars

(* chassis.c:1520, "Topology is static": the ports of a card so configured *)
(* stay as its daemon set them at the start.                               *)
StaticPortsStay ==
  \A s \in Members \ Dynamic : card[s].ports = StaticPorts(s)
=============================================================================
