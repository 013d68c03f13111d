------------------------------ MODULE CtpSettled ------------------------------
(***************************************************************************)
(* What keeps a settled chassis settled.                                   *)
(*                                                                         *)
(* Nothing but timers holds a topology together.  The root FC sends HELLO  *)
(* at each tick, the designated LC answers it with one of its own; a card  *)
(* that takes a HELLO from a card of the other kind sets its timer back,   *)
(* and leaves FORWARDING when it has taken none for too long.  But a card  *)
(* takes one HELLO of each sender between two of its own ticks, and drops  *)
(* the second: whether timers are set back in time depends on the order in *)
(* which the cards tick.                                                   *)
(***************************************************************************)
EXTENDS CtpRound

Fabric == Members \cap FabricCard
Lines == Members \cap LineCard

(* Every card forwards along the tree of root FC r and designated LC l;    *)
(* all run CTP, and their lines meet on one backplane.                     *)
OnTree(r, l) ==
  /\ \A s \in Members : /\ card[s].state = FORWARDING
                        /\ card[s].root = r /\ card[s].design = l
  /\ Members \subseteq Dynamic
  /\ r \in Fabric /\ l \in Lines
  /\ \A x \in Lines, f \in Fabric : Address(x) # Address(f)

(* So does every frame, each from a card of the other kind, and of the LCs *)
(* only the designated one sends HELLO; or it is the farewell of an LC.    *)
Voice(f, s, r, l) ==
  \/ /\ f.type \in {"HELLO", "REPLY"} /\ f.root = r /\ f.dbridge = l
     /\ IsLineCard(f.slot) # IsLineCard(s)
     /\ f.type = "HELLO" /\ IsLineCard(f.slot) => f.slot = l
  \/ f.type = "FC_CHANGE" /\ IsLineCard(f.slot)

OneVoice(r, l) ==
  \A s \in Members : \A i \in DOMAIN inbox[s] : Voice(inbox[s][i], s, r, l)

(* s has taken a HELLO of card id since its last tick; one is waiting. *)
Took(s, id) == <<id, "HELLO">> \in card[s].seen
Holds(queue, id) ==
  \E i \in DOMAIN queue : queue[i].type = "HELLO" /\ queue[i].slot = id
Waiting(s, id) == Holds(inbox[s], id)

(* The ticks of s that are still to come, and those gone, in this round. *)
ToCome(s) == IF s \in Due THEN 1 ELSE 0
Gone(s) == IF s \in Due THEN 0 ELSE 1

(* The root's timer is about to be set back, or shows one tick at most; it *)
(* shows one when l has dropped the last HELLO, and then l ticks before r  *)
(* sends the next.                                                         *)
RootInTime(r, l) ==
  \/ Waiting(r, l) \/ (Waiting(l, r) /\ ~ Took(l, r))
  \/ card[r].time = 0
  \/ card[r].time = 1 /\ (Took(l, r) => l \in Due /\ r \notin Due)

(* The timer of another card has counted its ticks since the last HELLO.   *)
OthersInTime(r, l) ==
  /\ \A x \in Lines :
       Waiting(x, r) \/ card[x].time <= ToCome(r) + Gone(x)
  /\ \A f \in Fabric \ {r} :
       Waiting(f, l) \/ card[f].time <= card[r].time + ToCome(r) + Gone(f)

(* How the HELLOs of this round, and those taken, stand to the ticks.      *)
HellosInOrder(r, l) ==
  /\ \A s \in Members, id \in Slot :
       Took(s, id) /\ IsLineCard(id) # IsLineCard(s) => card[s].time = 0
  /\ \A x \in Lines : Waiting(x, r) => r \notin Due
  /\ Took(l, r) /\ r \in Due => l \in Due
  /\ Waiting(r, l) => \A f \in Fabric : Waiting(f, l) \/ card[f].time = 0

(* Every HELLO an LC takes makes it send one frame, and its departure one: *)
(* no more frames wait for an FC than the LCs have taken HELLOs, or would  *)
(* take if they had not left.                                              *)
Taken == {p \in LineCard \X FabricCard : Took(p[1], p[2]) \/ p[1] \notin up}
QueuesShort == \A f \in Fabric : Len(inbox[f]) <= Cardinality(Taken)

Settled(r, l) ==
  /\ OnTree(r, l) /\ OneVoice(r, l)
  /\ RootInTime(r, l) /\ OthersInTime(r, l) /\ HellosInOrder(r, l)
  /\ QueuesShort

(* Where this is enough: no frame is lost or repeated, the socket of an FC *)
(* holds a frame of each LC for each FC, and a backup FC bears two ticks   *)
(* without a HELLO.                                                        *)
Reliable ==
  /\ ~ Lossy /\ ~ Looping
  /\ QueueCap >= Cardinality(LineCard) * Cardinality(FabricCard)
  /\ MaxAge * ForwardDelay >= 2

-----------------------------------------------------------------------------
(* Cards of both kinds agree: Settle rounds after the last has started or  *)
(* departed, whatever happened before, the chassis is settled; but for one *)
(* in which a lower FC has joined, which may stay split.                   *)
SettledInTime ==
  calm = Settle /\ Mixed /\ ~ Undercut =>
    \E r \in FabricCard, l \in LineCard : Settled(r, l)

(* Until a card joins, or the root or the designated LC departs, it stays  *)
(* so: in no order of ticks and frames does a timer run out for want of a  *)
(* HELLO, and no other card that departs, announced or not, is missed.     *)
TreeStands(r, l) == Members' \subseteq Members /\ {r, l} \subseteq Members'

SettledStays ==
  [][\A r \in FabricCard, l \in LineCard :
       TreeStands(r, l) /\ Settled(r, l) => Settled(r, l)']_roundVars

(* On one tree, the links that carry frames are just those of the tree:    *)
(* of every LC to the root FC, and of every FC to the designated LC.  So   *)
(* each two cards are connected, and by one way only.                      *)
LinksAreTree ==
  \A r \in FabricCard, l \in LineCard : OnTree(r, l) =>
    \A x \in Lines, f \in Fabric : Link(x, f) <=> x = l \/ f = r
=============================================================================
