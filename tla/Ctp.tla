--------------------------------- MODULE Ctp ---------------------------------
(***************************************************************************)
(* The cards of a chassis running CTP over the backplane network.          *)
(*                                                                         *)
(* Every card is one single-threaded daemon: a tick, or the handling of    *)
(* one received frame, runs to completion (epoll_loop.c), so each is one   *)
(* atomic action.  A frame is multicast into the receive queue of each     *)
(* card that listens to the sender's address; the network may lose it for  *)
(* any of them, a full queue drops it, and a forwarding loop in the        *)
(* switches may deliver it again.  Cards start, leave on a signal, and     *)
(* die without a word.                                                     *)
(***************************************************************************)
EXTENDS CtpCard, Sequences, FiniteSets

CONSTANTS
  QueueCap,      \* bound on the frames waiting in a card's packet socket
  MaxStops,      \* bound on the departures (signal or crash) of a behaviour
  Lossy,         \* TRUE when the network may lose frames
  Looping        \* TRUE when a frame may be delivered more than once

ASSUME NetworkAssumption ==
  /\ QueueCap \in Nat \ {0} /\ MaxStops \in Nat
  /\ Lossy \in BOOLEAN /\ Looping \in BOOLEAN

VARIABLES
  card,          \* chassis_information.ctpm of every slot's daemon
  up,            \* the slots whose daemon is running
  inbox,         \* the frames queued in each daemon's packet socket
  stops          \* departures so far

vars == <<card, up, inbox, stops>>

TypeOK ==
  /\ card \in [Slot -> Card]
  /\ \A s \in Slot : card[s].us = s
  /\ up \in SUBSET Slot
  /\ inbox \in [Slot -> Seq(Frame)]
  /\ stops \in Nat

-----------------------------------------------------------------------------
(* The two multicast addresses: slots 1..16 and 41..48 send to one and     *)
(* listen to the other, slots 17..40 the reverse.                          *)
Address(s) == IF s \in (1..16) \cup (41..48) THEN 2 ELSE 1

(* The running cards a frame can reach; CPU B reads its frames only to     *)
(* drop them.                                                              *)
Listeners(from) == {s \in up \cap CpuA : Address(s) # Address(from)}

(* The frames of one step are queued at the listeners they reach. *)
Enqueue(queue, sent) ==
  IF sent = {} \/ Len(queue) >= QueueCap THEN queue
  ELSE Append(queue, CHOOSE f \in sent : TRUE)

Deliver(from, queues, sent) ==
  \E reached \in IF Lossy /\ sent # {} THEN SUBSET Listeners(from) ELSE {Listeners(from)} :
    inbox' = [s \in Slot |-> IF s \in reached THEN Enqueue(queues[s], sent)
                             ELSE queues[s]]

Step(s, result, queues) ==
  /\ card' = [card EXCEPT ![s] = result.card]
  /\ Deliver(s, queues, result.sent)

-----------------------------------------------------------------------------
(* chassis_bpdu_one_second, called by the event loop every 200 ms. *)
Tick(s) ==
  /\ s \in up
  /\ Step(s, Ticked(card[s]), inbox)
  /\ UNCHANGED <<up, stops>>

(* bpdu_packet_rcv reads one frame and hands it to the machine; the frame  *)
(* stays queued when the network is about to deliver it again.             *)
Receive(s) ==
  /\ s \in up /\ inbox[s] # << >>
  /\ \E again \in {FALSE, Looping} :
       Step(s, Received(card[s], Head(inbox[s])),
            IF again THEN inbox ELSE [inbox EXCEPT ![s] = Tail(@)])
  /\ UNCHANGED <<up, stops>>

(* The daemon is started (chassis.c main). *)
Start(s) ==
  /\ s \notin up
  /\ card' = [card EXCEPT ![s] = Started(s)]
  /\ up' = up \cup {s}
  /\ UNCHANGED <<inbox, stops>>

Depart(s, ports) ==
  /\ s \in up /\ stops < MaxStops
  /\ card' = [card EXCEPT ![s] = [Zeroed(s) EXCEPT !.ports = ports]]
  /\ up' = up \ {s}
  /\ stops' = stops + 1

(* chassis_signal_exit: block, announce, disable the switch chip, exit. *)
SignalExit(s) ==
  /\ Depart(s, {})
  /\ Deliver(s, [inbox EXCEPT ![s] = << >>], Exited(card[s]).sent)

(* The card loses power, or the daemon dies and leaves its switch as it is. *)
Crash(s) ==
  /\ \E ports \in {{}, card[s].ports} : Depart(s, ports)
  /\ inbox' = [inbox EXCEPT ![s] = << >>]

Init ==
  /\ card = [s \in Slot |-> Zeroed(s)]
  /\ up = {}
  /\ inbox = [s \in Slot |-> << >>]
  /\ stops = 0

Next == \E s \in Slot :
  Tick(s) \/ Receive(s) \/ Start(s) \/ SignalExit(s) \/ Crash(s)

Spec == Init /\ [][Next]_vars

-----------------------------------------------------------------------------
(* A line card under CTP implements PortGuard: however frames are lost,    *)
(* repeated or reordered, no path of the receive handlers takes a card     *)
(* from BLOCK to open ports faster than the two timers.                    *)
ListenTicks == ForwardDelay + 2
WaitTicks == ListenTicks + 2 * ForwardDelay + 2

Waited(c) ==
  CASE c.state = BLOCK      -> 0
    [] c.state = LISTENING  -> c.time
    [] c.state = LEARNING   -> ListenTicks + c.time
    [] c.state = FORWARDING -> WaitTicks

Guarded == LineCard \cap CpuA \cap Dynamic

Guard == INSTANCE PortGuard WITH
  Ports <- LcPort, Listen <- ListenTicks, Total <- WaitTicks,
  wait <- [s \in Guarded |-> Waited(card[s])],
  ports <- [s \in Guarded |-> IF s \in up THEN card[s].ports ELSE {}]

PortsWait == Guard!Spec

(* The designated LC and the root FC are each kept twice, in a port number *)
(* and in a bridge identifier, written by different statements of six      *)
(* functions.  They never name different cards, but for the LC a root FC   *)
(* has just elected, whose port number is one short.                       *)
RecordsAgree == \A s \in Slot :
  LET c == card[s]
  IN /\ c.root = c.rootBridge
     /\ c.lc = c.design \/ (~ IsLineCard(s) /\ c.root = s /\ c.lc = c.design - 1)

(* A topology names fabric cards as roots and line cards as designated     *)
(* LCs, in every card and in every frame on the network.                   *)
Topology(root, design) ==
  root \in FabricCard \cup {0} /\ design \in LineCard \cup {0}

RolesMatchCards == \A s \in Slot :
  /\ Topology(card[s].root, card[s].design)
  /\ \A i \in DOMAIN inbox[s] : Topology(inbox[s][i].root, inbox[s][i].dbridge)

(* The switch follows the record: whatever frames have renamed the root FC *)
(* or the designated LC since the ports were last set, a card in           *)
(* FORWARDING opens exactly the ports its current role gives it.           *)
PortsMatchRole == \A s \in Slot :
  card[s].state = FORWARDING =>
    card[s].ports = RolePorts(s, card[s].root, card[s].lc)

(* The ages at which the others remember slot d, in their tables and in    *)
(* frames still queued.                                                    *)
Memory(d) ==
  {card[s].age[d] : s \in Slot \ {d}}
  \cup UNION {{inbox[s][i].age[d] : i \in DOMAIN inbox[s]} : s \in Slot \ {d}}

(* Members are learnt from third cards' tables, so a departed card's       *)
(* neighbours keep telling each other of it.  While a card is down, no     *)
(* exchange makes the freshest memory of it fresher.                       *)
GossipNeverRevives ==
  [][\A d \in Slot \ (up \cup up') :
       \A a \in Memory(d)' : \E b \in Memory(d) : a <= b]_vars
=============================================================================
