------------------------------- MODULE Thermal -------------------------------
(***************************************************************************)
(* The thermal shutdown manager (shutdown_mgr.c) of the master fabric      *)
(* cards, and the requests by which they and an operator switch line cards *)
(* of the other half of the chassis (udp_server.c, tcp_server.c).          *)
(*                                                                         *)
(* A chassis has two halves, each with two FCs and four LCs.  An FC reads  *)
(* the sensors of every card over two fan boards, but its hot swap lines   *)
(* reach only the cards of its own half; for the others it asks a master   *)
(* FC of the other half by an unacknowledged datagram.  FCs are named by   *)
(* the slot number of their CPU A, LCs by their index 0..7.                *)
(*                                                                         *)
(* One call of shutdown_mgr is a Tick that reads the sensors and decides,  *)
(* followed by one Do for each register write or datagram: other daemons   *)
(* run in between, and the FC may go off before its call is over.          *)
(***************************************************************************)
EXTENDS MasterFc, Sequences, FiniteSets

CONSTANTS
  Fc,            \* fabric cards, by the slot number of their CPU A
  Driven,        \* those whose sensor driver is present when the daemon starts
  Lc,            \* line cards
  Sensor,        \* thermal sensors
  RetryCount,    \* SD_MGR_IOERR_RETRY_COUNT, 2
  GiveUpRounds,  \* SD_MGR_IOERR_SHUTDOWN_THRESHOLD / SD_MGR_UPDATE_INTERVAL, 20
  NetCap         \* bound on the requests under way

ASSUME ThermalAssumption ==
  /\ Fc \subseteq {s \in 33..48 : s % 2 = 1}
  /\ Driven \subseteq Fc
  /\ Lc \subseteq 0..7
  /\ Sensor \subseteq 1..72
  /\ RetryCount \in Nat \ {0} /\ GiveUpRounds \in Nat /\ GiveUpRounds > RetryCount
  /\ NetCap \in Nat

VARIABLES
  lcOn, fcOn,    \* the cards that have power
  error,         \* t_error of each FC
  over,          \* the sensors whose last reading, t_temp, exceeds t_shutdown
  orders,        \* what is left to do of each FC's running call
  master,        \* local_Master of each FC
  net,           \* the power requests under way
  condemned,     \* history: the LCs an FC or the operator has decided to cut off
  tried          \* history: the LCs each FC has tried to cut off since its start

cards == <<lcOn, fcOn>>
manager == <<error, over, orders, master>>
vars == <<cards, manager, net, condemned, tried>>

-----------------------------------------------------------------------------
(* Wiring. *)

FcId(f) == ((f - 33) % 8) \div 2          \* card_slot_id, 0..3
Half(f) == IF FcId(f) <= 1 THEN 0 ELSE 1
Neighbour(f) == IF FcId(f) % 2 = 0 THEN f + 2 ELSE f - 2

(* The LC that hot swap line lc % 4 of this FC belongs to. *)
Wired(f, lc) == 4 * Half(f) + (lc % 4)

IsLcSensor(tid) == tid \in (1..24) \cup (37..60)
LcOf(tid) == IF tid <= 24 THEN (tid - 1) \div 6 ELSE (tid - 37) \div 6 + 4
FcOf(tid) == IF tid \in (25..30) \cup (61..66) THEN 0 ELSE 1

(* What reading a sensor yields: a temperature, an I/O error, or -ENXIO     *)
(* because its fan board is not plugged in.                                *)
Reading == {"cool", "hot", "fail", "absent"}

Order == [card : Lc \cup Fc, why : {"heat", "error"}]
Request == [to : Fc, lc : Lc, option : {"off", "on"}]
Nobody == [g \in 0..3 |-> 0]

TypeOK ==
  /\ lcOn \subseteq Lc /\ fcOn \subseteq Fc
  /\ error \in [Fc -> [Sensor -> 0..GiveUpRounds]]
  /\ over \in [Fc -> SUBSET Sensor]
  /\ orders \in [Fc -> Seq(Order)]
  /\ master \in [Fc -> [0..3 -> Fc \cup {0}]]
  /\ net \subseteq Request
  /\ condemned \subseteq Lc
  /\ tried \in [Fc -> SUBSET Lc]

-----------------------------------------------------------------------------
(* shutdown_mgr_get_thermal_status.  GiveUpRounds is where the count stops *)
(* to matter.                                                              *)
ErrorAfter(e, r) ==
  CASE r = "absent" -> e
    [] r = "fail"   -> IF e = GiveUpRounds THEN e ELSE e + 1
    [] OTHER        -> 0

(* A sensor that cannot be read keeps its last temperature and threshold.  *)
OverAfter(heat, reading) ==
  {i \in Sensor : reading[i] = "hot" \/ (i \in heat /\ reading[i] # "cool")}

(* lc_overheat and fc_overheat: the cards that own a sensor too hot. *)
HotLc(heat) == {LcOf(i) : i \in {j \in heat : IsLcSensor(j)}} \cap Lc
HotFc(f, heat) ==
  {g \in Fc : /\ Group(g) = Group(f)
              /\ \E i \in heat : ~ IsLcSensor(i) /\ FcOf(i) = FcId(g) % 2}

(* Switch card off if it is in S; the LCs of S in the order of their index. *)
OrderOf(card, S, why) == IF card \in S THEN << [card |-> card, why |-> why] >> ELSE << >>
LcOrders(S, why) ==
  OrderOf(0, S, why) \o OrderOf(1, S, why) \o OrderOf(2, S, why) \o OrderOf(3, S, why)
  \o OrderOf(4, S, why) \o OrderOf(5, S, why) \o OrderOf(6, S, why) \o OrderOf(7, S, why)

(* Mutant: the FC itself is switched off first. *)
HeatOrdersSelfFirst(f, hotLc, hotFc) ==
  OrderOf(f, hotFc, "heat") \o LcOrders(hotLc, "heat")
  \o OrderOf(Neighbour(f), hotFc, "heat")

(* shutdown_mgr_handle_shutdown: LCs, then the neighbour FC, then itself.  *)
HeatOrders(f, hotLc, hotFc) ==
  LcOrders(hotLc, "heat") \o OrderOf(Neighbour(f), hotFc, "heat")
  \o OrderOf(f, hotFc, "heat")

(* shutdown_mgr_handle_thermal_io_error: a sensor that has just failed     *)
(* RetryCount times costs all other cards their power, one that goes on    *)
(* failing in the end the FC itself.  The resets of the FC's MACs and its  *)
(* CPU B leave the power alone.                                            *)
ErrorOrders(f, errors) ==
  LET others == \E i \in Sensor : errors[i] = RetryCount
      itself == \E i \in Sensor : errors[i] > RetryCount /\ errors[i] >= GiveUpRounds
  IN (IF others THEN LcOrders(Lc, "error") \o OrderOf(Neighbour(f), Fc, "error")
                ELSE << >>)
     \o (IF itself THEN OrderOf(f, Fc, "error") ELSE << >>)

-----------------------------------------------------------------------------
(* What an FC can take for the masters; its own age never runs out. *)
View ==
  [f \in Fc |->
     {LocalMaster(members \cup {f}, root) : members \in SUBSET Fc, root \in Fc}]

(* epoll_loop_run_thermal_plan.  Which FCs this card has in its CTP table, *)
(* and which it takes for the root, is CTP's; every fifteenth tick of a    *)
(* master calls shutdown_mgr.                                              *)
Tick(f) ==
  /\ f \in fcOn /\ orders[f] = << >>
  /\ \E view \in View[f] : master' = [master EXCEPT ![f] = view]
  /\ UNCHANGED <<cards, error, over, orders, net, condemned, tried>>

Poll(f) ==
  /\ f \in Driven \cap fcOn /\ orders[f] = << >>
  /\ master[f][Group(f)] = f
  /\ \E reading \in [Sensor -> Reading] :
       LET heat   == OverAfter(over[f], reading)
           errors == [i \in Sensor |-> ErrorAfter(error[f][i], reading[i])]
           plan   == HeatOrders(f, HotLc(heat), HotFc(f, heat)) \o ErrorOrders(f, errors)
       IN /\ error' = [error EXCEPT ![f] = errors]
          /\ over' = [over EXCEPT ![f] = heat]
          /\ orders' = [orders EXCEPT ![f] = plan]
          /\ condemned' = condemned \cup (Lc \cap {plan[i].card : i \in DOMAIN plan})
  /\ UNCHANGED <<cards, master, net, tried>>

-----------------------------------------------------------------------------
(* Mutant: the master of the card's own group. *)
PeerHere(f) == IF master[f][Group(f)] # f THEN 0 ELSE f

(* tcp_server_do_shutdown_to_client: the request goes to the master of the *)
(* other half, if this card is a master and knows one.                     *)
Peer(f) ==
  IF master[f][Group(f)] # f THEN 0
  ELSE master[f][IF Group(f) % 2 = 0 THEN Group(f) + 1 ELSE Group(f) - 1]

Send(queue, f, lc, option) ==
  IF Peer(f) = 0 \/ Cardinality(queue) >= NetCap THEN queue
  ELSE queue \cup {[to |-> Peer(f), lc |-> lc, option |-> option]}

(* A register write may fail; nobody looks at the result. *)
WriteLc(lc, option) ==
  lcOn' \in {lcOn, IF option = "off" THEN lcOn \ {lc} ELSE lcOn \cup ({lc} \cap Lc)}

(* Mutant: the line of the same number in the wrong half. *)
SwitchLcHere(f, lc, option, queue) ==
  WriteLc(Wired(f, lc), option) /\ net' = queue

(* shutdown_mgr_shutdown_linecard, and the same choice in                  *)
(* udp_server_do_shutdown_mgr_shutdown_linecard_local: LCs 0..3 belong to  *)
(* FCs 0 and 1 of a chassis, LCs 4..7 to FCs 2 and 3.                      *)
SwitchLc(f, lc, option, queue) ==
  IF lc \div 4 = Half(f)
    THEN WriteLc(Wired(f, lc), option) /\ net' = queue
    ELSE net' = Send(queue, f, lc, option) /\ UNCHANGED lcOn

(* An FC without power forgets all, and what its socket holds. *)
PowerOff(g) ==
  /\ fcOn' = fcOn \ {g}
  /\ over' = [over EXCEPT ![g] = {}]
  /\ error' = [error EXCEPT ![g] = [i \in Sensor |-> 0]]
  /\ master' = [master EXCEPT ![g] = Nobody]
  /\ net' = {r \in net : r.to # g}
  /\ tried' = [tried EXCEPT ![g] = {}]

(* The next write or datagram of a running call. *)
DoLc(f) ==
  /\ f \in fcOn /\ orders[f] # << >> /\ Head(orders[f]).card \in Lc
  /\ SwitchLc(f, Head(orders[f]).card, "off", net)
  /\ orders' = [orders EXCEPT ![f] = Tail(@)]
  /\ tried' = [tried EXCEPT ![f] = @ \cup {Head(orders[f]).card}]
  /\ UNCHANGED <<fcOn, error, over, master, condemned>>

DoFc(f) ==
  /\ f \in fcOn /\ orders[f] # << >> /\ Head(orders[f]).card \in Fc
  /\ LET g == Head(orders[f]).card
     IN \/ /\ PowerOff(g)
           /\ orders' = [orders EXCEPT ![f] = Tail(@), ![g] = << >>]
        \/ /\ orders' = [orders EXCEPT ![f] = Tail(@)]
           /\ UNCHANGED <<fcOn, error, over, master, net, tried>>
  /\ UNCHANGED <<lcOn, condemned>>

(* upd_server_recev, CTP_REMOTESHUTDOWN_REQUEST. *)
Serve(f) ==
  /\ f \in fcOn /\ orders[f] = << >>
  /\ \E r \in net : r.to = f /\ SwitchLc(f, r.lc, r.option, net \ {r})
  /\ UNCHANGED <<fcOn, manager, condemned, tried>>

Lose ==
  /\ \E r \in net : net' = net \ {r}
  /\ UNCHANGED <<cards, manager, condemned, tried>>

(* An operator asks any FC to switch any LC (udp_client). *)
Command ==
  /\ Cardinality(net) < NetCap
  /\ \E r \in Request :
       /\ net' = net \cup {r}
       /\ condemned' = IF r.option = "off" THEN condemned \cup {r.lc} ELSE condemned
  /\ UNCHANGED <<cards, manager, tried>>

(* Somebody restores the power of an FC, whose daemon starts afresh. *)
Restore(f) ==
  /\ f \notin fcOn
  /\ fcOn' = fcOn \cup {f}
  /\ UNCHANGED <<lcOn, manager, net, condemned, tried>>

Init ==
  /\ lcOn = Lc /\ fcOn = Fc
  /\ error = [f \in Fc |-> [i \in Sensor |-> 0]]
  /\ over = [f \in Fc |-> {}]
  /\ orders = [f \in Fc |-> << >>]
  /\ master = [f \in Fc |-> Nobody]
  /\ net = {}
  /\ condemned = {}
  /\ tried = [f \in Fc |-> {}]

Next ==
  \/ \E f \in Fc : Tick(f) \/ Poll(f) \/ DoLc(f) \/ DoFc(f) \/ Serve(f) \/ Restore(f)
  \/ Lose \/ Command

Spec == Init /\ [][Next]_vars

-----------------------------------------------------------------------------
(* An LC without power is one that an FC found too hot, lost sight of, or  *)
(* an operator named: no routing of requests between the halves, and no    *)
(* renumbering of cards and hot swap lines on the way, hits another card.  *)
CutOffForAReason == Lc \ lcOn \subseteq condemned

(* An FC switches itself off last.  If it is hot, it has first tried every *)
(* LC it found hot; if it gives up on its fan board, it has tried every LC *)
(* in an earlier call, before the sensor had failed GiveUpRounds times.    *)
ItselfLast ==
  [][\A f \in fcOn \ fcOn' :
       DoFc(f) => (IF Head(orders[f]).why = "heat" THEN HotLc(over[f]) ELSE Lc) \subseteq tried[f]]_vars

(* A request is forwarded once: an FC sends it only to an FC whose hot swap *)
(* lines reach the card, however the two halves see their masters.         *)
ForwardedOnce ==
  [][\A r \in net' \ net :
       (\E f \in Fc : DoLc(f) \/ Serve(f)) => Half(r.to) = r.lc \div 4]_vars

(* shutdown_mgr.c:678, "number of consecutive io error of the thermal": a  *)
(* reading that is not an I/O error ends the count.                        *)
ConsecutiveErrors ==
  [][\A f \in Fc : Poll(f) =>
       \A i \in Sensor : error'[f][i] \in {0, error[f][i] + 1, GiveUpRounds}]_vars
=============================================================================
