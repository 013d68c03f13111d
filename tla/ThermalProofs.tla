---------------------------- MODULE ThermalProofs ----------------------------
(***************************************************************************)
(* Proofs about Thermal.tla, for every chassis, every set of sensors and   *)
(* every pattern of readings, failed writes and lost requests: the types,  *)
(* that no card loses its power without a reason, that a request is        *)
(* forwarded once, and that an FC switches itself off last.                *)
(***************************************************************************)
EXTENDS Thermal, TLAPS, WellFoundedInduction

-----------------------------------------------------------------------------
(* Numbers of cards. *)

LEMMA FcFacts ==
  ASSUME NEW f \in Fc
  PROVE /\ f \in 33..48 /\ f % 2 = 1 /\ f # 0
        /\ FcId(f) \in 0..3 /\ Group(f) \in 0..3 /\ Half(f) \in {0, 1}
        /\ Half(f) = Group(f) % 2
<1>1. f \in 33..48 /\ f % 2 = 1
  BY ThermalAssumption
<1>2. FcId(f) \in 0..3 /\ Group(f) \in 0..3 /\ Half(f) \in {0, 1}
  BY <1>1 DEF FcId, Group, Half
<1>3. Half(f) = Group(f) % 2
  BY <1>1 DEF FcId, Group, Half
<1> QED
  BY <1>1, <1>2, <1>3

LEMMA LcFacts ==
  ASSUME NEW lc \in Lc PROVE lc \in 0..7 /\ lc \div 4 \in {0, 1} /\ lc \notin Fc
  BY ThermalAssumption

(* A hot swap line of the half an LC sits in belongs to that LC. *)
LEMMA WiredFacts ==
  ASSUME NEW f \in Fc, NEW lc \in Lc, lc \div 4 = Half(f) PROVE Wired(f, lc) = lc
  BY FcFacts, LcFacts DEF Wired

LEMMA LowestNatural ==
  ASSUME NEW T \in SUBSET Nat, T # {} PROVE \E x \in T : \A y \in T : x <= y
<1> DEFINE R == OpToRel(<, Nat)
<1>1. \A x, y \in Nat : <<x, y>> \in R <=> x < y
  BY DEF OpToRel
<1>2. IsWellFoundedOn(R, Nat)
  BY NatLessThanWellFounded
<1> HIDE DEF R
<1>3. PICK x \in T : \A y \in T : ~ (<<y, x>> \in R)
  BY <1>2, WFMin
<1>4. ASSUME NEW y \in T PROVE x <= y
  <2>1. x \in Nat /\ y \in Nat
    OBVIOUS
  <2>2. ~ (y < x)
    BY <1>1, <1>3, <2>1
  <2> QED BY <2>1, <2>2
<1> QED
  BY <1>4

(* Whatever an FC has in its member table, it takes for the master of a    *)
(* group only a card of that group.                                        *)
Views == {v \in [0..3 -> Fc \cup {0}] : \A g \in 0..3 : v[g] # 0 => Group(v[g]) = g}

LEMMA LocalMasterIsView ==
  ASSUME NEW members \in SUBSET Fc, NEW root PROVE LocalMaster(members, root) \in Views
<1> DEFINE group(g) == {m \in members : Group(m) = g}
           elected(g) == CASE group(g) = {} -> 0
                           [] root \in group(g) -> root
                           [] OTHER -> CHOOSE m \in group(g) : \A n \in group(g) : m <= n
<1>1. ASSUME NEW g \in 0..3
      PROVE elected(g) \in Fc \cup {0} /\ (elected(g) # 0 => Group(elected(g)) = g)
  <2>1. CASE group(g) = {}
    BY <2>1
  <2>2. CASE root \in group(g)
    <3>1. elected(g) = root
      BY <2>2
    <3> QED BY <2>2, <3>1
  <2>3. CASE group(g) # {} /\ root \notin group(g)
    <3>1. group(g) \in SUBSET Nat
      BY FcFacts
    <3>2. \E m \in group(g) : \A n \in group(g) : m <= n
      BY <2>3, <3>1, LowestNatural
    <3>3. elected(g) \in group(g)
      BY <2>3, <3>2
    <3> QED BY <3>3
  <2> QED BY <2>1, <2>2, <2>3
<1>2. LocalMaster(members, root) = [g \in 0..3 |-> elected(g)]
  BY DEF LocalMaster
<1> HIDE DEF elected
<1> QED
  BY <1>1, <1>2 DEF Views

LEMMA ViewIsView ==
  ASSUME NEW f \in Fc, NEW v \in View[f] PROVE v \in Views
<1>1. PICK members \in SUBSET Fc, root \in Fc : v = LocalMaster(members \cup {f}, root)
  BY DEF View
<1> QED
  BY <1>1, LocalMasterIsView

LEMMA NobodyIsView == Nobody \in Views
  BY DEF Nobody, Views

-----------------------------------------------------------------------------
(* The orders of a call. *)

LEMMA OrderOfType ==
  ASSUME NEW card, NEW S \in SUBSET (Lc \cup Fc), NEW why \in {"heat", "error"}
  PROVE OrderOf(card, S, why) \in Seq(Order)
<1>1. CASE card \in S
  <2> DEFINE o == [card |-> card, why |-> why]
  <2>1. o \in Order
    BY <1>1 DEF Order
  <2> HIDE DEF o
  <2>2. << o >> \in Seq(Order)
    BY <2>1
  <2> QED BY <1>1, <2>2 DEF OrderOf, o
<1>2. CASE card \notin S
  BY <1>2 DEF OrderOf
<1> QED
  BY <1>1, <1>2

LEMMA ConcatType ==
  ASSUME NEW p \in Seq(Order), NEW q \in Seq(Order) PROVE p \o q \in Seq(Order)
  OBVIOUS

LEMMA LcOrdersType ==
  ASSUME NEW S \in SUBSET Lc, NEW why \in {"heat", "error"}
  PROVE LcOrders(S, why) \in Seq(Order)
<1>1. \A card : OrderOf(card, S, why) \in Seq(Order)
  BY OrderOfType
<1>2. OrderOf(0, S, why) \o OrderOf(1, S, why) \o OrderOf(2, S, why) \o OrderOf(3, S, why)
      \in Seq(Order)
  BY <1>1, ConcatType
<1> QED
  BY <1>1, <1>2, ConcatType DEF LcOrders

LEMMA HeatOrdersType ==
  ASSUME NEW f \in Fc, NEW hotLc \in SUBSET Lc, NEW hotFc \in SUBSET Fc
  PROVE HeatOrders(f, hotLc, hotFc) \in Seq(Order)
<1>1. LcOrders(hotLc, "heat") \in Seq(Order)
  BY LcOrdersType
<1>2. OrderOf(Neighbour(f), hotFc, "heat") \in Seq(Order)
      /\ OrderOf(f, hotFc, "heat") \in Seq(Order)
  BY OrderOfType
<1> QED
  BY <1>1, <1>2, ConcatType DEF HeatOrders

LEMMA ErrorOrdersType ==
  ASSUME NEW f \in Fc, NEW errors PROVE ErrorOrders(f, errors) \in Seq(Order)
<1>1. LcOrders(Lc, "error") \in Seq(Order)
  BY LcOrdersType
<1>2. OrderOf(Neighbour(f), Fc, "error") \in Seq(Order)
      /\ OrderOf(f, Fc, "error") \in Seq(Order) /\ << >> \in Seq(Order)
  BY OrderOfType
<1>3. LcOrders(Lc, "error") \o OrderOf(Neighbour(f), Fc, "error") \in Seq(Order)
  BY <1>1, <1>2, ConcatType
<1> QED
  BY <1>2, <1>3, ConcatType DEF ErrorOrders

LEMMA TailType ==
  ASSUME NEW q \in Seq(Order), q # << >>
  PROVE /\ Head(q) \in Order /\ Tail(q) \in Seq(Order)
        /\ \A i \in DOMAIN Tail(q) : \E j \in DOMAIN q : Tail(q)[i] = q[j]
        /\ \E j \in DOMAIN q : Head(q) = q[j]
  OBVIOUS

LEMMA OrderCards ==
  ASSUME NEW o \in Order PROVE o.card \in Lc \cup Fc
  BY DEF Order

-----------------------------------------------------------------------------
(* Requests. *)

LEMMA SendType ==
  ASSUME NEW f \in Fc, NEW v \in Views, master[f] = v, NEW queue \in SUBSET Request,
         NEW lc \in Lc, NEW option \in {"off", "on"}
  PROVE Send(queue, f, lc, option) \in SUBSET Request
<1>1. Group(f) \in 0..3
  BY FcFacts
<1>2. Peer(f) \in Fc \cup {0}
  BY <1>1 DEF Peer, Views
<1> QED
  BY <1>2 DEF Send, Request

(* The master of the other half reaches every card this FC does not. *)
LEMMA PeerReaches ==
  ASSUME NEW f \in Fc, master[f] \in Views, Peer(f) # 0, NEW lc \in Lc, lc \div 4 # Half(f)
  PROVE Peer(f) \in Fc /\ Half(Peer(f)) = lc \div 4
<1> DEFINE g == IF Group(f) % 2 = 0 THEN Group(f) + 1 ELSE Group(f) - 1
<1>1. Group(f) \in 0..3 /\ g \in 0..3 /\ g % 2 # Group(f) % 2
  BY FcFacts
<1>2. Peer(f) = master[f][g]
  BY DEF Peer
<1>3. Peer(f) \in Fc /\ Group(Peer(f)) = g
  BY <1>1, <1>2 DEF Views
<1>4. Half(Peer(f)) = g % 2 /\ Half(f) = Group(f) % 2
  BY <1>3, FcFacts
<1>5. lc \div 4 \in {0, 1} /\ Half(f) \in {0, 1} /\ Half(Peer(f)) \in {0, 1}
  BY <1>3, LcFacts, FcFacts
<1> QED
  BY <1>1, <1>3, <1>4, <1>5

-----------------------------------------------------------------------------
(* The inductive invariant: masters are cards of their group, and every    *)
(* step on the way to a card's power, an order or a request under way,     *)
(* concerns a card already condemned.                                      *)
MastersInGroup == \A f \in Fc : master[f] \in Views

OrdersCondemned ==
  \A f \in Fc : \A i \in DOMAIN orders[f] : orders[f][i].card \in Lc => orders[f][i].card \in condemned

RequestsCondemned == \A r \in net : r.option = "off" => r.lc \in condemned

ThermalInv ==
  TypeOK /\ MastersInGroup /\ OrdersCondemned /\ RequestsCondemned /\ CutOffForAReason

(* Switching an LC off, by a write or by a request for one. *)
LEMMA SwitchLcSafe ==
  ASSUME ThermalInv, NEW f \in Fc, NEW lc \in Lc, NEW option \in {"off", "on"},
         NEW queue \in SUBSET net, SwitchLc(f, lc, option, queue),
         option = "off" => lc \in condemned
  PROVE /\ lcOn' \subseteq Lc /\ Lc \ lcOn' \subseteq condemned
        /\ net' \subseteq Request
        /\ \A r \in net' : r.option = "off" => r.lc \in condemned
<1>1. /\ lcOn \subseteq Lc /\ Lc \ lcOn \subseteq condemned /\ net \subseteq Request
      /\ master[f] \in Views /\ RequestsCondemned
  BY DEF ThermalInv, TypeOK, CutOffForAReason, MastersInGroup
<1>2. CASE lc \div 4 = Half(f)
  <2>1. WriteLc(Wired(f, lc), option) /\ net' = queue
    BY <1>2 DEF SwitchLc
  <2>2. WriteLc(lc, option)
    BY <1>2, <2>1, WiredFacts
  <2>3. lcOn' \subseteq Lc /\ Lc \ lcOn' \subseteq condemned
    BY <1>1, <2>2 DEF WriteLc
  <2> QED BY <1>1, <2>1, <2>3 DEF RequestsCondemned
<1>3. CASE lc \div 4 # Half(f)
  <2>1. net' = Send(queue, f, lc, option) /\ lcOn' = lcOn
    BY <1>3 DEF SwitchLc
  <2>2. net' \subseteq Request
    BY <1>1, <2>1, SendType
  <2>3. \A r \in net' : r \in net \/ (r.lc = lc /\ r.option = option)
    BY <2>1 DEF Send
  <2> QED BY <1>1, <2>1, <2>2, <2>3 DEF RequestsCondemned
<1> QED
  BY <1>2, <1>3

LEMMA PollTypes ==
  ASSUME NEW reading \in [Sensor -> Reading], NEW e \in [Sensor -> 0..GiveUpRounds],
         NEW heat \in SUBSET Sensor, NEW f \in Fc
  PROVE /\ [i \in Sensor |-> ErrorAfter(e[i], reading[i])] \in [Sensor -> 0..GiveUpRounds]
        /\ OverAfter(heat, reading) \in SUBSET Sensor
        /\ HotLc(heat) \in SUBSET Lc /\ HotFc(f, heat) \in SUBSET Fc
<1>1. GiveUpRounds \in Nat
  BY ThermalAssumption
<1>2. ASSUME NEW i \in Sensor PROVE ErrorAfter(e[i], reading[i]) \in 0..GiveUpRounds
  <2>1. e[i] \in 0..GiveUpRounds /\ reading[i] \in Reading
    OBVIOUS
  <2> QED BY <1>1, <2>1 DEF ErrorAfter, Reading
<1>3. OverAfter(heat, reading) \in SUBSET Sensor /\ HotLc(heat) \in SUBSET Lc
      /\ HotFc(f, heat) \in SUBSET Fc
  BY DEF OverAfter, HotLc, HotFc
<1> QED
  BY <1>2, <1>3

LEMMA ThermalInit == Init => ThermalInv
<1> SUFFICES ASSUME Init PROVE ThermalInv
  OBVIOUS
<1>1. GiveUpRounds \in Nat
  BY ThermalAssumption
<1>2. Nobody \in [0..3 -> Fc \cup {0}] /\ Nobody \in Views
  BY NobodyIsView DEF Nobody
<1>3. << >> \in Seq(Order) /\ DOMAIN << >> = {}
  OBVIOUS
<1>4. TypeOK
  BY <1>1, <1>2, <1>3 DEF Init, TypeOK
<1>5. MastersInGroup /\ OrdersCondemned /\ RequestsCondemned /\ CutOffForAReason
  BY <1>2, <1>3 DEF Init, MastersInGroup, OrdersCondemned, RequestsCondemned, CutOffForAReason
<1> QED
  BY <1>4, <1>5 DEF ThermalInv

LEMMA TickSafe ==
  ASSUME ThermalInv, NEW f \in Fc, Tick(f) PROVE ThermalInv'
<1>1. PICK view \in View[f] : master' = [master EXCEPT ![f] = view]
  BY DEF Tick
<1>2. view \in Views /\ view \in [0..3 -> Fc \cup {0}]
  BY ViewIsView DEF Views
<1>3. TypeOK'
  BY <1>1, <1>2 DEF ThermalInv, TypeOK, Tick, cards
<1>4. MastersInGroup'
  BY <1>1, <1>2 DEF ThermalInv, TypeOK, MastersInGroup
<1>5. (OrdersCondemned /\ RequestsCondemned /\ CutOffForAReason)'
  BY DEF ThermalInv, OrdersCondemned, RequestsCondemned, CutOffForAReason, Tick, cards
<1> QED
  BY <1>3, <1>4, <1>5 DEF ThermalInv

LEMMA PollSafe ==
  ASSUME ThermalInv, NEW f \in Fc, Poll(f) PROVE ThermalInv'
<1>1. PICK reading \in [Sensor -> Reading] :
        LET heat   == OverAfter(over[f], reading)
            errors == [i \in Sensor |-> ErrorAfter(error[f][i], reading[i])]
            plan   == HeatOrders(f, HotLc(heat), HotFc(f, heat)) \o ErrorOrders(f, errors)
        IN /\ error' = [error EXCEPT ![f] = errors]
           /\ over' = [over EXCEPT ![f] = heat]
           /\ orders' = [orders EXCEPT ![f] = plan]
           /\ condemned' = condemned \cup (Lc \cap {plan[i].card : i \in DOMAIN plan})
  BY DEF Poll
<1> DEFINE heat   == OverAfter(over[f], reading)
           errors == [i \in Sensor |-> ErrorAfter(error[f][i], reading[i])]
           plan   == HeatOrders(f, HotLc(heat), HotFc(f, heat)) \o ErrorOrders(f, errors)
<1>2. /\ error' = [error EXCEPT ![f] = errors] /\ over' = [over EXCEPT ![f] = heat]
      /\ orders' = [orders EXCEPT ![f] = plan]
      /\ condemned' = condemned \cup (Lc \cap {plan[i].card : i \in DOMAIN plan})
      /\ UNCHANGED <<lcOn, fcOn, master, net, tried>>
  BY <1>1 DEF Poll, cards
<1>3. error[f] \in [Sensor -> 0..GiveUpRounds] /\ over[f] \in SUBSET Sensor
  BY DEF ThermalInv, TypeOK
<1>4. errors \in [Sensor -> 0..GiveUpRounds] /\ heat \in SUBSET Sensor
  BY <1>3, PollTypes
<1> HIDE DEF heat, errors
<1>5. HeatOrders(f, HotLc(heat), HotFc(f, heat)) \in Seq(Order)
      /\ ErrorOrders(f, errors) \in Seq(Order)
  BY <1>3, <1>4, PollTypes, HeatOrdersType, ErrorOrdersType DEF HotLc, HotFc
<1>6. plan \in Seq(Order)
  BY <1>5, ConcatType
<1> HIDE DEF plan
<1>7. TypeOK'
  BY <1>2, <1>4, <1>6 DEF ThermalInv, TypeOK
<1>8. OrdersCondemned'
  <2> SUFFICES ASSUME NEW g \in Fc, NEW i \in DOMAIN orders'[g], orders'[g][i].card \in Lc
               PROVE orders'[g][i].card \in condemned'
    BY DEF OrdersCondemned
  <2>1. CASE g = f
    <3>1. orders'[g] = plan
      BY <1>2, <2>1 DEF ThermalInv, TypeOK
    <3> QED BY <1>2, <3>1
  <2>2. CASE g # f
    <3>1. orders'[g] = orders[g]
      BY <1>2, <2>2 DEF ThermalInv, TypeOK
    <3> QED BY <1>2, <3>1 DEF ThermalInv, OrdersCondemned
  <2> QED BY <2>1, <2>2
<1>9. (MastersInGroup /\ RequestsCondemned /\ CutOffForAReason)'
  BY <1>2 DEF ThermalInv, MastersInGroup, RequestsCondemned, CutOffForAReason
<1> QED
  BY <1>7, <1>8, <1>9 DEF ThermalInv

(* The orders that are left concern no new card. *)
LEMMA LessOrders ==
  ASSUME ThermalInv, condemned' = condemned,
         \A f \in Fc : \A i \in DOMAIN orders'[f] : \E j \in DOMAIN orders[f] :
           orders'[f][i] = orders[f][j]
  PROVE OrdersCondemned'
<1> SUFFICES ASSUME NEW f \in Fc, NEW i \in DOMAIN orders'[f], orders'[f][i].card \in Lc
             PROVE orders'[f][i].card \in condemned
  BY DEF OrdersCondemned
<1> QED
  BY DEF ThermalInv, OrdersCondemned

LEMMA DoLcSafe ==
  ASSUME ThermalInv, NEW f \in Fc, DoLc(f) PROVE ThermalInv'
<1> DEFINE lc == Head(orders[f]).card
<1>1. orders[f] \in Seq(Order) /\ orders[f] # << >> /\ lc \in Lc
  BY DEF ThermalInv, TypeOK, DoLc
<1>2. /\ orders' = [orders EXCEPT ![f] = Tail(orders[f])]
      /\ SwitchLc(f, lc, "off", net) /\ tried' = [tried EXCEPT ![f] = @ \cup {lc}]
      /\ UNCHANGED <<fcOn, error, over, master, condemned>>
  BY DEF DoLc
<1>3. lc \in condemned
  BY <1>1, TailType DEF ThermalInv, OrdersCondemned
<1> HIDE DEF lc
<1>4. /\ lcOn' \subseteq Lc /\ Lc \ lcOn' \subseteq condemned /\ net' \subseteq Request
      /\ \A r \in net' : r.option = "off" => r.lc \in condemned
  BY <1>1, <1>2, <1>3, SwitchLcSafe
<1>5. TypeOK'
  BY <1>1, <1>2, <1>4, TailType DEF ThermalInv, TypeOK
<1>6. OrdersCondemned'
  <2>1. \A g \in Fc : orders'[g] = IF g = f THEN Tail(orders[f]) ELSE orders[g]
    BY <1>2 DEF ThermalInv, TypeOK
  <2>2. \A g \in Fc : \A i \in DOMAIN orders'[g] : \E j \in DOMAIN orders[g] :
          orders'[g][i] = orders[g][j]
    <3> SUFFICES ASSUME NEW g \in Fc, NEW i \in DOMAIN orders'[g]
                 PROVE \E j \in DOMAIN orders[g] : orders'[g][i] = orders[g][j]
      OBVIOUS
    <3>1. CASE g = f
      <4>1. orders'[g] = Tail(orders[f]) /\ orders[g] = orders[f]
        BY <2>1, <3>1
      <4> QED BY <1>1, <4>1, TailType
    <3>2. CASE g # f
      BY <2>1, <3>2
    <3> QED BY <3>1, <3>2
  <2> QED BY <1>2, <2>2, LessOrders
<1>7. (MastersInGroup /\ RequestsCondemned /\ CutOffForAReason)'
  BY <1>2, <1>4 DEF ThermalInv, MastersInGroup, RequestsCondemned, CutOffForAReason
<1> QED
  BY <1>5, <1>6, <1>7 DEF ThermalInv

LEMMA DoFcSafe ==
  ASSUME ThermalInv, NEW f \in Fc, DoFc(f) PROVE ThermalInv'
<1> DEFINE g == Head(orders[f]).card
<1>1. orders[f] \in Seq(Order) /\ orders[f] # << >> /\ g \in Fc
  BY DEF ThermalInv, TypeOK, DoFc
<1>2. UNCHANGED <<lcOn, condemned>>
  BY DEF DoFc
<1>3. \/ PowerOff(g) /\ orders' = [orders EXCEPT ![f] = Tail(orders[f]), ![g] = << >>]
      \/ /\ orders' = [orders EXCEPT ![f] = Tail(orders[f])]
         /\ UNCHANGED <<fcOn, error, over, master, net, tried>>
  BY DEF DoFc
<1> HIDE DEF g
<1>4. \A h \in Fc : orders'[h] \in {orders[h], << >>} \cup (IF h = f THEN {Tail(orders[f])} ELSE {})
  BY <1>1, <1>3 DEF ThermalInv, TypeOK
<1>5. orders' \in [Fc -> Seq(Order)]
  <2>1. DOMAIN orders' = Fc /\ orders' = [h \in Fc |-> orders'[h]]
    BY <1>3 DEF ThermalInv, TypeOK
  <2>2. ASSUME NEW h \in Fc PROVE orders'[h] \in Seq(Order)
    <3>1. orders[h] \in Seq(Order) /\ << >> \in Seq(Order) /\ Tail(orders[f]) \in Seq(Order)
      BY <1>1, TailType DEF ThermalInv, TypeOK
    <3> QED BY <1>4, <3>1
  <2> QED BY <2>1, <2>2
<1>6. OrdersCondemned'
  <2>1. \A h \in Fc : \A i \in DOMAIN orders'[h] : \E j \in DOMAIN orders[h] :
          orders'[h][i] = orders[h][j]
    <3> SUFFICES ASSUME NEW h \in Fc, NEW i \in DOMAIN orders'[h]
                 PROVE \E j \in DOMAIN orders[h] : orders'[h][i] = orders[h][j]
      OBVIOUS
    <3>1. CASE orders'[h] = orders[h]
      BY <3>1
    <3>2. CASE orders'[h] = << >>
      BY <3>2
    <3>3. CASE h = f /\ orders'[h] = Tail(orders[f])
      BY <1>1, <3>3, TailType
    <3> QED BY <1>4, <3>1, <3>2, <3>3
  <2> QED BY <1>2, <2>1, LessOrders
<1>7. [i \in Sensor |-> 0] \in [Sensor -> 0..GiveUpRounds] /\ Nobody \in Views
      /\ Nobody \in [0..3 -> Fc \cup {0}]
  BY ThermalAssumption, NobodyIsView DEF Views
<1>8. /\ fcOn' \subseteq Fc /\ error' \in [Fc -> [Sensor -> 0..GiveUpRounds]]
      /\ over' \in [Fc -> SUBSET Sensor] /\ master' \in [Fc -> [0..3 -> Fc \cup {0}]]
      /\ net' \subseteq net /\ tried' \in [Fc -> SUBSET Lc]
      /\ \A h \in Fc : master'[h] \in Views
  <2>1. CASE PowerOff(g)
    <3>1. /\ fcOn' = fcOn \ {g} /\ over' = [over EXCEPT ![g] = {}]
          /\ error' = [error EXCEPT ![g] = [i \in Sensor |-> 0]]
          /\ master' = [master EXCEPT ![g] = Nobody]
          /\ net' = {r \in net : r.to # g} /\ tried' = [tried EXCEPT ![g] = {}]
      BY <2>1 DEF PowerOff
    <3>2. fcOn' \subseteq Fc /\ net' \subseteq net
      BY <3>1 DEF ThermalInv, TypeOK
    <3>3. error' \in [Fc -> [Sensor -> 0..GiveUpRounds]]
      BY <1>7, <3>1 DEF ThermalInv, TypeOK
    <3>4. over' \in [Fc -> SUBSET Sensor] /\ tried' \in [Fc -> SUBSET Lc]
      BY <3>1 DEF ThermalInv, TypeOK
    <3>5. master' \in [Fc -> [0..3 -> Fc \cup {0}]]
      BY <1>7, <3>1 DEF ThermalInv, TypeOK
    <3>6. \A h \in Fc : master'[h] \in Views
      BY <1>7, <3>1 DEF ThermalInv, TypeOK, MastersInGroup
    <3> QED BY <3>2, <3>3, <3>4, <3>5, <3>6
  <2>2. CASE UNCHANGED <<fcOn, error, over, master, net, tried>>
    BY <2>2 DEF ThermalInv, TypeOK, MastersInGroup
  <2> QED BY <1>3, <2>1, <2>2
<1>9. TypeOK'
  BY <1>2, <1>5, <1>8 DEF ThermalInv, TypeOK
<1>10. (MastersInGroup /\ RequestsCondemned /\ CutOffForAReason)'
  BY <1>2, <1>8 DEF ThermalInv, MastersInGroup, RequestsCondemned, CutOffForAReason
<1> QED
  BY <1>6, <1>9, <1>10 DEF ThermalInv

LEMMA ServeSafe ==
  ASSUME ThermalInv, NEW f \in Fc, Serve(f) PROVE ThermalInv'
<1>1. PICK r \in net : SwitchLc(f, r.lc, r.option, net \ {r})
  BY DEF Serve
<1>2. r.lc \in Lc /\ r.option \in {"off", "on"} /\ (r.option = "off" => r.lc \in condemned)
  BY DEF ThermalInv, TypeOK, Request, RequestsCondemned
<1>3. /\ lcOn' \subseteq Lc /\ Lc \ lcOn' \subseteq condemned /\ net' \subseteq Request
      /\ \A q \in net' : q.option = "off" => q.lc \in condemned
  BY <1>1, <1>2, SwitchLcSafe
<1>4. UNCHANGED <<fcOn, manager, condemned, tried>>
  BY DEF Serve
<1>5. TypeOK'
  BY <1>3, <1>4 DEF ThermalInv, TypeOK, manager
<1>6. (MastersInGroup /\ OrdersCondemned /\ RequestsCondemned /\ CutOffForAReason)'
  BY <1>3, <1>4 DEF ThermalInv, manager, MastersInGroup, OrdersCondemned, RequestsCondemned,
                    CutOffForAReason
<1> QED
  BY <1>5, <1>6 DEF ThermalInv

LEMMA CommandSafe ==
  ASSUME ThermalInv, Command PROVE ThermalInv'
<1>1. PICK r \in Request :
        /\ net' = net \cup {r}
        /\ condemned' = IF r.option = "off" THEN condemned \cup {r.lc} ELSE condemned
  BY DEF Command
<1>2. r.lc \in Lc /\ UNCHANGED <<cards, manager, tried>>
  BY DEF Command, Request
<1>3. TypeOK'
  BY <1>1, <1>2 DEF ThermalInv, TypeOK, cards, manager
<1>4. (MastersInGroup /\ OrdersCondemned /\ RequestsCondemned /\ CutOffForAReason)'
  BY <1>1, <1>2 DEF ThermalInv, cards, manager, MastersInGroup, OrdersCondemned,
                    RequestsCondemned, CutOffForAReason
<1> QED
  BY <1>3, <1>4 DEF ThermalInv

(* Every reachable state satisfies the inductive invariant. *)
THEOREM ThermalInvariant == Spec => []ThermalInv
<1>1. Init => ThermalInv
  BY ThermalInit
<1>2. ThermalInv /\ [Next]_vars => ThermalInv'
  <2> SUFFICES ASSUME ThermalInv, [Next]_vars PROVE ThermalInv'
    OBVIOUS
  <2>1. ASSUME NEW f \in Fc, Restore(f) PROVE ThermalInv'
    BY <2>1 DEF Restore, ThermalInv, TypeOK, manager, MastersInGroup, OrdersCondemned,
                RequestsCondemned, CutOffForAReason
  <2>2. CASE Lose
    BY <2>2 DEF Lose, ThermalInv, TypeOK, cards, manager, MastersInGroup, OrdersCondemned,
                RequestsCondemned, CutOffForAReason
  <2>3. CASE UNCHANGED vars
    BY <2>3 DEF vars, ThermalInv, TypeOK, cards, manager, MastersInGroup, OrdersCondemned,
                RequestsCondemned, CutOffForAReason
  <2> QED
    BY <2>1, <2>2, <2>3, TickSafe, PollSafe, DoLcSafe, DoFcSafe, ServeSafe, CommandSafe
    DEF Next
<1> QED
  BY <1>1, <1>2, PTL DEF Spec

(* Every state is of its types; in particular every entry of every FC's    *)
(* table of masters is a fabric card or empty.                             *)
THEOREM ThermalTyping == Spec => []TypeOK
  BY ThermalInvariant, PTL DEF ThermalInv

(* A line card without power was too hot, out of sight, or named by an     *)
(* operator.                                                               *)
THEOREM CutOffForAReasonAlways == Spec => []CutOffForAReason
  BY ThermalInvariant, PTL DEF ThermalInv

(* A request is forwarded only to an FC that reaches the card. *)
THEOREM ForwardedOnceAlways == Spec => ForwardedOnce
<1> DEFINE Once == \A r \in net' \ net :
                     (\E f \in Fc : DoLc(f) \/ Serve(f)) => Half(r.to) = r.lc \div 4
<1>1. ThermalInv /\ [Next]_vars => [Once]_vars
  <2> SUFFICES ASSUME ThermalInv, NEW r \in net' \ net, NEW f \in Fc, DoLc(f) \/ Serve(f)
               PROVE Half(r.to) = r.lc \div 4
    OBVIOUS
  <2>1. master[f] \in Views
    BY DEF ThermalInv, MastersInGroup
  <2>2. PICK lc \in Lc, option \in {"off", "on"}, queue \in SUBSET net :
          SwitchLc(f, lc, option, queue)
    <3>1. CASE DoLc(f)
      BY <3>1 DEF DoLc
    <3>2. CASE Serve(f)
      <4>1. PICK q \in net : SwitchLc(f, q.lc, q.option, net \ {q})
        BY <3>2 DEF Serve
      <4>2. q.lc \in Lc /\ q.option \in {"off", "on"}
        BY DEF ThermalInv, TypeOK, Request
      <4> QED BY <4>1, <4>2
    <3> QED BY <3>1, <3>2
  <2>3. lc \div 4 # Half(f) /\ net' = Send(queue, f, lc, option)
    BY <2>2 DEF SwitchLc
  <2>4. Peer(f) # 0 /\ r = [to |-> Peer(f), lc |-> lc, option |-> option]
    BY <2>3 DEF Send
  <2> QED BY <2>1, <2>3, <2>4, PeerReaches
<1> QED
  BY <1>1, ThermalInvariant, PTL DEF Spec, ForwardedOnce

-----------------------------------------------------------------------------
(* The order of a call. *)

Cards(q) == {q[i].card : i \in DOMAIN q}

(* When the turn of f comes in q, the LCs it is to have tried by then are  *)
(* in tried or come earlier in q.                                          *)
TurnLast(f, q, done, hot) ==
  \A i \in DOMAIN q : q[i].card = f =>
    (IF q[i].why = "heat" THEN hot ELSE Lc) \subseteq done \cup {q[j].card : j \in 1 .. (i - 1)}

(* Besides, an FC that has failed to read a sensor often enough to cut off *)
(* the others has tried all LCs, or is about to: it may count on, towards  *)
(* the point at which it gives up on itself, with no such call to come.    *)
LastInv ==
  \A f \in Fc :
    /\ TurnLast(f, orders[f], tried[f], HotLc(over[f]))
    /\ \A i \in Sensor : error[f][i] >= RetryCount => Lc \subseteq tried[f] \cup Cards(orders[f])

LEMMA ConcatCards ==
  ASSUME NEW p \in Seq(Order), NEW q \in Seq(Order)
  PROVE Cards(p \o q) = Cards(p) \cup Cards(q)
<1>1. ASSUME NEW c \in Cards(p \o q) PROVE c \in Cards(p) \cup Cards(q)
  <2>1. PICK i \in 1 .. (Len(p) + Len(q)) : c = (p \o q)[i].card
    BY DEF Cards
  <2>2. CASE i <= Len(p)
    BY <2>1, <2>2 DEF Cards
  <2>3. CASE i > Len(p)
    <3>1. i - Len(p) \in DOMAIN q /\ (p \o q)[i] = q[i - Len(p)]
      BY <2>3
    <3> QED BY <2>1, <3>1 DEF Cards
  <2> QED BY <2>2, <2>3
<1>2. ASSUME NEW i \in DOMAIN p PROVE p[i].card \in Cards(p \o q)
  <2>1. i \in DOMAIN (p \o q) /\ (p \o q)[i] = p[i]
    OBVIOUS
  <2> QED BY <2>1 DEF Cards
<1>3. ASSUME NEW i \in DOMAIN q PROVE q[i].card \in Cards(p \o q)
  <2>1. Len(p) + i \in DOMAIN (p \o q) /\ (p \o q)[Len(p) + i] = q[i]
    OBVIOUS
  <2> QED BY <2>1 DEF Cards
<1> QED
  BY <1>1, <1>2, <1>3 DEF Cards

LEMMA ConcatTurnLast ==
  ASSUME NEW f, NEW p \in Seq(Order), NEW q \in Seq(Order), NEW done, NEW hot,
         TurnLast(f, p, done, hot), TurnLast(f, q, done \cup Cards(p), hot)
  PROVE TurnLast(f, p \o q, done, hot)
<1> DEFINE r == p \o q
<1>1. /\ DOMAIN r = 1 .. (Len(p) + Len(q))
      /\ \A i \in DOMAIN p : i \in 1 .. Len(p) /\ r[i] = p[i]
      /\ \A i \in DOMAIN q : i \in 1 .. Len(q) /\ r[Len(p) + i] = q[i]
      /\ Len(p) \in Nat /\ Len(q) \in Nat
  OBVIOUS
<1> HIDE DEF r
<1>2. SUFFICES TurnLast(f, r, done, hot)
  BY DEF r
<1>3. SUFFICES ASSUME NEW i \in DOMAIN r, r[i].card = f,
                      NEW lc \in (IF r[i].why = "heat" THEN hot ELSE Lc), lc \notin done
               PROVE lc \in {r[j].card : j \in 1 .. (i - 1)}
  BY Zenon DEF TurnLast
<1>4. CASE i <= Len(p)
  <2>1. i \in DOMAIN p /\ r[i] = p[i]
    BY <1>1, <1>4
  <2>2. PICK j \in 1 .. (i - 1) : lc = p[j].card
    BY <1>3, <2>1 DEF TurnLast
  <2>3. j \in DOMAIN p
    BY <1>1, <1>4
  <2> QED BY <1>1, <2>2, <2>3
<1>5. CASE i > Len(p)
  <2>1. i - Len(p) \in DOMAIN q /\ r[i] = q[i - Len(p)]
    BY <1>1, <1>5
  <2>2. lc \in Cards(p) \cup {q[j].card : j \in 1 .. (i - Len(p) - 1)}
    BY <1>3, <2>1 DEF TurnLast
  <2>3. CASE lc \in Cards(p)
    <3>1. PICK j \in DOMAIN p : lc = p[j].card
      BY <2>3 DEF Cards
    <3>2. j \in 1 .. (i - 1) /\ r[j] = p[j]
      BY <1>1, <1>5
    <3> QED BY <3>1, <3>2
  <2>4. CASE lc \in {q[j].card : j \in 1 .. (i - Len(p) - 1)}
    <3>1. PICK j \in 1 .. (i - Len(p) - 1) : lc = q[j].card
      BY <2>4
    <3>2. j \in DOMAIN q /\ Len(p) + j \in 1 .. (i - 1)
      BY <1>1, <1>5
    <3> QED BY <1>1, <3>1, <3>2
  <2> QED BY <2>2, <2>3, <2>4
<1> QED
  BY <1>1, <1>4, <1>5

LEMMA OrderOfCards ==
  ASSUME NEW card, NEW S, NEW why PROVE Cards(OrderOf(card, S, why)) = {card} \cap S
<1>1. CASE card \in S
  <2> DEFINE o == [card |-> card, why |-> why]
  <2>1. OrderOf(card, S, why) = << o >> /\ o.card = card
    BY <1>1 DEF OrderOf
  <2> HIDE DEF o
  <2>2. Cards(<< o >>) = {o.card}
    BY DEF Cards
  <2> QED BY <1>1, <2>1, <2>2
<1>2. CASE card \notin S
  <2>1. OrderOf(card, S, why) = << >> /\ Cards(<< >>) = {}
    BY <1>2 DEF OrderOf, Cards
  <2> QED BY <1>2, <2>1
<1> QED
  BY <1>1, <1>2

(* A call over the LCs of S orders each of them off. *)
LEMMA LcOrdersCards ==
  ASSUME NEW S \in SUBSET Lc, NEW why \in {"heat", "error"}
  PROVE Cards(LcOrders(S, why)) = S
<1> DEFINE o(n) == OrderOf(n, S, why)
           two == o(0) \o o(1)
           three == two \o o(2)
           four == three \o o(3)
           five == four \o o(4)
           six == five \o o(5)
           seven == six \o o(6)
           eight == seven \o o(7)
<1>1. \A n : o(n) \in Seq(Order) /\ Cards(o(n)) = {n} \cap S
  BY OrderOfType, OrderOfCards
<1>2. LcOrders(S, why) = four \o o(4) \o o(5) \o o(6) \o o(7)
  BY DEF LcOrders
<1> HIDE DEF o
<1>3. two \in Seq(Order) /\ Cards(two) = {0, 1} \cap S
  BY <1>1, ConcatType, ConcatCards
<1> HIDE DEF two
<1>4. three \in Seq(Order) /\ Cards(three) = {0, 1, 2} \cap S
  BY <1>1, <1>3, ConcatType, ConcatCards
<1> HIDE DEF three
<1>5. four \in Seq(Order) /\ Cards(four) = {0, 1, 2, 3} \cap S
  BY <1>1, <1>4, ConcatType, ConcatCards
<1> HIDE DEF four
<1>6. five \in Seq(Order) /\ Cards(five) = {0, 1, 2, 3, 4} \cap S
  BY <1>1, <1>5, ConcatType, ConcatCards
<1> HIDE DEF five
<1>7. six \in Seq(Order) /\ Cards(six) = {0, 1, 2, 3, 4, 5} \cap S
  BY <1>1, <1>6, ConcatType, ConcatCards
<1> HIDE DEF six
<1>8. seven \in Seq(Order) /\ Cards(seven) = {0, 1, 2, 3, 4, 5, 6} \cap S
  BY <1>1, <1>7, ConcatType, ConcatCards
<1> HIDE DEF seven
<1>9. Cards(eight) = {0, 1, 2, 3, 4, 5, 6, 7} \cap S
  BY <1>1, <1>8, ConcatCards
<1>10. LcOrders(S, why) = eight
  BY <1>2 DEF five, six, seven
<1> HIDE DEF eight
<1>11. \A lc \in S : lc \in {0, 1, 2, 3, 4, 5, 6, 7}
  BY LcFacts
<1>12. {0, 1, 2, 3, 4, 5, 6, 7} \cap S = S
  BY <1>11
<1> QED
  BY <1>9, <1>10, <1>12

LEMMA NeighbourIsOther ==
  ASSUME NEW f \in Fc PROVE Neighbour(f) # f
  BY FcFacts DEF Neighbour

(* Orders that do not concern f leave nothing to show. *)
LEMMA OthersTurn ==
  ASSUME NEW f, NEW q \in Seq(Order), NEW done, NEW hot, f \notin Cards(q)
  PROVE TurnLast(f, q, done, hot)
  BY DEF Cards, TurnLast

LEMMA OwnTurn ==
  ASSUME NEW f, NEW S, NEW why, NEW done, NEW hot,
         (IF why = "heat" THEN hot ELSE Lc) \subseteq done
  PROVE TurnLast(f, OrderOf(f, S, why), done, hot)
<1>1. CASE f \in S
  <2> DEFINE o == [card |-> f, why |-> why]
  <2>1. OrderOf(f, S, why) = << o >> /\ o.why = why
    BY <1>1 DEF OrderOf
  <2> HIDE DEF o
  <2>2. TurnLast(f, << o >>, done, hot)
    BY <2>1 DEF TurnLast
  <2> QED BY <2>1, <2>2
<1>2. CASE f \notin S
  BY <1>2 DEF OrderOf, TurnLast
<1> QED
  BY <1>1, <1>2

LEMMA HeatOrdersLast ==
  ASSUME NEW f \in Fc, NEW hotLc \in SUBSET Lc, NEW hotFc \in SUBSET Fc, NEW done
  PROVE TurnLast(f, HeatOrders(f, hotLc, hotFc), done, hotLc)
<1> DEFINE lcs == LcOrders(hotLc, "heat")
           beside == OrderOf(Neighbour(f), hotFc, "heat")
           own == OrderOf(f, hotFc, "heat")
<1>1. /\ lcs \in Seq(Order) /\ beside \in Seq(Order) /\ own \in Seq(Order)
      /\ Cards(lcs) = hotLc /\ Cards(beside) \subseteq {Neighbour(f)}
  BY LcOrdersType, LcOrdersCards, OrderOfType, OrderOfCards
<1>2. TurnLast(f, own, done \cup Cards(lcs \o beside), hotLc)
  <2>1. hotLc \subseteq done \cup Cards(lcs \o beside)
    BY <1>1, ConcatCards
  <2> QED BY <2>1, OwnTurn
<1>3. HeatOrders(f, hotLc, hotFc) = (lcs \o beside) \o own
  BY DEF HeatOrders
<1> HIDE DEF lcs, beside, own
<1>4. lcs \o beside \in Seq(Order) /\ f \notin Cards(lcs \o beside)
  BY <1>1, LcFacts, NeighbourIsOther, ConcatCards, ConcatType
<1> QED
  BY <1>1, <1>2, <1>3, <1>4, OthersTurn, ConcatTurnLast

LEMMA ErrorOrdersLast ==
  ASSUME NEW f \in Fc, NEW errors, NEW done, NEW hot,
         (\E i \in Sensor : errors[i] > RetryCount) => Lc \subseteq done
  PROVE /\ TurnLast(f, ErrorOrders(f, errors), done, hot)
        /\ (\E i \in Sensor : errors[i] = RetryCount) => Lc \subseteq Cards(ErrorOrders(f, errors))
<1> DEFINE others == \E i \in Sensor : errors[i] = RetryCount
           itself == \E i \in Sensor : errors[i] > RetryCount /\ errors[i] >= GiveUpRounds
           lcs == LcOrders(Lc, "error")
           beside == OrderOf(Neighbour(f), Fc, "error")
           all == IF others THEN lcs \o beside ELSE << >>
           own == IF itself THEN OrderOf(f, Fc, "error") ELSE << >>
<1>1. /\ lcs \in Seq(Order) /\ beside \in Seq(Order) /\ OrderOf(f, Fc, "error") \in Seq(Order)
      /\ << >> \in Seq(Order) /\ Cards(<< >>) = {}
      /\ Cards(lcs) = Lc /\ Cards(beside) \subseteq {Neighbour(f)}
  <2>1. Cards(<< >>) = {} /\ << >> \in Seq(Order)
    BY DEF Cards
  <2> QED BY <2>1, LcOrdersType, LcOrdersCards, OrderOfType, OrderOfCards
<1>2. TurnLast(f, own, done \cup Cards(all), hot)
  <2>1. CASE itself
    <3>1. Lc \subseteq done \cup Cards(all)
      BY <2>1
    <3> QED BY <2>1, <3>1, OwnTurn
  <2>2. CASE ~ itself
    BY <2>2 DEF TurnLast
  <2> QED BY <2>1, <2>2
<1>3. own \in Seq(Order)
  BY <1>1
<1>4. ErrorOrders(f, errors) = all \o own
  BY DEF ErrorOrders
<1> HIDE DEF lcs, beside, own, others, itself
<1>5. all \in Seq(Order) /\ f \notin Cards(all) /\ (others => Lc \subseteq Cards(all))
  BY <1>1, LcFacts, NeighbourIsOther, ConcatCards, ConcatType
<1> HIDE DEF all
<1>6. TurnLast(f, all \o own, done, hot) /\ Cards(all \o own) = Cards(all) \cup Cards(own)
  BY <1>2, <1>3, <1>5, OthersTurn, ConcatTurnLast, ConcatCards
<1> QED
  BY <1>4, <1>5, <1>6 DEF others

(* What an FC has tried stays tried as its call goes on. *)
LEMMA TailTurnLast ==
  ASSUME NEW f, NEW q \in Seq(Order), q # << >>, NEW done, NEW hot, NEW more,
         TurnLast(f, q, done, hot), hot \subseteq Lc,
         done \cup ({Head(q).card} \cap Lc) \subseteq more
  PROVE /\ TurnLast(f, Tail(q), more, hot)
        /\ Lc \subseteq done \cup Cards(q) => Lc \subseteq more \cup Cards(Tail(q))
<1>1. Head(q) = q[1] /\ Len(Tail(q)) = Len(q) - 1 /\ \A i \in DOMAIN Tail(q) : Tail(q)[i] = q[i + 1]
  OBVIOUS
<1>2. ASSUME NEW i \in DOMAIN Tail(q), Tail(q)[i].card = f,
             NEW lc \in (IF Tail(q)[i].why = "heat" THEN hot ELSE Lc), lc \notin more
      PROVE \E j \in 1 .. (i - 1) : lc = Tail(q)[j].card
  <2>1. i + 1 \in DOMAIN q /\ q[i + 1] = Tail(q)[i]
    BY <1>1
  <2>2. lc \in Lc /\ lc \notin done
    BY <1>2
  <2>3. PICK j \in 1 .. i : lc = q[j].card
    BY <1>2, <2>1, <2>2 DEF TurnLast
  <2>4. j # 1
    BY <1>1, <1>2, <2>2, <2>3
  <2>5. j - 1 \in 1 .. (i - 1) /\ Tail(q)[j - 1] = q[j]
    BY <1>1, <2>3, <2>4
  <2> QED BY <2>3, <2>5
<1>3. ASSUME Lc \subseteq done \cup Cards(q), NEW lc \in Lc, lc \notin more
      PROVE lc \in Cards(Tail(q))
  <2>1. PICK j \in DOMAIN q : lc = q[j].card
    BY <1>3 DEF Cards
  <2>2. j # 1
    BY <1>1, <1>3, <2>1
  <2>3. j - 1 \in DOMAIN Tail(q) /\ Tail(q)[j - 1] = q[j]
    BY <1>1, <2>2
  <2> QED BY <2>1, <2>3 DEF Cards
<1> QED
  BY <1>2, <1>3 DEF TurnLast

LEMMA PollLast ==
  ASSUME ThermalInv, LastInv, NEW f \in Fc, Poll(f) PROVE LastInv'
<1>1. PICK reading \in [Sensor -> Reading] :
        LET heat   == OverAfter(over[f], reading)
            errors == [i \in Sensor |-> ErrorAfter(error[f][i], reading[i])]
            plan   == HeatOrders(f, HotLc(heat), HotFc(f, heat)) \o ErrorOrders(f, errors)
        IN /\ error' = [error EXCEPT ![f] = errors]
           /\ over' = [over EXCEPT ![f] = heat]
           /\ orders' = [orders EXCEPT ![f] = plan]
           /\ condemned' = condemned \cup (Lc \cap {plan[i].card : i \in DOMAIN plan})
  BY DEF Poll
<1> DEFINE heat   == OverAfter(over[f], reading)
           errors == [i \in Sensor |-> ErrorAfter(error[f][i], reading[i])]
           byHeat == HeatOrders(f, HotLc(heat), HotFc(f, heat))
           byError == ErrorOrders(f, errors)
<1>2. /\ error' = [error EXCEPT ![f] = errors] /\ over' = [over EXCEPT ![f] = heat]
      /\ orders' = [orders EXCEPT ![f] = byHeat \o byError]
      /\ tried' = tried /\ orders[f] = << >>
  BY <1>1 DEF Poll
<1>3. error[f] \in [Sensor -> 0..GiveUpRounds] /\ over[f] \in SUBSET Sensor
  BY DEF ThermalInv, TypeOK
<1>4. errors \in [Sensor -> 0..GiveUpRounds]
  BY <1>3, PollTypes
(* A count past RetryCount was at RetryCount before, so all LCs have been  *)
(* tried in an earlier call.                                               *)
<1>5. ASSUME NEW i \in Sensor, errors[i] > RetryCount PROVE Lc \subseteq tried[f]
  <2>1. errors[i] = ErrorAfter(error[f][i], reading[i])
    OBVIOUS
  <2>2. error[f][i] \in Nat /\ RetryCount \in Nat \ {0} /\ GiveUpRounds \in Nat
    BY <1>3, ThermalAssumption
  <2> HIDE DEF errors
  <2>3. error[f][i] >= RetryCount
    BY <1>5, <2>1, <2>2 DEF ErrorAfter
  <2>4. Cards(orders[f]) = {}
    BY <1>2 DEF Cards
  <2> QED BY <2>3, <2>4 DEF LastInv
<1> HIDE DEF heat, errors
<1>6. HotLc(heat) \in SUBSET Lc /\ HotFc(f, heat) \in SUBSET Fc
  BY DEF HotLc, HotFc
<1>7. byHeat \in Seq(Order) /\ byError \in Seq(Order)
  BY <1>6, HeatOrdersType, ErrorOrdersType
<1>8. TurnLast(f, byHeat, tried[f], HotLc(heat))
  BY <1>6, HeatOrdersLast
<1>9. /\ TurnLast(f, byError, tried[f] \cup Cards(byHeat), HotLc(heat))
      /\ (\E i \in Sensor : errors[i] = RetryCount) => Lc \subseteq Cards(byError)
  BY <1>5, ErrorOrdersLast
<1> HIDE DEF byHeat, byError
<1>10. TurnLast(f, byHeat \o byError, tried[f], HotLc(heat))
  BY <1>7, <1>8, <1>9, ConcatTurnLast
<1>11. ASSUME NEW i \in Sensor, errors[i] >= RetryCount
       PROVE Lc \subseteq tried[f] \cup Cards(byHeat \o byError)
  <2>1. errors[i] = RetryCount \/ errors[i] > RetryCount
    BY <1>4, <1>11, ThermalAssumption
  <2> QED BY <1>5, <1>7, <1>9, <2>1, ConcatCards
<1>12. /\ orders'[f] = byHeat \o byError /\ over'[f] = heat /\ error'[f] = errors
       /\ \A g \in Fc \ {f} : orders'[g] = orders[g] /\ over'[g] = over[g] /\ error'[g] = error[g]
  BY <1>2 DEF ThermalInv, TypeOK
<1> QED
  BY <1>2, <1>10, <1>11, <1>12 DEF LastInv

LEMMA HotLcIsLc ==
  ASSUME NEW heat PROVE HotLc(heat) \subseteq Lc
  BY DEF HotLc

LEMMA DoLcLast ==
  ASSUME ThermalInv, LastInv, NEW f \in Fc, DoLc(f) PROVE LastInv'
<1>1. /\ orders[f] \in Seq(Order) /\ orders[f] # << >>
      /\ orders' = [orders EXCEPT ![f] = Tail(orders[f])]
      /\ tried' = [tried EXCEPT ![f] = @ \cup {Head(orders[f]).card}]
      /\ UNCHANGED <<error, over>>
  BY DEF DoLc, ThermalInv, TypeOK
<1>2. /\ orders'[f] = Tail(orders[f]) /\ tried'[f] = tried[f] \cup {Head(orders[f]).card}
      /\ \A g \in Fc \ {f} : orders'[g] = orders[g] /\ tried'[g] = tried[g]
  BY <1>1 DEF ThermalInv, TypeOK
<1>3. /\ TurnLast(f, orders'[f], tried'[f], HotLc(over[f]))
      /\ Lc \subseteq tried[f] \cup Cards(orders[f]) => Lc \subseteq tried'[f] \cup Cards(orders'[f])
  <2>1. TurnLast(f, orders[f], tried[f], HotLc(over[f]))
    BY DEF LastInv
  <2>2. HotLc(over[f]) \subseteq Lc
    BY HotLcIsLc
  <2>3. tried[f] \cup ({Head(orders[f]).card} \cap Lc) \subseteq tried'[f]
    BY <1>2
  <2>4. /\ TurnLast(f, Tail(orders[f]), tried'[f], HotLc(over[f]))
        /\ Lc \subseteq tried[f] \cup Cards(orders[f])
           => Lc \subseteq tried'[f] \cup Cards(Tail(orders[f]))
    BY <1>1, <2>1, <2>2, <2>3, TailTurnLast
  <2> QED BY <1>2, <2>4
<1> QED
  BY <1>1, <1>2, <1>3 DEF LastInv

LEMMA DoFcLast ==
  ASSUME ThermalInv, LastInv, NEW f \in Fc, DoFc(f) PROVE LastInv'
<1> DEFINE g == Head(orders[f]).card
<1>1. orders[f] \in Seq(Order) /\ orders[f] # << >> /\ g \in Fc
  BY DEF ThermalInv, TypeOK, DoFc
<1>2. \/ PowerOff(g) /\ orders' = [orders EXCEPT ![f] = Tail(orders[f]), ![g] = << >>]
      \/ /\ orders' = [orders EXCEPT ![f] = Tail(orders[f])]
         /\ UNCHANGED <<fcOn, error, over, master, net, tried>>
  BY DEF DoFc
<1>3. g \notin Lc
  BY <1>1, LcFacts
<1>4. ASSUME NEW h \in Fc, over'[h] = over[h], error'[h] = error[h], tried'[h] = tried[h],
             orders'[h] = IF h = f THEN Tail(orders[f]) ELSE orders[h]
      PROVE /\ TurnLast(h, orders'[h], tried'[h], HotLc(over'[h]))
            /\ \A i \in Sensor : error'[h][i] >= RetryCount
                                 => Lc \subseteq tried'[h] \cup Cards(orders'[h])
  <2>1. /\ TurnLast(h, orders[h], tried[h], HotLc(over[h]))
        /\ \A i \in Sensor : error[h][i] >= RetryCount => Lc \subseteq tried[h] \cup Cards(orders[h])
    BY DEF LastInv
  <2>2. CASE h = f
    <3>1. HotLc(over[f]) \subseteq Lc
      BY HotLcIsLc
    <3>2. tried[f] \cup ({Head(orders[f]).card} \cap Lc) \subseteq tried[f]
      BY <1>3
    <3>3. /\ TurnLast(f, Tail(orders[f]), tried[f], HotLc(over[f]))
          /\ Lc \subseteq tried[f] \cup Cards(orders[f])
             => Lc \subseteq tried[f] \cup Cards(Tail(orders[f]))
      BY <1>1, <2>1, <2>2, <3>1, <3>2, TailTurnLast
    <3> QED BY <1>4, <2>1, <2>2, <3>3
  <2>3. CASE h # f
    BY <1>4, <2>1, <2>3
  <2> QED BY <2>2, <2>3
<1> HIDE DEF g
<1>5. CASE UNCHANGED <<error, over, tried>> /\ orders' = [orders EXCEPT ![f] = Tail(orders[f])]
  <2>1. \A h \in Fc : orders'[h] = IF h = f THEN Tail(orders[f]) ELSE orders[h]
    BY <1>5 DEF ThermalInv, TypeOK
  <2> QED BY <1>4, <1>5, <2>1 DEF LastInv
<1>6. CASE PowerOff(g) /\ orders' = [orders EXCEPT ![f] = Tail(orders[f]), ![g] = << >>]
  <2>1. \A h \in Fc \ {g} :
          /\ over'[h] = over[h] /\ error'[h] = error[h] /\ tried'[h] = tried[h]
          /\ orders'[h] = IF h = f THEN Tail(orders[f]) ELSE orders[h]
    BY <1>6 DEF PowerOff, ThermalInv, TypeOK
  <2>2. orders'[g] = << >> /\ error'[g] = [i \in Sensor |-> 0]
    BY <1>1, <1>6 DEF PowerOff, ThermalInv, TypeOK
  <2>3. TurnLast(g, orders'[g], tried'[g], HotLc(over'[g]))
    BY <2>2 DEF TurnLast
  <2>4. \A i \in Sensor : ~ (error'[g][i] >= RetryCount)
    BY <2>2, ThermalAssumption
  <2>5. ASSUME NEW h \in Fc
        PROVE /\ TurnLast(h, orders'[h], tried'[h], HotLc(over'[h]))
              /\ \A i \in Sensor : error'[h][i] >= RetryCount
                                   => Lc \subseteq tried'[h] \cup Cards(orders'[h])
    BY <1>4, <2>1, <2>3, <2>4
  <2> QED BY <2>5 DEF LastInv
<1> QED
  BY <1>2, <1>5, <1>6

(* Every reachable state satisfies the inductive invariant of the orders.  *)
THEOREM LastInvariant == Spec => []LastInv
<1>1. Init => LastInv
  <2> SUFFICES ASSUME Init, NEW f \in Fc
               PROVE /\ TurnLast(f, orders[f], tried[f], HotLc(over[f]))
                     /\ \A i \in Sensor : ~ (error[f][i] >= RetryCount)
    BY DEF LastInv
  <2>1. orders[f] = << >> /\ error[f] = [i \in Sensor |-> 0]
    BY DEF Init
  <2> QED BY <2>1, ThermalAssumption DEF TurnLast
<1>2. ThermalInv /\ LastInv /\ [Next]_vars => LastInv'
  <2> SUFFICES ASSUME ThermalInv, LastInv, [Next]_vars PROVE LastInv'
    OBVIOUS
  <2>1. ASSUME UNCHANGED <<error, over, orders, tried>> PROVE LastInv'
    BY <2>1 DEF LastInv
  <2>2. ASSUME NEW f \in Fc, Tick(f) \/ Serve(f) \/ Restore(f) PROVE LastInv'
    BY <2>1, <2>2 DEF Tick, Serve, Restore, manager
  <2>3. CASE Lose \/ Command \/ UNCHANGED vars
    BY <2>1, <2>3 DEF Lose, Command, vars, manager
  <2> QED
    BY <2>2, <2>3, PollLast, DoLcLast, DoFcLast DEF Next
<1> QED
  BY <1>1, <1>2, ThermalInvariant, PTL DEF Spec

(* An FC that switches itself off has first tried every LC it found hot,   *)
(* or, if it gives up on its fan board, every LC.                          *)
THEOREM ItselfLastAlways == Spec => ItselfLast
<1> DEFINE Last ==
      \A f \in fcOn \ fcOn' :
        DoFc(f) => (IF Head(orders[f]).why = "heat" THEN HotLc(over[f]) ELSE Lc) \subseteq tried[f]
<1>1. ThermalInv /\ LastInv /\ [Next]_vars => [Last]_vars
  <2> SUFFICES ASSUME ThermalInv, LastInv, NEW f \in fcOn \ fcOn', DoFc(f)
               PROVE (IF Head(orders[f]).why = "heat" THEN HotLc(over[f]) ELSE Lc) \subseteq tried[f]
    OBVIOUS
  <2>1. f \in Fc /\ orders[f] \in Seq(Order) /\ orders[f] # << >>
    BY DEF ThermalInv, TypeOK, DoFc
  <2>2. Head(orders[f]).card = f
    BY DEF DoFc, PowerOff
  <2>3. 1 \in DOMAIN orders[f] /\ Head(orders[f]) = orders[f][1]
    BY <2>1
  <2>4. TurnLast(f, orders[f], tried[f], HotLc(over[f]))
    BY <2>1 DEF LastInv
  <2> QED BY <2>2, <2>3, <2>4 DEF TurnLast
<1> QED
  BY <1>1, ThermalInvariant, LastInvariant, PTL DEF Spec, ItselfLast
=============================================================================
