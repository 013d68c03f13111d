--------------------------- MODULE CtpGossipProofs ---------------------------
(***************************************************************************)
(* No exchange makes the memory of a departed card fresher:                *)
(* GossipNeverRevives of Ctp.tla, for every chassis and network.           *)
(*                                                                         *)
(* While slot d is down, nothing but a copy, a decrement or a reset is     *)
(* ever written to its entry in another card's table.  The lemmas follow   *)
(* a bound on that entry through every handler: Stale(c, d, n) of a card,  *)
(* StaleAll(m, d, n) of a card and the frames it has sent.                 *)
(***************************************************************************)
EXTENDS CtpProofs

Stale(c, d, n) == c \in Card /\ c.us # d /\ c.age[d] <= n

StaleFrame(f, d, n) == f \in Frame /\ f.age[d] <= n

StaleAll(m, d, n) ==
  /\ Stale(m.card, d, n)
  /\ \A f \in m.sent : StaleFrame(f, d, n)

LEMMA SameAgeStale ==
  ASSUME NEW d, NEW n, NEW c, Stale(c, d, n), NEW e, SameCard(e, c), e.age = c.age
  PROVE Stale(e, d, n)
  BY DEF Stale, SameCard

LEMMA AgeIsNat ==
  ASSUME NEW d \in Slot, NEW c \in Card PROVE c.age[d] \in Nat /\ c.us \in Slot
  BY TimerAssumption DEF Card, Table, Age

LEMMA FrameAgeIsNat ==
  ASSUME NEW d \in Slot, NEW f \in Frame PROVE f.age[d] \in Nat
  BY TimerAssumption DEF Frame, Table, Age

LEMMA SetPortsAge ==
  ASSUME NEW c \in Card, NEW p PROVE SetPorts(c, p).age = c.age
  BY DEF SetPorts, Card

LEMMA RetimeAge ==
  ASSUME NEW c \in Card, NEW t PROVE [c EXCEPT !.time = t].age = c.age
  BY DEF Card

LEMMA EnterBlockStale ==
  ASSUME NEW d \in Slot, NEW n \in Nat, NEW c, Stale(c, d, n)
  PROVE Stale(EnterBlock(c), d, n)
<1>1. c \in Card /\ c.us # d /\ SameCard(EnterBlock(c), c)
  BY EnterBlockType DEF Stale
<1>2. EnterBlock(c).age = OwnTable(c.us)
  BY <1>1 DEF EnterBlock, SetPorts, Card
<1>3. OwnTable(c.us)[d] = 0
  BY <1>1 DEF OwnTable
<1> QED
  BY <1>1, <1>2, <1>3 DEF Stale, SameCard

LEMMA EnterOthersStale ==
  ASSUME NEW d, NEW n, NEW c, Stale(c, d, n)
  PROVE /\ Stale(EnterListening(c), d, n) /\ Stale(EnterLearning(c), d, n)
        /\ Stale(EnterForwarding(c), d, n)
<1>1. c \in Card
  BY DEF Stale
<1>2. EnterListening(c).age = c.age
  BY <1>1 DEF EnterListening, SetPorts, Card
<1>3. EnterLearning(c).age = c.age
  BY <1>1 DEF EnterLearning, SetPorts, Card
<1>4. EnterForwarding(c).age = c.age
  BY <1>1 DEF EnterForwarding, SetPorts, Card
<1> QED
  BY <1>1, <1>2, <1>3, <1>4, EnterListeningType, EnterLearningType, EnterForwardingType,
     SameAgeStale

LEMMA RetimeStale ==
  ASSUME NEW d, NEW n, NEW c, Stale(c, d, n), NEW t \in Nat
  PROVE Stale([c EXCEPT !.time = t], d, n)
  BY RetimeType, RetimeAge, SameAgeStale DEF Stale

(* Adoption takes the sender's age as it is. *)
LEMMA UpdateMembersStale ==
  ASSUME NEW d \in Slot, NEW n \in Nat, NEW c, Stale(c, d, n),
         NEW f, StaleFrame(f, d, n)
  PROVE Stale(UpdateMembers(c, f), d, n)
<1>1. c \in Card /\ f \in Frame /\ SameCard(UpdateMembers(c, f), c)
  BY UpdateMembersType DEF Stale, StaleFrame
<1>2. UpdateMembers(c, f).age[d] \in {f.age[d], c.age[d]}
  BY <1>1 DEF UpdateMembers, Card
<1> QED
  BY <1>1, <1>2 DEF Stale, StaleFrame, SameCard

LEMMA DecMembersStale ==
  ASSUME NEW d \in Slot, NEW n \in Nat, NEW c, Stale(c, d, n)
  PROVE Stale(DecMembers(c), d, n)
<1>1. c \in Card /\ c.us # d /\ SameCard(DecMembers(c), c)
  BY DecMembersType DEF Stale
<1>2. DecMembers(c).age[d] = IF c.age[d] >= 1 THEN c.age[d] - 1 ELSE c.age[d]
  BY <1>1 DEF DecMembers, Card
<1>3. DecMembers(c).age[d] <= c.age[d] /\ DecMembers(c).age[d] \in Nat /\ c.age[d] \in Nat
  BY <1>1, <1>2, AgeIsNat
<1> QED
  BY <1>1, <1>3 DEF Stale, SameCard

LEMMA TxStale ==
  ASSUME NEW d \in Slot, NEW n \in Nat, NEW c, Stale(c, d, n), NEW type \in BpduType
  PROVE StaleAll(Tx(c, type), d, n)
<1> DEFINE e == DecMembers(c)
<1>1. Stale(e, d, n)
  BY DecMembersStale
<1>2. FrameOf(e, type) \in Frame
  BY TxType DEF Tx, Outcome, Stale
<1> HIDE DEF e
<1>3. StaleFrame(FrameOf(e, type), d, n)
  BY <1>1, <1>2 DEF FrameOf, StaleFrame, Stale
<1> QED
  BY <1>1, <1>3 DEF Tx, StaleAll, e

LEMMA QuietStale ==
  ASSUME NEW d, NEW n, NEW c, Stale(c, d, n) PROVE StaleAll(Quiet(c), d, n)
  BY DEF Quiet, StaleAll

LEMMA AfterStale ==
  ASSUME NEW d, NEW n, NEW m, StaleAll(m, d, n), NEW c, Stale(c, d, n),
         m = [card |-> m.card, sent |-> m.sent]
  PROVE StaleAll(After(m, c), d, n)
  BY DEF After, StaleAll

-----------------------------------------------------------------------------
(* Learning the topology. *)

LEMMA TakeStale ==
  ASSUME NEW d, NEW n, NEW c, Stale(c, d, n), NEW f \in Frame
  PROVE Stale(TakeRoot(c, f), d, n) /\ Stale(TakeDesignated(c, f), d, n)
<1>1. c \in Card
  BY DEF Stale
<1>2. TakeRoot(c, f).age = c.age /\ TakeDesignated(c, f).age = c.age
  BY <1>1 DEF TakeRoot, TakeDesignated, Card
<1> QED
  BY <1>1, <1>2, TakeRootType, TakeDesignatedType, SameAgeStale

LEMMA UpdateStale ==
  ASSUME NEW d \in Slot, NEW n \in Nat, NEW c, Stale(c, d, n),
         NEW f, StaleFrame(f, d, n)
  PROVE Stale(UpdateLcRoot(c, f), d, n) /\ Stale(UpdateFcDesignated(c, f), d, n)
<1>1. f \in Frame
  BY DEF StaleFrame
<1>2. \A e : Stale(e, d, n) => Stale(TakeRoot(e, f), d, n) /\ Stale(TakeDesignated(e, f), d, n)
  BY <1>1, TakeStale
<1>3. \A e : Stale(e, d, n) => Stale(UpdateMembers(e, f), d, n)
  BY UpdateMembersStale
<1> QED
  BY <1>2, <1>3 DEF UpdateLcRoot, UpdateFcDesignated

LEMMA SyncToHelloStale ==
  ASSUME NEW d, NEW n, NEW c, Stale(c, d, n), NEW f \in Frame
  PROVE Stale(SyncToHello(c, f), d, n)
  BY TakeStale, EnterOthersStale DEF SyncToHello

LEMMA ClearOldStale ==
  ASSUME NEW d \in Slot, NEW n \in Nat, NEW c, Stale(c, d, n), NEW old \in Int
  PROVE Stale(ClearOld(c, old), d, n)
<1>1. c \in Card /\ SameCard(ClearOld(c, old), c)
  BY ClearOldType DEF Stale
<1>2. ClearOld(c, old).age[d] \in {0, c.age[d]}
  BY <1>1 DEF ClearOld, Card
<1> QED
  BY <1>1, <1>2 DEF Stale, SameCard

LEMMA ElectStale ==
  ASSUME NEW d, NEW n, NEW c, Stale(c, d, n), Electable(c) # {}
  PROVE Stale(Elect(c), d, n)
<1>1. c \in Card
  BY DEF Stale
<1>2. Elect(c).age = c.age
  BY <1>1 DEF Elect, Card
<1> QED
  BY <1>1, <1>2, ElectType, SameAgeStale

-----------------------------------------------------------------------------
(* The receive handlers. *)

LEMMA RxFromFcStale ==
  ASSUME NEW d \in Slot, NEW n \in Nat, NEW c, Stale(c, d, n),
         NEW f, StaleFrame(f, d, n)
  PROVE StaleAll(RxFromFc(c, f), d, n)
<1> DEFINE heard == UpdateMembers(c, f)
           timed == [heard EXCEPT !.time = 0]
           learnt == UpdateLcRoot(EnterListening(c), f)
           reply == Tx(learnt, "REPLY")
           echo == Tx(heard, "LC_CHANGE")
<1>1. Stale(heard, d, n) /\ Stale(learnt, d, n) /\ f \in Frame
  BY UpdateMembersStale, EnterOthersStale, UpdateStale DEF StaleFrame
<1>2. Stale(timed, d, n)
  <2> HIDE DEF heard
  <2> QED BY <1>1, RetimeStale
<1> HIDE DEF heard, timed, learnt
<1>3. StaleAll(reply, d, n) /\ reply = [card |-> reply.card, sent |-> reply.sent]
  BY <1>1, TxStale, TxIsRecord, Types
<1>4. StaleAll(echo, d, n) /\ echo = [card |-> echo.card, sent |-> echo.sent]
  BY <1>1, TxStale, TxIsRecord, Types
<1>5. /\ StaleAll(Tx(timed, "HELLO"), d, n) /\ StaleAll(Tx(timed, "REPLY"), d, n)
      /\ StaleAll(Tx(heard, "REPLY"), d, n) /\ StaleAll(Quiet(heard), d, n)
  BY <1>1, <1>2, TxStale, QuietStale, Types
<1>6. StaleAll(Quiet(SyncToHello(timed, f)), d, n)
  BY <1>1, <1>2, SyncToHelloStale, QuietStale
<1>7. StaleAll(Quiet(UpdateMembers(IF Differs(c, f) THEN UpdateLcRoot(c, f) ELSE c, f)), d, n)
  BY UpdateStale, UpdateMembersStale, QuietStale
<1> HIDE DEF reply, echo
<1>8. StaleAll(After(reply, UpdateMembers(reply.card, f)), d, n)
  BY <1>3, UpdateMembersStale, AfterStale DEF StaleAll
<1>9. StaleAll(After(echo, EnterBlock(echo.card)), d, n)
  BY <1>4, EnterBlockStale, AfterStale DEF StaleAll
<1> QED
  BY <1>5, <1>6, <1>7, <1>8, <1>9 DEF RxFromFc, heard, timed, learnt, reply, echo

LEMMA RxFcChangeStale ==
  ASSUME NEW d \in Slot, NEW n \in Nat, NEW c, Stale(c, d, n),
         NEW f, StaleFrame(f, d, n)
  PROVE StaleAll(RxFcChange(c, f), d, n)
<1> DEFINE cleared == ClearOld(c, f.dbridge)
<1>1. Stale(cleared, d, n)
  BY ClearOldStale, SlotIdFacts DEF StaleFrame, Frame
<1> HIDE DEF cleared
<1>2. Electable(cleared) # {} => StaleAll(Tx(Elect(cleared), "HELLO"), d, n)
  BY <1>1, ElectStale, TxStale, Types
<1>3. StaleAll(Quiet(c), d, n) /\ StaleAll(Quiet(EnterBlock(cleared)), d, n)
  BY <1>1, EnterBlockStale, QuietStale
<1> QED
  BY <1>2, <1>3 DEF RxFcChange, cleared

LEMMA RxHelloFromLcStale ==
  ASSUME NEW d \in Slot, NEW n \in Nat, NEW c, Stale(c, d, n), NEW f \in Frame
  PROVE StaleAll(RxHelloFromLc(c, f), d, n)
<1> DEFINE synced == IF f.dbridge # c.design /\ f.root = c.rootBridge
                       THEN SyncToHello(c, f) ELSE c
<1>1. Stale(synced, d, n)
  BY SyncToHelloStale
<1> HIDE DEF synced
<1> QED
  BY <1>1, TxStale, QuietStale, Types DEF RxHelloFromLc, synced

LEMMA RxFromLcStale ==
  ASSUME NEW d \in Slot, NEW n \in Nat, NEW c, Stale(c, d, n),
         NEW f, StaleFrame(f, d, n)
  PROVE StaleAll(RxFromLc(c, f), d, n)
<1> DEFINE heard == UpdateMembers(c, f)
           timed == [heard EXCEPT !.time = 0]
           learnt == UpdateFcDesignated(EnterListening(c), f)
<1>1. Stale(heard, d, n) /\ Stale(learnt, d, n) /\ f \in Frame
  BY UpdateMembersStale, EnterOthersStale, UpdateStale DEF StaleFrame
<1>2. Stale(timed, d, n)
  <2> HIDE DEF heard
  <2> QED BY <1>1, RetimeStale
<1> HIDE DEF heard, timed, learnt
<1>3. /\ StaleAll(Quiet(UpdateMembers(learnt, f)), d, n)
      /\ StaleAll(RxHelloFromLc(timed, f), d, n)
      /\ StaleAll(RxFcChange(heard, f), d, n)
  BY <1>1, <1>2, UpdateMembersStale, RxHelloFromLcStale, RxFcChangeStale, QuietStale
<1>4. /\ StaleAll(Tx(heard, "REPLY"), d, n) /\ StaleAll(Quiet(heard), d, n)
      /\ StaleAll(Quiet(EnterBlock(heard)), d, n)
  BY <1>1, TxStale, EnterBlockStale, QuietStale, Types
<1>5. StaleAll(Quiet(UpdateMembers(IF Differs(c, f) THEN UpdateFcDesignated(c, f) ELSE c, f)),
               d, n)
  BY UpdateStale, UpdateMembersStale, QuietStale
<1> QED
  BY <1>3, <1>4, <1>5 DEF RxFromLc, heard, timed, learnt

LEMMA ReceivedStale ==
  ASSUME NEW d \in Slot, NEW n \in Nat, NEW c, Stale(c, d, n),
         NEW f, StaleFrame(f, d, n)
  PROVE StaleAll(Received(c, f), d, n)
<1> DEFINE e == [c EXCEPT !.seen = @ \cup {<<f.slot, f.type>>}]
<1>1. Stale(e, d, n)
  <2>1. SameCard(e, c) /\ e.age = c.age
    BY DEF Stale, StaleFrame, SameCard, Card, Frame
  <2> HIDE DEF e
  <2> QED BY <2>1, SameAgeStale
<1> HIDE DEF e
<1>2. /\ StaleAll(Quiet(c), d, n) /\ StaleAll(Quiet(e), d, n)
      /\ StaleAll(RxFromFc(e, f), d, n) /\ StaleAll(RxFromLc(e, f), d, n)
  BY <1>1, QuietStale, RxFromFcStale, RxFromLcStale
<1> QED
  BY <1>2 DEF Received, e

-----------------------------------------------------------------------------
(* The ticks. *)

LEMMA TickBlockStale ==
  ASSUME NEW d \in Slot, NEW n \in Nat, NEW c, Stale(c, d, n)
  PROVE StaleAll(TickBlock(c), d, n)
<1> DEFINE e == [c EXCEPT !.time = @ + 1]
           r == [e EXCEPT !.time = 0, !.ports = FcPort]
<1>1. Stale(e, d, n)
  BY DEF Stale, Card
<1>2. SameCard(r, c) /\ r.age = c.age
  BY DEF Stale, SameCard, Card
<1> HIDE DEF e, r
<1>3. Stale(r, d, n)
  BY <1>2, SameAgeStale
<1>4. /\ StaleAll(Quiet(c), d, n) /\ StaleAll(Quiet(r), d, n)
      /\ StaleAll(Tx(e, "CONFIG"), d, n)
  BY <1>1, <1>3, TxStale, QuietStale, Types
<1> QED
  BY <1>4 DEF TickBlock, e, r

LEMMA TickListeningStale ==
  ASSUME NEW d \in Slot, NEW n \in Nat, NEW c, Stale(c, d, n)
  PROVE StaleAll(TickListening(c), d, n)
<1> DEFINE e == [c EXCEPT !.time = @ + 1]
<1>1. Stale(e, d, n)
  BY DEF Stale, Card
<1> HIDE DEF e
<1>2. /\ StaleAll(Quiet(EnterLearning(c)), d, n) /\ StaleAll(Quiet(e), d, n)
      /\ StaleAll(Tx(e, "CONFIG"), d, n)
  BY <1>1, EnterOthersStale, TxStale, QuietStale, Types
<1> QED
  BY <1>2 DEF TickListening, e

LEMMA TickLearningStale ==
  ASSUME NEW d \in Slot, NEW n \in Nat, NEW c, Stale(c, d, n)
  PROVE StaleAll(TickLearning(c), d, n)
<1> DEFINE sent == Tx(c, "CONFIG")
           e == [sent.card EXCEPT !.time = @ + 1]
<1>1. StaleAll(sent, d, n) /\ sent = [card |-> sent.card, sent |-> sent.sent]
  BY TxStale, TxIsRecord, Types
<1> HIDE DEF sent
<1>2. Stale(e, d, n)
  BY <1>1 DEF StaleAll, Stale, Card
<1> HIDE DEF e
<1>3. StaleAll(After(sent, e), d, n) /\ StaleAll(Quiet(EnterForwarding(c)), d, n)
  BY <1>1, <1>2, AfterStale, EnterOthersStale, QuietStale
<1> QED
  BY <1>3 DEF TickLearning, sent, e

LEMMA TickRootStale ==
  ASSUME NEW d \in Slot, NEW n \in Nat, NEW c, Stale(c, d, n)
  PROVE StaleAll(TickRoot(c), d, n)
<1> DEFINE hello == Tx(c, "HELLO")
           e == [hello.card EXCEPT !.time = @ + 1]
           cleared == ClearOld(c, c.lc)
<1>1. StaleAll(hello, d, n) /\ hello = [card |-> hello.card, sent |-> hello.sent]
  BY TxStale, TxIsRecord, Types
<1> HIDE DEF hello
<1>2. Stale(e, d, n)
  BY <1>1 DEF StaleAll, Stale, Card
<1>3. Stale(cleared, d, n)
  <2>1. c.lc \in Int
    BY DEF Stale, Card
  <2> QED BY <2>1, ClearOldStale
<1> HIDE DEF e, cleared
<1>4. StaleAll(After(hello, e), d, n) /\ StaleAll(Tx(EnterBlock(cleared), "LC_CHANGE"), d, n)
  BY <1>1, <1>2, <1>3, AfterStale, EnterBlockStale, TxStale, Types
<1>5. Electable(cleared) # {} => StaleAll(Tx([Elect(cleared) EXCEPT !.time = 0], "HELLO"), d, n)
  BY <1>3, ElectStale, RetimeStale, TxStale, Types
<1> QED
  BY <1>4, <1>5 DEF TickRoot, hello, e, cleared

LEMMA TickForwardingStale ==
  ASSUME NEW d \in Slot, NEW n \in Nat, NEW c, Stale(c, d, n)
  PROVE StaleAll(TickForwarding(c), d, n)
<1> DEFINE e == [c EXCEPT !.time = @ + 1]
<1>1. Stale(e, d, n)
  BY DEF Stale, Card
<1> HIDE DEF e
<1>2. StaleAll(Quiet(e), d, n) /\ StaleAll(Quiet(EnterBlock(c)), d, n)
  BY <1>1, EnterBlockStale, QuietStale
<1> QED
  BY <1>2, TickRootStale DEF TickForwarding, e

LEMMA TickedStale ==
  ASSUME NEW d \in Slot, NEW n \in Nat, NEW c, Stale(c, d, n)
  PROVE StaleAll(Ticked(c), d, n)
<1> DEFINE e == [c EXCEPT !.seen = {}]
<1>1. Stale(e, d, n)
  BY DEF Stale, Card
<1>2. c.state \in CtpState
  BY DEF Stale, Card
<1> HIDE DEF e
<1>3. /\ StaleAll(Quiet(c), d, n)
      /\ StaleAll(TickBlock(e), d, n) /\ StaleAll(TickListening(e), d, n)
      /\ StaleAll(TickLearning(e), d, n) /\ StaleAll(TickForwarding(e), d, n)
  BY <1>1, QuietStale, TickBlockStale, TickListeningStale, TickLearningStale,
     TickForwardingStale
<1>4. \/ Ticked(c) = Quiet(c)
      \/ Ticked(c) = TickBlock(e) \/ Ticked(c) = TickListening(e)
      \/ Ticked(c) = TickLearning(e) \/ Ticked(c) = TickForwarding(e)
  BY <1>2 DEF Ticked, e, CtpState, BLOCK, LISTENING, LEARNING, FORWARDING
<1> QED
  BY <1>3, <1>4

-----------------------------------------------------------------------------
(* Start, stop and the network. *)

LEMMA FreshStale ==
  ASSUME NEW d \in Slot, NEW n \in Nat, NEW s \in Slot, s # d
  PROVE /\ Stale(Started(s), d, n)
        /\ \A p \in SUBSET FcPort : Stale([Zeroed(s) EXCEPT !.ports = p], d, n)
<1>1. Zeroed(s) \in Card /\ Zeroed(s).us = s /\ Zeroed(s).age = OwnTable(s)
  BY ZeroedType DEF Zeroed
<1>2. OwnTable(s)[d] = 0
  BY DEF OwnTable
<1>3. Stale(Zeroed(s), d, n)
  BY <1>1, <1>2 DEF Stale
<1>4. Stale(EnterBlock(Zeroed(s)), d, n)
  BY <1>3, EnterBlockStale
<1>5. StaticPorts(s) \in SUBSET FcPort
  BY DEF StaticPorts, FcPort, LcPort
<1>6. \A c, p : Stale(c, d, n) /\ p \in SUBSET FcPort => Stale([c EXCEPT !.ports = p], d, n)
  BY DEF Stale, Card
<1> QED
  BY <1>3, <1>4, <1>5, <1>6 DEF Started

LEMMA ExitedStale ==
  ASSUME NEW d \in Slot, NEW n \in Nat, NEW c, Stale(c, d, n), NEW f \in Exited(c).sent
  PROVE StaleFrame(f, d, n)
<1>1. Stale(EnterBlock(c), d, n)
  BY EnterBlockStale
<1>2. /\ StaleAll(Tx(EnterBlock(c), "FC_CHANGE"), d, n)
      /\ StaleAll(Quiet(EnterBlock(c)), d, n)
  BY <1>1, TxStale, QuietStale, Types
<1> QED
  BY <1>2 DEF Exited, StaleAll

StaleQueue(q, d, n) == q \in Seq(Frame) /\ \A i \in DOMAIN q : q[i].age[d] <= n

LEMMA EnqueueStale ==
  ASSUME NEW d, NEW n, NEW q, StaleQueue(q, d, n), NEW sent,
         \A f \in sent : StaleFrame(f, d, n)
  PROVE StaleQueue(Enqueue(q, sent), d, n)
<1>1. ASSUME sent # {} PROVE StaleQueue(Append(q, CHOOSE f \in sent : TRUE), d, n)
  <2> DEFINE g == CHOOSE f \in sent : TRUE
  <2>1. StaleFrame(g, d, n)
    BY <1>1
  <2> HIDE DEF g
  <2>2. StaleQueue(Append(q, g), d, n)
    BY <2>1 DEF StaleFrame, StaleQueue
  <2> QED BY <2>2 DEF g
<1> QED
  BY <1>1 DEF Enqueue

StaleQueues(queues, d, n) ==
  DOMAIN queues = Slot /\ \A s \in Slot \ {d} : StaleQueue(queues[s], d, n)

LEMMA DeliverStale ==
  ASSUME NEW d, NEW n, NEW from, NEW queues, StaleQueues(queues, d, n), NEW sent,
         \A f \in sent : StaleFrame(f, d, n), Deliver(from, queues, sent)
  PROVE StaleQueues(inbox', d, n)
  BY EnqueueStale DEF Deliver, StaleQueues

(* Nobody remembers d more freshly than n. *)
AtMost(d, n) == \A a \in Memory(d) : a <= n

LEMMA AtMostIsStale ==
  ASSUME TypeOK, NEW d \in Slot, NEW n \in Nat
  PROVE AtMost(d, n) <=> /\ StaleQueues(inbox, d, n)
                         /\ \A s \in Slot \ {d} : Stale(card[s], d, n)
  BY DEF TypeOK, AtMost, Memory, StaleQueues, StaleQueue, Stale

LEMMA AgesAreAges ==
  ASSUME NEW cards \in [Slot -> Card], NEW queues \in [Slot -> Seq(Frame)],
         NEW d \in Slot
  PROVE {cards[s].age[d] : s \in Slot \ {d}}
        \cup UNION {{queues[s][i].age[d] : i \in DOMAIN queues[s]} : s \in Slot \ {d}}
        \subseteq Age
<1>1. \A s \in Slot : cards[s].age[d] \in Age
  BY DEF Card, Table
<1>2. ASSUME NEW s \in Slot, NEW i \in DOMAIN queues[s]
      PROVE queues[s][i].age[d] \in Age
  <2>1. queues[s][i] \in Frame
    OBVIOUS
  <2> QED BY <2>1 DEF Frame, Table
<1>3. \A s \in Slot : {queues[s][i].age[d] : i \in DOMAIN queues[s]} \subseteq Age
  BY <1>2
<1> HIDE DEF Age
<1> QED BY <1>1, <1>3

LEMMA MemoryIsAge ==
  ASSUME NEW d \in Slot
  PROVE /\ TypeOK => Memory(d) \subseteq Age
        /\ TypeOK' => Memory(d)' \subseteq Age
<1>1. ASSUME TypeOK PROVE Memory(d) \subseteq Age
  <2>1. card \in [Slot -> Card] /\ inbox \in [Slot -> Seq(Frame)]
    BY <1>1 DEF TypeOK
  <2> HIDE DEF Card, Frame, Age
  <2> QED BY <2>1, AgesAreAges, Zenon DEF Memory
<1>2. ASSUME TypeOK' PROVE Memory(d)' \subseteq Age
  <2>1. card' \in [Slot -> Card] /\ inbox' \in [Slot -> Seq(Frame)]
    BY <1>2 DEF TypeOK
  <2> HIDE DEF Card, Frame, Age
  <2> QED BY <2>1, AgesAreAges, Zenon DEF Memory
<1> QED BY <1>1, <1>2

LEMMA NextGossip ==
  TypeOK /\ TypeOK' /\ [Next]_vars =>
    \A d \in Slot \ (up \cup up') : \A a \in Memory(d)' : \E b \in Memory(d) : a <= b
<1>1. ASSUME TypeOK, TypeOK', [Next]_vars,
             NEW d \in Slot \ (up \cup up'), NEW n \in Age, AtMost(d, n)
      PROVE AtMost(d, n)'
  <2> USE <1>1
  <2>1. n \in Nat /\ d \in Slot
    BY TimerAssumption DEF Age
  <2>2. StaleQueues(inbox, d, n) /\ \A s \in Slot \ {d} : Stale(card[s], d, n)
    BY <2>1, AtMostIsStale
  <2>3. ASSUME StaleQueues(inbox', d, n), \A s \in Slot \ {d} : Stale(card'[s], d, n)
        PROVE AtMost(d, n)'
    BY <2>3 DEF AtMost, Memory, StaleQueues, StaleQueue, Stale
  <2>4. ASSUME NEW s \in Slot, NEW c, card' = [card EXCEPT ![s] = c],
               s # d, Stale(c, d, n), StaleQueues(inbox', d, n)
        PROVE AtMost(d, n)'
    BY <2>2, <2>3, <2>4 DEF TypeOK
  <2>5. ASSUME NEW s \in Slot, Tick(s) PROVE AtMost(d, n)'
    <3> DEFINE m == Ticked(card[s])
    <3>1. s # d /\ card' = [card EXCEPT ![s] = m.card] /\ Deliver(s, inbox, m.sent)
      BY <2>5 DEF Tick, Step
    <3>2. StaleAll(m, d, n)
      BY <2>1, <2>2, <3>1, TickedStale
    <3> HIDE DEF m
    <3> QED BY <2>2, <2>4, <3>1, <3>2, DeliverStale DEF StaleAll
  <2>6. ASSUME NEW s \in Slot, Receive(s) PROVE AtMost(d, n)'
    <3> DEFINE m == Received(card[s], Head(inbox[s]))
    <3>1. PICK again \in {FALSE, Looping} :
            Step(s, m, IF again THEN inbox ELSE [inbox EXCEPT ![s] = Tail(@)])
      BY <2>6 DEF Receive
    <3> DEFINE queues == IF again THEN inbox ELSE [inbox EXCEPT ![s] = Tail(@)]
    <3>2. s # d /\ inbox[s] # << >>
      BY <2>6 DEF Receive
    <3>3. StaleFrame(Head(inbox[s]), d, n) /\ StaleQueue(Tail(inbox[s]), d, n)
      BY <2>2, <3>2 DEF StaleQueues, StaleQueue, StaleFrame
    <3>4. StaleAll(m, d, n)
      BY <2>1, <2>2, <3>2, <3>3, ReceivedStale
    <3>5. StaleQueues(queues, d, n)
      BY <2>2, <3>3 DEF StaleQueues
    <3> HIDE DEF m, queues
    <3>6. card' = [card EXCEPT ![s] = m.card] /\ Deliver(s, queues, m.sent)
      BY <3>1 DEF Step, queues
    <3> QED BY <2>4, <3>2, <3>4, <3>5, <3>6, DeliverStale DEF StaleAll
  <2>7. ASSUME NEW s \in Slot, Start(s) PROVE AtMost(d, n)'
    <3>1. s # d
      BY <2>7 DEF Start
    <3> QED BY <2>1, <2>2, <2>4, <2>7, <3>1, FreshStale DEF Start
  <2>8. ASSUME NEW s \in Slot, NEW p \in SUBSET FcPort, Depart(s, p),
               StaleQueues(inbox', d, n)
        PROVE AtMost(d, n)'
    <3>1. s # d
      BY <2>8 DEF Depart
    <3> QED BY <2>1, <2>4, <2>8, <3>1, FreshStale DEF Depart
  <2>9. ASSUME NEW s \in Slot PROVE StaleQueues([inbox EXCEPT ![s] = << >>], d, n)
    <3>1. StaleQueue(<< >>, d, n)
      <4>1. << >> \in Seq(Frame) /\ DOMAIN << >> = {}
        OBVIOUS
      <4> QED BY <4>1 DEF StaleQueue
    <3> QED BY <2>2, <3>1 DEF StaleQueues
  <2>10. ASSUME NEW s \in Slot, SignalExit(s) PROVE AtMost(d, n)'
    <3>1. Depart(s, {}) /\ s # d
      BY <2>10 DEF SignalExit, Depart
    <3>2. \A f \in Exited(card[s]).sent : StaleFrame(f, d, n)
      BY <2>1, <2>2, <3>1, ExitedStale
    <3>3. StaleQueues(inbox', d, n)
      BY <2>9, <2>10, <3>2, DeliverStale DEF SignalExit
    <3> QED BY <2>8, <3>1, <3>3, {} \in SUBSET FcPort
  <2>11. ASSUME NEW s \in Slot, Crash(s) PROVE AtMost(d, n)'
    <3>1. PICK p \in {{}, card[s].ports} : Depart(s, p)
      BY <2>11 DEF Crash
    <3>2. p \in SUBSET FcPort
      BY <3>1 DEF TypeOK, Card
    <3>3. StaleQueues(inbox', d, n)
      BY <2>9, <2>11 DEF Crash
    <3> QED BY <2>8, <3>1, <3>2, <3>3
  <2>12. CASE UNCHANGED vars
    BY <2>12 DEF vars, AtMost, Memory
  <2> QED
    BY <2>5, <2>6, <2>7, <2>10, <2>11, <2>12 DEF Next
<1>2. ASSUME TypeOK, TypeOK', [Next]_vars, NEW d \in Slot \ (up \cup up'),
             NEW a \in Memory(d)'
      PROVE \E b \in Memory(d) : a <= b
  <2>1. Memory(d) \subseteq Age /\ a \in Age
    BY <1>2, MemoryIsAge
  <2>2. \E b \in Memory(d) : TRUE
    <3>1. PICK s \in Slot \ {d} : TRUE
      BY <1>2 DEF Memory
    <3>2. card[s].age[d] \in Memory(d)
      BY DEF Memory
    <3> QED BY <3>2
  <2>3. SUFFICES ASSUME \A b \in Memory(d) : b < a PROVE FALSE
    BY <2>1 DEF Age
  <2>4. a - 1 \in Age
    BY <2>1, <2>2, <2>3, TimerAssumption DEF Age
  <2>5. AtMost(d, a - 1)
    BY <2>1, <2>3 DEF AtMost, Age
  <2>6. AtMost(d, a - 1)'
    BY <1>1, <1>2, <2>4, <2>5
  <2>7. a <= a - 1
    BY <1>2, <2>6 DEF AtMost
  <2> QED
    BY <2>1, <2>7 DEF Age
<1> QED
  BY <1>2

(* While a card is down, no exchange makes the freshest memory of it, in   *)
(* tables or in frames, fresher.                                           *)
THEOREM GossipNeverRevivesAlways == Spec => GossipNeverRevives
<1>1. TypeOK /\ TypeOK' /\ [Next]_vars
      => [\A d \in Slot \ (up \cup up') :
            \A a \in Memory(d)' : \E b \in Memory(d) : a <= b]_vars
  BY NextGossip
<1> QED
  BY <1>1, Typing, PTL DEF Spec, GossipNeverRevives
=============================================================================
