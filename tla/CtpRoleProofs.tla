---------------------------- MODULE CtpRoleProofs ----------------------------
(***************************************************************************)
(* A card's two records of its topology agree, and its switch does what    *)
(* they say: RecordsAgree, RolesMatchCards and PortsMatchRole of Ctp.tla   *)
(* hold in every reachable state.                                          *)
(*                                                                         *)
(* None of the three is inductive.  Together they need two more facts: the *)
(* record of the designated LC is one short only in the root FC itself,    *)
(* whose ports do not depend on it, and a frame that announces a departure *)
(* names no root, so that a backup FC never elects.                        *)
(***************************************************************************)
EXTENDS CtpProofs

(* The inductive invariant, of a card, of a frame and of the network. *)
Coherent(c) ==
  /\ c.root = c.rootBridge
  /\ Topology(c.root, c.design)
  /\ \/ c.lc = c.design
     \/ c.state = FORWARDING /\ c.root = c.us /\ c.lc = c.design - 1
  /\ c.state = FORWARDING => c.ports = RolePorts(c.us, c.root, c.lc)

FrameCoherent(f) ==
  Topology(f.root, f.dbridge) /\ (f.type = "FC_CHANGE" => f.root = 0)

RoleInv ==
  \A s \in Slot :
    /\ Coherent(card[s])
    /\ \A i \in DOMAIN inbox[s] : FrameCoherent(inbox[s][i])
    /\ s \notin CpuA => card[s].state = BLOCK /\ inbox[s] = << >>

(* Steps that leave a card's part in the topology alone. *)
SameRole(d, c) ==
  /\ d.us = c.us /\ d.state = c.state /\ d.ports = c.ports
  /\ d.root = c.root /\ d.rootBridge = c.rootBridge
  /\ d.lc = c.lc /\ d.design = c.design

Good(m, c) ==
  Outcome(m, c) /\ Coherent(m.card) /\ \A f \in m.sent : FrameCoherent(f)

LEMMA StatesDiffer ==
  /\ BLOCK # FORWARDING /\ LISTENING # FORWARDING /\ LEARNING # FORWARDING
  /\ BLOCK # LISTENING /\ BLOCK # LEARNING /\ LISTENING # LEARNING
  BY DEF BLOCK, LISTENING, LEARNING, FORWARDING

LEMMA CardKinds ==
  ASSUME NEW s \in Slot
  PROVE /\ s \in LineCard <=> IsLineCard(s)
        /\ s \in FabricCard <=> ~ IsLineCard(s)
        /\ 0 \notin Slot
  BY SlotAssumption DEF LineCard, FabricCard, IsLineCard

LEMMA SameRoleCoherent ==
  ASSUME NEW c, NEW d, SameRole(d, c), Coherent(c) PROVE Coherent(d)
  BY DEF SameRole, Coherent

LEMMA UpdateMembersRole ==
  ASSUME NEW c \in Card, NEW f PROVE SameRole(UpdateMembers(c, f), c)
  BY DEF UpdateMembers, SameRole, Card

LEMMA DecMembersRole ==
  ASSUME NEW c \in Card PROVE SameRole(DecMembers(c), c)
  BY DEF DecMembers, SameRole, Card

LEMMA ClearOldRole ==
  ASSUME NEW c \in Card, NEW old PROVE SameRole(ClearOld(c, old), c)
  BY DEF ClearOld, SameRole, Card

LEMMA RetimeRole ==
  ASSUME NEW c \in Card, NEW t PROVE SameRole([c EXCEPT !.time = t], c)
  BY DEF SameRole, Card

LEMMA TxGood ==
  ASSUME NEW c \in Card, Coherent(c), NEW type \in BpduType, type # "FC_CHANGE"
  PROVE Good(Tx(c, type), c) /\ SameRole(Tx(c, type).card, c)
<1> DEFINE d == DecMembers(c)
<1>1. SameRole(d, c)
  BY DecMembersRole
<1>2. Coherent(d)
  BY <1>1, SameRoleCoherent
<1> HIDE DEF d
<1>3. FrameCoherent(FrameOf(d, type))
  BY <1>2 DEF FrameOf, FrameCoherent, Coherent
<1> QED
  BY <1>1, <1>2, <1>3, TxType DEF Tx, Good, d

LEMMA QuietGood ==
  ASSUME NEW c \in Card, NEW d, SameCard(d, c), Coherent(d) PROVE Good(Quiet(d), c)
  BY QuietType DEF Quiet, Good

LEMMA GoodTransitive ==
  ASSUME NEW c, NEW d, NEW m, SameCard(d, c), Good(m, d) PROVE Good(m, c)
  BY OutcomeTransitive DEF Good

LEMMA AfterGood ==
  ASSUME NEW c, NEW m, NEW d, Good(m, c), SameCard(d, m.card), Coherent(d),
         m = [card |-> m.card, sent |-> m.sent]
  PROVE Good(After(m, d), c)
<1>1. Outcome(After(m, d), c)
  BY AfterType DEF Good
<1> QED
  BY <1>1 DEF After, Good
-----------------------------------------------------------------------------
(* Changes of state. *)

LEMMA EnterBlockCoherent ==
  ASSUME NEW c \in Card PROVE Coherent(EnterBlock(c)) /\ EnterBlock(c).state = BLOCK
                              /\ (IsLineCard(c.us) => EnterBlock(c).root = 0)
<1>1. c.us \in Slot
  BY DEF Card
<1>2. CASE IsLineCard(c.us)
  BY <1>1, <1>2, CardKinds, StatesDiffer DEF EnterBlock, SetPorts, Coherent, Topology, Card
<1>3. CASE ~ IsLineCard(c.us)
  BY <1>1, <1>3, CardKinds, StatesDiffer DEF EnterBlock, SetPorts, Coherent, Topology, Card
<1> QED
  BY <1>2, <1>3

LEMMA EnterListeningCoherent ==
  ASSUME NEW c \in Card, Coherent(c), c.state # FORWARDING
  PROVE Coherent(EnterListening(c)) /\ EnterListening(c).state = LISTENING
  BY StatesDiffer DEF EnterListening, SetPorts, Coherent, Card

LEMMA EnterLearningCoherent ==
  ASSUME NEW c \in Card, Coherent(c), c.state # FORWARDING
  PROVE Coherent(EnterLearning(c))
  BY StatesDiffer DEF EnterLearning, SetPorts, Coherent, Card

LEMMA EnterForwardingCoherent ==
  ASSUME NEW c \in Card, c.us \in CpuA, c.root = c.rootBridge, c.lc = c.design,
         Topology(c.root, c.design)
  PROVE Coherent(EnterForwarding(c))
  BY DEF EnterForwarding, SetPorts, Coherent, Card, CpuA

LEMMA TakeCoherent ==
  ASSUME NEW c \in Card, Coherent(c), c.state # FORWARDING,
         NEW f \in Frame, FrameCoherent(f)
  PROVE /\ Coherent(TakeRoot(c, f)) /\ TakeRoot(c, f).state = c.state
        /\ Coherent(TakeDesignated(c, f)) /\ TakeDesignated(c, f).state = c.state
  BY DEF TakeRoot, TakeDesignated, Coherent, FrameCoherent, Topology, Card

LEMMA UpdateLcRootCoherent ==
  ASSUME NEW c \in Card, Coherent(c), c.state # FORWARDING,
         NEW f \in Frame, FrameCoherent(f)
  PROVE Coherent(UpdateLcRoot(c, f)) /\ UpdateLcRoot(c, f).state = c.state
<1> DEFINE rooted == IF Vouches(f, f.root) /\ (f.root < c.root \/ c.root = 0)
                       THEN TakeRoot(c, f) ELSE c
           designated ==
             IF /\ Vouches(f, f.dbridge)
                /\ f.type = "HELLO" \/ f.dbridge < c.lc \/ c.lc = 0
               THEN TakeDesignated(rooted, f) ELSE rooted
<1>1. rooted \in Card /\ Coherent(rooted) /\ rooted.state = c.state
  BY TakeRootType, TakeCoherent DEF SameCard
<1> HIDE DEF rooted
<1>2. designated \in Card /\ Coherent(designated) /\ designated.state = c.state
  BY <1>1, TakeDesignatedType, TakeCoherent DEF SameCard
<1> HIDE DEF designated
<1>3. SameRole(UpdateMembers(designated, f), designated)
  BY <1>2, UpdateMembersRole
<1>4. Coherent(UpdateMembers(designated, f)) /\ UpdateMembers(designated, f).state = c.state
  BY <1>2, <1>3, SameRoleCoherent DEF SameRole
<1> QED
  BY <1>4 DEF UpdateLcRoot, rooted, designated

LEMMA UpdateFcDesignatedCoherent ==
  ASSUME NEW c \in Card, Coherent(c), c.state # FORWARDING,
         NEW f \in Frame, FrameCoherent(f)
  PROVE Coherent(UpdateFcDesignated(c, f)) /\ UpdateFcDesignated(c, f).state = c.state
<1> DEFINE rooted == IF Vouches(f, f.root) /\ (f.fwd \/ f.root < c.root \/ c.root = 0)
                       THEN TakeRoot(c, f) ELSE c
           designated == IF Vouches(f, f.dbridge) /\ (f.dbridge < c.lc \/ c.lc = 0)
                           THEN TakeDesignated(rooted, f) ELSE rooted
<1>1. rooted \in Card /\ Coherent(rooted) /\ rooted.state = c.state
  BY TakeRootType, TakeCoherent DEF SameCard
<1> HIDE DEF rooted
<1>2. designated \in Card /\ Coherent(designated) /\ designated.state = c.state
  BY <1>1, TakeDesignatedType, TakeCoherent DEF SameCard
<1> HIDE DEF designated
<1>3. SameRole(UpdateMembers(designated, f), designated)
  BY <1>2, UpdateMembersRole
<1>4. Coherent(UpdateMembers(designated, f)) /\ UpdateMembers(designated, f).state = c.state
  BY <1>2, <1>3, SameRoleCoherent DEF SameRole
<1> QED
  BY <1>4 DEF UpdateFcDesignated, rooted, designated

LEMMA UpdateMembersCoherent ==
  ASSUME NEW c \in Card, Coherent(c), NEW f
  PROVE Coherent(UpdateMembers(c, f)) /\ UpdateMembers(c, f).state = c.state
  BY UpdateMembersRole, SameRoleCoherent DEF SameRole

(* Whichever LC is designated, the root FC opens every port. *)
LEMMA RootPorts ==
  ASSUME NEW us \in FabricCard, NEW lc PROVE RolePorts(us, us, lc) = FcPort
  BY CardKinds DEF RolePorts, FabricCard

LEMMA SyncToHelloCoherent ==
  ASSUME NEW c \in Card, c.us \in CpuA, Coherent(c), c.state = FORWARDING,
         NEW f \in Frame, FrameCoherent(f)
  PROVE Coherent(SyncToHello(c, f))
<1> DEFINE d == TakeDesignated(c, f)
<1>1. /\ d \in Card /\ d.us = c.us /\ d.state = FORWARDING /\ d.ports = c.ports
      /\ d.root = c.root /\ d.rootBridge = c.rootBridge
      /\ d.lc = f.dbridge /\ d.design = f.dbridge
  BY TakeDesignatedType DEF TakeDesignated, SameCard, Card
<1>2. Topology(d.root, d.design) /\ d.root = d.rootBridge
  BY <1>1 DEF Coherent, FrameCoherent, Topology
<1>3. Coherent(EnterForwarding(d))
  BY <1>1, <1>2, EnterForwardingCoherent
<1>4. ASSUME c.lc # c.design PROVE Coherent(d)
  <2>1. c.root = c.us /\ c.root \in FabricCard /\ c.ports = RolePorts(c.us, c.root, c.lc)
    <3>1. c.us # 0
      BY CardKinds DEF Card
    <3> QED BY <1>4, <3>1 DEF Coherent, Topology
  <2>2. d.ports = RolePorts(d.us, d.root, d.lc)
    BY <1>1, <2>1, RootPorts
  <2> QED BY <1>1, <1>2, <2>2 DEF Coherent
<1> HIDE DEF d
<1> QED
  BY <1>3, <1>4 DEF SyncToHello, d

LEMMA ElectCoherent ==
  ASSUME NEW c \in Card, Coherent(c), c.state = FORWARDING, c.root = c.us,
         Electable(c) # {}
  PROVE Coherent(Elect(c))
<1> DEFINE d == Elect(c)
<1>1. d.design \in LineCard /\ d.lc = d.design - 1
  BY ElectType
<1>2. /\ d.us = c.us /\ d.state = FORWARDING /\ d.ports = c.ports
      /\ d.root = c.root /\ d.rootBridge = c.rootBridge
  BY DEF Elect, Card
<1>3. c.us \in FabricCard
  BY CardKinds DEF Coherent, Topology, Card
<1>4. d.ports = RolePorts(d.us, d.root, d.lc)
  BY <1>2, <1>3, RootPorts DEF Coherent
<1> HIDE DEF d
<1>5. Coherent(d)
  BY <1>1, <1>2, <1>4 DEF Coherent, Topology
<1> QED
  BY <1>5 DEF d

-----------------------------------------------------------------------------
(* The receive handlers. *)

LEMMA RxFromFcGood ==
  ASSUME NEW c \in Card, c.us \in CpuA, Coherent(c), NEW f \in Frame, FrameCoherent(f)
  PROVE Good(RxFromFc(c, f), c)
<1> DEFINE heard == UpdateMembers(c, f)
           timed == [heard EXCEPT !.time = 0]
           learnt == UpdateLcRoot(EnterListening(c), f)
           reply == Tx(learnt, "REPLY")
           echo == Tx(heard, "LC_CHANGE")
<1>1. SameCard(heard, c) /\ Coherent(heard) /\ heard.state = c.state
  BY UpdateMembersType, UpdateMembersCoherent
<1>2. SameCard(timed, c) /\ Coherent(timed) /\ timed.state = c.state
  <2> HIDE DEF heard
  <2>1. SameCard(timed, heard) /\ SameRole(timed, heard)
    BY <1>1, RetimeType, RetimeRole DEF SameCard
  <2> QED BY <1>1, <2>1, SameRoleCoherent, SameCardTransitive DEF SameRole
<1> HIDE DEF heard, timed
<1>3. CASE c.state = BLOCK
  <2>1. SameCard(EnterListening(c), c) /\ Coherent(EnterListening(c))
        /\ EnterListening(c).state # FORWARDING
    BY <1>3, StatesDiffer, EnterListeningType, EnterListeningCoherent
  <2>2. SameCard(learnt, c) /\ Coherent(learnt)
    BY <2>1, UpdateLcRootType, UpdateLcRootCoherent DEF SameCard
  <2> HIDE DEF learnt
  <2>3. Good(reply, c)
    BY <2>2, TxGood, GoodTransitive, Types DEF SameCard
  <2>4. SameCard(UpdateMembers(reply.card, f), reply.card)
        /\ Coherent(UpdateMembers(reply.card, f))
    BY <2>3, UpdateMembersType, UpdateMembersCoherent DEF Good, Outcome, SameCard
  <2>5. reply = [card |-> reply.card, sent |-> reply.sent]
    BY TxIsRecord
  <2> HIDE DEF reply
  <2>6. Good(After(reply, UpdateMembers(reply.card, f)), c)
    BY <2>3, <2>4, <2>5, AfterGood
  <2>7. RxFromFc(c, f) = After(reply, UpdateMembers(reply.card, f))
    BY <1>3, StatesDiffer DEF RxFromFc, learnt, reply
  <2> QED BY <2>6, <2>7
<1>4. CASE c.state \in {LISTENING, LEARNING}
  <2> DEFINE d == IF Differs(c, f) THEN UpdateLcRoot(c, f) ELSE c
  <2>1. SameCard(d, c) /\ Coherent(d)
    BY <1>4, StatesDiffer, UpdateLcRootType, UpdateLcRootCoherent DEF SameCard
  <2> HIDE DEF d
  <2>2. SameCard(UpdateMembers(d, f), c) /\ Coherent(UpdateMembers(d, f))
    BY <2>1, UpdateMembersType, UpdateMembersCoherent DEF SameCard
  <2>3. RxFromFc(c, f) = Quiet(UpdateMembers(d, f))
    BY <1>4, StatesDiffer DEF RxFromFc, d
  <2> QED BY <2>2, <2>3, QuietGood
<1>5. CASE c.state = FORWARDING
  <2>1. Good(After(echo, EnterBlock(echo.card)), c)
    <3>1. Good(echo, c)
      BY <1>1, TxGood, GoodTransitive, Types DEF SameCard
    <3>2. SameCard(EnterBlock(echo.card), echo.card) /\ Coherent(EnterBlock(echo.card))
      BY <3>1, EnterBlockType, EnterBlockCoherent DEF Good, Outcome, SameCard
    <3>3. echo = [card |-> echo.card, sent |-> echo.sent]
      BY TxIsRecord
    <3> HIDE DEF echo
    <3> QED BY <3>1, <3>2, <3>3, AfterGood
  <2>2. Good(Quiet(SyncToHello(timed, f)), c)
    <3>1. SameCard(SyncToHello(timed, f), c) /\ Coherent(SyncToHello(timed, f))
      BY <1>2, <1>5, SyncToHelloType, SyncToHelloCoherent DEF SameCard
    <3> QED BY <3>1, QuietGood
  <2>3. Good(Tx(timed, "HELLO"), c) /\ Good(Tx(timed, "REPLY"), c)
    BY <1>2, TxGood, GoodTransitive, Types DEF SameCard
  <2>4. Good(Tx(heard, "REPLY"), c) /\ Good(Quiet(heard), c)
    BY <1>1, TxGood, GoodTransitive, QuietGood, Types DEF SameCard
  <2> HIDE DEF echo
  <2>5. \/ RxFromFc(c, f) = After(echo, EnterBlock(echo.card))
        \/ RxFromFc(c, f) = Quiet(SyncToHello(timed, f))
        \/ RxFromFc(c, f) = Tx(timed, "HELLO") \/ RxFromFc(c, f) = Tx(timed, "REPLY")
        \/ RxFromFc(c, f) = Tx(heard, "REPLY") \/ RxFromFc(c, f) = Quiet(heard)
    BY <1>5, StatesDiffer DEF RxFromFc, heard, timed, echo
  <2> QED BY <2>1, <2>2, <2>3, <2>4, <2>5
<1> QED
  BY <1>3, <1>4, <1>5 DEF Card, CtpState

LEMMA RxHelloFromLcGood ==
  ASSUME NEW c \in Card, c.us \in CpuA, Coherent(c), c.state = FORWARDING,
         NEW f \in Frame, FrameCoherent(f)
  PROVE Good(RxHelloFromLc(c, f), c)
<1> DEFINE synced == IF f.dbridge # c.design /\ f.root = c.rootBridge
                       THEN SyncToHello(c, f) ELSE c
<1>1. SameCard(synced, c) /\ Coherent(synced)
  BY SyncToHelloType, SyncToHelloCoherent DEF SameCard
<1> HIDE DEF synced
<1>2. Good(Tx(synced, "HELLO"), c) /\ Good(Quiet(synced), c)
  BY <1>1, TxGood, GoodTransitive, QuietGood, Types DEF SameCard
<1> QED
  BY <1>2 DEF RxHelloFromLc, synced

(* The frame names no root, hence never this card: nothing changes. *)
LEMMA RxFcChangeGood ==
  ASSUME NEW c \in Card, Coherent(c),
         NEW f \in Frame, FrameCoherent(f), f.type = "FC_CHANGE"
  PROVE Good(RxFcChange(c, f), c)
<1>1. f.root # c.us
  BY CardKinds DEF FrameCoherent, Card
<1>2. Good(Quiet(c), c)
  BY QuietGood DEF SameCard
<1> QED
  BY <1>1, <1>2 DEF RxFcChange

LEMMA RxFromLcGood ==
  ASSUME NEW c \in Card, c.us \in CpuA, Coherent(c), NEW f \in Frame, FrameCoherent(f)
  PROVE Good(RxFromLc(c, f), c)
<1> DEFINE heard == UpdateMembers(c, f)
           timed == [heard EXCEPT !.time = 0]
           learnt == UpdateFcDesignated(EnterListening(c), f)
<1>1. SameCard(heard, c) /\ Coherent(heard) /\ heard.state = c.state
  BY UpdateMembersType, UpdateMembersCoherent
<1>2. SameCard(timed, c) /\ Coherent(timed) /\ timed.state = c.state
  <2> HIDE DEF heard
  <2>1. SameCard(timed, heard) /\ SameRole(timed, heard)
    BY <1>1, RetimeType, RetimeRole DEF SameCard
  <2> QED BY <1>1, <2>1, SameRoleCoherent, SameCardTransitive DEF SameRole
<1> HIDE DEF heard, timed
<1>3. CASE c.state = BLOCK
  <2>1. SameCard(EnterListening(c), c) /\ Coherent(EnterListening(c))
        /\ EnterListening(c).state # FORWARDING
    BY <1>3, StatesDiffer, EnterListeningType, EnterListeningCoherent
  <2>2. SameCard(learnt, c) /\ Coherent(learnt)
    BY <2>1, UpdateFcDesignatedType, UpdateFcDesignatedCoherent DEF SameCard
  <2> HIDE DEF learnt
  <2>3. SameCard(UpdateMembers(learnt, f), c) /\ Coherent(UpdateMembers(learnt, f))
    BY <2>2, UpdateMembersType, UpdateMembersCoherent DEF SameCard
  <2>4. RxFromLc(c, f) = Quiet(UpdateMembers(learnt, f))
    BY <1>3, StatesDiffer DEF RxFromLc, learnt
  <2> QED BY <2>3, <2>4, QuietGood
<1>4. CASE c.state \in {LISTENING, LEARNING}
  <2> DEFINE d == IF Differs(c, f) THEN UpdateFcDesignated(c, f) ELSE c
  <2>1. SameCard(d, c) /\ Coherent(d)
    BY <1>4, StatesDiffer, UpdateFcDesignatedType, UpdateFcDesignatedCoherent DEF SameCard
  <2> HIDE DEF d
  <2>2. SameCard(UpdateMembers(d, f), c) /\ Coherent(UpdateMembers(d, f))
    BY <2>1, UpdateMembersType, UpdateMembersCoherent DEF SameCard
  <2>3. RxFromLc(c, f) = Quiet(UpdateMembers(d, f))
    BY <1>4, StatesDiffer DEF RxFromLc, d
  <2> QED BY <2>2, <2>3, QuietGood
<1>5. CASE c.state = FORWARDING
  <2>1. Good(RxHelloFromLc(timed, f), c)
    BY <1>2, <1>5, RxHelloFromLcGood, GoodTransitive DEF SameCard
  <2>2. Good(Tx(heard, "REPLY"), c) /\ Good(Quiet(heard), c)
    BY <1>1, TxGood, GoodTransitive, QuietGood, Types DEF SameCard
  <2>3. f.type = "FC_CHANGE" => Good(RxFcChange(heard, f), c)
    BY <1>1, RxFcChangeGood, GoodTransitive DEF SameCard
  <2>4. Good(Quiet(EnterBlock(heard)), c)
    BY <1>1, EnterBlockType, EnterBlockCoherent, SameCardTransitive, QuietGood DEF SameCard
  <2>5. \/ RxFromLc(c, f) = RxHelloFromLc(timed, f)
        \/ RxFromLc(c, f) = Tx(heard, "REPLY") \/ RxFromLc(c, f) = Quiet(heard)
        \/ f.type = "FC_CHANGE" /\ RxFromLc(c, f) = RxFcChange(heard, f)
        \/ RxFromLc(c, f) = Quiet(EnterBlock(heard))
    BY <1>5, StatesDiffer DEF RxFromLc, heard, timed
  <2> QED BY <2>1, <2>2, <2>3, <2>4, <2>5
<1> QED
  BY <1>3, <1>4, <1>5 DEF Card, CtpState

LEMMA ReceivedGood ==
  ASSUME NEW c \in Card, c.us \in CpuA, Coherent(c), NEW f \in Frame, FrameCoherent(f)
  PROVE Good(Received(c, f), c)
<1> DEFINE d == [c EXCEPT !.seen = @ \cup {<<f.slot, f.type>>}]
<1>1. SameCard(d, c) /\ SameRole(d, c)
  BY DEF SameCard, SameRole, Card, Frame
<1> HIDE DEF d
<1>2. d \in Card /\ d.us \in CpuA /\ Coherent(d)
  BY <1>1, SameRoleCoherent DEF SameCard
<1>3. Good(Quiet(c), c) /\ Good(Quiet(d), c)
  BY <1>1, <1>2, QuietGood DEF SameCard
<1>4. Good(RxFromFc(d, f), c) /\ Good(RxFromLc(d, f), c)
  BY <1>1, <1>2, RxFromFcGood, RxFromLcGood, GoodTransitive
<1> QED
  BY <1>3, <1>4 DEF Received, d

-----------------------------------------------------------------------------
(* The ticks. *)

LEMMA TickBlockGood ==
  ASSUME NEW c \in Card, Coherent(c), c.state = BLOCK PROVE Good(TickBlock(c), c)
<1> DEFINE d == [c EXCEPT !.time = @ + 1]
           r == [d EXCEPT !.time = 0, !.ports = FcPort]
<1>1. SameCard(d, c) /\ SameRole(d, c)
  BY DEF SameCard, SameRole, Card
<1>2. SameCard(r, c) /\ Coherent(r)
  BY StatesDiffer DEF SameCard, Coherent, Card
<1>3. Good(Quiet(c), c) /\ Good(Quiet(r), c)
  BY <1>2, QuietGood DEF SameCard
<1> HIDE DEF d
<1>4. Good(Tx(d, "CONFIG"), c)
  BY <1>1, SameRoleCoherent, TxGood, GoodTransitive, Types DEF SameCard
<1> QED
  BY <1>3, <1>4 DEF TickBlock, d

LEMMA TickListeningGood ==
  ASSUME NEW c \in Card, Coherent(c), c.state = LISTENING PROVE Good(TickListening(c), c)
<1> DEFINE d == [c EXCEPT !.time = @ + 1]
<1>1. SameCard(d, c) /\ SameRole(d, c)
  BY DEF SameCard, SameRole, Card
<1> HIDE DEF d
<1>2. Coherent(d)
  BY <1>1, SameRoleCoherent
<1>3. Good(Quiet(EnterLearning(c)), c)
  BY StatesDiffer, EnterLearningType, EnterLearningCoherent, QuietGood
<1>4. Good(Quiet(d), c) /\ Good(Tx(d, "CONFIG"), c)
  BY <1>1, <1>2, QuietGood, TxGood, GoodTransitive, Types DEF SameCard
<1> QED
  BY <1>3, <1>4 DEF TickListening, d

LEMMA TickLearningGood ==
  ASSUME NEW c \in Card, c.us \in CpuA, Coherent(c), c.state = LEARNING
  PROVE Good(TickLearning(c), c)
<1> DEFINE sent == Tx(c, "CONFIG")
           d == [sent.card EXCEPT !.time = @ + 1]
<1>1. Good(sent, c) /\ sent = [card |-> sent.card, sent |-> sent.sent]
  BY TxGood, TxIsRecord, Types
<1> HIDE DEF sent
<1>2. SameCard(d, sent.card) /\ SameRole(d, sent.card)
  BY <1>1 DEF Good, Outcome, SameCard, SameRole, Card
<1>3. Coherent(d)
  <2> HIDE DEF d
  <2> QED BY <1>1, <1>2, SameRoleCoherent DEF Good
<1>4. Good(After(sent, d), c)
  BY <1>1, <1>2, <1>3, AfterGood
<1>5. c.root = c.rootBridge /\ c.lc = c.design /\ Topology(c.root, c.design)
  BY StatesDiffer DEF Coherent
<1>6. Good(Quiet(EnterForwarding(c)), c)
  BY <1>5, EnterForwardingType, EnterForwardingCoherent, QuietGood
<1> QED
  BY <1>4, <1>6 DEF TickLearning, sent

LEMMA TickRootGood ==
  ASSUME NEW c \in Card, Coherent(c), c.state = FORWARDING, c.root = c.us
  PROVE Good(TickRoot(c), c)
<1> DEFINE hello == Tx(c, "HELLO")
           d == [hello.card EXCEPT !.time = @ + 1]
           cleared == ClearOld(c, c.lc)
           elected == [Elect(cleared) EXCEPT !.time = 0]
<1>1. Good(hello, c) /\ hello = [card |-> hello.card, sent |-> hello.sent]
  BY TxGood, TxIsRecord, Types
<1> HIDE DEF hello
<1>2. SameCard(d, hello.card) /\ SameRole(d, hello.card)
  BY <1>1 DEF Good, Outcome, SameCard, SameRole, Card
<1>3. Coherent(d)
  <2> HIDE DEF d
  <2> QED BY <1>1, <1>2, SameRoleCoherent DEF Good
<1>4. Good(After(hello, d), c)
  BY <1>1, <1>2, <1>3, AfterGood
<1>5. SameCard(cleared, c) /\ SameRole(cleared, c)
  BY ClearOldType, ClearOldRole DEF Card
<1>6. Coherent(cleared)
  BY <1>5, SameRoleCoherent
<1> HIDE DEF cleared
<1>7. ASSUME Electable(cleared) # {} PROVE Good(Tx(elected, "HELLO"), c)
  <2>1. SameCard(Elect(cleared), c) /\ Coherent(Elect(cleared))
    BY <1>5, <1>6, <1>7, ElectType, ElectCoherent DEF SameCard, SameRole
  <2>2. SameCard(elected, Elect(cleared)) /\ SameRole(elected, Elect(cleared))
    BY <2>1, RetimeType, RetimeRole DEF SameCard
  <2> HIDE DEF elected
  <2>3. SameCard(elected, c) /\ Coherent(elected)
    BY <2>1, <2>2, SameCardTransitive, SameRoleCoherent
  <2> QED BY <2>3, TxGood, GoodTransitive, Types DEF SameCard
<1>8. Good(Tx(EnterBlock(cleared), "LC_CHANGE"), c)
  <2>1. SameCard(EnterBlock(cleared), c) /\ Coherent(EnterBlock(cleared))
    BY <1>5, EnterBlockType, EnterBlockCoherent DEF SameCard
  <2> QED BY <2>1, TxGood, GoodTransitive, Types DEF SameCard
<1> QED
  BY <1>4, <1>7, <1>8 DEF TickRoot, hello, cleared

LEMMA TickForwardingGood ==
  ASSUME NEW c \in Card, Coherent(c), c.state = FORWARDING PROVE Good(TickForwarding(c), c)
<1> DEFINE d == [c EXCEPT !.time = @ + 1]
<1>1. SameCard(d, c) /\ SameRole(d, c)
  BY DEF SameCard, SameRole, Card
<1> HIDE DEF d
<1>2. Good(Quiet(d), c)
  BY <1>1, SameRoleCoherent, QuietGood
<1>3. Good(Quiet(EnterBlock(c)), c)
  BY EnterBlockType, EnterBlockCoherent, QuietGood
<1>4. c.us = c.root => Good(TickRoot(c), c)
  BY TickRootGood
<1> QED
  BY <1>2, <1>3, <1>4 DEF TickForwarding, d

LEMMA TickedGood ==
  ASSUME NEW c \in Card, Coherent(c) PROVE Good(Ticked(c), c)
<1> DEFINE d == [c EXCEPT !.seen = {}]
<1>1. SameCard(d, c) /\ SameRole(d, c)
  BY DEF SameCard, SameRole, Card
<1>2. c.state \in CtpState
  BY DEF Card
<1> HIDE DEF d
<1>3. d \in Card /\ d.us = c.us /\ d.state = c.state /\ Coherent(d)
  BY <1>1, SameRoleCoherent DEF SameCard, SameRole
<1>4. Good(Quiet(c), c)
  BY QuietGood DEF SameCard
<1>5. /\ c.state = BLOCK => Good(TickBlock(d), c)
      /\ c.state = LISTENING => Good(TickListening(d), c)
      /\ c.us \in CpuA /\ c.state = LEARNING => Good(TickLearning(d), c)
      /\ c.state = FORWARDING => Good(TickForwarding(d), c)
  BY <1>1, <1>3, TickBlockGood, TickListeningGood, TickLearningGood, TickForwardingGood,
     GoodTransitive
<1>6. \/ Ticked(c) = Quiet(c)
      \/ c.state = BLOCK /\ Ticked(c) = TickBlock(d)
      \/ c.state = LISTENING /\ Ticked(c) = TickListening(d)
      \/ c.us \in CpuA /\ c.state = LEARNING /\ Ticked(c) = TickLearning(d)
      \/ c.state = FORWARDING /\ Ticked(c) = TickForwarding(d)
  BY <1>2, StatesDiffer DEF Ticked, d, CtpState
<1> QED
  BY <1>4, <1>5, <1>6

-----------------------------------------------------------------------------
(* Start and stop, and the network. *)

LEMMA ZeroedCoherent ==
  ASSUME NEW us \in Slot, NEW p
  PROVE LET c == [Zeroed(us) EXCEPT !.ports = p] IN Coherent(c) /\ c.state = BLOCK
  BY StatesDiffer DEF Zeroed, Coherent, Topology

LEMMA StartedCoherent ==
  ASSUME NEW us \in Slot PROVE Coherent(Started(us)) /\ Started(us).state = BLOCK
<1> DEFINE c == EnterBlock(Zeroed(us))
           d == [c EXCEPT !.ports = StaticPorts(us)]
<1>1. c \in Card /\ Coherent(c) /\ c.state = BLOCK
  BY ZeroedType, EnterBlockType, EnterBlockCoherent DEF SameCard
<1> HIDE DEF c
<1>2. Coherent(d) /\ d.state = BLOCK
  BY <1>1, StatesDiffer DEF Coherent, Card
<1> QED
  BY <1>1, <1>2 DEF Started, c

(* Only a line card announces its departure, and it has just forgotten its *)
(* root FC.                                                                *)
LEMMA ExitedFrames ==
  ASSUME NEW c \in Card, NEW f \in Exited(c).sent PROVE FrameCoherent(f)
<1> DEFINE d == EnterBlock(c)
           e == DecMembers(d)
<1>1. d \in Card /\ d.us = c.us /\ Coherent(d)
  BY EnterBlockType, EnterBlockCoherent DEF SameCard
<1>2. f = FrameOf(e, "FC_CHANGE") /\ d.lc = d.us
  BY DEF Exited, Tx, Quiet
<1>3. IsLineCard(c.us)
  <2>1. ASSUME ~ IsLineCard(c.us) PROVE FALSE
    <3>1. EnterBlock(c).lc = 0
      BY <2>1 DEF EnterBlock, SetPorts, Card
    <3> QED BY <1>1, <1>2, <3>1, CardKinds DEF Card
  <2> QED BY <2>1
<1>4. d.root = 0
  BY <1>3, EnterBlockCoherent
<1> HIDE DEF d
<1>5. SameRole(e, d)
  BY <1>1, DecMembersRole
<1>6. Coherent(e) /\ e.rootBridge = 0
  BY <1>1, <1>4, <1>5, SameRoleCoherent DEF SameRole, Coherent
<1> HIDE DEF e
<1> QED
  BY <1>2, <1>6 DEF FrameOf, FrameCoherent, Coherent

QueueCoherent(q) == \A i \in DOMAIN q : FrameCoherent(q[i])

LEMMA EnqueueCoherent ==
  ASSUME NEW q \in Seq(Frame), QueueCoherent(q), NEW sent \in SUBSET Frame,
         \A f \in sent : FrameCoherent(f)
  PROVE QueueCoherent(Enqueue(q, sent))
<1>1. ASSUME sent # {} PROVE QueueCoherent(Append(q, CHOOSE f \in sent : TRUE))
  <2> DEFINE g == CHOOSE f \in sent : TRUE
  <2>1. g \in sent /\ g \in Frame
    BY <1>1
  <2> HIDE DEF g
  <2> QED BY <2>1 DEF QueueCoherent, g
<1> QED
  BY <1>1 DEF Enqueue

LEMMA TailCoherent ==
  ASSUME NEW q \in Seq(Frame), q # << >>, QueueCoherent(q)
  PROVE FrameCoherent(Head(q)) /\ QueueCoherent(Tail(q))
  BY DEF QueueCoherent

(* What a step leaves in the queues. *)
Queues(q) ==
  /\ q \in [Slot -> Seq(Frame)]
  /\ \A s \in Slot : QueueCoherent(q[s]) /\ (s \notin CpuA => q[s] = << >>)

LEMMA DeliverCoherent ==
  ASSUME NEW from, NEW queues, Queues(queues), NEW sent \in SUBSET Frame,
         \A f \in sent : FrameCoherent(f), Deliver(from, queues, sent)
  PROVE Queues(inbox')
<1>1. PICK reached \in SUBSET Listeners(from) :
        inbox' = [s \in Slot |-> IF s \in reached THEN Enqueue(queues[s], sent)
                                 ELSE queues[s]]
  BY DEF Deliver
<1>2. inbox' \in [Slot -> Seq(Frame)]
  BY DeliverType DEF Queues
<1>3. ASSUME NEW s \in Slot
      PROVE QueueCoherent(inbox'[s]) /\ (s \notin CpuA => inbox'[s] = << >>)
  <2>1. queues[s] \in Seq(Frame) /\ QueueCoherent(queues[s])
    BY DEF Queues
  <2>2. QueueCoherent(Enqueue(queues[s], sent))
    BY <2>1, EnqueueCoherent
  <2>3. s \in reached => s \in CpuA
    BY DEF Listeners
  <2> QED BY <1>1, <2>1, <2>2, <2>3 DEF Queues
<1> QED
  BY <1>2, <1>3 DEF Queues

LEMMA RoleInvQueues ==
  TypeOK => (RoleInv <=> Queues(inbox) /\ \A s \in Slot : /\ Coherent(card[s])
                                                          /\ s \notin CpuA => card[s].state = BLOCK)
  BY DEF TypeOK, RoleInv, Queues, QueueCoherent

LEMMA NextRole == TypeOK /\ TypeOK' /\ RoleInv /\ [Next]_vars => RoleInv'
<1> SUFFICES ASSUME TypeOK, TypeOK', RoleInv, [Next]_vars PROVE RoleInv'
  OBVIOUS
<1> DEFINE Own(c, s) == Coherent(c) /\ (s \notin CpuA => c.state = BLOCK)
<1>1. Queues(inbox) /\ \A s \in Slot : card[s] \in Card /\ card[s].us = s /\ Own(card[s], s)
  BY RoleInvQueues DEF TypeOK
<1>2. ASSUME NEW s \in Slot, NEW c, Own(c, s), card' = [card EXCEPT ![s] = c],
             Queues(inbox')
      PROVE RoleInv'
  <2>1. \A t \in Slot : Own(card'[t], t)
    BY <1>1, <1>2 DEF TypeOK
  <2> HIDE DEF Own
  <2>2. TypeOK' => (RoleInv' <=> Queues(inbox)' /\ \A t \in Slot : Own(card'[t], t))
    BY DEF TypeOK, RoleInv, Queues, QueueCoherent, Own
  <2> QED BY <1>2, <2>1, <2>2
<1>3. ASSUME NEW s \in Slot, Tick(s) PROVE RoleInv'
  <2> DEFINE m == Ticked(card[s])
  <2>1. Good(m, card[s])
    BY <1>1, TickedGood
  <2>2. s \notin CpuA => m.card = card[s]
    BY <1>1 DEF Ticked, Quiet
  <2> HIDE DEF m
  <2>3. Own(m.card, s)
    BY <1>1, <2>1, <2>2 DEF Good
  <2>4. card' = [card EXCEPT ![s] = m.card] /\ Deliver(s, inbox, m.sent)
    BY <1>3 DEF Tick, Step, m
  <2>5. Queues(inbox')
    BY <1>1, <2>1, <2>4, DeliverCoherent DEF Good, Outcome
  <2> QED BY <1>2, <2>3, <2>4, <2>5
<1>4. ASSUME NEW s \in Slot, Receive(s) PROVE RoleInv'
  <2> DEFINE m == Received(card[s], Head(inbox[s]))
  <2>1. PICK again \in {FALSE, Looping} :
          Step(s, m, IF again THEN inbox ELSE [inbox EXCEPT ![s] = Tail(@)])
    BY <1>4 DEF Receive
  <2> DEFINE queues == IF again THEN inbox ELSE [inbox EXCEPT ![s] = Tail(@)]
  <2>2. inbox[s] \in Seq(Frame) /\ inbox[s] # << >> /\ s \in CpuA
    BY <1>1, <1>4 DEF Receive, Queues
  <2>3. FrameCoherent(Head(inbox[s])) /\ QueueCoherent(Tail(inbox[s]))
        /\ Head(inbox[s]) \in Frame /\ Tail(inbox[s]) \in Seq(Frame)
    BY <1>1, <2>2, TailCoherent DEF Queues
  <2>4. Good(m, card[s])
    BY <1>1, <2>2, <2>3, ReceivedGood
  <2>5. Queues(queues)
    BY <1>1, <2>2, <2>3 DEF Queues
  <2> HIDE DEF m, queues
  <2>6. card' = [card EXCEPT ![s] = m.card] /\ Deliver(s, queues, m.sent)
    BY <2>1 DEF Step, queues
  <2>7. Queues(inbox')
    BY <2>4, <2>5, <2>6, DeliverCoherent DEF Good, Outcome
  <2> QED BY <1>2, <2>2, <2>4, <2>6, <2>7 DEF Good
<1>5. ASSUME NEW s \in Slot, Start(s) PROVE RoleInv'
  <2>1. Own(Started(s), s)
    BY StartedCoherent
  <2> HIDE DEF Own
  <2> QED BY <1>1, <1>2, <1>5, <2>1 DEF Start
<1>6. ASSUME NEW s \in Slot, NEW p, Depart(s, p), Queues(inbox') PROVE RoleInv'
  <2>1. Own([Zeroed(s) EXCEPT !.ports = p], s)
    BY ZeroedCoherent
  <2> HIDE DEF Own
  <2> QED BY <1>2, <1>6, <2>1 DEF Depart
<1>7. \A s \in Slot : Queues([inbox EXCEPT ![s] = << >>])
  <2>1. QueueCoherent(<< >>) /\ << >> \in Seq(Frame)
    BY DEF QueueCoherent
  <2> QED BY <1>1, <2>1 DEF Queues
<1>8. ASSUME NEW s \in Slot, SignalExit(s) PROVE RoleInv'
  <2>1. Exited(card[s]).sent \in SUBSET Frame
    BY <1>1, ExitedType DEF Outcome
  <2>2. \A f \in Exited(card[s]).sent : FrameCoherent(f)
    BY <1>1, ExitedFrames
  <2>3. Queues(inbox')
    BY <1>7, <1>8, <2>1, <2>2, DeliverCoherent DEF SignalExit
  <2> QED BY <1>6, <1>8, <2>3 DEF SignalExit
<1>9. ASSUME NEW s \in Slot, Crash(s) PROVE RoleInv'
  BY <1>6, <1>7, <1>9 DEF Crash
<1>10. CASE UNCHANGED vars
  BY <1>10 DEF vars, RoleInv
<1> QED
  BY <1>3, <1>4, <1>5, <1>8, <1>9, <1>10 DEF Next

(* Every reachable state satisfies the inductive invariant. *)
THEOREM RoleInvariant == Spec => []RoleInv
<1>1. Init => RoleInv
  <2>1. \A s \in Slot : Coherent(Zeroed(s)) /\ Zeroed(s).state = BLOCK
    BY StatesDiffer DEF Zeroed, Coherent, Topology
  <2> SUFFICES ASSUME Init, NEW s \in Slot
               PROVE /\ Coherent(card[s])
                     /\ \A i \in DOMAIN inbox[s] : FrameCoherent(inbox[s][i])
                     /\ card[s].state = BLOCK /\ inbox[s] = << >>
    BY DEF RoleInv
  <2>2. card[s] = Zeroed(s) /\ inbox[s] = << >>
    BY DEF Init
  <2>3. DOMAIN inbox[s] = {}
    BY <2>2
  <2> QED BY <2>1, <2>2, <2>3
<1> QED
  BY <1>1, NextRole, Typing, PTL DEF Spec

(* What the inductive invariant says of the roles and the ports. *)
LEMMA RoleFacts == TypeOK /\ RoleInv => RecordsAgree /\ RolesMatchCards /\ PortsMatchRole
<1>1. TypeOK /\ RoleInv => RecordsAgree
  <2> SUFFICES ASSUME TypeOK, RoleInv, NEW s \in Slot
               PROVE /\ card[s].root = card[s].rootBridge
                     /\ \/ card[s].lc = card[s].design
                        \/ ~ IsLineCard(s) /\ card[s].root = s /\ card[s].lc = card[s].design - 1
    BY DEF RecordsAgree
  <2>1. Coherent(card[s]) /\ card[s].us = s
    BY DEF RoleInv, TypeOK
  <2> QED BY <2>1, CardKinds DEF Coherent, Topology
<1>2. RoleInv => RolesMatchCards
  BY DEF RoleInv, RolesMatchCards, Coherent, FrameCoherent
<1>3. TypeOK /\ RoleInv => PortsMatchRole
  BY DEF TypeOK, RoleInv, PortsMatchRole, Coherent
<1> QED
  BY <1>1, <1>2, <1>3

(* The two records of the root FC and of the designated LC never disagree, *)
(* but for the port number a root FC has just elected.                     *)
THEOREM RecordsAgreeAlways == Spec => []RecordsAgree
  BY RoleFacts, RoleInvariant, Typing, PTL

(* No card or frame names a line card as root or a fabric card as          *)
(* designated LC.                                                          *)
THEOREM RolesMatchCardsAlways == Spec => []RolesMatchCards
  BY RoleFacts, RoleInvariant, Typing, PTL

(* A forwarding card opens exactly the ports of the role it has on record. *)
THEOREM PortsMatchRoleAlways == Spec => []PortsMatchRole
  BY RoleFacts, RoleInvariant, Typing, PTL
=============================================================================
