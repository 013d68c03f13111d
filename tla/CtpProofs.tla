------------------------------ MODULE CtpProofs ------------------------------
(***************************************************************************)
(* Proofs about Ctp.tla, for every chassis, configuration and network.     *)
(* First what each operator of CtpCard makes of a card's record, then the  *)
(* theorems about the network.                                             *)
(***************************************************************************)
EXTENDS Ctp, TLAPS, WellFoundedInduction

-----------------------------------------------------------------------------
(* Slots, identifiers and backplane ports. *)

LEMMA SlotFacts ==
  ASSUME NEW s \in Slot
  PROVE s \in SlotId /\ s \in 1..48 /\ s \in 0..48 /\ s \in Int
  BY SlotAssumption DEF SlotId

LEMMA SlotIdFacts ==
  ASSUME NEW s \in SlotId PROVE s \in 0..48 /\ s \in Int
  BY SlotAssumption DEF SlotId

LEMMA PortToFcRange ==
  ASSUME NEW id \in 33..48 PROVE PortToFc(id) \in LcPort
  BY DEF PortToFc, LcPort

LEMMA PortToLcRange ==
  ASSUME NEW us \in Slot, NEW id \in 1..32 PROVE PortToLc(us, id) \in FcPort
  BY DEF PortToLc, FcPort

LEMMA RolePortsRange ==
  ASSUME NEW us \in Slot, NEW root, NEW lc PROVE RolePorts(us, root, lc) \in SUBSET FcPort
  BY PortToFcRange, PortToLcRange DEF RolePorts, LcPort, FcPort

-----------------------------------------------------------------------------
(* What the transitions leave is a card's record, of the same slot. *)

SameCard(d, c) == d \in Card /\ d.us = c.us

Outcome(m, c) == SameCard(m.card, c) /\ m.sent \in SUBSET Frame

LEMMA SetPortsType ==
  ASSUME NEW c \in Card, NEW p \in SUBSET FcPort
  PROVE SameCard(SetPorts(c, p), c)
  BY DEF SetPorts, Card, SameCard

LEMMA OwnTableType ==
  ASSUME NEW us \in Slot PROVE OwnTable(us) \in Table
  BY TimerAssumption DEF OwnTable, Table, Age

LEMMA ResetType ==
  ASSUME NEW c \in Card, NEW age \in Table, NEW state \in CtpState, NEW root \in SlotId,
         NEW lc \in 0..48, NEW design \in SlotId
  PROVE SameCard([c EXCEPT !.state = state, !.time = 0, !.age = age, !.root = root,
                           !.rootBridge = root, !.lc = lc, !.design = design], c)
  BY DEF Card, SameCard

LEMMA EnterBlockType ==
  ASSUME NEW c \in Card PROVE SameCard(EnterBlock(c), c)
<1> DEFINE lineCard == IsLineCard(c.us)
           root     == IF lineCard THEN 0 ELSE c.us
           lc       == IF lineCard THEN c.us ELSE 0
           cleared  == [c EXCEPT !.state = BLOCK, !.time = 0, !.age = OwnTable(c.us),
                                 !.root = root, !.rootBridge = root,
                                 !.lc = lc, !.design = lc]
<1>1. c.us \in Slot /\ OwnTable(c.us) \in Table /\ BLOCK \in CtpState
  BY OwnTableType DEF Card, CtpState
<1>2. root \in SlotId /\ lc \in SlotId /\ lc \in 0..48
  <2>1. 0 \in SlotId /\ 0 \in 0..48
    BY DEF SlotId
  <2> QED BY <1>1, <2>1, SlotFacts
<1>3. SameCard(cleared, c)
  <2> HIDE DEF root, lc
  <2> QED BY <1>1, <1>2, ResetType
<1>4. (IF lineCard THEN {} ELSE FcPort) \in SUBSET FcPort
  OBVIOUS
<1>5. SameCard(SetPorts(cleared, IF lineCard THEN {} ELSE FcPort), cleared)
  <2> HIDE DEF cleared
  <2> QED BY <1>3, <1>4, SetPortsType DEF SameCard
<1> QED
  BY <1>3, <1>5 DEF EnterBlock, SameCard

LEMMA RestateType ==
  ASSUME NEW c \in Card, NEW state \in CtpState
  PROVE SameCard([c EXCEPT !.state = state, !.time = 0], c)
  BY DEF Card, SameCard

LEMMA EnterListeningType ==
  ASSUME NEW c \in Card PROVE SameCard(EnterListening(c), c)
<1> DEFINE d == [c EXCEPT !.state = LISTENING, !.time = 0]
<1>1. SameCard(d, c)
  BY RestateType DEF CtpState
<1>2. SameCard(SetPorts(d, {}), d)
  BY <1>1, SetPortsType DEF SameCard
<1> QED
  BY <1>1, <1>2 DEF EnterListening, SameCard

LEMMA EnterLearningType ==
  ASSUME NEW c \in Card PROVE SameCard(EnterLearning(c), c)
<1> DEFINE d == [c EXCEPT !.state = LEARNING, !.time = 0]
           p == c.ports \cup {PortToFc(c.root)}
<1>1. SameCard(d, c)
  BY RestateType DEF CtpState
<1>2. ASSUME c.root \in 33..48 PROVE SameCard(SetPorts(d, p), d)
  <2>1. p \in SUBSET FcPort
    BY <1>2, PortToFcRange DEF LcPort, FcPort, Card
  <2> HIDE DEF d, p
  <2> QED BY <1>1, <2>1, SetPortsType DEF SameCard
<1> QED
  BY <1>1, <1>2 DEF EnterLearning, SameCard

LEMMA EnterForwardingType ==
  ASSUME NEW c \in Card PROVE SameCard(EnterForwarding(c), c)
<1> DEFINE d == [c EXCEPT !.state = FORWARDING, !.time = 0]
           p == RolePorts(c.us, c.root, c.lc)
<1>1. SameCard(d, c)
  BY RestateType DEF CtpState
<1>2. p \in SUBSET FcPort
  BY RolePortsRange DEF Card
<1>3. SameCard(SetPorts(d, p), d)
  <2> HIDE DEF d, p
  <2> QED BY <1>1, <1>2, SetPortsType DEF SameCard
<1> QED
  BY <1>1, <1>3 DEF EnterForwarding, SameCard

LEMMA RetimeType ==
  ASSUME NEW c \in Card, NEW t \in Nat PROVE SameCard([c EXCEPT !.time = t], c)
  BY DEF Card, SameCard

LEMMA ReageType ==
  ASSUME NEW c \in Card, NEW age \in Table PROVE SameCard([c EXCEPT !.age = age], c)
  BY DEF Card, SameCard

LEMMA UpdateMembersType ==
  ASSUME NEW c \in Card, NEW f \in Frame PROVE SameCard(UpdateMembers(c, f), c)
<1> DEFINE adopted == AdoptedBy(c, f)
           age == [s \in Slot |-> IF adopted[s] \/ adopted[s - 1]
                                    THEN f.age[s] ELSE c.age[s]]
<1>1. c.age \in Table /\ f.age \in Table
  BY DEF Card, Frame
<1>2. age \in Table
  BY <1>1 DEF Table
<1> HIDE DEF age
<1>3. SameCard([c EXCEPT !.age = age], c)
  BY <1>2, ReageType
<1> QED
  BY <1>3 DEF UpdateMembers, age

LEMMA DecMembersType ==
  ASSUME NEW c \in Card PROVE SameCard(DecMembers(c), c)
<1> DEFINE age == [s \in Slot |-> IF s = c.us THEN AgeFull
                                  ELSE IF c.age[s] >= 1 THEN c.age[s] - 1
                                  ELSE c.age[s]]
<1>1. c.age \in Table
  BY DEF Card
<1>2. \A s \in Slot : c.age[s] \in 0..AgeFull
  BY <1>1 DEF Table, Age
<1>3. \A s \in Slot : c.age[s] >= 1 => c.age[s] - 1 \in 0..AgeFull
  BY <1>2, TimerAssumption
<1>4. age \in Table
  BY <1>2, <1>3, TimerAssumption DEF Table, Age
<1> HIDE DEF age
<1>5. SameCard([c EXCEPT !.age = age], c)
  BY <1>4, ReageType
<1> QED
  BY <1>5 DEF DecMembers, age

LEMMA TxType ==
  ASSUME NEW c \in Card, NEW type \in BpduType PROVE Outcome(Tx(c, type), c)
<1> DEFINE d == DecMembers(c)
<1>1. SameCard(d, c)
  BY DecMembersType
<1> HIDE DEF d
<1>2. FrameOf(d, type) \in Frame
  BY <1>1 DEF FrameOf, Frame, Card, SameCard
<1> QED
  BY <1>1, <1>2 DEF Tx, Outcome, d

LEMMA QuietType ==
  ASSUME NEW c \in Card, NEW d, SameCard(d, c) PROVE Outcome(Quiet(d), c)
  BY DEF Quiet, Outcome

LEMMA SameCardTransitive ==
  ASSUME NEW c, NEW d, NEW e, SameCard(d, c), SameCard(e, d) PROVE SameCard(e, c)
  BY DEF SameCard

LEMMA OutcomeTransitive ==
  ASSUME NEW c, NEW d, NEW m, SameCard(d, c), Outcome(m, d) PROVE Outcome(m, c)
  BY DEF SameCard, Outcome

LEMMA AfterType ==
  ASSUME NEW c, NEW m, NEW d, Outcome(m, c), SameCard(d, m.card),
         m = [card |-> m.card, sent |-> m.sent]
  PROVE Outcome(After(m, d), c)
  BY DEF After, Outcome, SameCard

LEMMA TxIsRecord ==
  ASSUME NEW c, NEW type
  PROVE Tx(c, type) = [card |-> Tx(c, type).card, sent |-> Tx(c, type).sent]
  BY DEF Tx

-----------------------------------------------------------------------------
(* Learning keeps the type. *)

LEMMA TakeRootType ==
  ASSUME NEW c \in Card, NEW f \in Frame PROVE SameCard(TakeRoot(c, f), c)
  BY DEF TakeRoot, SameCard, Card, Frame

LEMMA TakeDesignatedType ==
  ASSUME NEW c \in Card, NEW f \in Frame PROVE SameCard(TakeDesignated(c, f), c)
<1>1. f.dbridge \in SlotId /\ f.dbridge \in 0..48
  BY SlotIdFacts DEF Frame
<1> QED
  BY <1>1 DEF TakeDesignated, SameCard, Card

LEMMA UpdateLcRootType ==
  ASSUME NEW c \in Card, NEW f \in Frame PROVE SameCard(UpdateLcRoot(c, f), c)
<1> DEFINE rooted == IF Vouches(f, f.root) /\ (f.root < c.root \/ c.root = 0)
                       THEN TakeRoot(c, f) ELSE c
           designated ==
             IF /\ Vouches(f, f.dbridge)
                /\ f.type = "HELLO" \/ f.dbridge < c.lc \/ c.lc = 0
               THEN TakeDesignated(rooted, f) ELSE rooted
<1>1. SameCard(rooted, c)
  BY TakeRootType DEF SameCard
<1> HIDE DEF rooted
<1>2. SameCard(designated, rooted)
  BY <1>1, TakeDesignatedType DEF SameCard
<1> HIDE DEF designated
<1>3. SameCard(UpdateMembers(designated, f), designated)
  BY <1>2, UpdateMembersType DEF SameCard
<1> QED
  BY <1>1, <1>2, <1>3 DEF UpdateLcRoot, rooted, designated, SameCard

LEMMA UpdateFcDesignatedType ==
  ASSUME NEW c \in Card, NEW f \in Frame PROVE SameCard(UpdateFcDesignated(c, f), c)
<1> DEFINE rooted == IF Vouches(f, f.root) /\ (f.fwd \/ f.root < c.root \/ c.root = 0)
                       THEN TakeRoot(c, f) ELSE c
           designated == IF Vouches(f, f.dbridge) /\ (f.dbridge < c.lc \/ c.lc = 0)
                           THEN TakeDesignated(rooted, f) ELSE rooted
<1>1. SameCard(rooted, c)
  BY TakeRootType DEF SameCard
<1> HIDE DEF rooted
<1>2. SameCard(designated, rooted)
  BY <1>1, TakeDesignatedType DEF SameCard
<1> HIDE DEF designated
<1>3. SameCard(UpdateMembers(designated, f), designated)
  BY <1>2, UpdateMembersType DEF SameCard
<1> QED
  BY <1>1, <1>2, <1>3 DEF UpdateFcDesignated, rooted, designated, SameCard

LEMMA SyncToHelloType ==
  ASSUME NEW c \in Card, NEW f \in Frame PROVE SameCard(SyncToHello(c, f), c)
<1>1. SameCard(TakeDesignated(c, f), c)
  BY TakeDesignatedType
<1>2. SameCard(EnterForwarding(TakeDesignated(c, f)), TakeDesignated(c, f))
  BY <1>1, EnterForwardingType DEF SameCard
<1> QED
  BY <1>1, <1>2 DEF SyncToHello, SameCard

LEMMA ClearOldType ==
  ASSUME NEW c \in Card, NEW old \in Int PROVE SameCard(ClearOld(c, old), c)
<1> DEFINE age == [s \in Slot |-> IF s = old + 1 THEN 0 ELSE c.age[s]]
<1>1. c.age \in Table /\ 0 \in Age
  BY TimerAssumption DEF Card, Age
<1>2. age \in Table
  BY <1>1 DEF Table
<1> HIDE DEF age
<1>3. SameCard([c EXCEPT !.age = age], c)
  BY <1>2, ReageType
<1> QED
  BY <1>3 DEF ClearOld, age

(* The line card elected exists: CHOOSE has a lowest one to choose. *)
LEMMA LowestNatural ==
  ASSUME NEW T \in SUBSET Nat, T # {} PROVE \E x \in T : \A y \in T : x <= y
<1> DEFINE R == OpToRel(<, Nat)
<1>1. \A x, y \in Nat : <<x, y>> \in R <=> x < y
  BY DEF OpToRel
<1>2. IsWellFoundedOn(R, Nat)
  BY NatLessThanWellFounded
<1> HIDE DEF R
<1>3. PICK x \in T : \A y \in T : ~ (<<y, x>> \in R)
  BY <1>2, WFMin
<1>4. ASSUME NEW y \in T PROVE x <= y
  <2>1. x \in Nat /\ y \in Nat
    OBVIOUS
  <2>2. ~ (y < x)
    BY <1>1, <1>3, <2>1
  <2> QED BY <2>1, <2>2
<1> QED
  BY <1>4

LEMMA ElectType ==
  ASSUME NEW c \in Card, Electable(c) # {}
  PROVE /\ SameCard(Elect(c), c)
        /\ Elect(c).design \in LineCard /\ Elect(c).lc = Elect(c).design - 1
<1> DEFINE s == CHOOSE x \in Electable(c) : \A y \in Electable(c) : x <= y
<1>1. Electable(c) \in SUBSET Nat
  BY SlotFacts DEF Electable, LineCard
<1>2. s \in Electable(c)
  BY <1>1, LowestNatural
<1> HIDE DEF s
<1>3. s \in LineCard /\ s \in SlotId /\ s - 1 \in 0..48
  <2>1. s \in LineCard /\ s \in Slot
    BY <1>2 DEF Electable, LineCard
  <2>2. s \in 1..48
    BY <2>1, SlotFacts
  <2> QED BY <2>1, <2>2, SlotFacts
<1>4. SameCard([c EXCEPT !.lc = s - 1, !.design = s], c)
  BY <1>3 DEF SameCard, Card
<1>5. Elect(c) = [c EXCEPT !.lc = s - 1, !.design = s]
  BY DEF Elect, s
<1>6. Elect(c).design = s /\ Elect(c).lc = s - 1
  BY <1>5 DEF Card
<1> QED
  BY <1>3, <1>4, <1>5, <1>6

-----------------------------------------------------------------------------
(* So do the receive handlers, the ticks, the start and the exit. *)

LEMMA Types == \A t \in {"CONFIG", "HELLO", "REPLY", "LC_CHANGE", "FC_CHANGE"} : t \in BpduType
  BY DEF BpduType

LEMMA RxFromFcType ==
  ASSUME NEW c \in Card, NEW f \in Frame PROVE Outcome(RxFromFc(c, f), c)
<1> DEFINE heard == UpdateMembers(c, f)
           timed == [heard EXCEPT !.time = 0]
           learnt == UpdateLcRoot(EnterListening(c), f)
           reply == Tx(learnt, "REPLY")
           echo == Tx(heard, "LC_CHANGE")
<1>1. SameCard(heard, c)
  BY UpdateMembersType
<1>2. SameCard(timed, c)
  <2> HIDE DEF heard
  <2> QED BY <1>1, RetimeType DEF SameCard
<1>3. SameCard(learnt, c)
  <2>1. SameCard(EnterListening(c), c)
    BY EnterListeningType
  <2>2. SameCard(learnt, EnterListening(c))
    BY <2>1, UpdateLcRootType DEF SameCard
  <2> QED BY <2>1, <2>2, SameCardTransitive
<1> HIDE DEF heard, timed, learnt
<1>4. Outcome(After(reply, UpdateMembers(reply.card, f)), c)
  <2>1. Outcome(reply, c)
    BY <1>3, TxType, OutcomeTransitive, Types DEF SameCard
  <2>2. SameCard(UpdateMembers(reply.card, f), reply.card)
    BY <2>1, UpdateMembersType DEF Outcome, SameCard
  <2>3. reply = [card |-> reply.card, sent |-> reply.sent]
    BY TxIsRecord
  <2> HIDE DEF reply
  <2> QED BY <2>1, <2>2, <2>3, AfterType
<1>5. Outcome(Quiet(UpdateMembers(IF Differs(c, f) THEN UpdateLcRoot(c, f) ELSE c, f)), c)
  <2> DEFINE d == IF Differs(c, f) THEN UpdateLcRoot(c, f) ELSE c
  <2>1. SameCard(d, c)
    BY UpdateLcRootType DEF SameCard
  <2> HIDE DEF d
  <2>2. SameCard(UpdateMembers(d, f), d)
    BY <2>1, UpdateMembersType DEF SameCard
  <2>3. SameCard(UpdateMembers(d, f), c)
    BY <2>1, <2>2, SameCardTransitive
  <2> QED BY <2>3, QuietType DEF d
<1>6. Outcome(After(echo, EnterBlock(echo.card)), c)
  <2>1. Outcome(echo, c)
    BY <1>1, TxType, OutcomeTransitive, Types DEF SameCard
  <2>2. SameCard(EnterBlock(echo.card), echo.card)
    BY <2>1, EnterBlockType DEF Outcome, SameCard
  <2>3. echo = [card |-> echo.card, sent |-> echo.sent]
    BY TxIsRecord
  <2> HIDE DEF echo
  <2> QED BY <2>1, <2>2, <2>3, AfterType
<1>7. Outcome(Quiet(SyncToHello(timed, f)), c)
  <2>1. SameCard(SyncToHello(timed, f), timed)
    BY <1>2, SyncToHelloType DEF SameCard
  <2> QED BY <1>2, <2>1, SameCardTransitive, QuietType
<1>8. Outcome(Tx(timed, "HELLO"), c) /\ Outcome(Tx(timed, "REPLY"), c)
  BY <1>2, TxType, OutcomeTransitive, Types DEF SameCard
<1>9. Outcome(Tx(heard, "REPLY"), c) /\ Outcome(Quiet(heard), c)
  BY <1>1, TxType, OutcomeTransitive, QuietType, Types DEF SameCard
<1> HIDE DEF reply, echo
<1>10. c.state \in CtpState
  BY DEF Card
<1>11. CASE c.state = BLOCK
  <2>1. RxFromFc(c, f) = After(reply, UpdateMembers(reply.card, f))
    BY <1>11 DEF RxFromFc, learnt, reply, BLOCK, LISTENING, LEARNING, FORWARDING
  <2> QED BY <1>4, <2>1
<1>12. CASE c.state \in {LISTENING, LEARNING}
  BY <1>5, <1>12 DEF RxFromFc, BLOCK, LISTENING, LEARNING, FORWARDING
<1>13. CASE c.state = FORWARDING
  BY <1>6, <1>7, <1>8, <1>9, <1>13
     DEF RxFromFc, heard, timed, learnt, reply, echo, BLOCK, LISTENING, LEARNING, FORWARDING
<1> QED
  BY <1>10, <1>11, <1>12, <1>13 DEF CtpState

LEMMA RxHelloFromLcType ==
  ASSUME NEW c \in Card, NEW f \in Frame PROVE Outcome(RxHelloFromLc(c, f), c)
<1> DEFINE synced == IF f.dbridge # c.design /\ f.root = c.rootBridge
                       THEN SyncToHello(c, f) ELSE c
<1>1. SameCard(synced, c)
  BY SyncToHelloType DEF SameCard
<1> HIDE DEF synced
<1>2. Outcome(Tx(synced, "HELLO"), c) /\ Outcome(Quiet(synced), c)
  BY <1>1, TxType, OutcomeTransitive, QuietType, Types DEF SameCard
<1> QED
  BY <1>2 DEF RxHelloFromLc, synced

LEMMA RxFcChangeType ==
  ASSUME NEW c \in Card, NEW f \in Frame PROVE Outcome(RxFcChange(c, f), c)
<1> DEFINE cleared == ClearOld(c, f.dbridge)
<1>1. SameCard(cleared, c)
  BY ClearOldType, SlotIdFacts DEF Frame
<1> HIDE DEF cleared
<1>2. Outcome(Quiet(c), c)
  BY QuietType DEF SameCard
<1>3. ASSUME Electable(cleared) # {} PROVE Outcome(Tx(Elect(cleared), "HELLO"), c)
  <2>1. SameCard(Elect(cleared), c)
    BY <1>1, <1>3, ElectType DEF SameCard
  <2> QED BY <2>1, TxType, OutcomeTransitive, Types DEF SameCard
<1>4. Outcome(Quiet(EnterBlock(cleared)), c)
  <2>1. SameCard(EnterBlock(cleared), c)
    BY <1>1, EnterBlockType DEF SameCard
  <2> QED BY <2>1, QuietType
<1> QED
  BY <1>2, <1>3, <1>4 DEF RxFcChange, cleared

LEMMA RxFromLcType ==
  ASSUME NEW c \in Card, NEW f \in Frame PROVE Outcome(RxFromLc(c, f), c)
<1> DEFINE heard == UpdateMembers(c, f)
           timed == [heard EXCEPT !.time = 0]
           learnt == UpdateFcDesignated(EnterListening(c), f)
<1>1. SameCard(heard, c)
  BY UpdateMembersType
<1>2. SameCard(timed, c)
  <2> HIDE DEF heard
  <2> QED BY <1>1, RetimeType DEF SameCard
<1>3. SameCard(learnt, c)
  <2>1. SameCard(EnterListening(c), c)
    BY EnterListeningType
  <2>2. SameCard(learnt, EnterListening(c))
    BY <2>1, UpdateFcDesignatedType DEF SameCard
  <2> QED BY <2>1, <2>2, SameCardTransitive
<1> HIDE DEF heard, timed, learnt
<1>4. Outcome(Quiet(UpdateMembers(learnt, f)), c)
  <2>1. SameCard(UpdateMembers(learnt, f), learnt)
    BY <1>3, UpdateMembersType DEF SameCard
  <2> QED BY <1>3, <2>1, SameCardTransitive, QuietType
<1>5. Outcome(Quiet(UpdateMembers(IF Differs(c, f) THEN UpdateFcDesignated(c, f) ELSE c, f)), c)
  <2> DEFINE d == IF Differs(c, f) THEN UpdateFcDesignated(c, f) ELSE c
  <2>1. SameCard(d, c)
    BY UpdateFcDesignatedType DEF SameCard
  <2> HIDE DEF d
  <2>2. SameCard(UpdateMembers(d, f), d)
    BY <2>1, UpdateMembersType DEF SameCard
  <2>3. SameCard(UpdateMembers(d, f), c)
    BY <2>1, <2>2, SameCardTransitive
  <2> QED BY <2>3, QuietType DEF d
<1>6. Outcome(RxHelloFromLc(timed, f), c)
  BY <1>2, RxHelloFromLcType, OutcomeTransitive DEF SameCard
<1>7. Outcome(Tx(heard, "REPLY"), c) /\ Outcome(Quiet(heard), c)
  BY <1>1, TxType, OutcomeTransitive, QuietType, Types DEF SameCard
<1>8. Outcome(RxFcChange(heard, f), c)
  BY <1>1, RxFcChangeType, OutcomeTransitive DEF SameCard
<1>9. Outcome(Quiet(EnterBlock(heard)), c)
  <2>1. SameCard(EnterBlock(heard), heard)
    BY <1>1, EnterBlockType DEF SameCard
  <2> QED BY <1>1, <2>1, SameCardTransitive, QuietType
<1>10. c.state \in CtpState
  BY DEF Card
<1>11. CASE c.state = BLOCK
  <2>1. RxFromLc(c, f) = Quiet(UpdateMembers(learnt, f))
    BY <1>11 DEF RxFromLc, learnt, BLOCK, LISTENING, LEARNING, FORWARDING
  <2> QED BY <1>4, <2>1
<1>12. CASE c.state \in {LISTENING, LEARNING}
  BY <1>5, <1>12 DEF RxFromLc, BLOCK, LISTENING, LEARNING, FORWARDING
<1>13. CASE c.state = FORWARDING
  BY <1>6, <1>7, <1>8, <1>9, <1>13
     DEF RxFromLc, heard, timed, BLOCK, LISTENING, LEARNING, FORWARDING
<1> QED
  BY <1>10, <1>11, <1>12, <1>13 DEF CtpState

LEMMA ReceivedType ==
  ASSUME NEW c \in Card, NEW f \in Frame PROVE Outcome(Received(c, f), c)
<1> DEFINE d == [c EXCEPT !.seen = @ \cup {<<f.slot, f.type>>}]
<1>1. SameCard(d, c)
  BY DEF SameCard, Card, Frame
<1> HIDE DEF d
<1>2. Outcome(Quiet(c), c) /\ Outcome(Quiet(d), c)
  BY <1>1, QuietType DEF SameCard
<1>3. Outcome(RxFromFc(d, f), c) /\ Outcome(RxFromLc(d, f), c)
  BY <1>1, RxFromFcType, RxFromLcType, OutcomeTransitive DEF SameCard
<1> QED
  BY <1>2, <1>3 DEF Received, d

LEMMA TickBlockType ==
  ASSUME NEW c \in Card PROVE Outcome(TickBlock(c), c)
<1> DEFINE d == [c EXCEPT !.time = @ + 1]
           r == [d EXCEPT !.time = 0, !.ports = FcPort]
<1>1. SameCard(d, c)
  BY DEF SameCard, Card
<1>2. SameCard(r, c)
  BY DEF SameCard, Card
<1>3. Outcome(Quiet(c), c) /\ Outcome(Quiet(r), c)
  BY <1>2, QuietType DEF SameCard
<1> HIDE DEF d
<1>4. Outcome(Tx(d, "CONFIG"), c)
  BY <1>1, TxType, OutcomeTransitive, Types DEF SameCard
<1> QED
  BY <1>3, <1>4 DEF TickBlock, d

LEMMA TickListeningType ==
  ASSUME NEW c \in Card PROVE Outcome(TickListening(c), c)
<1> DEFINE d == [c EXCEPT !.time = @ + 1]
<1>1. SameCard(d, c)
  BY DEF SameCard, Card
<1> HIDE DEF d
<1>2. Outcome(Quiet(EnterLearning(c)), c) /\ Outcome(Quiet(d), c)
  BY <1>1, EnterLearningType, QuietType
<1>3. Outcome(Tx(d, "CONFIG"), c)
  BY <1>1, TxType, OutcomeTransitive, Types DEF SameCard
<1> QED
  BY <1>2, <1>3 DEF TickListening, d

LEMMA TickLearningType ==
  ASSUME NEW c \in Card PROVE Outcome(TickLearning(c), c)
<1> DEFINE sent == Tx(c, "CONFIG")
           d == [sent.card EXCEPT !.time = @ + 1]
<1>1. Outcome(sent, c) /\ sent = [card |-> sent.card, sent |-> sent.sent]
  BY TxType, TxIsRecord, Types
<1> HIDE DEF sent
<1>2. SameCard(d, sent.card)
  BY <1>1 DEF Outcome, SameCard, Card
<1>3. Outcome(After(sent, d), c)
  BY <1>1, <1>2, AfterType
<1>4. Outcome(Quiet(EnterForwarding(c)), c)
  BY EnterForwardingType, QuietType
<1> QED
  BY <1>3, <1>4 DEF TickLearning, sent

LEMMA TickRootType ==
  ASSUME NEW c \in Card PROVE Outcome(TickRoot(c), c)
<1> DEFINE hello == Tx(c, "HELLO")
           d == [hello.card EXCEPT !.time = @ + 1]
           cleared == ClearOld(c, c.lc)
           elected == [Elect(cleared) EXCEPT !.time = 0]
<1>1. Outcome(hello, c) /\ hello = [card |-> hello.card, sent |-> hello.sent]
  BY TxType, TxIsRecord, Types
<1> HIDE DEF hello
<1>2. SameCard(d, hello.card)
  BY <1>1 DEF Outcome, SameCard, Card
<1>3. Outcome(After(hello, d), c)
  BY <1>1, <1>2, AfterType
<1>4. SameCard(cleared, c)
  BY ClearOldType DEF Card
<1> HIDE DEF cleared
<1>5. ASSUME Electable(cleared) # {} PROVE Outcome(Tx(elected, "HELLO"), c)
  <2>1. SameCard(Elect(cleared), c)
    BY <1>4, <1>5, ElectType DEF SameCard
  <2>2. SameCard(elected, c)
    BY <2>1, RetimeType DEF SameCard
  <2> HIDE DEF elected
  <2> QED BY <2>2, TxType, OutcomeTransitive, Types DEF SameCard
<1>6. Outcome(Tx(EnterBlock(cleared), "LC_CHANGE"), c)
  <2>1. SameCard(EnterBlock(cleared), c)
    BY <1>4, EnterBlockType DEF SameCard
  <2> QED BY <2>1, TxType, OutcomeTransitive, Types DEF SameCard
<1> QED
  BY <1>3, <1>5, <1>6 DEF TickRoot, hello, cleared

LEMMA TickForwardingType ==
  ASSUME NEW c \in Card PROVE Outcome(TickForwarding(c), c)
<1> DEFINE d == [c EXCEPT !.time = @ + 1]
<1>1. SameCard(d, c)
  BY DEF SameCard, Card
<1> HIDE DEF d
<1>2. Outcome(Quiet(d), c) /\ Outcome(Quiet(EnterBlock(c)), c) /\ Outcome(TickRoot(c), c)
  BY <1>1, EnterBlockType, QuietType, TickRootType
<1> QED
  BY <1>2 DEF TickForwarding, d

LEMMA TickedType ==
  ASSUME NEW c \in Card PROVE Outcome(Ticked(c), c)
<1> DEFINE d == [c EXCEPT !.seen = {}]
<1>1. SameCard(d, c)
  BY DEF SameCard, Card
<1>2. c.state \in CtpState
  BY DEF Card
<1> HIDE DEF d
<1>3. Outcome(Quiet(c), c)
  BY QuietType DEF SameCard
<1>4. /\ Outcome(TickBlock(d), c) /\ Outcome(TickListening(d), c)
      /\ Outcome(TickLearning(d), c) /\ Outcome(TickForwarding(d), c)
  BY <1>1, TickBlockType, TickListeningType, TickLearningType, TickForwardingType,
     OutcomeTransitive DEF SameCard
<1>5. \/ Ticked(c) = Quiet(c)
      \/ Ticked(c) = TickBlock(d) \/ Ticked(c) = TickListening(d)
      \/ Ticked(c) = TickLearning(d) \/ Ticked(c) = TickForwarding(d)
  BY <1>2 DEF Ticked, d, CtpState, BLOCK, LISTENING, LEARNING, FORWARDING
<1> QED
  BY <1>3, <1>4, <1>5

LEMMA ZeroedType ==
  ASSUME NEW us \in Slot, NEW p \in SUBSET FcPort
  PROVE /\ Zeroed(us) \in Card /\ Zeroed(us).us = us
        /\ [Zeroed(us) EXCEPT !.ports = p] \in Card
        /\ [Zeroed(us) EXCEPT !.ports = p].us = us
<1>1. OwnTable(us) \in Table /\ BLOCK \in CtpState /\ 0 \in SlotId /\ 0 \in 0..48
  BY OwnTableType DEF CtpState, SlotId
<1>2. Zeroed(us) \in Card
  BY <1>1 DEF Zeroed, Card
<1>3. Zeroed(us).us = us
  BY DEF Zeroed
<1> QED
  BY <1>2, <1>3 DEF Card

LEMMA StartedType ==
  ASSUME NEW us \in Slot PROVE Started(us) \in Card /\ Started(us).us = us
<1>1. SameCard(EnterBlock(Zeroed(us)), Zeroed(us)) /\ Zeroed(us).us = us
  BY ZeroedType, EnterBlockType
<1>2. StaticPorts(us) \in SUBSET FcPort
  BY DEF StaticPorts, FcPort, LcPort
<1>3. SameCard([EnterBlock(Zeroed(us)) EXCEPT !.ports = StaticPorts(us)], Zeroed(us))
  BY <1>1, <1>2 DEF SameCard, Card
<1> QED
  BY <1>1, <1>3 DEF Started, SameCard

LEMMA ExitedType ==
  ASSUME NEW c \in Card PROVE Outcome(Exited(c), c)
<1>1. SameCard(EnterBlock(c), c)
  BY EnterBlockType
<1>2. Outcome(Tx(EnterBlock(c), "FC_CHANGE"), c) /\ Outcome(Quiet(EnterBlock(c)), c)
  BY <1>1, TxType, OutcomeTransitive, QuietType, Types DEF SameCard
<1> QED
  BY <1>2 DEF Exited

-----------------------------------------------------------------------------
(* The network. *)

LEMMA EnqueueType ==
  ASSUME NEW q \in Seq(Frame), NEW sent \in SUBSET Frame
  PROVE Enqueue(q, sent) \in Seq(Frame)
  BY DEF Enqueue

LEMMA DeliverType ==
  ASSUME NEW from, NEW queues \in [Slot -> Seq(Frame)], NEW sent \in SUBSET Frame,
         Deliver(from, queues, sent)
  PROVE inbox' \in [Slot -> Seq(Frame)]
  BY EnqueueType DEF Deliver

LEMMA StepType ==
  ASSUME TypeOK, NEW s \in Slot, NEW m, Outcome(m, card[s]),
         NEW queues \in [Slot -> Seq(Frame)], Step(s, m, queues)
  PROVE /\ card' \in [Slot -> Card] /\ (\A t \in Slot : card'[t].us = t)
        /\ inbox' \in [Slot -> Seq(Frame)]
<1>1. m.card \in Card /\ m.card.us = s /\ m.sent \in SUBSET Frame
  BY DEF Outcome, SameCard, TypeOK
<1>2. card' = [card EXCEPT ![s] = m.card]
  BY DEF Step
<1>3. inbox' \in [Slot -> Seq(Frame)]
  BY <1>1, DeliverType DEF Step
<1> QED
  BY <1>1, <1>2, <1>3 DEF TypeOK

LEMMA DepartType ==
  ASSUME TypeOK, NEW s \in Slot, NEW p \in SUBSET FcPort, Depart(s, p)
  PROVE /\ card' \in [Slot -> Card] /\ (\A t \in Slot : card'[t].us = t)
        /\ up' \in SUBSET Slot /\ stops' \in Nat
<1> DEFINE c == [Zeroed(s) EXCEPT !.ports = p]
<1>1. card' = [card EXCEPT ![s] = c]
  BY DEF Depart
<1>2. c \in Card /\ c.us = s
  BY ZeroedType
<1> HIDE DEF c
<1>3. card' \in [Slot -> Card] /\ \A t \in Slot : card'[t].us = t
  BY <1>1, <1>2 DEF TypeOK
<1>4. up' \in SUBSET Slot /\ stops' \in Nat
  BY DEF Depart, TypeOK
<1> QED
  BY <1>3, <1>4

LEMMA NextType == TypeOK /\ [Next]_vars => TypeOK'
<1> SUFFICES ASSUME TypeOK, [Next]_vars PROVE TypeOK'
  OBVIOUS
<1>1. ASSUME NEW s \in Slot, Tick(s) PROVE TypeOK'
  <2>1. Outcome(Ticked(card[s]), card[s])
    BY TickedType DEF TypeOK
  <2>2. Step(s, Ticked(card[s]), inbox)
    BY <1>1 DEF Tick
  <2> QED BY <1>1, <2>1, <2>2, StepType DEF Tick, TypeOK
<1>2. ASSUME NEW s \in Slot, Receive(s) PROVE TypeOK'
  <2>1. PICK again \in {FALSE, Looping} :
          Step(s, Received(card[s], Head(inbox[s])),
               IF again THEN inbox ELSE [inbox EXCEPT ![s] = Tail(@)])
    BY <1>2 DEF Receive
  <2>2. Head(inbox[s]) \in Frame /\ Tail(inbox[s]) \in Seq(Frame)
    BY <1>2 DEF Receive, TypeOK
  <2>3. Outcome(Received(card[s], Head(inbox[s])), card[s])
    BY <2>2, ReceivedType DEF TypeOK
  <2>4. (IF again THEN inbox ELSE [inbox EXCEPT ![s] = Tail(@)]) \in [Slot -> Seq(Frame)]
    BY <2>2 DEF TypeOK
  <2> QED BY <1>2, <2>1, <2>3, <2>4, StepType DEF Receive, TypeOK
<1>3. ASSUME NEW s \in Slot, Start(s) PROVE TypeOK'
  BY <1>3, StartedType DEF Start, TypeOK
<1>4. ASSUME NEW s \in Slot, SignalExit(s) PROVE TypeOK'
  <2>1. Depart(s, {}) /\ {} \in SUBSET FcPort
    BY <1>4 DEF SignalExit
  <2>2. Exited(card[s]).sent \in SUBSET Frame
    BY ExitedType DEF TypeOK, Outcome
  <2>3. [inbox EXCEPT ![s] = << >>] \in [Slot -> Seq(Frame)]
    BY DEF TypeOK
  <2>4. inbox' \in [Slot -> Seq(Frame)]
    BY <1>4, <2>2, <2>3, DeliverType DEF SignalExit
  <2> QED BY <2>1, <2>4, DepartType DEF TypeOK
<1>5. ASSUME NEW s \in Slot, Crash(s) PROVE TypeOK'
  <2>1. PICK p \in {{}, card[s].ports} : Depart(s, p)
    BY <1>5 DEF Crash
  <2>2. p \in SUBSET FcPort
    BY <2>1 DEF TypeOK, Card
  <2>3. inbox' \in [Slot -> Seq(Frame)]
    BY <1>5 DEF Crash, TypeOK
  <2> QED BY <2>1, <2>2, <2>3, DepartType DEF TypeOK
<1>6. CASE UNCHANGED vars
  BY <1>6 DEF vars, TypeOK
<1> QED
  BY <1>1, <1>2, <1>3, <1>4, <1>5, <1>6 DEF Next

(* Every reachable state is of the declared types. *)
THEOREM Typing == Spec => []TypeOK
<1>1. Init => TypeOK
  <2>1. \A s \in Slot : Zeroed(s) \in Card /\ Zeroed(s).us = s
    BY {} \in SUBSET FcPort, ZeroedType
  <2> QED BY <2>1 DEF Init, TypeOK
<1> QED
  BY <1>1, NextType, PTL DEF Spec

=============================================================================
