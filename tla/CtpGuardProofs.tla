---------------------------- MODULE CtpGuardProofs ----------------------------
(***************************************************************************)
(* The line cards of Ctp.tla implement PortGuard.tla: however frames are   *)
(* lost, repeated and reordered and however cards come and go, the ports   *)
(* of a line card under CTP open only after the two timers, and close at   *)
(* once.                                                                   *)
(*                                                                         *)
(* The refinement needs an upper bound on the timer in each state, since   *)
(* the abstract count of a card that goes on to the next state continues   *)
(* where the timer of the last one stood; and that a line card is never    *)
(* its own root (RoleInvariant), since a root FC sets its timer back       *)
(* without leaving its state.                                              *)
(***************************************************************************)
EXTENDS CtpRoleProofs

Timely(c) ==
  /\ c.ports \subseteq LcPort
  /\ c.state \in {BLOCK, LISTENING} => c.ports = {}
  /\ c.state = LISTENING => c.time <= ForwardDelay + 1
  /\ c.state = LEARNING => c.time <= 2 * ForwardDelay + 1 /\ \A x, y \in c.ports : x = y

(* Steps that leave the timer and the ports alone. *)
SameWait(d, c) ==
  d.us = c.us /\ d.state = c.state /\ d.time = c.time /\ d.ports = c.ports

(* What PortGuard allows a card that becomes d. *)
OneMore(d, c) ==
  Waited(c) < WaitTicks /\ Waited(d) = Waited(c) + 1 /\ d.ports \in Guard!Allowed(Waited(d))
Again(d, c) ==
  Waited(c) = WaitTicks /\ Waited(d) = WaitTicks /\ d.ports \in Guard!Allowed(WaitTicks)
Closed(d) == Waited(d) = 0 /\ d.ports = {}

Kept(d, c) ==
  /\ Timely(d)
  /\ \/ SameWait(d, c)
     \/ OneMore(d, c)
     \/ Again(d, c)
     \/ Closed(d)

LEMMA GuardedFacts ==
  ASSUME NEW s \in Guarded
  PROVE /\ s \in Slot /\ s \in CpuA /\ s \in Dynamic /\ s % 2 # 0
        /\ IsLineCard(s) /\ s \notin FabricCard /\ s # 0
  BY SlotAssumption DEF Guarded, LineCard, FabricCard, CpuA, IsLineCard

LEMMA WaitedFacts ==
  ASSUME NEW c
  PROVE /\ c.state = BLOCK => Waited(c) = 0
        /\ c.state = LISTENING => Waited(c) = c.time
        /\ c.state = LEARNING => Waited(c) = ListenTicks + c.time
        /\ c.state = FORWARDING => Waited(c) = WaitTicks
  BY StatesDiffer DEF Waited

LEMMA TickFacts ==
  /\ ListenTicks \in Nat /\ WaitTicks \in Nat /\ ForwardDelay \in Nat
  /\ ListenTicks = ForwardDelay + 2
  /\ WaitTicks = ListenTicks + 2 * ForwardDelay + 2
  BY TimerAssumption DEF ListenTicks, WaitTicks

LEMMA SameWaitKept ==
  ASSUME NEW c, NEW d, SameWait(d, c), Timely(c) PROVE Kept(d, c)
  BY DEF SameWait, Timely, Kept

LEMMA SameWaitTransitive ==
  ASSUME NEW b, NEW c, NEW d, SameWait(d, c), SameWait(c, b) PROVE SameWait(d, b)
  BY DEF SameWait

(* A card that has gone back is closed, and one that has just heard a      *)
(* fabric card still is.                                                   *)
LEMMA Restarted ==
  ASSUME NEW c, NEW d, d.ports = {}, d.state = BLOCK \/ (d.state = LISTENING /\ d.time = 0)
  PROVE Kept(d, c)
<1>1. Timely(d)
  BY StatesDiffer, TickFacts DEF Timely
<1>2. Closed(d)
  BY WaitedFacts DEF Closed
<1> QED
  BY <1>1, <1>2 DEF Kept

(* A forwarding card may open any ports. *)
LEMMA KeptForwarding ==
  ASSUME NEW c, NEW d, c.state = FORWARDING, d.state = FORWARDING, d.ports \subseteq LcPort
  PROVE Kept(d, c)
<1>1. Timely(d)
  BY StatesDiffer DEF Timely
<1>2. Again(d, c)
  BY WaitedFacts, TickFacts DEF Again, Guard!Allowed
<1> QED
  BY <1>1, <1>2 DEF Kept

LEMMA LcRolePorts ==
  ASSUME NEW us, IsLineCard(us), NEW root, NEW lc
  PROVE RolePorts(us, root, lc) \subseteq LcPort
  BY PortToFcRange DEF RolePorts

-----------------------------------------------------------------------------
(* The operators. *)

LEMMA WaitUntouched ==
  ASSUME NEW c \in Card, NEW f
  PROVE /\ SameWait(UpdateMembers(c, f), c) /\ SameWait(DecMembers(c), c)
        /\ SameWait(TakeRoot(c, f), c) /\ SameWait(TakeDesignated(c, f), c)
  BY DEF UpdateMembers, DecMembers, TakeRoot, TakeDesignated, SameWait, Card

LEMMA UpdateLcRootWait ==
  ASSUME NEW c \in Card, NEW f \in Frame PROVE SameWait(UpdateLcRoot(c, f), c)
<1> DEFINE rooted == IF Vouches(f, f.root) /\ (f.root < c.root \/ c.root = 0)
                       THEN TakeRoot(c, f) ELSE c
           designated ==
             IF /\ Vouches(f, f.dbridge)
                /\ f.type = "HELLO" \/ f.dbridge < c.lc \/ c.lc = 0
               THEN TakeDesignated(rooted, f) ELSE rooted
<1>1. rooted \in Card /\ SameWait(rooted, c)
  BY TakeRootType, WaitUntouched DEF SameCard, SameWait
<1> HIDE DEF rooted
<1>2. designated \in Card /\ SameWait(designated, rooted)
  BY <1>1, TakeDesignatedType, WaitUntouched DEF SameCard, SameWait
<1> HIDE DEF designated
<1>3. SameWait(UpdateMembers(designated, f), designated)
  BY <1>2, WaitUntouched
<1> QED
  BY <1>1, <1>2, <1>3, SameWaitTransitive DEF UpdateLcRoot, rooted, designated

LEMMA EnterBlockKept ==
  ASSUME NEW c \in Card, c.us \in Guarded, NEW b PROVE Kept(EnterBlock(c), b)
<1>1. EnterBlock(c).state = BLOCK /\ EnterBlock(c).ports = {}
  BY GuardedFacts DEF EnterBlock, SetPorts, Card
<1> QED
  BY <1>1, Restarted

LEMMA EnterListeningWait ==
  ASSUME NEW c \in Card, c.us \in Guarded
  PROVE EnterListening(c).state = LISTENING /\ EnterListening(c).time = 0
        /\ EnterListening(c).ports = {}
  BY GuardedFacts DEF EnterListening, SetPorts, Card

(* The listening time is over: the port to the root FC opens. *)
LEMMA EnterLearningKept ==
  ASSUME NEW c \in Card, c.us \in Guarded, Timely(c), c.state = LISTENING,
         c.time > ForwardDelay
  PROVE Kept(EnterLearning(c), c)
<1> DEFINE d == EnterLearning(c)
<1>1. d.state = LEARNING /\ d.time = 0 /\ (d.ports = {} \/ d.ports = {PortToFc(c.root)})
      /\ d.ports \subseteq LcPort
  BY GuardedFacts, PortToFcRange DEF EnterLearning, SetPorts, Card, Timely
<1> HIDE DEF d
<1>2. c.time = ForwardDelay + 1
  BY TickFacts DEF Timely, Card
<1>3. Waited(c) = c.time /\ Waited(d) = ListenTicks
  BY <1>1, WaitedFacts, TickFacts
<1>4. OneMore(d, c)
  BY <1>1, <1>2, <1>3, TickFacts DEF OneMore, Guard!Allowed
<1>5. Timely(d)
  BY <1>1, TickFacts, StatesDiffer DEF Timely
<1> QED
  BY <1>4, <1>5 DEF Kept, d

LEMMA EnterForwardingWait ==
  ASSUME NEW c \in Card, c.us \in Guarded
  PROVE EnterForwarding(c).state = FORWARDING /\ EnterForwarding(c).ports \subseteq LcPort
  BY GuardedFacts, LcRolePorts DEF EnterForwarding, SetPorts, Card

(* The learning time is over: the ports of the card's role open. *)
LEMMA EnterForwardingKept ==
  ASSUME NEW c \in Card, c.us \in Guarded, Timely(c), c.state = LEARNING,
         ~ (c.time < 2 * ForwardDelay + 1)
  PROVE Kept(EnterForwarding(c), c)
<1> DEFINE d == EnterForwarding(c)
<1>1. d.state = FORWARDING /\ d.ports \subseteq LcPort
  BY EnterForwardingWait
<1> HIDE DEF d
<1>2. c.time = 2 * ForwardDelay + 1
  BY TickFacts DEF Timely, Card
<1>3. Waited(c) = ListenTicks + c.time /\ Waited(d) = WaitTicks
  BY <1>1, WaitedFacts
<1>4. OneMore(d, c)
  BY <1>1, <1>2, <1>3, TickFacts DEF OneMore, Guard!Allowed
<1>5. Timely(d)
  BY <1>1, StatesDiffer DEF Timely
<1> QED
  BY <1>4, <1>5 DEF Kept, d

(* One tick more in LISTENING or LEARNING, within the bounds. *)
LEMMA TickKept ==
  ASSUME NEW c \in Card, Timely(c), NEW d, d.state = c.state, d.ports = c.ports,
         d.time = c.time + 1,
         \/ c.state = LISTENING /\ ~ (c.time > ForwardDelay)
         \/ c.state = LEARNING /\ c.time < 2 * ForwardDelay + 1
  PROVE Kept(d, c)
<1>0. c.time \in Nat
  BY DEF Card
<1>1. CASE c.state = LISTENING /\ ~ (c.time > ForwardDelay)
  <2>1. Waited(c) = c.time /\ Waited(d) = c.time + 1
    BY <1>1, WaitedFacts
  <2>2. Timely(d)
    BY <1>0, <1>1, StatesDiffer, TickFacts DEF Timely
  <2>3. OneMore(d, c)
    BY <1>0, <1>1, <2>1, TickFacts DEF OneMore, Timely, Guard!Allowed
  <2> QED BY <2>2, <2>3 DEF Kept
<1>2. CASE c.state = LEARNING /\ c.time < 2 * ForwardDelay + 1
  <2>1. Waited(c) = ListenTicks + c.time /\ Waited(d) = ListenTicks + c.time + 1
    BY <1>0, <1>2, WaitedFacts, TickFacts
  <2>2. Timely(d)
    BY <1>0, <1>2, StatesDiffer, TickFacts DEF Timely
  <2>3. OneMore(d, c)
    BY <1>0, <1>2, <2>1, TickFacts DEF OneMore, Timely, Guard!Allowed
  <2> QED BY <2>2, <2>3 DEF Kept
<1> QED
  BY <1>1, <1>2

-----------------------------------------------------------------------------
(* What a guarded line card makes of a frame, and of a tick. *)

LEMMA RxFromFcKept ==
  ASSUME NEW c \in Card, c.us \in Guarded, Timely(c), NEW f \in Frame
  PROVE Kept(RxFromFc(c, f).card, c)
<1> DEFINE heard == UpdateMembers(c, f)
           timed == [heard EXCEPT !.time = 0]
           learnt == UpdateLcRoot(EnterListening(c), f)
           reply == Tx(learnt, "REPLY")
           echo == Tx(heard, "LC_CHANGE")
<1>1. SameCard(heard, c) /\ SameWait(heard, c)
  BY UpdateMembersType, WaitUntouched
<1>2. SameCard(timed, c) /\ timed.state = c.state /\ timed.ports = c.ports
  <2> HIDE DEF heard
  <2> QED BY <1>1 DEF SameCard, SameWait, Card
<1> HIDE DEF heard, timed
<1>3. CASE c.state = BLOCK
  <2> DEFINE d == EnterListening(c)
             e == DecMembers(learnt)
  <2>1. SameCard(d, c) /\ d.state = LISTENING /\ d.time = 0 /\ d.ports = {}
    BY EnterListeningType, EnterListeningWait
  <2> HIDE DEF d
  <2>2. UpdateLcRoot(d, f) \in Card /\ SameWait(UpdateLcRoot(d, f), d)
    BY <2>1, UpdateLcRootType, UpdateLcRootWait DEF SameCard
  <2>3. learnt \in Card /\ SameWait(learnt, d)
    BY <2>2 DEF d
  <2> HIDE DEF learnt
  <2>4. e \in Card /\ SameWait(e, d)
    BY <2>3, DecMembersType, WaitUntouched, SameWaitTransitive DEF SameCard
  <2>5. reply.card = e
    BY DEF Tx
  <2> HIDE DEF e, reply
  <2>6. SameWait(UpdateMembers(e, f), d)
    BY <2>4, WaitUntouched, SameWaitTransitive
  <2>7. Kept(UpdateMembers(e, f), c)
    BY <2>1, <2>6, Restarted DEF SameWait
  <2>8. RxFromFc(c, f) = After(reply, UpdateMembers(reply.card, f))
    BY <1>3, StatesDiffer DEF RxFromFc, learnt, reply
  <2>9. reply = [card |-> reply.card, sent |-> reply.sent]
    BY TxIsRecord DEF reply
  <2>10. RxFromFc(c, f).card = UpdateMembers(e, f)
    BY <2>5, <2>8, <2>9 DEF After
  <2> QED BY <2>7, <2>10
<1>4. CASE c.state \in {LISTENING, LEARNING}
  <2> DEFINE d == IF Differs(c, f) THEN UpdateLcRoot(c, f) ELSE c
  <2>1. d \in Card /\ SameWait(d, c)
    BY UpdateLcRootType, UpdateLcRootWait DEF SameCard, SameWait
  <2> HIDE DEF d
  <2>2. SameWait(UpdateMembers(d, f), c)
    BY <2>1, WaitUntouched, SameWaitTransitive
  <2>3. RxFromFc(c, f) = Quiet(UpdateMembers(d, f))
    BY <1>4, StatesDiffer DEF RxFromFc, d
  <2> QED BY <2>2, <2>3, SameWaitKept DEF Quiet
<1>5. CASE c.state = FORWARDING
  <2>1. Kept(EnterBlock(DecMembers(heard)), c)
    BY <1>1, DecMembersType, EnterBlockKept DEF SameCard
  <2>2. /\ Kept(DecMembers(timed), c) /\ Kept(DecMembers(heard), c)
        /\ Kept(timed, c) /\ Kept(heard, c)
    <3>1. /\ SameWait(DecMembers(timed), timed) /\ SameWait(DecMembers(heard), heard)
      BY <1>1, <1>2, WaitUntouched DEF SameCard
    <3> QED BY <1>1, <1>2, <1>5, <3>1, KeptForwarding DEF SameWait, Timely
  <2>3. Kept(SyncToHello(timed, f), c)
    <3> DEFINE d == TakeDesignated(timed, f)
    <3>1. SameCard(d, timed) /\ SameWait(d, timed)
      BY <1>2, TakeDesignatedType, WaitUntouched DEF SameCard
    <3>2. Kept(d, c)
      BY <1>2, <1>5, <3>1, KeptForwarding DEF SameWait, Timely
    <3>3. Kept(EnterForwarding(d), c)
      BY <1>2, <1>5, <3>1, EnterForwardingWait, KeptForwarding DEF SameCard
    <3> HIDE DEF d
    <3> QED BY <2>2, <3>2, <3>3 DEF SyncToHello, d
  <2>4. echo.card = DecMembers(heard) /\ echo = [card |-> echo.card, sent |-> echo.sent]
    BY TxIsRecord DEF Tx
  <2> HIDE DEF echo
  <2>5. \/ RxFromFc(c, f) = After(echo, EnterBlock(echo.card))
        \/ RxFromFc(c, f) = Quiet(SyncToHello(timed, f))
        \/ RxFromFc(c, f) = Tx(timed, "HELLO") \/ RxFromFc(c, f) = Tx(timed, "REPLY")
        \/ RxFromFc(c, f) = Tx(heard, "REPLY") \/ RxFromFc(c, f) = Quiet(heard)
    BY <1>5, StatesDiffer DEF RxFromFc, heard, timed, echo
  <2>6. \/ RxFromFc(c, f).card = EnterBlock(DecMembers(heard))
        \/ RxFromFc(c, f).card = SyncToHello(timed, f)
        \/ RxFromFc(c, f).card = DecMembers(timed)
        \/ RxFromFc(c, f).card = DecMembers(heard)
        \/ RxFromFc(c, f).card = heard
    <3>1. After(echo, EnterBlock(echo.card)).card = EnterBlock(DecMembers(heard))
      BY <2>4 DEF After
    <3> QED BY <2>5, <3>1 DEF Quiet, Tx
  <2> QED BY <2>1, <2>2, <2>3, <2>6
<1> QED
  BY <1>3, <1>4, <1>5 DEF Card, CtpState

LEMMA ReceivedKept ==
  ASSUME NEW c \in Card, c.us \in Guarded, Timely(c), NEW f \in Frame
  PROVE Kept(Received(c, f).card, c)
<1> DEFINE d == [c EXCEPT !.seen = @ \cup {<<f.slot, f.type>>}]
<1>1. SameCard(d, c) /\ SameWait(d, c)
  BY DEF SameCard, SameWait, Card, Frame
<1> HIDE DEF d
<1>2. d \in Card /\ d.us \in Guarded /\ Timely(d)
  BY <1>1, SameWaitKept DEF SameCard, Kept
<1>3. Kept(c, c) /\ Kept(d, c)
  BY <1>1, SameWaitKept DEF SameWait
<1>4. Kept(RxFromFc(d, f).card, d)
  BY <1>2, RxFromFcKept
<1>5. Kept(RxFromFc(d, f).card, c)
  BY <1>1, <1>4 DEF Kept, SameWait, OneMore, Again, Closed, Waited
<1>6. \/ Received(c, f) = Quiet(c) \/ Received(c, f) = Quiet(d)
      \/ Received(c, f) = RxFromFc(d, f)
  BY GuardedFacts DEF Received, d
<1> QED
  BY <1>3, <1>5, <1>6 DEF Quiet

LEMMA TickedKept ==
  ASSUME NEW c \in Card, c.us \in Guarded, Timely(c), c.root # c.us
  PROVE Kept(Ticked(c).card, c)
<1> DEFINE d == [c EXCEPT !.seen = {}]
           e == [d EXCEPT !.time = @ + 1]
           sent == Tx(d, "CONFIG")
<1>1. SameCard(d, c) /\ SameWait(d, c) /\ d.root = c.root
  BY DEF SameCard, SameWait, Card
<1>2. d \in Card /\ d.us \in Guarded /\ Timely(d) /\ IsLineCard(d.us)
  BY <1>1, SameWaitKept, GuardedFacts DEF SameCard, Kept
<1>3. e.time = d.time + 1 /\ e.state = d.state /\ e.ports = d.ports
  BY <1>2 DEF Card
<1> HIDE DEF d, e
<1>4. CASE c.state = BLOCK
  <2>1. Ticked(c) = Quiet(d)
    BY <1>2, <1>4, GuardedFacts, StatesDiffer DEF Ticked, TickBlock, d
  <2> QED BY <1>1, <2>1, SameWaitKept DEF Quiet
<1>5. CASE c.state = LISTENING
  <2>1. Ticked(c) = TickListening(d)
    BY <1>5, GuardedFacts, StatesDiffer DEF Ticked, d
  <2>2. d.time > ForwardDelay => Kept(EnterLearning(d), d)
    BY <1>1, <1>2, <1>5, EnterLearningKept DEF SameWait
  <2>3. ~ (d.time > ForwardDelay) => Kept(e, d)
    BY <1>1, <1>2, <1>3, <1>5, TickKept DEF SameWait
  <2>4. Kept(Ticked(c).card, d)
    BY <1>2, <2>1, <2>2, <2>3 DEF TickListening, Quiet, e
  <2> QED BY <1>1, <2>4 DEF Kept, SameWait, OneMore, Again, Closed, Waited
<1>6. CASE c.state = LEARNING
  <2> DEFINE g == [sent.card EXCEPT !.time = @ + 1]
  <2>1. Ticked(c) = TickLearning(d)
    BY <1>6, GuardedFacts, StatesDiffer DEF Ticked, d
  <2>2. ~ (d.time < 2 * ForwardDelay + 1) => Kept(EnterForwarding(d), d)
    BY <1>1, <1>2, <1>6, EnterForwardingKept DEF SameWait
  <2>3. SameCard(sent.card, d) /\ SameWait(sent.card, d)
    BY <1>2, DecMembersType, WaitUntouched DEF Tx
  <2>4. sent = [card |-> sent.card, sent |-> sent.sent]
    BY TxIsRecord
  <2> HIDE DEF sent
  <2>5. g.time = d.time + 1 /\ g.state = d.state /\ g.ports = d.ports
    BY <2>3 DEF SameCard, SameWait, Card
  <2> HIDE DEF g
  <2>6. d.time < 2 * ForwardDelay + 1 => Kept(g, d)
    BY <1>1, <1>2, <1>6, <2>5, TickKept DEF SameWait
  <2>7. TickLearning(d).card = IF d.time < 2 * ForwardDelay + 1 THEN g ELSE EnterForwarding(d)
    BY <1>2, <2>4 DEF TickLearning, LearningTime, After, Quiet, sent, g
  <2>8. Kept(Ticked(c).card, d)
    BY <2>1, <2>2, <2>6, <2>7
  <2> QED BY <1>1, <2>8 DEF Kept, SameWait, OneMore, Again, Closed, Waited
<1>7. CASE c.state = FORWARDING
  <2>1. Ticked(c) = TickForwarding(d)
    BY <1>7, GuardedFacts, StatesDiffer DEF Ticked, d
  <2>2. Ticked(c).card = EnterBlock(d) \/ Ticked(c).card = e
    BY <1>1, <2>1 DEF TickForwarding, Quiet, SameCard, e
  <2>3. Kept(EnterBlock(d), c)
    BY <1>2, EnterBlockKept
  <2>4. Kept(e, c)
    BY <1>1, <1>3, <1>7, KeptForwarding DEF SameWait, Timely
  <2> QED BY <2>2, <2>3, <2>4
<1> QED
  BY <1>4, <1>5, <1>6, <1>7 DEF Card, CtpState

-----------------------------------------------------------------------------
(* The network. *)

Waits == [s \in Guarded |-> Waited(card[s])]
Opened == [s \in Guarded |-> IF s \in up THEN card[s].ports ELSE {}]

GuardInv ==
  \A s \in Guarded : IF s \in up THEN Timely(card[s]) ELSE card[s].state = BLOCK

(* A step of one guarded card as PortGuard sees it. *)
LEMMA KeptStep ==
  ASSUME NEW s \in Guarded, NEW d, Kept(d, card[s]), s \in up,
         Waits' = [Waits EXCEPT ![s] = Waited(d)], Opened' = [Opened EXCEPT ![s] = d.ports]
  PROVE [Guard!Next]_<<Waits, Opened>>
<1>1. Waits[s] = Waited(card[s]) /\ Opened[s] = card[s].ports
  BY DEF Waits, Opened
<1>2. CASE SameWait(d, card[s])
  <2>1. Waited(d) = Waits[s] /\ d.ports = Opened[s]
    BY <1>1, <1>2 DEF SameWait, Waited
  <2>2. Waits' = Waits /\ Opened' = Opened
    BY <2>1 DEF Waits, Opened
  <2> QED BY <2>2
<1>3. CASE OneMore(d, card[s])
  <2>1. Guard!Wait(s)
    BY <1>1, <1>3 DEF Guard!Wait, OneMore, Waits, Opened
  <2> QED BY <2>1 DEF Guard!Next
<1>4. CASE Again(d, card[s])
  <2>1. Waits' = Waits
    BY <1>1, <1>4 DEF Again, Waits
  <2>2. Guard!Reassign(s)
    BY <1>1, <1>4, <2>1 DEF Guard!Reassign, Again, Waits, Opened
  <2> QED BY <2>2 DEF Guard!Next
<1>5. CASE Closed(d)
  <2>1. Guard!Block(s)
    BY <1>5 DEF Guard!Block, Closed, Waits, Opened
  <2> QED BY <2>1 DEF Guard!Next
<1> QED
  BY <1>2, <1>3, <1>4, <1>5 DEF Kept

LEMMA StartedWait ==
  ASSUME NEW s \in Guarded
  PROVE Started(s).state = BLOCK /\ Started(s).ports = {} /\ Timely(Started(s))
<1>1. Zeroed(s) \in Card /\ Zeroed(s).us = s
  BY ZeroedType, GuardedFacts DEF SameCard
<1>2. Started(s) = EnterBlock(Zeroed(s))
  BY GuardedFacts DEF Started
<1>3. EnterBlock(Zeroed(s)).state = BLOCK /\ EnterBlock(Zeroed(s)).ports = {}
  BY <1>1, GuardedFacts DEF EnterBlock, SetPorts, Card
<1> QED
  BY <1>2, <1>3, StatesDiffer DEF Timely

LEMMA NextGuard ==
  TypeOK /\ TypeOK' /\ RoleInv /\ GuardInv /\ [Next]_vars
    => GuardInv' /\ [Guard!Next]_<<Waits, Opened>>
<1> SUFFICES ASSUME TypeOK, TypeOK', RoleInv, GuardInv, [Next]_vars
             PROVE GuardInv' /\ [Guard!Next]_<<Waits, Opened>>
  OBVIOUS
<1>1. Waits' = [s \in Guarded |-> Waited(card'[s])]
      /\ Opened' = [s \in Guarded |-> IF s \in up' THEN card'[s].ports ELSE {}]
  BY DEF Waits, Opened, Waited
<1>2. GuardInv' <=> \A s \in Guarded : IF s \in up' THEN Timely(card'[s])
                                                    ELSE card'[s].state = BLOCK
  BY DEF GuardInv, Timely
<1>3. \A s \in Guarded : s \in Slot /\ card[s] \in Card /\ card[s].us = s
                         /\ card[s].root # s
  BY GuardedFacts DEF TypeOK, RoleInv, Coherent, Topology
<1>4. ASSUME NEW s \in Guarded, NEW d, Kept(d, card[s]), s \in up, up' = up,
             card' = [card EXCEPT ![s] = d]
      PROVE GuardInv' /\ [Guard!Next]_<<Waits, Opened>>
  <2>1. \A t \in Guarded : card'[t] = IF t = s THEN d ELSE card[t]
    BY <1>3, <1>4 DEF TypeOK
  <2>2. Waits' = [Waits EXCEPT ![s] = Waited(d)]
    BY <1>1, <2>1 DEF Waits
  <2>3. Opened' = [Opened EXCEPT ![s] = d.ports]
    <3>1. ASSUME NEW t \in Guarded
          PROVE (IF t \in up' THEN card'[t].ports ELSE {})
                  = IF t = s THEN d.ports ELSE Opened[t]
      BY <1>4, <2>1 DEF Opened
    <3>2. Opened' = [t \in Guarded |-> IF t = s THEN d.ports ELSE Opened[t]]
      BY <1>1, <3>1
    <3> QED BY <3>2 DEF Opened
  <2>4. GuardInv'
    BY <1>2, <1>4, <2>1 DEF GuardInv, Kept
  <2> QED BY <1>4, <2>2, <2>3, <2>4, KeptStep
<1>5. ASSUME NEW s \in Slot, s \notin Guarded, NEW d, card' = [card EXCEPT ![s] = d],
             up' \ {s} = up \ {s}
      PROVE GuardInv' /\ [Guard!Next]_<<Waits, Opened>>
  <2>1. \A t \in Guarded : card'[t] = card[t] /\ (t \in up' <=> t \in up)
    BY <1>3, <1>5 DEF TypeOK
  <2>2. Waits' = Waits /\ Opened' = Opened
    BY <1>1, <2>1 DEF Waits, Opened
  <2> QED BY <1>2, <2>1, <2>2 DEF GuardInv
<1>6. ASSUME NEW s \in Slot, Tick(s) PROVE GuardInv' /\ [Guard!Next]_<<Waits, Opened>>
  <2>1. card' = [card EXCEPT ![s] = Ticked(card[s]).card] /\ s \in up /\ up' = up
    BY <1>6 DEF Tick, Step
  <2>2. s \in Guarded => Kept(Ticked(card[s]).card, card[s])
    BY <1>3, <2>1, TickedKept DEF GuardInv
  <2> QED BY <1>4, <1>5, <2>1, <2>2
<1>7. ASSUME NEW s \in Slot, Receive(s) PROVE GuardInv' /\ [Guard!Next]_<<Waits, Opened>>
  <2> DEFINE f == Head(inbox[s])
  <2>1. card' = [card EXCEPT ![s] = Received(card[s], f).card] /\ s \in up /\ up' = up
    BY <1>7 DEF Receive, Step
  <2>2. f \in Frame
    BY <1>7 DEF Receive, TypeOK
  <2> HIDE DEF f
  <2>3. s \in Guarded => Kept(Received(card[s], f).card, card[s])
    BY <1>3, <2>1, <2>2, ReceivedKept DEF GuardInv
  <2> QED BY <1>4, <1>5, <2>1, <2>3
<1>8. ASSUME NEW s \in Slot, Start(s) PROVE GuardInv' /\ [Guard!Next]_<<Waits, Opened>>
  <2>1. card' = [card EXCEPT ![s] = Started(s)] /\ up' = up \cup {s} /\ s \notin up
    BY <1>8 DEF Start
  <2>2. CASE s \in Guarded
    <3>1. \A t \in Guarded \ {s} : card'[t] = card[t] /\ (t \in up' <=> t \in up)
      BY <1>3, <2>1 DEF TypeOK
    <3>2. card'[s] = Started(s) /\ s \in up'
      BY <2>1 DEF TypeOK
    <3>3. Waited(card'[s]) = Waited(card[s]) /\ card'[s].ports = {}
      BY <2>1, <2>2, <3>2, StartedWait, WaitedFacts DEF GuardInv
    <3>4. Waits' = Waits /\ Opened' = Opened
      BY <1>1, <2>1, <3>1, <3>2, <3>3 DEF Waits, Opened
    <3> QED BY <1>2, <2>2, <3>1, <3>2, <3>4, StartedWait DEF GuardInv
  <2> QED BY <1>5, <2>1, <2>2
<1>9. ASSUME NEW s \in Slot, NEW p, Depart(s, p)
      PROVE GuardInv' /\ [Guard!Next]_<<Waits, Opened>>
  <2> DEFINE d == [Zeroed(s) EXCEPT !.ports = p]
  <2>1. card' = [card EXCEPT ![s] = d] /\ up' = up \ {s}
    BY <1>9 DEF Depart
  <2>2. d.state = BLOCK
    BY DEF Zeroed
  <2> HIDE DEF d
  <2>3. CASE s \in Guarded
    <3>1. \A t \in Guarded \ {s} : card'[t] = card[t] /\ (t \in up' <=> t \in up)
      BY <1>3, <2>1 DEF TypeOK
    <3>2. card'[s] = d /\ s \notin up' /\ Waited(d) = 0
      BY <2>1, <2>2, WaitedFacts DEF TypeOK
    <3>3. Waits' = [Waits EXCEPT ![s] = 0] /\ Opened' = [Opened EXCEPT ![s] = {}]
      BY <1>1, <3>1, <3>2 DEF Waits, Opened
    <3>4. Guard!Block(s)
      BY <3>3 DEF Guard!Block, Waits, Opened
    <3> QED BY <1>2, <2>2, <2>3, <3>1, <3>2, <3>4 DEF GuardInv, Guard!Next
  <2> QED BY <1>5, <2>1, <2>3
<1>10. CASE UNCHANGED vars
  <2>1. card' = card /\ up' = up
    BY <1>10 DEF vars
  <2>2. Waits' = Waits /\ Opened' = Opened
    BY <1>1, <2>1 DEF Waits, Opened
  <2> QED BY <1>2, <2>1, <2>2 DEF GuardInv
<1> QED
  BY <1>6, <1>7, <1>8, <1>9, <1>10 DEF Next, SignalExit, Crash

(* Every behaviour of the network, seen through the timers and the open    *)
(* ports of its line cards, is one of PortGuard.                           *)
THEOREM PortsWaitAlways == Spec => PortsWait
<1>1. Init => GuardInv /\ Guard!Init
  <2> SUFFICES ASSUME Init PROVE GuardInv /\ Guard!Init
    OBVIOUS
  <2>1. up = {} /\ \A s \in Guarded : card[s].state = BLOCK
    BY GuardedFacts DEF Init, Zeroed
  <2>2. \A s \in Guarded : Waited(card[s]) = 0
    BY <2>1, WaitedFacts
  <2> QED BY <2>1, <2>2 DEF GuardInv, Guard!Init
<1> QED
  BY <1>1, NextGuard, Typing, RoleInvariant, PTL DEF Spec, PortsWait, Guard!Spec, Waits, Opened
=============================================================================
