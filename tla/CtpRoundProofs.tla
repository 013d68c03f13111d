---------------------------- MODULE CtpRoundProofs ----------------------------
(***************************************************************************)
(* The chassis of CtpRound.tla and CtpStall.tla keep every promise of      *)
(* Ctp.tla; no switching loop closes in them while one of its four cards   *)
(* has come second; and a chassis that has settled stays settled.          *)
(*                                                                         *)
(* Rounds and stalls only restrict which card takes its next step, but     *)
(* their chassis may begin with daemons that run, which Ctp's Init does    *)
(* not allow.  So each is first shown to implement Populated followed by   *)
(* steps of Ctp, whose initial states satisfy the inductive invariants of  *)
(* the other modules; the steps preserve these as before.                  *)
(*                                                                         *)
(* That a chassis forwards along one tree is not inductive: it ends when a *)
(* timer runs out.  Settled (CtpSettled.tla) adds what every timer shows,  *)
(* by the ticks of the round that are gone and to come, which HELLOs wait  *)
(* and which have been taken, and that no queue overflows.  One lemma says *)
(* what each kind of step does to the cards and queues, others that it     *)
(* keeps each part of Settled.                                             *)
(***************************************************************************)
EXTENDS CtpStall, CtpGossipProofs, CtpGuardProofs, FiniteSetTheorems

(* A chassis in which some daemons have just started. *)
Populated ==
  /\ up \in SUBSET Slot
  /\ card = [s \in Slot |-> IF s \in up THEN Started(s) ELSE Zeroed(s)]
  /\ inbox = [s \in Slot |-> << >>]
  /\ stops = 0

PopulatedSpec == Populated /\ [][Next]_vars

LEMMA PopulatedType == Populated => TypeOK
<1> SUFFICES ASSUME Populated PROVE TypeOK
  OBVIOUS
<1>1. ASSUME NEW s \in Slot PROVE card[s] \in Card /\ card[s].us = s
  <2>1. Zeroed(s) \in Card /\ Zeroed(s).us = s
    BY {} \in SUBSET FcPort, ZeroedType
  <2>2. Started(s) \in Card /\ Started(s).us = s
    BY StartedType
  <2>3. card[s] = IF s \in up THEN Started(s) ELSE Zeroed(s)
    BY DEF Populated
  <2> QED BY <2>1, <2>2, <2>3
<1> HIDE DEF Card, Frame
<1>2. inbox \in [Slot -> Seq(Frame)]
  BY DEF Populated
<1>3. card \in [Slot -> Card]
  BY <1>1 DEF Populated
<1> QED
  BY <1>1, <1>2, <1>3 DEF Populated, TypeOK

LEMMA PopulatedRole == Populated => RoleInv
<1> SUFFICES ASSUME Populated, NEW s \in Slot
             PROVE /\ Coherent(card[s])
                   /\ \A i \in DOMAIN inbox[s] : FrameCoherent(inbox[s][i])
                   /\ s \notin CpuA => card[s].state = BLOCK /\ inbox[s] = << >>
  BY DEF RoleInv
<1>1. Coherent(Zeroed(s)) /\ Zeroed(s).state = BLOCK
  BY StatesDiffer DEF Zeroed, Coherent, Topology
<1>2. Coherent(Started(s)) /\ (s \notin CpuA => Started(s).state = BLOCK)
  BY StartedCoherent
<1>3. card[s] = (IF s \in up THEN Started(s) ELSE Zeroed(s)) /\ inbox[s] = << >>
  BY DEF Populated
<1>4. DOMAIN inbox[s] = {}
  BY <1>3
<1> QED
  BY <1>1, <1>2, <1>3, <1>4

LEMMA PopulatedGuard == Populated => GuardInv /\ Guard!Init
<1> SUFFICES ASSUME Populated PROVE GuardInv /\ Guard!Init
  OBVIOUS
<1>1. \A s \in Guarded : card[s] = IF s \in up THEN Started(s) ELSE Zeroed(s)
  BY GuardedFacts DEF Populated
<1>2. \A s \in Guarded : /\ card[s].state = BLOCK
                         /\ s \in up => Timely(card[s]) /\ card[s].ports = {}
  <2>1. \A s \in Guarded : Zeroed(s).state = BLOCK
    BY DEF Zeroed
  <2> QED BY <1>1, <2>1, StartedWait, Zenon
<1>3. \A s \in Guarded : Waited(card[s]) = 0
  BY <1>2, WaitedFacts
<1> QED
  BY <1>2, <1>3 DEF GuardInv, Guard!Init

LEMMA PopulatedInvariant == PopulatedSpec => [](TypeOK /\ RoleInv /\ GuardInv)
  BY PopulatedType, PopulatedRole, PopulatedGuard, NextType, NextRole, NextGuard, PTL
     DEF PopulatedSpec

LEMMA PopulatedGossip == PopulatedSpec => GossipNeverRevives
<1>1. TypeOK /\ TypeOK' /\ [Next]_vars
      => [\A d \in Slot \ (up \cup up') :
            \A a \in Memory(d)' : \E b \in Memory(d) : a <= b]_vars
  BY NextGossip
<1> QED
  BY <1>1, PopulatedInvariant, PTL DEF PopulatedSpec, GossipNeverRevives

LEMMA PopulatedWaits == PopulatedSpec => PortsWait
  BY PopulatedGuard, NextGuard, PopulatedInvariant, PTL
     DEF PopulatedSpec, PortsWait, Guard!Spec, Waits, Opened

-----------------------------------------------------------------------------
(* Rounds and stalls are behaviours of Ctp. *)

LEMMA RoundInitPopulated ==
  RoundInit => Populated /\ joining \in SUBSET Slot /\ ticked = {} /\ calm = 0
<1> SUFFICES ASSUME RoundInit PROVE Populated /\ joining \in SUBSET Slot
  BY DEF RoundInit
<1>1. PICK chassis \in Chassis : up = chassis[1] /\ joining = chassis[2]
  BY DEF RoundInit
<1>2. chassis[1] \in SUBSET Slot /\ chassis[2] \in SUBSET Slot
  BY RoundAssumption
<1> QED
  BY <1>1, <1>2 DEF RoundInit, Populated

LEMMA RunningStep == Running => Next
  BY DEF Running, RoundTick, RoundReceive, Next

LEMMA RoundStep == [RoundNext]_roundVars => [Next]_vars
  BY RunningStep DEF RoundNext, RoundChange, Change, roundVars, Next

LEMMA StallStep == [StallNext]_stallVars => [Next]_vars
<1> SUFFICES ASSUME [StallNext]_stallVars PROVE [Next]_vars
  OBVIOUS
<1>1. CASE UNCHANGED stallVars
  BY <1>1 DEF stallVars, roundVars
<1>2. ASSUME NEW s \in Slot, Tick(s) \/ Receive(s) \/ Start(s) \/ SignalExit(s) \/ Crash(s)
      PROVE Next
  BY <1>2 DEF Next
<1>3. ASSUME NEW s \in Slot,
             StallTick(s) \/ StallReceive(s) \/ RunTimeouts(s) \/ StallChange(s)
      PROVE Next
  BY <1>2, <1>3 DEF StallTick, StallReceive, RoundReceive, RunTimeouts, StallChange,
                    RoundChange, Change
<1>4. ASSUME NEW s \in Slot, LookAtSockets(s) PROVE [Next]_vars
  BY <1>2, <1>4 DEF LookAtSockets
<1>5. ASSUME NEW s \in Slot, Stand(s) \/ Miss(s) \/ Return(s) \/ CaughtUp(s)
      PROVE UNCHANGED vars
  BY <1>5 DEF Stand, Miss, Return, CaughtUp, roundVars
<1> QED
  BY <1>1, <1>3, <1>4, <1>5 DEF StallNext, Going

(* Every behaviour in rounds is one of cards that step at any pace. *)
THEOREM RoundImplements == RoundSpec => PopulatedSpec
  BY RoundInitPopulated, RoundStep, PTL DEF RoundSpec, PopulatedSpec

(* So is every behaviour in which a loop stands still and catches up. *)
THEOREM StallImplements == StallSpec => PopulatedSpec
  BY RoundInitPopulated, StallStep, PTL DEF StallSpec, StallInit, PopulatedSpec

LEMMA DueTickBounds ==
  ASSUME NEW s \in Slot, DueTick(s), joining \subseteq Slot, ticked \subseteq Slot,
         calm \in 0..Settle
  PROVE joining' \subseteq Slot /\ ticked' \subseteq Slot /\ calm' \in 0..Settle
  BY RoundAssumption DEF DueTick

LEMMA RoundBounds ==
  ASSUME joining \subseteq Slot, ticked \subseteq Slot, calm \in 0..Settle,
         [RoundNext]_roundVars
  PROVE joining' \subseteq Slot /\ ticked' \subseteq Slot /\ calm' \in 0..Settle
<1>1. ASSUME NEW s \in Slot, RoundTick(s)
      PROVE joining' \subseteq Slot /\ ticked' \subseteq Slot /\ calm' \in 0..Settle
  BY <1>1, DueTickBounds DEF RoundTick
<1>2. ASSUME NEW s \in Slot, RoundReceive(s) \/ RoundChange(s)
      PROVE joining' \subseteq Slot /\ ticked' \subseteq Slot /\ calm' \in 0..Settle
  BY <1>2, RoundAssumption DEF RoundReceive, RoundChange, Change
<1>3. CASE UNCHANGED roundVars
  BY <1>3 DEF roundVars
<1> QED
  BY <1>1, <1>2, <1>3 DEF RoundNext, Running

(* No type, role, memory or timer invariant of Ctp is lost in a chassis    *)
(* that ticks in rounds, and its own variables keep their bounds.          *)
THEOREM RoundTyping == RoundSpec => []RoundTypeOK
<1>1. RoundInit => joining \in SUBSET Slot /\ ticked = {} /\ calm = 0
  BY RoundInitPopulated
<1> DEFINE Bounds == joining \subseteq Slot /\ ticked \subseteq Slot /\ calm \in 0..Settle
<1>2. RoundInit => Bounds
  BY <1>1, RoundAssumption
<1>3. Bounds /\ [RoundNext]_roundVars => Bounds'
  BY RoundBounds
<1>4. TypeOK /\ Bounds => RoundTypeOK
  BY DEF RoundTypeOK
<1> HIDE DEF Bounds
<1> QED
  BY <1>2, <1>3, <1>4, RoundImplements, PopulatedInvariant, PTL DEF RoundSpec

(* The same of a chassis one of whose loops may stand still, and catch up  *)
(* on no more ticks than it missed.                                        *)
THEOREM StallTyping == StallSpec => []StallTypeOK
<1> DEFINE Bounds == /\ joining \subseteq Slot /\ ticked \subseteq Slot /\ calm \in 0..Settle
                     /\ behind \in SlotId /\ doing \in {"handler", "timeouts", "sockets"}
                     /\ owed \in 0..MaxStall /\ stalls \in 0..MaxStalls
                     /\ trusted \in BOOLEAN
<1>1. StallInit => Bounds
  <2> SUFFICES ASSUME StallInit PROVE Bounds
    OBVIOUS
  <2>1. joining \subseteq Slot /\ ticked \subseteq Slot /\ calm \in 0..Settle
    BY RoundInitPopulated, RoundAssumption DEF StallInit
  <2>2. trusted \in BOOLEAN
    BY DEF StallInit
  <2> QED BY <2>1, <2>2, StallAssumption DEF StallInit, SlotId
<1>2. Bounds /\ [StallNext]_stallVars => Bounds'
  <2> SUFFICES ASSUME Bounds, [StallNext]_stallVars PROVE Bounds'
    OBVIOUS
  <2>1. \A s \in Slot : s \in SlotId /\ 0 \in SlotId
    BY DEF SlotId
  <2> USE RoundAssumption, StallAssumption
  <2>2. ASSUME NEW s \in Slot, StallTick(s) PROVE Bounds'
    BY <2>2, DueTickBounds DEF StallTick, loop
  <2>3. ASSUME NEW s \in Slot, StallReceive(s) PROVE Bounds'
    BY <2>3 DEF StallReceive, RoundReceive, loop
  <2>4. ASSUME NEW s \in Slot, StallChange(s) PROVE Bounds'
    <3>1. Change(s) /\ UNCHANGED loop
      BY <2>4 DEF StallChange, RoundChange
    <3>2. trusted' \in BOOLEAN
      BY <2>4 DEF StallChange
    <3>3. joining' \subseteq Slot /\ ticked' \subseteq Slot /\ calm' \in 0..Settle
      BY <3>1 DEF Change
    <3> QED BY <3>1, <3>2, <3>3 DEF loop
  <2>5. ASSUME NEW s \in Slot, Stand(s) PROVE Bounds'
    BY <2>1, <2>5 DEF Stand
  <2>6. ASSUME NEW s \in Slot, Miss(s) PROVE Bounds'
    BY <2>6, DueTickBounds DEF Miss
  <2>7. ASSUME NEW s \in Slot, Return(s) PROVE Bounds'
    BY <2>7 DEF Return, roundVars
  <2>8. ASSUME NEW s \in Slot, RunTimeouts(s) PROVE Bounds'
    BY <2>8 DEF RunTimeouts
  <2>9. ASSUME NEW s \in Slot, LookAtSockets(s) PROVE Bounds'
    BY <2>9 DEF LookAtSockets
  <2>10. ASSUME NEW s \in Slot, CaughtUp(s) PROVE Bounds'
    BY <2>1, <2>10 DEF CaughtUp
  <2>11. CASE UNCHANGED stallVars
    BY <2>11 DEF stallVars, roundVars, loop
  <2> QED
    BY <2>2, <2>3, <2>4, <2>5, <2>6, <2>7, <2>8, <2>9, <2>10, <2>11 DEF StallNext, Going
<1>3. TypeOK /\ Bounds => StallTypeOK
  BY DEF StallTypeOK, RoundTypeOK
<1> HIDE DEF Bounds
<1> QED
  BY <1>1, <1>2, <1>3, StallImplements, PopulatedInvariant, PTL DEF StallSpec

-----------------------------------------------------------------------------
(* Switching loops. *)

LEMMA PortsToFcDiffer ==
  ASSUME NEW l \in LineCard, NEW f1 \in FabricCard \cap CpuA, NEW f2 \in FabricCard \cap CpuA,
         f1 < f2, Address(l) # Address(f1), Address(l) # Address(f2)
  PROVE PortToFc(f1) # PortToFc(f2)
<1>1. l \in 1..32 /\ f1 \in 33..48 /\ f2 \in 33..48 /\ f1 % 2 = 1 /\ f2 % 2 = 1
  BY DEF LineCard, FabricCard, CpuA
<1>2. f1 \in 41..48 <=> f2 \in 41..48
  BY <1>1 DEF Address
<1> QED
  BY <1>1, <1>2 DEF PortToFc

LEMMA PortsToLcDiffer ==
  ASSUME NEW f \in FabricCard, NEW l1 \in LineCard \cap CpuA, NEW l2 \in LineCard \cap CpuA,
         l1 < l2, Address(l1) # Address(f), Address(l2) # Address(f)
  PROVE PortToLc(f, l1) # PortToLc(f, l2)
<1>1. f \in 33..48 /\ l1 \in 1..32 /\ l2 \in 1..32 /\ l1 % 2 = 1 /\ l2 % 2 = 1
  BY DEF LineCard, FabricCard, CpuA
<1>2. l1 \in 1..16 <=> l2 \in 1..16
  BY <1>1 DEF Address
<1>3. ASSUME NEW a \in 0..15, NEW b \in 0..15, a < b, a % 2 = 0, b % 2 = 0
      PROVE a \div 2 # b \div 2
  BY <1>3
<1>4. ((l1 - 1) % 16) \div 2 # ((l2 - 1) % 16) \div 2
  <2>1. CASE l1 \in 1..16
    <3>1. (l1 - 1) % 16 = l1 - 1 /\ (l2 - 1) % 16 = l2 - 1
      BY <1>1, <1>2, <2>1
    <3>2. (l1 - 1) % 2 = 0 /\ (l2 - 1) % 2 = 0
      BY <1>1
    <3>3. l1 - 1 \in 0..15 /\ l2 - 1 \in 0..15 /\ l1 - 1 < l2 - 1
      BY <1>1, <1>2, <2>1
    <3>4. (l1 - 1) \div 2 # (l2 - 1) \div 2
      BY <1>3, <3>2, <3>3
    <3> QED BY <3>1, <3>4
  <2>2. CASE l1 \notin 1..16
    <3>1. (l1 - 1) % 16 = l1 - 17 /\ (l2 - 1) % 16 = l2 - 17
      BY <1>1, <1>2, <2>2
    <3>2. (l1 - 17) % 2 = 0 /\ (l2 - 17) % 2 = 0
      BY <1>1
    <3>3. l1 - 17 \in 0..15 /\ l2 - 17 \in 0..15 /\ l1 - 17 < l2 - 17
      BY <1>1, <1>2, <2>2
    <3>4. (l1 - 17) \div 2 # (l2 - 17) \div 2
      BY <1>3, <3>2, <3>3
    <3> QED BY <3>1, <3>4
  <2> QED BY <2>1, <2>2
<1> QED
  BY <1>1, <1>4 DEF PortToLc

(* A line card that does not forward as the designated LC has at most one  *)
(* port open, and a fabric card that forwards under another root as well.  *)
LEMMA YieldingPorts ==
  ASSUME TypeOK, RoleInv, GuardInv, NEW s \in Ticking, Yields(s)
  PROVE \A x, y \in card[s].ports : x = y
<1>1. s \in Slot /\ Coherent(card[s]) /\ card[s] \in Card /\ card[s].us = s
  BY DEF RoleInv, TypeOK, Ticking
<1>2. CASE IsLineCard(s)
  <2>1. s \in Guarded /\ Timely(card[s])
    BY <1>1, <1>2, CardKinds DEF Guarded, GuardInv, Ticking
  <2>2. CASE card[s].state = FORWARDING
    <3>1. card[s].root # s
      BY <1>1, <2>1, GuardedFacts DEF Coherent, Topology
    <3>2. card[s].lc # s
      BY <1>1, <1>2, <2>2, <3>1 DEF Coherent, Yields
    <3> QED BY <1>1, <1>2, <2>2, <3>2 DEF Coherent, RolePorts
  <2>3. CASE card[s].state # FORWARDING
    BY <1>1, <2>1, <2>3 DEF Timely, Card, CtpState
  <2> QED BY <2>2, <2>3
<1>3. CASE ~ IsLineCard(s)
  <2>1. card[s].ports = RolePorts(s, card[s].root, card[s].lc) /\ card[s].root # s
    BY <1>1, <1>3 DEF Coherent, Yields
  <2> QED BY <1>3, <2>1 DEF RolePorts
<1> QED
  BY <1>2, <1>3

LEMMA YieldingHolds == TypeOK /\ RoleInv /\ GuardInv => YieldBreaksLoop
<1> SUFFICES ASSUME TypeOK, RoleInv, GuardInv, NEW q \in Square, Loop(q),
                    {q[1], q[2], q[3], q[4]} \subseteq Ticking,
                    NEW s \in {q[1], q[2], q[3], q[4]}, Yields(s)
             PROVE FALSE
  BY DEF YieldBreaksLoop
<1>1. /\ q[1] \in LineCard /\ q[2] \in LineCard /\ q[1] < q[2]
      /\ q[3] \in FabricCard /\ q[4] \in FabricCard /\ q[3] < q[4]
  BY DEF Square
<1>2. s \in Ticking /\ Ticking \subseteq CpuA
  BY DEF Ticking
<1>3. \A x, y \in card[s].ports : x = y
  BY <1>2, YieldingPorts
<1>4. CASE s \in {q[1], q[2]}
  <2>1. PortToFc(q[3]) # PortToFc(q[4])
    BY <1>1, <1>2, PortsToFcDiffer DEF Loop, Link
  <2>2. PortToFc(q[3]) \in card[s].ports /\ PortToFc(q[4]) \in card[s].ports
    BY <1>4 DEF Loop, Link
  <2> QED BY <1>3, <2>1, <2>2
<1>5. CASE s \in {q[3], q[4]}
  <2>1. PortToLc(s, q[1]) # PortToLc(s, q[2])
    BY <1>1, <1>2, <1>5, PortsToLcDiffer DEF Loop, Link
  <2>2. PortToLc(s, q[1]) \in card[s].ports /\ PortToLc(s, q[2]) \in card[s].ports
    BY <1>5 DEF Loop, Link
  <2> QED BY <1>3, <2>1, <2>2
<1> QED
  BY <1>4, <1>5

(* In any chassis under CTP, at any moment, over any network, a switching  *)
(* loop through four cards needs all four to have come first.              *)
THEOREM YieldBreaksLoopAlways == RoundSpec => []YieldBreaksLoop
  BY YieldingHolds, RoundImplements, PopulatedInvariant, PTL

(* A chassis in rounds keeps the promises of Ctp. *)
THEOREM RoundKeeps ==
  RoundSpec => /\ []RecordsAgree /\ []RolesMatchCards /\ []PortsMatchRole
               /\ GossipNeverRevives /\ PortsWait
<1>1. TypeOK /\ RoleInv => RecordsAgree /\ RolesMatchCards /\ PortsMatchRole
  BY RoleFacts
<1> QED
  BY <1>1, RoundImplements, PopulatedInvariant, PopulatedGossip, PopulatedWaits, PTL

(* A chassis with a stalling loop keeps them, and the loop-breaking rule,  *)
(* too: however late a daemon ticks, and in whatever bursts, its ports     *)
(* follow its role and wait for its timers.                                *)
THEOREM StallKeeps ==
  StallSpec => /\ []RecordsAgree /\ []RolesMatchCards /\ []PortsMatchRole
               /\ []YieldBreaksLoop /\ GossipNeverRevives /\ PortsWait
<1>1. TypeOK /\ RoleInv => RecordsAgree /\ RolesMatchCards /\ PortsMatchRole
  BY RoleFacts
<1> QED
  BY <1>1, YieldingHolds, StallImplements, PopulatedInvariant, PopulatedGossip,
     PopulatedWaits, PTL

-----------------------------------------------------------------------------
(* The links of a chassis on one tree. *)

LEMMA RoundInvariant == RoundSpec => [](TypeOK /\ RoleInv)
  BY RoundImplements, PopulatedInvariant, PTL

(* On one tree, all cards are in FORWARDING with the same records, and the *)
(* cards of each kind listen to those of the other.                        *)
LEMMA SettledCards ==
  ASSUME TypeOK, RoleInv, NEW r, NEW l, OnTree(r, l)
  PROVE /\ r \in Fabric /\ l \in Lines /\ Members = Lines \cup Fabric /\ Ticking = Members
        /\ \A s \in Members :
             /\ s \in up \cap CpuA \cap Dynamic /\ s \in Slot
             /\ s \in Lines <=> IsLineCard(s)
             /\ s \in Fabric <=> ~ IsLineCard(s)
             /\ card[s] \in Card /\ card[s].us = s /\ card[s].state = FORWARDING
             /\ card[s].root = r /\ card[s].rootBridge = r /\ card[s].design = l
             /\ IsLineCard(s) => card[s].lc = l /\ s # r
             /\ inbox[s] \in Seq(Frame)
             /\ Listeners(s) = IF IsLineCard(s) THEN Fabric ELSE Lines
<1>1. r \in Fabric /\ l \in Lines
  BY DEF OnTree
<1>2. Members = Lines \cup Fabric /\ Ticking = Members
  BY CardKinds DEF Members, Lines, Fabric, CpuA, Ticking, OnTree
<1>3. ASSUME NEW s \in Members
      PROVE /\ s \in up \cap CpuA \cap Dynamic /\ s \in Slot
            /\ s \in Lines <=> IsLineCard(s)
            /\ s \in Fabric <=> ~ IsLineCard(s)
  BY CardKinds DEF Members, Lines, Fabric, CpuA, OnTree
<1>4. ASSUME NEW s \in Members
      PROVE /\ card[s] \in Card /\ card[s].us = s /\ card[s].state = FORWARDING
            /\ card[s].root = r /\ card[s].rootBridge = r /\ card[s].design = l
            /\ IsLineCard(s) => card[s].lc = l /\ s # r
            /\ inbox[s] \in Seq(Frame)
  <2>1. card[s] \in Card /\ card[s].us = s /\ inbox[s] \in Seq(Frame)
    BY <1>3 DEF TypeOK
  <2>2. Coherent(card[s])
    BY <1>3 DEF RoleInv
  <2>3. ~ IsLineCard(r)
    BY <1>1, <1>3 DEF Fabric
  <2> QED BY <2>1, <2>2, <2>3 DEF Coherent, OnTree
<1>5. ASSUME NEW s \in Members
      PROVE Listeners(s) = IF IsLineCard(s) THEN Fabric ELSE Lines
  <2>1. \A t \in Slot : Address(t) \in {1, 2}
    BY DEF Address
  <2>2. \A x \in Lines, f \in Fabric : Address(x) # Address(f)
    BY DEF OnTree
  <2>3. \A t \in Members : Address(t) # Address(s) <=> (t \in Lines <=> s \in Fabric)
    <3> TAKE t \in Members
    <3>1. Address(t) \in {1, 2} /\ Address(s) \in {1, 2}
          /\ Address(r) \in {1, 2} /\ Address(l) \in {1, 2}
      BY <1>1, <1>3, <2>1 DEF Lines, Fabric
    <3>2. t \in Lines => Address(t) # Address(r)
      BY <1>1, <2>2
    <3>3. s \in Lines => Address(s) # Address(r)
      BY <1>1, <2>2
    <3>4. t \in Fabric => Address(t) # Address(l)
      BY <1>1, <2>2
    <3>5. s \in Fabric => Address(s) # Address(l)
      BY <1>1, <2>2
    <3>6. Address(l) # Address(r)
      BY <1>1, <2>2
    <3>7. (t \in Lines <=> t \notin Fabric) /\ (s \in Lines <=> s \notin Fabric)
      BY <1>3
    <3> QED BY <3>1, <3>2, <3>3, <3>4, <3>5, <3>6, <3>7
  <2>4. Listeners(s) = {t \in Members : Address(t) # Address(s)}
    BY DEF Listeners, Members
  <2>5. Lines \subseteq Members /\ Fabric \subseteq Members
    BY DEF Lines, Fabric
  <2>6. CASE IsLineCard(s)
    <3>1. s \notin Fabric
      BY <1>3, <2>6
    <3>2. \A t \in Members : t \in Fabric <=> t \notin Lines
      BY <1>3
    <3> QED BY <2>3, <2>4, <2>5, <2>6, <3>1, <3>2
  <2>7. CASE ~ IsLineCard(s)
    <3>1. s \in Fabric
      BY <1>3, <2>7
    <3> QED BY <2>3, <2>4, <2>5, <2>7, <3>1
  <2> QED BY <2>6, <2>7
<1> QED
  BY <1>1, <1>2, <1>3, <1>4, <1>5

LEMMA TreeHolds == TypeOK /\ RoleInv => LinksAreTree
<1> SUFFICES ASSUME TypeOK, RoleInv, NEW r \in FabricCard, NEW l \in LineCard, OnTree(r, l),
                    NEW x \in Lines, NEW f \in Fabric
             PROVE Link(x, f) <=> x = l \/ f = r
  BY DEF LinksAreTree
<1>1. /\ r \in Fabric /\ l \in Lines /\ Fabric \subseteq Members /\ Lines \subseteq Members
      /\ \A s \in Members : /\ s \in Slot /\ s \in CpuA
                            /\ s \in Lines <=> IsLineCard(s)
                            /\ s \in Fabric <=> ~ IsLineCard(s)
                            /\ card[s].us = s /\ card[s].state = FORWARDING
                            /\ card[s].root = r /\ card[s].design = l
                            /\ IsLineCard(s) => card[s].lc = l /\ s # r
  BY SettledCards DEF Fabric, Lines
<1>2. /\ x \in LineCard \cap CpuA /\ l \in LineCard \cap CpuA
      /\ f \in FabricCard \cap CpuA /\ r \in FabricCard \cap CpuA
  BY DEF OnTree, Lines, Fabric, Members
<1>3. Address(x) # Address(f) /\ Address(x) # Address(r) /\ Address(l) # Address(f)
  BY <1>1 DEF OnTree
<1>4. PortToFc(f) \in LcPort /\ PortToFc(r) \in LcPort /\ PortToLc(f, x) \in FcPort
  <2>1. f \in 33..48 /\ r \in 33..48 /\ x \in 1..32 /\ f \in Slot
    BY <1>2 DEF FabricCard, LineCard
  <2> QED BY <2>1, PortToFcRange, PortToLcRange
<1>5. card[x].ports = IF x = l THEN LcPort ELSE {PortToFc(r)}
  <2>1. card[x].ports = RolePorts(x, r, l) /\ IsLineCard(x)
    BY <1>1 DEF RoleInv, Coherent
  <2>2. r \in {i \in 33..48 : i % 2 = 1}
    BY <1>2 DEF FabricCard, CpuA
  <2> QED BY <2>1, <2>2 DEF RolePorts
<1>6. card[f].ports = IF f = r THEN FcPort ELSE {PortToLc(f, l)}
  <2>1. card[f].ports = RolePorts(f, r, card[f].lc) /\ ~ IsLineCard(f)
    BY <1>1 DEF RoleInv, Coherent
  <2>2. f # r => card[f].lc = l
    BY <1>1 DEF RoleInv, Coherent
  <2>3. l \in {i \in 1..32 : i % 2 = 1}
    BY <1>2 DEF LineCard, CpuA
  <2> QED BY <2>1, <2>2, <2>3 DEF RolePorts
<1>7. f # r => PortToFc(f) # PortToFc(r)
  <2>1. f < r \/ r < f \/ f = r
    BY <1>2 DEF FabricCard
  <2> QED BY <1>2, <1>3, <2>1, PortsToFcDiffer
<1> QED
  BY <1>3, <1>4, <1>5, <1>6, <1>7 DEF Link

(* Where every card forwards under one root FC and one designated LC, the   *)
(* ports that chassis_bpdu_enter_forwarding_state has set connect each two *)
(* cards by one way only, in every state of a chassis that ticks in rounds.*)
THEOREM LinksAreTreeAlways == RoundSpec => []LinksAreTree
  BY TreeHolds, RoundInvariant, PTL

-----------------------------------------------------------------------------
(* What a card of a settled chassis does. *)

(* A settled card keeps to its topology, and what it sends says the same.  *)
Says(g, type, c) ==
  /\ g.type = type /\ g.slot = c.us /\ g.root = c.rootBridge /\ g.dbridge = c.design

LEMMA TxSays ==
  ASSUME NEW c \in Card, NEW type
  PROVE /\ SameRole(Tx(c, type).card, c)
        /\ Tx(c, type).card.seen = c.seen /\ Tx(c, type).card.time = c.time
        /\ \E g : Tx(c, type).sent = {g} /\ Says(g, type, c)
<1> DEFINE d == DecMembers(c)
<1>1. SameRole(d, c)
  BY DecMembersRole
<1>2. d.seen = c.seen /\ d.time = c.time
  BY DEF DecMembers, Card
<1> HIDE DEF d
<1>3. Says(FrameOf(d, type), type, c)
  BY <1>1 DEF FrameOf, Says, SameRole
<1> QED
  BY <1>1, <1>2, <1>3 DEF Tx, d

LEMMA SettledTick ==
  ASSUME NEW c \in Card, c.us \in CpuA \cap Dynamic, c.state = FORWARDING,
         c.time <= IF c.us = c.root THEN MaxAge ELSE MaxAge * ForwardDelay
  PROVE /\ SameRole(Ticked(c).card, c)
        /\ Ticked(c).card.seen = {} /\ Ticked(c).card.time = c.time + 1
        /\ IF c.us = c.root THEN \E g : Ticked(c).sent = {g} /\ Says(g, "HELLO", c)
                            ELSE Ticked(c).sent = {}
<1> DEFINE d == [c EXCEPT !.seen = {}]
<1>1. d \in Card /\ SameRole(d, c) /\ d.seen = {} /\ d.time = c.time
  BY DEF Card, SameRole
<1>2. Ticked(c) = TickForwarding(d)
  BY StatesDiffer DEF Ticked
<1>3. MaxAge * ForwardDelay \in Int /\ MaxAge \in Int /\ c.time \in Int
  BY TimerAssumption DEF Card
<1> HIDE DEF d
<1>4. CASE c.us = c.root
  <2> DEFINE hello == Tx(d, "HELLO")
  <2>1. /\ SameRole(hello.card, d) /\ hello.card.seen = {} /\ hello.card.time = c.time
        /\ \E g : hello.sent = {g} /\ Says(g, "HELLO", d)
    BY <1>1, TxSays
  <2>2. hello.card \in Card
    BY <1>1, TxType, Types DEF Outcome, SameCard
  <2>3. Ticked(c) = After(hello, [hello.card EXCEPT !.time = @ + 1])
    BY <1>1, <1>2, <1>3, <1>4 DEF TickForwarding, TickRoot, SameRole
  <2>4. hello = [card |-> hello.card, sent |-> hello.sent]
    BY TxIsRecord
  <2> HIDE DEF hello
  <2>5. /\ Ticked(c).card = [hello.card EXCEPT !.time = @ + 1]
        /\ Ticked(c).sent = hello.sent
    BY <2>3, <2>4 DEF After
  <2> QED BY <1>1, <1>4, <2>1, <2>2, <2>5 DEF Says, SameRole, Card
<1>5. CASE c.us # c.root
  <2>1. Ticked(c) = Quiet([d EXCEPT !.time = @ + 1])
    BY <1>1, <1>2, <1>3, <1>5 DEF TickForwarding, SameRole
  <2> QED BY <1>1, <1>5, <2>1 DEF Quiet, SameRole, Card
<1> QED
  BY <1>4, <1>5

(* What a settled card does with a frame that says what it knows. *)
Agrees(f, c) ==
  /\ f.type \in {"HELLO", "REPLY"}
  /\ f.root = c.rootBridge /\ f.dbridge = c.design /\ c.root = c.rootBridge
  /\ IsLineCard(f.slot) # IsLineCard(c.us)
  /\ IsLineCard(c.us) => c.lc = c.design

(* The farewell of a line card, which names no root. *)
Farewell(f, c) ==
  f.type = "FC_CHANGE" /\ IsLineCard(f.slot) /\ f.root # c.us

Answer(c, f) ==
  IF ~ IsLineCard(c.us) \/ (f.dbridge = c.us /\ f.slot = f.root) THEN "HELLO" ELSE "REPLY"

(* A HELLO that it takes sets its timer back and is answered, but by the root. *)
Takes(m, c, f) ==
  /\ SameRole(m.card, c)
  /\ m.card.seen = c.seen \cup {<<f.slot, f.type>>}
  /\ m.card.time = IF f.type = "HELLO" THEN 0 ELSE c.time
  /\ IF f.type = "HELLO" /\ c.us # c.root
       THEN \E g : m.sent = {g} /\ Says(g, Answer(c, f), c)
       ELSE m.sent = {}

LEMMA HeardFacts ==
  ASSUME NEW c \in Card, NEW f \in Frame
  PROVE /\ UpdateMembers(c, f) \in Card
        /\ SameRole(UpdateMembers(c, f), c)
        /\ UpdateMembers(c, f).seen = c.seen /\ UpdateMembers(c, f).time = c.time
  BY UpdateMembersType, UpdateMembersRole DEF UpdateMembers, SameCard, Card

LEMMA LineTakes ==
  ASSUME NEW c \in Card, NEW d \in Card, NEW f \in Frame, IsLineCard(c.us),
         c.state = FORWARDING, Agrees(f, c), c.us # c.root,
         d = [c EXCEPT !.seen = @ \cup {<<f.slot, f.type>>}]
  PROVE Takes(RxFromFc(d, f), c, f)
<1> DEFINE heard == UpdateMembers(d, f)
           timed == [heard EXCEPT !.time = 0]
<1>1. SameRole(d, c) /\ d.seen = c.seen \cup {<<f.slot, f.type>>} /\ d.time = c.time
  BY DEF SameRole, Card
<1>2. heard \in Card /\ SameRole(heard, c) /\ heard.seen = d.seen /\ heard.time = d.time
  BY <1>1, HeardFacts DEF SameRole
<1> HIDE DEF heard
<1>3. timed \in Card /\ SameRole(timed, c) /\ timed.seen = d.seen /\ timed.time = 0
  BY <1>2 DEF SameRole, Card
<1> HIDE DEF timed
<1>4. CASE f.type = "REPLY"
  <2>1. RxFromFc(d, f) = Quiet(heard)
    BY <1>1, <1>4, StatesDiffer DEF RxFromFc, heard, SameRole
  <2> QED BY <1>1, <1>2, <1>4, <2>1 DEF Takes, Quiet
<1>5. CASE f.type = "HELLO"
  <2>1. RxFromFc(d, f) = Tx(timed, Answer(c, f))
    BY <1>1, <1>5, StatesDiffer DEF RxFromFc, heard, timed, SameRole, Agrees, Answer
  <2>2. \A g : Says(g, Answer(c, f), timed) => Says(g, Answer(c, f), c)
    BY <1>3 DEF Says, SameRole
  <2>3. /\ SameRole(Tx(timed, Answer(c, f)).card, timed)
        /\ Tx(timed, Answer(c, f)).card.seen = timed.seen
        /\ Tx(timed, Answer(c, f)).card.time = timed.time
        /\ \E g : Tx(timed, Answer(c, f)).sent = {g} /\ Says(g, Answer(c, f), timed)
    BY <1>3, TxSays
  <2> QED BY <1>1, <1>3, <1>5, <2>1, <2>2, <2>3 DEF Takes, SameRole
<1> QED
  BY <1>4, <1>5 DEF Agrees

LEMMA FabricTakes ==
  ASSUME NEW c \in Card, NEW d \in Card, NEW f \in Frame, ~ IsLineCard(c.us),
         c.state = FORWARDING, Agrees(f, c),
         d = [c EXCEPT !.seen = @ \cup {<<f.slot, f.type>>}]
  PROVE Takes(RxFromLc(d, f), c, f)
<1> DEFINE heard == UpdateMembers(d, f)
           timed == [heard EXCEPT !.time = 0]
<1>1. SameRole(d, c) /\ d.seen = c.seen \cup {<<f.slot, f.type>>} /\ d.time = c.time
  BY DEF SameRole, Card
<1>2. heard \in Card /\ SameRole(heard, c) /\ heard.seen = d.seen /\ heard.time = d.time
  BY <1>1, HeardFacts DEF SameRole
<1> HIDE DEF heard
<1>3. timed \in Card /\ SameRole(timed, c) /\ timed.seen = d.seen /\ timed.time = 0
  BY <1>2 DEF SameRole, Card
<1> HIDE DEF timed
<1>4. CASE f.type = "REPLY"
  <2>1. RxFromLc(d, f) = Quiet(heard)
    BY <1>1, <1>4, StatesDiffer DEF RxFromLc, heard, SameRole
  <2> QED BY <1>1, <1>2, <1>4, <2>1 DEF Takes, Quiet
<1>5. CASE f.type = "HELLO"
  <2>1. RxFromLc(d, f) = RxHelloFromLc(timed, f)
    BY <1>1, <1>5, StatesDiffer DEF RxFromLc, heard, timed, SameRole
  <2>2. RxHelloFromLc(timed, f) = IF c.us # c.root THEN Tx(timed, "HELLO") ELSE Quiet(timed)
    BY <1>3 DEF RxHelloFromLc, SameRole, Agrees
  <2>3. \A g : Says(g, "HELLO", timed) => Says(g, "HELLO", c)
    BY <1>3 DEF Says, SameRole
  <2>4. /\ SameRole(Tx(timed, "HELLO").card, timed)
        /\ Tx(timed, "HELLO").card.seen = timed.seen
        /\ Tx(timed, "HELLO").card.time = timed.time
        /\ \E g : Tx(timed, "HELLO").sent = {g} /\ Says(g, "HELLO", timed)
    BY <1>3, TxSays
  <2>5. Answer(c, f) = "HELLO"
    BY DEF Answer
  <2>6. CASE c.us # c.root
    <3>1. RxFromLc(d, f) = Tx(timed, "HELLO")
      BY <2>1, <2>2, <2>6
    <3> QED BY <1>1, <1>3, <1>5, <2>3, <2>4, <2>5, <2>6, <3>1 DEF Takes, SameRole
  <2>7. CASE c.us = c.root
    <3>1. RxFromLc(d, f).card = timed /\ RxFromLc(d, f).sent = {}
      BY <2>1, <2>2, <2>7 DEF Quiet
    <3> QED BY <1>1, <1>3, <1>5, <2>7, <3>1 DEF Takes, SameRole
  <2> QED BY <2>6, <2>7
<1> QED
  BY <1>4, <1>5 DEF Agrees

LEMMA FarewellTaken ==
  ASSUME NEW c \in Card, NEW d \in Card, NEW f \in Frame, ~ IsLineCard(c.us),
         c.state = FORWARDING, Farewell(f, c),
         d = [c EXCEPT !.seen = @ \cup {<<f.slot, f.type>>}]
  PROVE Takes(RxFromLc(d, f), c, f)
<1> DEFINE heard == UpdateMembers(d, f)
<1>1. SameRole(d, c) /\ d.seen = c.seen \cup {<<f.slot, f.type>>} /\ d.time = c.time
  BY DEF SameRole, Card
<1>2. heard \in Card /\ SameRole(heard, c) /\ heard.seen = d.seen /\ heard.time = d.time
  BY <1>1, HeardFacts DEF SameRole
<1> HIDE DEF heard
<1>3. RxFromLc(d, f) = RxFcChange(heard, f)
  BY <1>1, StatesDiffer DEF RxFromLc, heard, SameRole, Farewell
<1>4. RxFcChange(heard, f) = Quiet(heard)
  BY <1>2 DEF RxFcChange, Farewell, SameRole
<1> QED
  BY <1>1, <1>2, <1>3, <1>4 DEF Takes, Quiet, Farewell

(* A frame already seen since its last tick is dropped. *)
LEMMA SettledReceives ==
  ASSUME NEW c \in Card, NEW f \in Frame, c.state = FORWARDING,
         Agrees(f, c) \/ Farewell(f, c), IsLineCard(c.us) => c.us # c.root
  PROVE IF Fresh(c, f) THEN Takes(Received(c, f), c, f) ELSE Received(c, f) = Quiet(c)
<1> DEFINE d == [c EXCEPT !.seen = @ \cup {<<f.slot, f.type>>}]
<1>1. d \in Card
  BY DEF Card, Frame
<1> HIDE DEF d
<1>2. CASE Agrees(f, c)
  <2>1. Fresh(c, f) =>
          Received(c, f) = IF IsLineCard(c.us) THEN RxFromFc(d, f) ELSE RxFromLc(d, f)
    BY <1>2 DEF Received, Agrees, d
  <2> QED BY <1>1, <1>2, <2>1, LineTakes, FabricTakes DEF Received, d
<1>3. CASE Farewell(f, c) /\ ~ IsLineCard(c.us)
  <2>1. Fresh(c, f) => Received(c, f) = RxFromLc(d, f)
    BY <1>3 DEF Received, Farewell, IsLineCard, d
  <2> QED BY <1>1, <1>3, <2>1, FarewellTaken DEF Received, d
<1>4. CASE Farewell(f, c) /\ IsLineCard(c.us)
  <2>1. Fresh(c, f) => Received(c, f) = Quiet(d)
    BY <1>4 DEF Received, Farewell, IsLineCard, d
  <2>2. SameRole(d, c) /\ d.seen = c.seen \cup {<<f.slot, f.type>>} /\ d.time = c.time
    BY DEF SameRole, Card, d
  <2> QED BY <1>4, <2>1, <2>2 DEF Received, Takes, Quiet, Farewell
<1> QED
  BY <1>2, <1>3, <1>4

-----------------------------------------------------------------------------
(* The queues of a settled chassis. *)

LEMMA HoldsAppend ==
  ASSUME NEW q \in Seq(Frame), NEW g \in Frame, NEW id
  PROVE Holds(Append(q, g), id) <=> Holds(q, id) \/ (g.type = "HELLO" /\ g.slot = id)
<1> DEFINE a == Append(q, g)
<1>1. /\ DOMAIN a = DOMAIN q \cup {Len(q) + 1}
      /\ \A i \in DOMAIN q : a[i] = q[i]
      /\ a[Len(q) + 1] = g
  OBVIOUS
<1> HIDE DEF a
<1>2. Holds(a, id) <=> Holds(q, id) \/ (g.type = "HELLO" /\ g.slot = id)
  BY <1>1 DEF Holds
<1> QED
  BY <1>2 DEF a

LEMMA HoldsTail ==
  ASSUME NEW q \in Seq(Frame), q # << >>, NEW id
  PROVE Holds(q, id)
        <=> Holds(Tail(q), id) \/ (Head(q).type = "HELLO" /\ Head(q).slot = id)
<1>1. /\ \A i \in DOMAIN Tail(q) : i + 1 \in DOMAIN q /\ Tail(q)[i] = q[i + 1]
      /\ \A i \in DOMAIN q : i = 1 \/ (i - 1 \in DOMAIN Tail(q) /\ Tail(q)[i - 1] = q[i])
      /\ 1 \in DOMAIN q /\ Head(q) = q[1]
  OBVIOUS
<1> DEFINE tl == Tail(q)
           hd == Head(q)
<1> HIDE DEF tl, hd
<1>2. /\ \A i \in DOMAIN tl : i + 1 \in DOMAIN q /\ tl[i] = q[i + 1]
      /\ \A i \in DOMAIN q : i = 1 \/ (i - 1 \in DOMAIN tl /\ tl[i - 1] = q[i])
      /\ 1 \in DOMAIN q /\ hd = q[1]
  BY <1>1 DEF tl, hd
<1>3. Holds(q, id) <=> Holds(tl, id) \/ (hd.type = "HELLO" /\ hd.slot = id)
  BY <1>2 DEF Holds
<1> QED
  BY <1>3 DEF tl, hd

(* A queue whose frames all speak for the tree of r and l to card s. *)
Voices(q, s, r, l) == \A i \in DOMAIN q : Voice(q[i], s, r, l)

LEMMA OneVoiceQueues ==
  ASSUME NEW r, NEW l
  PROVE OneVoice(r, l) <=> \A s \in Members : Voices(inbox[s], s, r, l)
  BY DEF OneVoice, Voices

LEMMA VoicesQueue ==
  ASSUME NEW q \in Seq(Frame), NEW s, NEW r, NEW l, Voices(q, s, r, l)
  PROVE /\ q # << >> => Voice(Head(q), s, r, l) /\ Voices(Tail(q), s, r, l)
        /\ \A g \in Frame : Voice(g, s, r, l) => Voices(Append(q, g), s, r, l)
<1>1. ASSUME q # << >> PROVE Voice(Head(q), s, r, l) /\ Voices(Tail(q), s, r, l)
  <2>1. /\ \A i \in DOMAIN Tail(q) : i + 1 \in DOMAIN q /\ Tail(q)[i] = q[i + 1]
        /\ 1 \in DOMAIN q /\ Head(q) = q[1]
    BY <1>1
  <2> QED BY <2>1 DEF Voices
<1>2. ASSUME NEW g \in Frame, Voice(g, s, r, l) PROVE Voices(Append(q, g), s, r, l)
  <2>1. /\ DOMAIN Append(q, g) = DOMAIN q \cup {Len(q) + 1}
        /\ \A i \in DOMAIN q : Append(q, g)[i] = q[i]
        /\ Append(q, g)[Len(q) + 1] = g
    OBVIOUS
  <2> QED BY <1>2, <2>1 DEF Voices
<1> QED
  BY <1>1, <1>2

LEMMA EnqueueOne ==
  ASSUME NEW q, NEW g
  PROVE /\ Enqueue(q, {}) = q
        /\ Enqueue(q, {g}) = IF Len(q) >= QueueCap THEN q ELSE Append(q, g)
  BY DEF Enqueue

LEMMA DeliverAll ==
  ASSUME Reliable, NEW from, NEW queues, NEW sent, Deliver(from, queues, sent)
  PROVE inbox' = [s \in Slot |-> IF s \in Listeners(from) THEN Enqueue(queues[s], sent)
                                  ELSE queues[s]]
  BY DEF Deliver, Reliable

-----------------------------------------------------------------------------
(* A frame is taken. *)

HelloFrom(h, id) == h.type = "HELLO" /\ h.slot = id

(* s answers frame h. *)
Speaks(s, h, r) == Fresh(card[s], h) /\ h.type = "HELLO" /\ s # r

(* What card s, taking frame h, does to the cards and queues.              *)
ReceiveStep(s, h, r, l) ==
  /\ up' = up /\ ticked' = ticked
  /\ \A t \in Slot : SameRole(card'[t], card[t]) /\ (t # s => card'[t] = card[t])
  /\ card'[s].seen = card[s].seen \cup {<<h.slot, h.type>>}
  /\ card'[s].time = IF h.type = "HELLO" THEN 0 ELSE card[s].time
  /\ inbox'[s] = Tail(inbox[s])
  /\ IF Speaks(s, h, r)
       THEN \E g \in Frame :
              /\ g.slot = s /\ g.root = r /\ g.dbridge = l
              /\ g.type = IF ~ IsLineCard(s) \/ (s = l /\ h.slot = r) THEN "HELLO" ELSE "REPLY"
              /\ \A t \in Members \ {s} :
                   inbox'[t] = IF t \in Listeners(s) /\ Len(inbox[t]) < QueueCap
                                 THEN Append(inbox[t], g) ELSE inbox[t]
       ELSE \A t \in Members \ {s} : inbox'[t] = inbox[t]

LEMMA SettledReceive ==
  ASSUME TypeOK, RoleInv, Reliable, NEW r, NEW l, Settled(r, l), NEW s \in Slot, RoundReceive(s)
  PROVE /\ s \in Members /\ inbox[s] # << >> /\ Head(inbox[s]) \in Frame
        /\ Voice(Head(inbox[s]), s, r, l)
        /\ ReceiveStep(s, Head(inbox[s]), r, l)
<1> DEFINE h == Head(inbox[s])
           c == card[s]
           m == Received(c, h)
<1>1. OnTree(r, l) /\ OneVoice(r, l) /\ HellosInOrder(r, l)
  BY DEF Settled
<1>2. s \in Members /\ inbox[s] # << >>
  BY DEF RoundReceive, Receive, RoleInv, Members
<1>3. /\ c \in Card /\ c.us = s /\ c.state = FORWARDING
      /\ c.root = r /\ c.rootBridge = r /\ c.design = l
      /\ IsLineCard(s) => c.lc = l /\ s # r
      /\ inbox[s] \in Seq(Frame)
  BY <1>1, <1>2, SettledCards
<1>4. h \in Frame
  BY <1>2, <1>3
<1>5. Voice(h, s, r, l)
  BY <1>1, <1>2, <1>3, OneVoiceQueues, VoicesQueue
<1> HIDE DEF h
<1>6. Agrees(h, c) \/ Farewell(h, c)
  <2>1. FrameCoherent(h)
    BY <1>2, <1>3 DEF RoleInv, Members, CpuA, h
  <2>2. s # 0
    BY CardKinds
  <2> QED BY <1>3, <1>5, <2>1, <2>2 DEF Agrees, Farewell, Voice, FrameCoherent
<1>7. IF Fresh(c, h) THEN Takes(m, c, h) ELSE m = Quiet(c)
  BY <1>3, <1>4, <1>6, SettledReceives
<1>8. Outcome(m, c)
  BY <1>3, <1>4, ReceivedType
<1> DEFINE queues == [inbox EXCEPT ![s] = Tail(@)]
<1>9. up' = up /\ ticked' = ticked /\ Step(s, m, queues)
  <2>1. PICK again \in {FALSE, Looping} : Step(s, m, IF again THEN inbox ELSE queues)
    BY DEF RoundReceive, Receive, h
  <2>2. ~ again
    BY DEF Reliable
  <2> QED BY <2>1, <2>2 DEF RoundReceive, Receive
<1>10. ~ Fresh(c, h) /\ h.type = "HELLO" => c.time = 0
  <2>1. h.slot \in Slot
    BY <1>4 DEF Frame
  <2>2. ~ Fresh(c, h) /\ h.type = "HELLO" => Took(s, h.slot)
    BY DEF Fresh, Took
  <2> QED BY <1>1, <1>2, <1>5, <2>1, <2>2 DEF HellosInOrder, Voice
<1> HIDE DEF m
<1>11. /\ SameRole(m.card, c)
       /\ m.card.seen = c.seen \cup {<<h.slot, h.type>>}
       /\ m.card.time = IF h.type = "HELLO" THEN 0 ELSE c.time
  BY <1>7, <1>10 DEF Takes, Quiet, SameRole, Fresh
<1>12. card' = [card EXCEPT ![s] = m.card] /\ card \in [Slot -> Card]
  BY <1>9 DEF Step, TypeOK
<1>13. /\ \A t \in Slot : SameRole(card'[t], card[t]) /\ (t # s => card'[t] = card[t])
       /\ card'[s] = m.card
  BY <1>2, <1>11, <1>12 DEF Members, CpuA, SameRole
<1>15. /\ queues[s] = Tail(inbox[s]) /\ (\A t \in Slot \ {s} : queues[t] = inbox[t])
       /\ s \notin Listeners(s) /\ Members \subseteq Slot
  BY DEF TypeOK, Listeners, Members, CpuA
<1> HIDE DEF queues
<1>14. inbox' = [t \in Slot |-> IF t \in Listeners(s) THEN Enqueue(queues[t], m.sent) ELSE queues[t]]
  BY <1>9, DeliverAll DEF Step
<1>16. /\ inbox'[s] = Tail(inbox[s])
       /\ \A t \in Members \ {s} :
            inbox'[t] = IF t \in Listeners(s) THEN Enqueue(inbox[t], m.sent) ELSE inbox[t]
  BY <1>14, <1>15
<1>17. CASE Speaks(s, h, r)
  <2>1. PICK g : m.sent = {g} /\ Says(g, Answer(c, h), c)
    BY <1>3, <1>7, <1>17 DEF Speaks, Takes
  <2>2. g \in Frame
    BY <1>8, <2>1 DEF Outcome
  <2>3. /\ g.slot = s /\ g.root = r /\ g.dbridge = l
        /\ g.type = IF ~ IsLineCard(s) \/ (s = l /\ h.slot = r) THEN "HELLO" ELSE "REPLY"
    BY <1>3, <1>5, <1>17, <2>1 DEF Says, Answer, Voice, Speaks
  <2>4. \A t \in Members : Len(inbox[t]) \in Nat
    BY DEF TypeOK, Members, CpuA
  <2>5. \A t \in Members \ {s} :
          inbox'[t] = IF t \in Listeners(s) /\ Len(inbox[t]) < QueueCap
                        THEN Append(inbox[t], g) ELSE inbox[t]
    <3> TAKE t \in Members \ {s}
    <3>1. inbox'[t] = IF t \in Listeners(s) THEN Enqueue(inbox[t], {g}) ELSE inbox[t]
      BY <1>16, <2>1
    <3>2. Enqueue(inbox[t], {g}) = IF Len(inbox[t]) >= QueueCap THEN inbox[t] ELSE Append(inbox[t], g)
      BY EnqueueOne
    <3>3. Len(inbox[t]) >= QueueCap <=> ~ (Len(inbox[t]) < QueueCap)
      BY <2>4, NetworkAssumption
    <3> QED BY <3>1, <3>2, <3>3
  <2> QED
    BY <1>2, <1>4, <1>5, <1>9, <1>11, <1>13, <1>16, <1>17, <2>2, <2>3, <2>5 DEF ReceiveStep, h
<1>18. CASE ~ Speaks(s, h, r)
  <2>1. m.sent = {}
    BY <1>3, <1>7, <1>18 DEF Speaks, Takes, Quiet
  <2>2. \A t \in Members \ {s} : inbox'[t] = inbox[t]
    BY <1>16, <2>1, EnqueueOne
  <2> QED
    BY <1>2, <1>4, <1>5, <1>9, <1>11, <1>13, <1>16, <1>18, <2>2 DEF ReceiveStep, h
<1> QED
  BY <1>17, <1>18
(* The HELLOs waiting and taken, before and after. *)
ReceiveFacts(s, h, r, l) ==
  /\ Members' = Members /\ Lines' = Lines /\ Fabric' = Fabric /\ Due' = Due
  /\ \A t \in Members, id \in Slot :
       /\ Took(t, id)' <=> Took(t, id) \/ (t = s /\ HelloFrom(h, id))
       /\ Waiting(t, id) => Waiting(t, id)' \/ (t = s /\ HelloFrom(h, id))
       /\ Waiting(t, id)' /\ ~ Waiting(t, id) =>
            /\ id = s /\ s # r
            /\ IsLineCard(s) => s = l /\ HelloFrom(h, r) /\ ~ Took(l, r)
  /\ \A id \in Slot : HelloFrom(h, id) => Waiting(s, id)
  /\ s = l /\ HelloFrom(h, r) /\ ~ Took(l, r) => \A f \in Fabric : Waiting(f, l)'
  /\ \A t \in Members : card'[t].time = IF t = s /\ h.type = "HELLO" THEN 0 ELSE card[t].time

LEMMA TakenFinite ==
  /\ IsFiniteSet(LineCard \X FabricCard)
  /\ Cardinality(LineCard \X FabricCard) = Cardinality(LineCard) * Cardinality(FabricCard)
  /\ IsFiniteSet(Taken) /\ Cardinality(Taken) \in Nat
<1>1. IsFiniteSet(LineCard) /\ IsFiniteSet(FabricCard)
  <2>1. ASSUME NEW cards \in SUBSET Slot PROVE IsFiniteSet(cards)
    <3>1. cards \in SUBSET Nat /\ 48 \in Nat /\ \A s \in cards : s <= 48
      BY SlotAssumption
    <3> QED BY <3>1, FS_BoundedSetOfNaturals
  <2> QED BY <2>1 DEF LineCard, FabricCard
<1>2. /\ IsFiniteSet(LineCard \X FabricCard)
      /\ Cardinality(LineCard \X FabricCard) = Cardinality(LineCard) * Cardinality(FabricCard)
  BY <1>1, FS_Product
<1>3. Taken \subseteq LineCard \X FabricCard
  BY DEF Taken
<1> QED
  BY <1>2, <1>3, FS_Subset, FS_CardinalityType

(* While a HELLO of one FC to one LC has not been taken, no FC's queue is full. *)
LEMMA TakenBound ==
  ASSUME Reliable, NEW p \in LineCard \X FabricCard, p \notin Taken
  PROVE Cardinality(Taken) < QueueCap
<1> DEFINE all == LineCard \X FabricCard
<1>1. IsFiniteSet(all) /\ Taken \subseteq all \ {p} /\ p \in all
  BY TakenFinite DEF Taken
<1>2. IsFiniteSet(all \ {p}) /\ Cardinality(all \ {p}) = Cardinality(all) - 1
  BY <1>1, FS_RemoveElement
<1>3. Cardinality(Taken) <= Cardinality(all) - 1
  BY <1>1, <1>2, FS_Subset
<1>4. Cardinality(all) \in Nat /\ Cardinality(Taken) \in Nat
  BY <1>1, TakenFinite, FS_CardinalityType
<1>5. Cardinality(all) <= QueueCap
  <2>1. Cardinality(all) = Cardinality(LineCard) * Cardinality(FabricCard)
    BY TakenFinite
  <2> QED BY <2>1 DEF Reliable
<1> HIDE DEF all
<1> QED
  BY <1>3, <1>4, <1>5, NetworkAssumption

LEMMA SettledReceiveFacts ==
  ASSUME TypeOK, RoleInv, Reliable, NEW r, NEW l, Settled(r, l), NEW s \in Members,
         NEW h, h = Head(inbox[s]), inbox[s] # << >>, h \in Frame, Voice(h, s, r, l),
         ReceiveStep(s, h, r, l)
  PROVE ReceiveFacts(s, h, r, l)
<1>1. OnTree(r, l) /\ QueuesShort
  BY DEF Settled
<1>2. Members' = Members /\ Lines' = Lines /\ Fabric' = Fabric /\ Due' = Due
  BY DEF ReceiveStep, Members, Lines, Fabric, Due, Ticking
<1>3. /\ \A t \in Members : card[t] \in Card /\ inbox[t] \in Seq(Frame)
      /\ \A t \in Members : Listeners(t) = IF IsLineCard(t) THEN Fabric ELSE Lines
      /\ IsLineCard(s) => s # r
      /\ r \in Fabric /\ l \in Lines /\ Members \subseteq Slot /\ IsLineCard(l)
      /\ \A f \in Fabric : f \in Members /\ ~ IsLineCard(f)
  BY <1>1, SettledCards DEF Fabric, Lines
<1>4. ASSUME NEW t \in Members, NEW id \in Slot
      PROVE Took(t, id)' <=> Took(t, id) \/ (t = s /\ HelloFrom(h, id))
  <2>1. card'[t].seen = IF t = s THEN card[t].seen \cup {<<h.slot, h.type>>} ELSE card[t].seen
    BY <1>3 DEF ReceiveStep
  <2> QED BY <2>1 DEF Took, HelloFrom
<1>5. ASSUME NEW id \in Slot
      PROVE Waiting(s, id) <=> Waiting(s, id)' \/ HelloFrom(h, id)
  <2>1. inbox'[s] = Tail(inbox[s])
    BY DEF ReceiveStep
  <2>2. Holds(inbox[s], id) <=> Holds(Tail(inbox[s]), id) \/ HelloFrom(h, id)
    BY <1>3, HoldsTail DEF HelloFrom
  <2> QED BY <2>1, <2>2 DEF Waiting
<1>6. ASSUME NEW t \in Members \ {s}, NEW id \in Slot
      PROVE /\ Waiting(t, id) => Waiting(t, id)'
            /\ Waiting(t, id)' /\ ~ Waiting(t, id) =>
                 /\ id = s /\ s # r
                 /\ IsLineCard(s) => s = l /\ HelloFrom(h, r) /\ ~ Took(l, r)
  <2>1. CASE ~ Speaks(s, h, r)
    BY <2>1 DEF ReceiveStep, Waiting
  <2>2. CASE Speaks(s, h, r)
    <3>1. PICK g \in Frame :
            /\ g.slot = s
            /\ g.type = IF ~ IsLineCard(s) \/ (s = l /\ h.slot = r) THEN "HELLO" ELSE "REPLY"
            /\ inbox'[t] \in {inbox[t], Append(inbox[t], g)}
      BY <2>2 DEF ReceiveStep
    <3>2. Holds(Append(inbox[t], g), id) <=> Holds(inbox[t], id) \/ (g.type = "HELLO" /\ g.slot = id)
      BY <1>3, HoldsAppend
    <3>3. Waiting(t, id)' <=> Holds(inbox'[t], id)
      BY DEF Waiting
    <3> QED BY <2>2, <3>1, <3>2, <3>3 DEF Waiting, Speaks, Fresh, Took, HelloFrom
  <2> QED BY <2>1, <2>2
<1>7. ASSUME s = l, HelloFrom(h, r), ~ Took(l, r), NEW f \in Fabric
      PROVE Waiting(f, l)'
  <2>1. Speaks(s, h, r)
    BY <1>3, <1>7 DEF Speaks, Fresh, Took, HelloFrom
  <2>2. PICK g \in Frame :
          /\ g.slot = s /\ g.type = "HELLO"
          /\ \A t \in Members \ {s} :
               inbox'[t] = IF t \in Listeners(s) /\ Len(inbox[t]) < QueueCap
                             THEN Append(inbox[t], g) ELSE inbox[t]
    BY <1>7, <2>1 DEF ReceiveStep, HelloFrom
  <2>3. Len(inbox[f]) < QueueCap
    <3>1. <<l, r>> \in LineCard \X FabricCard /\ <<l, r>> \notin Taken
      BY <1>3, <1>7 DEF Lines, Fabric, Members, Taken
    <3>2. Len(inbox[f]) <= Cardinality(Taken) /\ Len(inbox[f]) \in Nat
      BY <1>1, <1>3 DEF QueuesShort
    <3>3. Cardinality(Taken) < QueueCap /\ Cardinality(Taken) \in Nat
      BY <3>1, TakenBound, TakenFinite
    <3> QED BY <3>2, <3>3, NetworkAssumption
  <2>4. inbox'[f] = Append(inbox[f], g)
    BY <1>3, <1>7, <2>2, <2>3
  <2> QED BY <1>3, <1>7, <2>2, <2>4, HoldsAppend DEF Waiting
<1>8. ASSUME NEW t \in Members
      PROVE card'[t].time = IF t = s /\ h.type = "HELLO" THEN 0 ELSE card[t].time
  BY <1>3 DEF ReceiveStep
<1>9. ASSUME NEW t \in Members, NEW id \in Slot
      PROVE /\ Waiting(t, id) => Waiting(t, id)' \/ (t = s /\ HelloFrom(h, id))
            /\ Waiting(t, id)' /\ ~ Waiting(t, id) =>
                 /\ id = s /\ s # r
                 /\ IsLineCard(s) => s = l /\ HelloFrom(h, r) /\ ~ Took(l, r)
  BY <1>5, <1>6
<1> QED
  BY <1>2, <1>4, <1>5, <1>7, <1>8, <1>9 DEF ReceiveFacts

(* Each part of Settled outlives the frame. *)
LEMMA ReceiveKeepsTree ==
  ASSUME NEW r, NEW l, OnTree(r, l), NEW s \in Members, NEW h, ReceiveStep(s, h, r, l)
  PROVE OnTree(r, l)'
  BY DEF ReceiveStep, OnTree, SameRole, Members, Fabric, Lines, CpuA

LEMMA ReceiveKeepsVoice ==
  ASSUME TypeOK, RoleInv, NEW r, NEW l, OnTree(r, l), OneVoice(r, l), NEW s \in Members,
         inbox[s] # << >>, NEW h, Voice(h, s, r, l), ReceiveStep(s, h, r, l)
  PROVE OneVoice(r, l)'
<1>1. Members' = Members
  BY DEF ReceiveStep, Members
<1>2. \A t \in Members : inbox[t] \in Seq(Frame) /\ Voices(inbox[t], t, r, l)
  BY SettledCards, OneVoiceQueues
<1>3. Voices(inbox'[s], s, r, l)
  <2>1. inbox'[s] = Tail(inbox[s])
    BY DEF ReceiveStep
  <2> QED BY <1>2, <2>1, VoicesQueue
<1>4. ASSUME NEW t \in Members \ {s} PROVE Voices(inbox'[t], t, r, l)
  <2>1. CASE ~ Speaks(s, h, r)
    BY <1>2, <2>1 DEF ReceiveStep
  <2>2. CASE Speaks(s, h, r)
    <3>1. PICK g \in Frame :
            /\ g.slot = s /\ g.root = r /\ g.dbridge = l
            /\ g.type = IF ~ IsLineCard(s) \/ (s = l /\ h.slot = r) THEN "HELLO" ELSE "REPLY"
            /\ inbox'[t] = IF t \in Listeners(s) /\ Len(inbox[t]) < QueueCap
                             THEN Append(inbox[t], g) ELSE inbox[t]
      BY <2>2 DEF ReceiveStep
    <3>2. t \in Listeners(s) => IsLineCard(s) # IsLineCard(t)
      BY SettledCards
    <3>3. t \in Listeners(s) => Voice(g, t, r, l)
      BY <3>1, <3>2 DEF Voice
    <3>4. t \in Listeners(s) => Voices(Append(inbox[t], g), t, r, l)
      BY <1>2, <3>3, VoicesQueue
    <3> QED BY <1>2, <3>1, <3>4
  <2> QED BY <2>1, <2>2
<1>5. \A t \in Members : Voices(inbox'[t], t, r, l)
  BY <1>3, <1>4
<1> QED
  BY <1>1, <1>5 DEF OneVoice, Voices

LEMMA ReceiveKeepsTimes ==
  ASSUME TypeOK, RoleInv, NEW r, NEW l, OnTree(r, l), RootInTime(r, l), OthersInTime(r, l),
         HellosInOrder(r, l), NEW s \in Members, NEW h \in Frame, Voice(h, s, r, l),
         ReceiveFacts(s, h, r, l)
  PROVE RootInTime(r, l)' /\ OthersInTime(r, l)' /\ HellosInOrder(r, l)'
<1>1. /\ r \in Fabric /\ l \in Lines /\ Members = Lines \cup Fabric /\ Members \subseteq Slot
      /\ \A t \in Members : /\ t \in Lines <=> IsLineCard(t)
                            /\ t \in Fabric <=> ~ IsLineCard(t)
                            /\ IsLineCard(t) => t # r
                            /\ card[t].time \in Nat
  BY SettledCards DEF Card
<1>2. /\ Members' = Members /\ Lines' = Lines /\ Fabric' = Fabric
      /\ \A t : ToCome(t)' = ToCome(t) /\ Gone(t)' = Gone(t) /\ (t \in Due' <=> t \in Due)
  BY DEF ReceiveFacts, ToCome, Gone
<1>3. \A t \in Members : card'[t].time = IF t = s /\ h.type = "HELLO" THEN 0 ELSE card[t].time
  BY DEF ReceiveFacts
<1>4. \A t \in Members, id \in Slot :
        /\ Took(t, id)' <=> Took(t, id) \/ (t = s /\ HelloFrom(h, id))
        /\ Waiting(t, id) => Waiting(t, id)' \/ (t = s /\ HelloFrom(h, id))
        /\ Waiting(t, id)' /\ ~ Waiting(t, id) =>
             /\ id = s /\ s # r
             /\ IsLineCard(s) => s = l /\ HelloFrom(h, r) /\ ~ Took(l, r)
  BY DEF ReceiveFacts
<1>5. /\ \A id \in Slot : HelloFrom(h, id) => Waiting(s, id)
      /\ s = l /\ HelloFrom(h, r) /\ ~ Took(l, r) => \A f \in Fabric : Waiting(f, l)'
  BY DEF ReceiveFacts
<1>6. \A t \in Members : ToCome(t) \in {0, 1} /\ Gone(t) \in {0, 1}
  BY DEF ToCome, Gone
<1>7. r \in Members /\ l \in Members /\ r \in Slot /\ l \in Slot /\ h.slot \in Slot
  BY <1>1 DEF Frame
<1>8. h.type = "HELLO" => HelloFrom(h, h.slot)
  BY DEF HelloFrom
<1>9. h.type = "HELLO" /\ s \in Fabric => HelloFrom(h, l)
  <2>1. s \in Fabric => ~ IsLineCard(s)
    BY <1>1
  <2> QED BY <2>1 DEF Voice, HelloFrom, IsLineCard
<1> HIDE DEF Took, Waiting, ToCome, Gone
<1>10. RootInTime(r, l)'
  <2>1. l # r /\ (Took(l, r)' /\ ~ Took(l, r) => s = l /\ HelloFrom(h, r))
    BY <1>1, <1>4, <1>7
  <2>2. CASE Waiting(r, l)
    BY <1>3, <1>4, <1>7, <2>2 DEF RootInTime, HelloFrom
  <2>3. CASE s = l /\ HelloFrom(h, r) /\ ~ Took(l, r)
    BY <1>1, <1>5, <2>3 DEF RootInTime
  <2>4. CASE ~ (s = l /\ HelloFrom(h, r) /\ ~ Took(l, r))
    <3>1. Took(l, r)' <=> Took(l, r)
      BY <1>4, <1>7, <2>1, <2>4
    <3>2. Waiting(l, r) /\ ~ Took(l, r) => Waiting(l, r)'
      BY <1>4, <1>7, <2>4
    <3>3. card'[r].time \in {0, card[r].time}
      BY <1>3, <1>7
    <3> QED BY <1>2, <2>2, <3>1, <3>2, <3>3 DEF RootInTime
  <2> QED BY <2>2, <2>3, <2>4
<1>11. OthersInTime(r, l)'
  <2>1. ASSUME NEW x \in Lines
        PROVE Waiting(x, r)' \/ card'[x].time <= ToCome(r) + Gone(x)
    BY <1>1, <1>3, <1>4, <1>6, <1>7, <2>1 DEF OthersInTime, HelloFrom
  <2>2. ASSUME NEW f \in Fabric \ {r}
        PROVE Waiting(f, l)' \/ card'[f].time <= card'[r].time + ToCome(r) + Gone(f)
    <3>1. CASE f = s /\ HelloFrom(h, l)
      BY <1>1, <1>3, <1>6, <1>7, <3>1 DEF HelloFrom
    <3>2. CASE s = r /\ h.type = "HELLO"
      <4>1. Waiting(f, l) \/ card[f].time = 0
        <5>1. Waiting(r, l)
          BY <1>1, <1>5, <1>7, <1>9, <3>2
        <5> QED BY <5>1 DEF HellosInOrder
      <4> QED BY <1>1, <1>3, <1>4, <1>6, <1>7, <3>2, <4>1
    <3>3. CASE ~ (f = s /\ HelloFrom(h, l)) /\ ~ (s = r /\ h.type = "HELLO")
      <4>1. card'[r].time = card[r].time
        BY <1>3, <1>7, <3>3
      <4>2. card'[f].time = card[f].time
        BY <1>1, <1>3, <1>9, <3>3
      <4>3. Waiting(f, l) => Waiting(f, l)'
        BY <1>1, <1>4, <1>7, <3>3
      <4> QED BY <4>1, <4>2, <4>3 DEF OthersInTime
    <3> QED BY <3>1, <3>2, <3>3
  <2> QED BY <1>1, <1>2, <2>1, <2>2 DEF OthersInTime
<1>12. HellosInOrder(r, l)'
  <2>1. ASSUME NEW t \in Members, NEW id \in Slot, Took(t, id)', IsLineCard(id) # IsLineCard(t)
        PROVE card'[t].time = 0
    BY <1>3, <1>4, <2>1 DEF HellosInOrder, HelloFrom
  <2>2. ASSUME NEW x \in Lines, Waiting(x, r)' PROVE r \notin Due
    BY <1>1, <1>4, <1>7, <2>2 DEF HellosInOrder
  <2>3. Took(l, r)' /\ r \in Due => l \in Due
    BY <1>1, <1>4, <1>5, <1>7 DEF HellosInOrder
  <2>4. ASSUME Waiting(r, l)', NEW f \in Fabric PROVE Waiting(f, l)' \/ card'[f].time = 0
    <3>1. CASE Waiting(r, l)
      <4>1. Waiting(f, l) \/ card[f].time = 0
        BY <3>1 DEF HellosInOrder
      <4> QED BY <1>1, <1>3, <1>4, <1>7, <4>1 DEF HelloFrom
    <3>2. CASE ~ Waiting(r, l)
      BY <1>1, <1>4, <1>5, <1>7, <2>4, <3>2
    <3> QED BY <3>1, <3>2
  <2> QED BY <1>2, <2>1, <2>2, <2>3, <2>4 DEF HellosInOrder
<1> QED
  BY <1>10, <1>11, <1>12

LEMMA ReceiveKeepsShort ==
  ASSUME TypeOK, RoleInv, NEW r, NEW l, OnTree(r, l), QueuesShort, NEW s \in Members,
         NEW h \in Frame, Voice(h, s, r, l), inbox[s] # << >>,
         ReceiveStep(s, h, r, l), ReceiveFacts(s, h, r, l)
  PROVE QueuesShort'
<1>1. /\ \A t \in Members : inbox[t] \in Seq(Frame)
      /\ s \in Lines <=> IsLineCard(s)
      /\ Members \subseteq Slot /\ Fabric \subseteq Members
      /\ Listeners(s) = IF IsLineCard(s) THEN Fabric ELSE Lines
      /\ IsLineCard(s) => s # r
      /\ \A f \in Fabric : ~ IsLineCard(f) /\ f \notin Lines
  BY SettledCards DEF Fabric
<1>2. Fabric' = Fabric
  BY DEF ReceiveFacts
<1>3. IsFiniteSet(Taken) /\ Cardinality(Taken) \in Nat
  BY TakenFinite
<1>4. \A x \in LineCard :
        card'[x].seen = IF x = s THEN card[x].seen \cup {<<h.slot, h.type>>} ELSE card[x].seen
  BY DEF ReceiveStep, LineCard
<1>5. CASE IsLineCard(s) /\ Speaks(s, h, r)
  <2> DEFINE p == <<s, h.slot>>
  <2>1. p \in LineCard \X FabricCard
    <3>1. s \in Slot /\ h.slot \in Slot
      BY <1>1 DEF Frame
    <3>2. s \in LineCard /\ h.slot \in FabricCard
      <4>1. IsLineCard(s) /\ ~ IsLineCard(h.slot)
        BY <1>5 DEF Voice, IsLineCard, Speaks
      <4> QED BY <3>1, <4>1, CardKinds
    <3> QED BY <3>2
  <2>2. p \notin Taken
    <3>1. s \in up /\ p[1] = s /\ p[2] = h.slot
      BY DEF Members
    <3>2. ~ Took(s, h.slot)
      BY <1>5 DEF Speaks, Fresh, Took
    <3> QED BY <3>1, <3>2 DEF Taken
  <2>3. \A x \in LineCard, f \in FabricCard :
          Took(x, f)' <=> Took(x, f) \/ <<x, f>> = p
    <3> TAKE x \in LineCard, f \in FabricCard
    <3>1. Took(x, f)' <=> Took(x, f) \/ (x = s /\ <<f, "HELLO">> = <<h.slot, h.type>>)
      BY <1>4 DEF Took
    <3>2. h.type = "HELLO"
      BY <1>5 DEF Speaks
    <3> QED BY <3>1, <3>2
  <2> HIDE DEF p
  <2>4. Taken' = Taken \cup {p}
    BY <2>1, <2>3 DEF Taken, ReceiveStep
  <2>5. Cardinality(Taken') = Cardinality(Taken) + 1
    BY <1>3, <2>2, <2>4, FS_AddElement
  <2>6. ASSUME NEW f \in Fabric PROVE Len(inbox'[f]) <= Len(inbox[f]) + 1
    <3>1. PICK g \in Frame : inbox'[f] \in {inbox[f], Append(inbox[f], g)}
      BY <1>1, <1>5 DEF ReceiveStep
    <3> QED BY <1>1, <3>1
  <2>7. \A f \in Fabric : Len(inbox[f]) <= Cardinality(Taken) /\ Len(inbox[f]) \in Nat
    BY <1>1 DEF QueuesShort
  <2>8. ASSUME NEW f \in Fabric PROVE Len(inbox'[f]) <= Cardinality(Taken')
    <3>1. Len(inbox'[f]) \in Nat
      <4>1. PICK g \in Frame : inbox'[f] \in {inbox[f], Append(inbox[f], g)}
        BY <1>1, <1>5 DEF ReceiveStep
      <4> QED BY <1>1, <4>1
    <3> QED BY <1>3, <2>5, <2>6, <2>7, <3>1
  <2> QED BY <1>2, <2>8 DEF QueuesShort
<1>6. CASE ~ (IsLineCard(s) /\ Speaks(s, h, r))
  <2>1. ASSUME NEW x \in LineCard, NEW f \in FabricCard PROVE Took(x, f)' <=> Took(x, f)
    <3>1. x # s \/ IsLineCard(s)
      BY CardKinds, SlotAssumption DEF LineCard
    <3>2. IsLineCard(s) /\ h.type = "HELLO" => ~ Fresh(card[s], h)
      BY <1>1, <1>6 DEF Speaks
    <3>3. Took(x, f)' <=> Took(x, f) \/ (x = s /\ <<f, "HELLO">> = <<h.slot, h.type>>)
      BY <1>4 DEF Took
    <3>4. x = s /\ <<f, "HELLO">> = <<h.slot, h.type>> => Took(x, f)
      BY <3>1, <3>2 DEF Took, Fresh
    <3> QED BY <3>3, <3>4
  <2>2. Taken' = Taken
    BY <2>1 DEF Taken, ReceiveStep
  <2>3. ASSUME NEW f \in Fabric PROVE inbox'[f] = inbox[f] \/ (f = s /\ inbox'[f] = Tail(inbox[f]))
    <3>1. CASE f = s
      BY <3>1 DEF ReceiveStep
    <3>2. ASSUME f # s PROVE inbox'[f] = inbox[f]
      <4>1. f \in Members \ {s}
        BY <1>1, <3>2
      <4>2. Speaks(s, h, r) => f \notin Listeners(s)
        BY <1>1, <1>6
      <4> QED BY <4>1, <4>2 DEF ReceiveStep
    <3> QED BY <3>1, <3>2
  <2>4. ASSUME NEW f \in Fabric PROVE Len(inbox'[f]) <= Len(inbox[f]) /\ Len(inbox'[f]) \in Nat
    <3>1. inbox[f] \in Seq(Frame) /\ (f = s => inbox[f] # << >>)
      BY <1>1
    <3>2. ASSUME NEW q \in Seq(Frame)
          PROVE Len(q) \in Nat /\ (q # << >> => Len(Tail(q)) \in Nat /\ Len(Tail(q)) <= Len(q))
      OBVIOUS
    <3>3. /\ Len(inbox[f]) \in Nat
          /\ f = s => Len(Tail(inbox[f])) \in Nat /\ Len(Tail(inbox[f])) <= Len(inbox[f])
      BY <3>1, <3>2
    <3>4. CASE inbox'[f] = inbox[f]
      BY <3>3, <3>4
    <3>5. CASE f = s /\ inbox'[f] = Tail(inbox[f])
      BY <3>3, <3>5
    <3> QED BY <2>3, <3>4, <3>5
  <2>5. \A f \in Fabric : Len(inbox[f]) <= Cardinality(Taken) /\ Len(inbox[f]) \in Nat
    BY <1>1 DEF QueuesShort
  <2>6. \A f \in Fabric : Len(inbox'[f]) <= Cardinality(Taken')
    BY <1>3, <2>2, <2>4, <2>5
  <2> QED BY <1>2, <2>6 DEF QueuesShort
<1> QED
  BY <1>5, <1>6

LEMMA ReceiveKeepsSettled ==
  ASSUME TypeOK, RoleInv, Reliable, NEW r, NEW l, Settled(r, l), NEW s \in Slot, RoundReceive(s)
  PROVE Settled(r, l)'
<1> DEFINE h == Head(inbox[s])
<1>1. /\ s \in Members /\ inbox[s] # << >> /\ h \in Frame /\ Voice(h, s, r, l)
      /\ ReceiveStep(s, h, r, l)
  BY SettledReceive
<1> HIDE DEF h
<1>2. ReceiveFacts(s, h, r, l)
  BY <1>1, SettledReceiveFacts DEF h
<1>3. OnTree(r, l)' /\ OneVoice(r, l)' /\ QueuesShort'
  BY <1>1, <1>2, ReceiveKeepsTree, ReceiveKeepsVoice, ReceiveKeepsShort DEF Settled
<1>4. RootInTime(r, l)' /\ OthersInTime(r, l)' /\ HellosInOrder(r, l)'
  BY <1>1, <1>2, ReceiveKeepsTimes DEF Settled
<1> QED
  BY <1>3, <1>4 DEF Settled

-----------------------------------------------------------------------------
(* A card ticks. *)

(* What one tick does to them, no frame waiting. *)
TickStep(s, r, l) ==
  /\ up' = up
  /\ \A t \in Slot : SameRole(card'[t], card[t]) /\ (t # s => card'[t] = card[t])
  /\ card'[s].seen = {} /\ card'[s].time = card[s].time + 1
  /\ \A t \in Members : inbox[t] = << >>
  /\ IF s = r
       THEN \E g \in Frame : /\ g.slot = r /\ g.root = r /\ g.dbridge = l /\ g.type = "HELLO"
                             /\ \A t \in Members :
                                  inbox'[t] = IF t \in Lines THEN << g >> ELSE << >>
       ELSE \A t \in Members : inbox'[t] = << >>

(* Where no frame waits, no timer has counted more than it may. *)
LEMMA SettledTimes ==
  ASSUME TypeOK, RoleInv, Reliable, NEW r, NEW l, Settled(r, l), NEW s \in Ticking,
         \A t \in Members : inbox[t] = << >>, Due = {} \/ s \in Due
  PROVE card[s].time <= IF s = r THEN MaxAge ELSE MaxAge * ForwardDelay
<1>1. /\ r \in Fabric /\ l \in Lines /\ Members = Lines \cup Fabric /\ Ticking = Members
      /\ r \in Slot /\ l \in Slot
      /\ \A t \in Members : card[t].time \in Nat
  BY SettledCards DEF Settled, Card, Fabric, Lines, FabricCard, LineCard
<1>2. \A t \in Members, id \in Slot : ~ Waiting(t, id)
  BY DEF Waiting, Holds
<1>3. card[r].time <= 1
  BY <1>1, <1>2 DEF Settled, RootInTime
<1>4. s # r => card[s].time <= 2
  <2>1. \A t : ToCome(t) \in {0, 1} /\ Gone(t) \in {0, 1}
    BY DEF ToCome, Gone
  <2>2. ToCome(r) + Gone(s) <= 1
    BY <2>1 DEF ToCome, Gone
  <2>3. CASE s \in Lines
    BY <1>1, <1>2, <2>1, <2>2, <2>3 DEF Settled, OthersInTime
  <2>4. ASSUME s \in Fabric \ {r} PROVE card[s].time <= 2
    <3>1. card[s].time <= card[r].time + ToCome(r) + Gone(s)
      BY <1>1, <1>2, <2>4 DEF Settled, OthersInTime
    <3> QED BY <1>1, <1>3, <2>1, <2>2, <3>1
  <2> QED BY <1>1, <2>3, <2>4
<1>5. MaxAge \in Nat /\ MaxAge >= 1 /\ MaxAge * ForwardDelay \in Int /\ MaxAge * ForwardDelay >= 2
  BY TimerAssumption DEF Reliable
<1> QED
  BY <1>1, <1>3, <1>4, <1>5

LEMMA SettledTickStep ==
  ASSUME TypeOK, RoleInv, Reliable, NEW r, NEW l, Settled(r, l), NEW s \in Slot, RoundTick(s)
  PROVE s \in Members /\ TickStep(s, r, l)
<1> DEFINE c == card[s]
           m == Ticked(c)
<1>1. OnTree(r, l)
  BY DEF Settled
<1>2. /\ s \in Ticking /\ (Due = {} \/ s \in Due) /\ up' = up /\ Step(s, m, inbox)
      /\ \A t \in Slot : inbox[t] = << >>
  BY DEF RoundTick, DueTick, Tick, Idle
<1>3. /\ s \in Members /\ Members \subseteq Slot /\ r \in Members
      /\ s \in CpuA \cap Dynamic /\ c \in Card /\ c.us = s /\ c.state = FORWARDING
      /\ c.root = r /\ c.rootBridge = r /\ c.design = l
      /\ ~ IsLineCard(r) /\ Listeners(r) = Lines
  BY <1>1, <1>2, SettledCards
<1>4. c.time <= IF s = r THEN MaxAge ELSE MaxAge * ForwardDelay
  BY <1>2, <1>3, SettledTimes
<1>5. /\ SameRole(m.card, c)
      /\ m.card.seen = {} /\ m.card.time = c.time + 1
      /\ IF s = r THEN \E g : m.sent = {g} /\ Says(g, "HELLO", c) ELSE m.sent = {}
  BY <1>3, <1>4, SettledTick
<1>6. Outcome(m, c)
  BY <1>3, TickedType
<1> HIDE DEF m
<1>7. card' = [card EXCEPT ![s] = m.card] /\ card \in [Slot -> Card]
  BY <1>2 DEF Step, TypeOK
<1>8. /\ \A t \in Slot : SameRole(card'[t], card[t]) /\ (t # s => card'[t] = card[t])
      /\ card'[s] = m.card
  BY <1>5, <1>7 DEF SameRole
<1>9. inbox' = [t \in Slot |-> IF t \in Listeners(s) THEN Enqueue(inbox[t], m.sent) ELSE inbox[t]]
  BY <1>2, DeliverAll DEF Step
<1>10. CASE s = r
  <2>1. PICK g : m.sent = {g} /\ Says(g, "HELLO", c)
    BY <1>5, <1>10
  <2>2. /\ g \in Frame /\ g.slot = r /\ g.root = r /\ g.dbridge = l /\ g.type = "HELLO"
    BY <1>3, <1>6, <1>10, <2>1 DEF Outcome, Says
  <2>3. ASSUME NEW t \in Members PROVE inbox'[t] = IF t \in Lines THEN << g >> ELSE << >>
    <3>1. Enqueue(<< >>, {g}) = << g >>
      <4>1. Enqueue(<< >>, {g}) = IF Len(<< >>) >= QueueCap THEN << >> ELSE Append(<< >>, g)
        BY EnqueueOne
      <4>2. Len(<< >>) = 0 /\ Append(<< >>, g) = << g >>
        BY <2>2
      <4> QED BY <4>1, <4>2, NetworkAssumption
    <3> QED BY <1>2, <1>3, <1>9, <1>10, <2>1, <3>1
  <2> QED BY <1>2, <1>3, <1>5, <1>8, <1>10, <2>2, <2>3 DEF TickStep
<1>11. CASE s # r
  <2>1. \A t \in Members : inbox'[t] = << >>
    BY <1>2, <1>3, <1>5, <1>9, <1>11, EnqueueOne
  <2> QED BY <1>2, <1>3, <1>5, <1>8, <1>11, <2>1 DEF TickStep
<1> QED
  BY <1>3, <1>10, <1>11

LEMMA TickKeepsTree ==
  ASSUME NEW r, NEW l, OnTree(r, l), NEW s \in Members, TickStep(s, r, l)
  PROVE OnTree(r, l)'
  BY DEF TickStep, OnTree, SameRole, Members, Fabric, Lines, CpuA

LEMMA TickKeepsVoice ==
  ASSUME TypeOK, RoleInv, NEW r, NEW l, OnTree(r, l), NEW s \in Members, TickStep(s, r, l)
  PROVE OneVoice(r, l)'
<1>1. Members' = Members
  BY DEF TickStep, Members
<1>2. ASSUME NEW t \in Members PROVE Voices(inbox'[t], t, r, l)
  <2>1. CASE inbox'[t] = << >>
    BY <2>1 DEF Voices
  <2>2. CASE inbox'[t] # << >>
    <3>1. PICK g \in Frame :
            /\ g.slot = r /\ g.root = r /\ g.dbridge = l /\ g.type = "HELLO"
            /\ inbox'[t] = << g >> /\ t \in Lines
      BY <2>2 DEF TickStep
    <3>2. Voice(g, t, r, l)
      <4>1. IsLineCard(t) /\ ~ IsLineCard(r)
        BY <3>1, SettledCards
      <4> QED BY <3>1, <4>1 DEF Voice
    <3>3. DOMAIN inbox'[t] = {1} /\ inbox'[t][1] = g
      BY <3>1
    <3> QED BY <3>2, <3>3 DEF Voices
  <2> QED BY <2>1, <2>2
<1> QED
  BY <1>1, <1>2 DEF OneVoice, Voices
LEMMA TickKeepsTimes ==
  ASSUME TypeOK, RoleInv, NEW r, NEW l, OnTree(r, l), RootInTime(r, l), OthersInTime(r, l),
         HellosInOrder(r, l), NEW s \in Members, TickStep(s, r, l), DueTick(s)
  PROVE RootInTime(r, l)' /\ OthersInTime(r, l)' /\ HellosInOrder(r, l)'
<1>1. /\ r \in Fabric /\ l \in Lines /\ Members = Lines \cup Fabric /\ Ticking = Members
      /\ r \in Members /\ l \in Members /\ Members \subseteq Slot /\ l # r
      /\ \A t \in Lines : t \in Members /\ t # r
      /\ \A t \in Fabric : t \in Members /\ t \notin Lines
      /\ \A t \in Members : card[t].time \in Nat
  BY SettledCards DEF Card, Fabric
<1>2. Members' = Members /\ Lines' = Lines /\ Fabric' = Fabric
  BY DEF TickStep, Members, Lines, Fabric
<1>3. \A t \in Members : t \in Due' <=> t # s /\ (Due = {} \/ t \in Due)
  BY <1>1 DEF TickStep, DueTick, Due, Ticking
<1>4. \A t \in Members : card'[t].time = IF t = s THEN card[t].time + 1 ELSE card[t].time
  BY <1>1 DEF TickStep
<1>5. \A t \in Members, id \in Slot : Took(t, id)' <=> t # s /\ Took(t, id)
  BY <1>1 DEF TickStep, Took
<1>6. \A t \in Members, id \in Slot : ~ Waiting(t, id)
  BY DEF TickStep, Waiting, Holds
<1>7. \A t \in Members, id \in Slot : Waiting(t, id)' <=> s = r /\ id = r /\ t \in Lines
  <2> TAKE t \in Members, id \in Slot
  <2>1. CASE s = r /\ t \in Lines
    <3>1. PICK g \in Frame : g.slot = r /\ g.type = "HELLO" /\ inbox'[t] = << g >>
      BY <2>1 DEF TickStep
    <3>2. DOMAIN inbox'[t] = {1} /\ inbox'[t][1] = g
      BY <3>1
    <3> QED BY <2>1, <3>1, <3>2 DEF Waiting, Holds
  <2>2. CASE ~ (s = r /\ t \in Lines)
    <3>1. inbox'[t] = << >>
      BY <2>2 DEF TickStep
    <3>2. DOMAIN inbox'[t] = {}
      BY <3>1
    <3> QED BY <2>2, <3>2 DEF Waiting, Holds
  <2> QED BY <2>1, <2>2
<1>8. Due = {} \/ s \in Due
  BY DEF DueTick
<1>9. \A t \in Members : /\ ToCome(t) = IF t \in Due THEN 1 ELSE 0
                         /\ Gone(t) = IF t \in Due THEN 0 ELSE 1
                         /\ ToCome(t)' = IF t \in Due' THEN 1 ELSE 0
                         /\ Gone(t)' = IF t \in Due' THEN 0 ELSE 1
  BY DEF ToCome, Gone
<1> HIDE DEF Took, Waiting, ToCome, Gone
<1>10. RootInTime(r, l)'
  <2>1. card[r].time = 0 \/ (card[r].time = 1 /\ (Took(l, r) => l \in Due /\ r \notin Due))
    BY <1>1, <1>6 DEF RootInTime
  <2>2. CASE s = r
    <3>1. Took(l, r) => card[r].time = 0
      BY <1>8, <2>1, <2>2
    <3>2. Took(l, r) => l \in Due' /\ r \notin Due'
      BY <1>1, <1>3, <1>8, <2>2 DEF HellosInOrder
    <3>3. (Waiting(l, r)' /\ ~ Took(l, r)') \/ (Took(l, r) /\ card'[r].time = 1)
      BY <1>1, <1>4, <1>5, <1>7, <2>2, <3>1
    <3> QED BY <3>2, <3>3 DEF RootInTime
  <2>3. CASE s # r
    <3>1. card'[r].time = card[r].time
      BY <1>1, <1>4, <2>3
    <3>2. Took(l, r)' /\ card[r].time = 1 => l \in Due' /\ r \notin Due'
      BY <1>1, <1>3, <1>5, <2>1
    <3> QED BY <2>1, <3>1, <3>2 DEF RootInTime
  <2> QED BY <2>2, <2>3
<1>11. OthersInTime(r, l)'
  <2>1. ASSUME NEW x \in Lines
        PROVE Waiting(x, r)' \/ card'[x].time <= ToCome(r)' + Gone(x)'
    <3>1. card[x].time <= ToCome(r) + Gone(x)
      BY <1>1, <1>6 DEF OthersInTime
    <3>2. CASE s = r
      BY <1>1, <1>7, <3>2
    <3>3. CASE s # r
      BY <1>1, <1>3, <1>4, <1>8, <1>9, <3>1, <3>3
    <3> QED BY <3>2, <3>3
  <2>2. ASSUME NEW f \in Fabric \ {r}
        PROVE card'[f].time <= card'[r].time + ToCome(r)' + Gone(f)'
    <3>1. card[f].time <= card[r].time + ToCome(r) + Gone(f)
      BY <1>1, <1>6 DEF OthersInTime
    <3> QED BY <1>1, <1>3, <1>4, <1>8, <1>9, <3>1
  <2> QED BY <1>2, <2>1, <2>2 DEF OthersInTime
<1>12. HellosInOrder(r, l)'
  <2>1. ASSUME NEW t \in Members, NEW id \in Slot, Took(t, id)', IsLineCard(id) # IsLineCard(t)
        PROVE card'[t].time = 0
    BY <1>4, <1>5, <2>1 DEF HellosInOrder
  <2>2. ASSUME NEW x \in Lines, Waiting(x, r)' PROVE r \notin Due'
    BY <1>1, <1>3, <1>7, <2>2
  <2>3. Took(l, r)' /\ r \in Due' => l \in Due'
    BY <1>1, <1>3, <1>5 DEF HellosInOrder
  <2>4. ~ Waiting(r, l)'
    BY <1>1, <1>7
  <2> QED BY <1>2, <2>1, <2>2, <2>3, <2>4 DEF HellosInOrder
<1> QED
  BY <1>10, <1>11, <1>12

LEMMA TickKeepsShort ==
  ASSUME TypeOK, RoleInv, NEW r, NEW l, OnTree(r, l), NEW s \in Members, TickStep(s, r, l)
  PROVE QueuesShort'
<1>1. /\ \A f \in Fabric : f \in Members /\ f \notin Lines
      /\ Fabric' = Fabric
  BY SettledCards DEF TickStep, Fabric, Members
<1>2. \A f \in Fabric : inbox'[f] = << >>
  BY <1>1 DEF TickStep
<1>3. Cardinality(Taken') \in Nat
  <2>1. IsFiniteSet(LineCard \X FabricCard) /\ Taken' \subseteq LineCard \X FabricCard
    BY TakenFinite DEF Taken
  <2> QED BY <2>1, FS_Subset, FS_CardinalityType
<1> QED
  BY <1>1, <1>2, <1>3 DEF QueuesShort

LEMMA TickKeepsSettled ==
  ASSUME TypeOK, RoleInv, Reliable, NEW r, NEW l, Settled(r, l), NEW s \in Slot, RoundTick(s)
  PROVE Settled(r, l)'
<1>1. s \in Members /\ TickStep(s, r, l) /\ DueTick(s)
  BY SettledTickStep DEF RoundTick
<1>2. OnTree(r, l)' /\ OneVoice(r, l)' /\ QueuesShort'
  BY <1>1, TickKeepsTree, TickKeepsVoice, TickKeepsShort DEF Settled
<1>3. RootInTime(r, l)' /\ OthersInTime(r, l)' /\ HellosInOrder(r, l)'
  BY <1>1, TickKeepsTimes DEF Settled
<1> QED
  BY <1>2, <1>3 DEF Settled

(* A card of CPU B starts, or one that is neither the root nor the         *)
(* designated LC departs; what it may say is the farewell of a line card.  *)
LEMMA FarewellSent ==
  ASSUME NEW c \in Card
  PROVE \/ Exited(c).sent = {}
        \/ /\ IsLineCard(c.us)
           /\ \E g \in Frame : /\ Exited(c).sent = {g}
                               /\ g.type = "FC_CHANGE" /\ g.slot = c.us
<1> DEFINE d == EnterBlock(c)
           e == DecMembers(d)
<1>1. d \in Card /\ d.us = c.us
  BY EnterBlockType DEF SameCard
<1>2. CASE d.lc # d.us
  BY <1>2 DEF Exited, Quiet
<1>3. CASE d.lc = d.us
  <2>1. Exited(c).sent = {FrameOf(e, "FC_CHANGE")}
    BY <1>3 DEF Exited, Tx
  <2>2. IsLineCard(c.us)
    <3>1. ASSUME ~ IsLineCard(c.us) PROVE FALSE
      <4>1. EnterBlock(c).lc = 0
        BY <3>1 DEF EnterBlock, SetPorts, Card
      <4> QED BY <1>1, <1>3, <4>1, CardKinds DEF Card
    <3> QED BY <3>1
  <2>3. Exited(c).sent \subseteq Frame
    BY ExitedType DEF Outcome
  <2> HIDE DEF d
  <2>4. SameRole(e, d)
    BY <1>1, DecMembersRole
  <2> HIDE DEF e
  <2>5. FrameOf(e, "FC_CHANGE").type = "FC_CHANGE" /\ FrameOf(e, "FC_CHANGE").slot = c.us
    BY <1>1, <2>4 DEF FrameOf, SameRole
  <2> QED BY <2>1, <2>2, <2>3, <2>5
<1> QED
  BY <1>2, <1>3

ChangeStep(s, r, l) ==
  /\ s \notin {r, l} /\ Members' = Members \ {s}
  /\ ticked' = ticked \ {s}
  /\ \A t \in Slot \ {s} : card'[t] = card[t] /\ (t \in up' <=> t \in up)
  /\ \A t \in Members : inbox[t] = << >>
  /\ \/ \A t \in Members' : inbox'[t] = << >>
     \/ /\ IsLineCard(s) /\ s \notin up'
        /\ \E g \in Frame : /\ g.type = "FC_CHANGE" /\ g.slot = s
                            /\ \A t \in Members' : inbox'[t] \in {<< >>, << g >>}

LEMMA SettledChangeStep ==
  ASSUME TypeOK, RoleInv, Reliable, NEW r, NEW l, Settled(r, l), NEW s \in Slot,
         RoundChange(s), TreeStands(r, l)
  PROVE ChangeStep(s, r, l)
<1>1. /\ card \in [Slot -> Card] /\ up \in SUBSET Slot /\ inbox \in [Slot -> Seq(Frame)]
      /\ \A t \in Slot : card[t].us = t
  BY DEF TypeOK
<1>2. ticked' = ticked \ {s} /\ \A t \in Slot : inbox[t] = << >>
  BY DEF RoundChange, Change, Idle
<1>3. Members' \subseteq Members /\ r \in Members' /\ l \in Members' /\ Members \subseteq Slot
  <2>1. Members \subseteq Slot
    BY DEF Members, CpuA
  <2> QED BY <2>1 DEF TreeStands
<1>4. CASE Start(s)
  <2>1. s \notin up /\ up' = up \cup {s} /\ inbox' = inbox
        /\ card' = [card EXCEPT ![s] = Started(s)]
    BY <1>4 DEF Start
  <2>2. s \notin Members /\ s \notin Members'
    BY <1>3, <2>1 DEF Members
  <2>3. Members' = Members \ {s}
    BY <2>1, <2>2 DEF Members
  <2> QED BY <1>1, <1>2, <1>3, <2>1, <2>2, <2>3 DEF ChangeStep
<1>5. ASSUME NEW p, Depart(s, p)
      PROVE /\ s \notin {r, l} /\ Members' = Members \ {s} /\ s \notin up'
            /\ \A t \in Slot \ {s} : card'[t] = card[t] /\ (t \in up' <=> t \in up)
  <2>1. s \in up /\ up' = up \ {s} /\ card' = [card EXCEPT ![s] = [Zeroed(s) EXCEPT !.ports = p]]
    BY <1>5 DEF Depart
  <2>2. Members' = Members \ {s}
    BY <2>1 DEF Members
  <2> QED BY <1>1, <1>3, <2>1, <2>2
<1>6. CASE Crash(s)
  <2>1. PICK p : Depart(s, p)
    BY <1>6 DEF Crash
  <2>2. inbox' = [inbox EXCEPT ![s] = << >>]
    BY <1>6 DEF Crash
  <2>3. \A t \in Members' : inbox'[t] = << >>
    BY <1>1, <1>2, <1>3, <2>2
  <2> QED BY <1>2, <1>3, <1>5, <2>1, <2>3 DEF ChangeStep
<1>7. CASE SignalExit(s)
  <2> DEFINE queues == [inbox EXCEPT ![s] = << >>]
             sent   == Exited(card[s]).sent
  <2>1. Depart(s, {}) /\ Deliver(s, queues, sent)
    BY <1>7 DEF SignalExit
  <2>2. \A t \in Slot : queues[t] = << >>
    BY <1>1, <1>2
  <2>3. card[s] \in Card /\ card[s].us = s
    BY <1>1
  <2> HIDE DEF queues, sent
  <2>4. inbox' = [t \in Slot |-> IF t \in Listeners(s) THEN Enqueue(queues[t], sent) ELSE queues[t]]
    BY <2>1, DeliverAll
  <2>5. \A t \in Slot : inbox'[t] \in {<< >>, Enqueue(<< >>, sent)}
    BY <2>2, <2>4
  <2>6. CASE sent = {}
    <3>1. \A t \in Members' : inbox'[t] = << >>
      BY <1>3, <2>5, <2>6, EnqueueOne
    <3> QED BY <1>2, <1>3, <1>5, <2>1, <3>1 DEF ChangeStep
  <2>7. ASSUME IsLineCard(s), NEW g \in Frame, sent = {g}, g.type = "FC_CHANGE", g.slot = s
        PROVE ChangeStep(s, r, l)
    <3>1. Enqueue(<< >>, {g}) \in {<< >>, << g >>}
      <4>1. Enqueue(<< >>, {g}) \in {<< >>, Append(<< >>, g)}
        BY EnqueueOne
      <4>2. Append(<< >>, g) = << g >>
        OBVIOUS
      <4> QED BY <4>1, <4>2
    <3>2. \A t \in Members' : inbox'[t] \in {<< >>, << g >>}
      BY <1>3, <2>5, <2>7, <3>1
    <3> QED BY <1>2, <1>3, <1>5, <2>1, <2>7, <3>2 DEF ChangeStep
  <2> QED BY <2>3, <2>6, <2>7, FarewellSent DEF sent
<1> QED
  BY <1>4, <1>6, <1>7 DEF RoundChange, Change

LEMMA ChangeKeepsSettled ==
  ASSUME TypeOK, RoleInv, NEW r, NEW l, Settled(r, l), NEW s \in Slot, ChangeStep(s, r, l)
  PROVE Settled(r, l)'
<1>1. /\ r \in Fabric /\ l \in Lines /\ Members = Lines \cup Fabric /\ Members \subseteq Slot
      /\ r \in Members /\ l \in Members
  BY SettledCards DEF Settled
<1>2. /\ Members' = Members \ {s} /\ Lines' = Lines \ {s} /\ Fabric' = Fabric \ {s}
      /\ r \in Fabric' /\ l \in Lines'
  BY <1>1 DEF ChangeStep, Lines, Fabric
<1>3. \A t \in Members' : card'[t] = card[t]
  BY <1>1, <1>2 DEF ChangeStep
<1>4. \A t \in Members' : t \in Due' <=> t \in Due
  BY <1>1, <1>2 DEF ChangeStep, Due, Ticking
<1>5. \A t \in Members', id \in Slot : ~ Waiting(t, id) /\ (Took(t, id)' <=> Took(t, id))
  BY <1>2, <1>3 DEF ChangeStep, Waiting, Holds, Took
<1>6. \A t \in Members' : \/ inbox'[t] = << >>
                          \/ /\ IsLineCard(s) /\ s \notin up'
                             /\ \E g \in Frame : /\ g.type = "FC_CHANGE" /\ g.slot = s
                                                 /\ inbox'[t] = << g >>
  BY DEF ChangeStep
<1>7. \A t \in Members' : /\ ToCome(t)' = ToCome(t) /\ Gone(t)' = Gone(t)
                          /\ Took(t, r)' <=> Took(t, r)
  BY <1>1, <1>4, <1>5 DEF ToCome, Gone
<1>8. /\ r \in Members' /\ l \in Members' /\ Lines' \subseteq Members' /\ Fabric' \subseteq Members'
      /\ r \in Slot /\ l \in Slot
  BY <1>1, <1>2
<1>9. OnTree(r, l)'
  BY <1>2, <1>3 DEF Settled, OnTree
<1>10. OneVoice(r, l)'
  <2>1. ASSUME NEW t \in Members', NEW i \in DOMAIN inbox'[t] PROVE Voice(inbox'[t][i], t, r, l)
    <3>1. PICK g \in Frame : g.type = "FC_CHANGE" /\ g.slot = s /\ IsLineCard(s)
                             /\ inbox'[t] = << g >>
      BY <1>6, <2>1
    <3> QED BY <2>1, <3>1 DEF Voice
  <2> QED BY <2>1 DEF OneVoice
<1> HIDE DEF Took, Waiting, ToCome, Gone
<1>11. RootInTime(r, l)'
  BY <1>3, <1>4, <1>5, <1>8 DEF Settled, RootInTime
<1>12. OthersInTime(r, l)'
  <2>1. ASSUME NEW x \in Lines' PROVE card'[x].time <= ToCome(r)' + Gone(x)'
    BY <1>2, <1>3, <1>5, <1>7, <1>8 DEF Settled, OthersInTime
  <2>2. ASSUME NEW f \in Fabric' \ {r}
        PROVE card'[f].time <= card'[r].time + ToCome(r)' + Gone(f)'
    BY <1>2, <1>3, <1>5, <1>7, <1>8 DEF Settled, OthersInTime
  <2> QED BY <2>1, <2>2 DEF OthersInTime
<1>13. \A t \in Members', id \in Slot : ~ Waiting(t, id)'
  <2> TAKE t \in Members', id \in Slot
  <2>1. CASE inbox'[t] = << >>
    BY <2>1 DEF Waiting, Holds
  <2>2. ASSUME NEW g \in Frame, g.type = "FC_CHANGE", inbox'[t] = << g >>
        PROVE ~ Waiting(t, id)'
    <3>1. DOMAIN inbox'[t] = {1} /\ inbox'[t][1] = g
      BY <2>2
    <3> QED BY <2>2, <3>1 DEF Waiting, Holds
  <2> QED BY <1>6, <2>1, <2>2
<1>14. HellosInOrder(r, l)'
  <2>1. ASSUME NEW t \in Members', NEW id \in Slot, Took(t, id)', IsLineCard(id) # IsLineCard(t)
        PROVE card'[t].time = 0
    BY <1>2, <1>3, <1>5, <2>1 DEF Settled, HellosInOrder
  <2>2. Took(l, r)' /\ r \in Due' => l \in Due'
    BY <1>4, <1>7, <1>8 DEF Settled, HellosInOrder
  <2> QED BY <1>8, <1>13, <2>1, <2>2 DEF HellosInOrder
<1>15. QueuesShort'
  <2>1. IsFiniteSet(Taken') /\ Cardinality(Taken') \in Nat
    <3>1. IsFiniteSet(LineCard \X FabricCard) /\ Taken' \subseteq LineCard \X FabricCard
      BY TakenFinite DEF Taken
    <3> QED BY <3>1, FS_Subset, FS_CardinalityType
  <2>2. ASSUME NEW f \in Fabric' PROVE Len(inbox'[f]) <= Cardinality(Taken')
    <3>1. CASE inbox'[f] = << >>
      BY <2>1, <3>1
    <3>2. CASE inbox'[f] # << >>
      <4>1. Len(inbox'[f]) = 1 /\ IsLineCard(s) /\ s \notin up'
        <5>1. PICK g \in Frame : inbox'[f] = << g >> /\ IsLineCard(s) /\ s \notin up'
          BY <1>6, <1>8, <3>2
        <5> QED BY <5>1
      <4>2. <<s, r>> \in Taken'
        BY <1>1, <4>1, CardKinds DEF Taken, Fabric
      <4>3. Cardinality(Taken') # 0
        BY <2>1, <4>2, FS_EmptySet
      <4> QED BY <2>1, <4>1, <4>3
    <3> QED BY <3>1, <3>2
  <2> QED BY <2>2 DEF QueuesShort
<1> QED
  BY <1>9, <1>10, <1>11, <1>12, <1>14, <1>15 DEF Settled

(* No step but the start of a card under CTP, or the departure of one of   *)
(* the two, ends it.                                                       *)
LEMMA SettledStep ==
  ASSUME TypeOK, RoleInv, Reliable, NEW r, NEW l, Settled(r, l), [RoundNext]_roundVars,
         TreeStands(r, l) \/ UNCHANGED roundVars
  PROVE Settled(r, l)'
<1>1. ASSUME NEW s \in Slot, RoundChange(s), TreeStands(r, l) PROVE Settled(r, l)'
  BY <1>1, SettledChangeStep, ChangeKeepsSettled
<1>2. ASSUME UNCHANGED roundVars PROVE Settled(r, l)'
  <2>1. UNCHANGED <<card, up, inbox, ticked>>
    BY <1>2 DEF roundVars, vars
  <2> QED
    BY <2>1 DEF Settled, OnTree, OneVoice, RootInTime, OthersInTime, HellosInOrder,
                QueuesShort, Taken, Took, Waiting, ToCome, Gone, Due, Ticking, Members,
                Fabric, Lines
<1> QED
  BY <1>1, <1>2, ReceiveKeepsSettled, TickKeepsSettled DEF RoundNext, Running

-----------------------------------------------------------------------------
(* The theorems. *)

(* Nothing but the start of a card under CTP, or the departure of the root *)
(* FC or of the designated LC, unsettles a chassis whose network neither   *)
(* loses nor repeats frames: in whatever order its daemons tick and read   *)
(* (chassis_bpdu_check_rx_bpdu_interval drops a second HELLO between two   *)
(* ticks), no timer runs out, and no other card that leaves is missed.     *)
THEOREM SettledStaysAlways ==
  ASSUME Reliable
  PROVE RoundSpec => SettledStays
<1>1. TypeOK /\ RoleInv /\ [RoundNext]_roundVars
      => [\A r \in FabricCard, l \in LineCard :
            TreeStands(r, l) /\ Settled(r, l) => Settled(r, l)']_roundVars
  BY SettledStep
<1> QED
  BY <1>1, RoundInvariant, PTL DEF RoundSpec, SettledStays

(* So a chassis that has settled on the tree of r and l forwards along it  *)
(* for as long as those two run and no card joins.                         *)
THEOREM SettledForGood ==
  ASSUME Reliable, NEW r \in FabricCard, NEW l \in LineCard
  PROVE RoundSpec => [](Settled(r, l) /\ [][TreeStands(r, l)]_roundVars => []Settled(r, l))
<1>1. TypeOK /\ RoleInv /\ [RoundNext]_roundVars /\ [TreeStands(r, l)]_roundVars /\ Settled(r, l)
      => Settled(r, l)'
  BY SettledStep
<1> QED
  BY <1>1, RoundInvariant, PTL DEF RoundSpec

(* A loop that keeps its time is in a round. *)
LEMMA StallInTime ==
  [StallNext]_stallVars /\ behind = 0 /\ behind' = 0 => [RoundNext]_roundVars
<1> SUFFICES ASSUME StallNext, behind = 0, behind' = 0 PROVE RoundNext
  BY DEF stallVars, roundVars
<1>1. 0 \notin Slot
  BY SlotAssumption
<1>2. ASSUME NEW s \in Slot, StallTick(s) PROVE RoundTick(s)
  BY <1>1, <1>2 DEF StallTick, RoundTick, OthersIdle, Idle
<1>3. ASSUME NEW s \in Slot, StallReceive(s) \/ StallChange(s)
      PROVE RoundReceive(s) \/ RoundChange(s)
  BY <1>3 DEF StallReceive, StallChange
<1>4. ASSUME NEW s \in Slot,
             Stand(s) \/ Miss(s) \/ Return(s) \/ RunTimeouts(s) \/ LookAtSockets(s) \/ CaughtUp(s)
      PROVE FALSE
  BY <1>1, <1>4 DEF Stand, Miss, Return, RunTimeouts, LookAtSockets, CaughtUp
<1> QED
  BY <1>2, <1>3, <1>4 DEF StallNext, Going, RoundNext, Running

(* While no daemon is behind its time a chassis whose loops may stall      *)
(* stays settled as well, also after it has caught up on one; and on one   *)
(* tree its links are that tree even during a stall.                       *)
THEOREM StallSettledStays ==
  ASSUME Reliable
  PROVE StallSpec =>
          /\ []LinksAreTree
          /\ [][\A r \in FabricCard, l \in LineCard :
                  behind = 0 /\ behind' = 0 /\ TreeStands(r, l) /\ Settled(r, l)
                    => Settled(r, l)']_stallVars
<1>1. TypeOK /\ RoleInv /\ [StallNext]_stallVars
      => [\A r \in FabricCard, l \in LineCard :
            behind = 0 /\ behind' = 0 /\ TreeStands(r, l) /\ Settled(r, l)
              => Settled(r, l)']_stallVars
  BY SettledStep, StallInTime
<1> QED
  BY <1>1, TreeHolds, StallImplements, PopulatedInvariant, PTL DEF StallSpec
=============================================================================
