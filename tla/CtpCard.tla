------------------------------- MODULE CtpCard -------------------------------
(***************************************************************************)
(* One card's Chassis Topology Protocol (CTP) machine, chassis_bpdu.c.     *)
(*                                                                         *)
(* Everything the daemon does to its CTPM_T is a function of the record    *)
(* and, for a received BPDU, of the frame: the operators below take a      *)
(* card and return the card the C function leaves behind, and the two      *)
(* entry points Ticked and Received also return the frames it multicast.   *)
(* The module has no variables; Ctp.tla puts cards on a network.           *)
(*                                                                         *)
(* Slots 1..32 are line cards (LC), 33..48 fabric cards (FC).  Odd slots   *)
(* are CPU A, which runs CTP; even slots are CPU B, which has a table but  *)
(* neither ticks nor reads frames.  A BRIDGE_ID is the slot number in its  *)
(* low priority byte; 0 is the zeroed identifier.  The id half of a        *)
(* BRIDGE_EXIST entry is left out: it is only ever written together with   *)
(* an age >= 1, and always with the identifier of the entry's own slot.    *)
(***************************************************************************)
EXTENDS Integers

CONSTANTS
  Slot,          \* the slots in use, a subset of 1..48
  Dynamic,       \* the slots whose configuration says "topology = dynamic"
  MaxAge,        \* DEFAULT_MAXAGE, 15 in the code
  ForwardDelay,  \* DEFAULT_FORWARDDELAY, 3 in the code
  AgeFull,       \* 5*DEFAULT_FORWARDDELAY+1, 16 in the code
  LiveAge        \* the literal 3 of chassis_bpdu_select_new_root_lc

ASSUME SlotAssumption == Slot \subseteq 1..48 /\ Dynamic \subseteq Slot
ASSUME TimerAssumption ==
  /\ MaxAge \in Nat \ {0} /\ ForwardDelay \in Nat \ {0}
  /\ AgeFull \in Nat \ {0} /\ LiveAge \in 1..AgeFull

LineCard == Slot \cap (1..32)
FabricCard == Slot \cap (33..48)
CpuA == {s \in Slot : s % 2 = 1}
IsLineCard(s) == s \in 1..32

BLOCK == "BLOCK"
LISTENING == "LISTENING"
LEARNING == "LEARNING"
FORWARDING == "FORWARDING"
CtpState == {BLOCK, LISTENING, LEARNING, FORWARDING}
BpduType == {"CONFIG", "HELLO", "REPLY", "LC_CHANGE", "FC_CHANGE"}

Age == 0..AgeFull
SlotId == Slot \cup {0}       \* the identifiers a BRIDGE_ID can hold
Table == [Slot -> Age]        \* chassis_exist[].age
LcPort == 0..3                \* PORT_8_FC0 .. PORT_8_FC3 of a line card
FcPort == 0..7                \* PORT_16_LC0 .. PORT_16_LC7 of a fabric card

(* rootPortId (root) and the identifier in rootPrio.root_bridge are two    *)
(* fields, and so are rootLCPortId (lc) and rootPrio.design_bridge.        *)
Card == [us : Slot, state : CtpState, root : SlotId, rootBridge : SlotId,
         lc : 0..48, design : SlotId, time : Nat, age : Table,
         seen : SUBSET (Slot \X BpduType), ports : SUBSET FcPort]

Frame == [type : BpduType, slot : Slot, root : SlotId, dbridge : SlotId,
          fwd : BOOLEAN, age : Table]

-----------------------------------------------------------------------------
(* Switch ports: ports is the set of backplane ports in PORT_FORWARDING.   *)

(* The line card's port towards a fabric card (case labels 33/41, 35/43..) *)
PortToFc(id) == ((id - 33) % 8) \div 2

(* The fabric card's port towards a line card; FCs 37..40 and 45..48 are   *)
(* wired with the two halves of the line cards exchanged.                  *)
PortToLc(us, id) ==
  LET n == ((id - 1) % 16) \div 2
  IN IF us \in (33..36) \cup (41..44) THEN n ELSE (n + 4) % 8

AllPorts(us) == IF IsLineCard(us) THEN LcPort ELSE FcPort

(* Mutant: every forwarding card opens all its ports. *)
RolePortsAll(us, root, lc) == AllPorts(us)

(* chassis_bpdu_enter_forwarding_state: the designated LC and the root FC  *)
(* open every port; a leaf LC only the one towards the root FC, a backup   *)
(* FC only the one towards the designated LC, and for an even or unknown   *)
(* identifier no port at all.                                              *)
RolePorts(us, root, lc) ==
  IF IsLineCard(us)
    THEN IF lc = us THEN LcPort
         ELSE {PortToFc(id) : id \in {root} \cap {i \in 33..48 : i % 2 = 1}}
    ELSE IF root = us THEN FcPort
         ELSE {PortToLc(us, id) : id \in {lc} \cap {i \in 1..32 : i % 2 = 1}}

(* chassis_config_port does nothing on CPU B. *)
SetPorts(c, ports) ==
  IF c.us % 2 = 0 THEN c ELSE [c EXCEPT !.ports = ports]

-----------------------------------------------------------------------------
(* The table of cards heard of. *)

OwnTable(us) == [s \in Slot |-> IF s = us THEN AgeFull ELSE 0]

(* chassis_bpdu_in_update_chassis_member.  The memcpy of an identifier     *)
(* takes sizeof(BRIDGE_EXIST) = 10 bytes from an 8 byte field, so the age  *)
(* of the next entry is overwritten with the frame's before the loop gets  *)
(* there: entry s is adopted because it is newer, or because s-1 was.      *)
AdoptedBy(c, f) ==
  LET adopted[s \in 0..48] ==
        /\ s \in Slot /\ s # c.us
        /\ f.age[s] >= 1 /\ c.age[s] < f.age[s]
        /\ ~ adopted[s - 1]
  IN adopted

(* Mutant: a member heard of is as fresh as one heard. *)
UpdateMembersFresh(c, f) ==
  LET adopted == AdoptedBy(c, f)
  IN [c EXCEPT !.age = [s \in Slot |-> IF adopted[s] \/ adopted[s - 1]
                                         THEN AgeFull ELSE c.age[s]]]

(* Mutant: of a frame's table only the sender's own entry is taken. *)
UpdateMembersHeard(c, f) ==
  [c EXCEPT !.age = [s \in Slot |-> IF s = f.slot /\ c.age[s] < f.age[s]
                                      THEN f.age[s] ELSE c.age[s]]]

UpdateMembers(c, f) ==
  LET adopted == AdoptedBy(c, f)
  IN [c EXCEPT !.age = [s \in Slot |-> IF adopted[s] \/ adopted[s - 1]
                                         THEN f.age[s] ELSE c.age[s]]]

(* Mutants: no lower bound; members are not aged. *)
DecMembersUnbounded(c) ==
  [c EXCEPT !.age = [s \in Slot |-> IF s = c.us THEN AgeFull ELSE c.age[s] - 1]]

DecMembersNever(c) == [c EXCEPT !.age[c.us] = AgeFull]

(* chassis_bpdu_in_dec_chassis_member *)
DecMembers(c) ==
  [c EXCEPT !.age = [s \in Slot |-> IF s = c.us THEN AgeFull
                                    ELSE IF c.age[s] >= 1 THEN c.age[s] - 1
                                    ELSE c.age[s]]]

(* A frame vouches for an identifier when it carries a live age for it. *)
Vouches(f, id) == id \in Slot /\ f.age[id] > 0

-----------------------------------------------------------------------------
(* State changes: chassis_bpdu_enter_*. *)

EnterBlock(c) ==
  LET lineCard == IsLineCard(c.us)
      cleared  == [c EXCEPT !.state = BLOCK, !.time = 0, !.age = OwnTable(c.us),
                            !.root = IF lineCard THEN 0 ELSE c.us,
                            !.rootBridge = IF lineCard THEN 0 ELSE c.us,
                            !.lc = IF lineCard THEN c.us ELSE 0,
                            !.design = IF lineCard THEN c.us ELSE 0]
  IN SetPorts(cleared, IF lineCard THEN {} ELSE FcPort)

EnterListening(c) ==
  LET d == [c EXCEPT !.state = LISTENING, !.time = 0]
  IN IF IsLineCard(c.us) THEN SetPorts(d, {}) ELSE d

(* Mutant: the timer is not reset. *)
EnterLearningLate(c) ==
  LET d == [c EXCEPT !.state = LEARNING]
  IN IF IsLineCard(c.us) /\ c.root \in 33..48
       THEN SetPorts(d, c.ports \cup {PortToFc(c.root)}) ELSE d

EnterLearning(c) ==
  LET d == [c EXCEPT !.state = LEARNING, !.time = 0]
  IN IF IsLineCard(c.us) /\ c.root \in 33..48
       THEN SetPorts(d, c.ports \cup {PortToFc(c.root)}) ELSE d

EnterForwarding(c) ==
  SetPorts([c EXCEPT !.state = FORWARDING, !.time = 0],
           RolePorts(c.us, c.root, c.lc))

-----------------------------------------------------------------------------
(* Transmission: chassis_bpdu_tx_info_bpdu ages the table, then copies it. *)

FrameOf(c, type) ==
  [type |-> type, slot |-> c.us, root |-> c.rootBridge, dbridge |-> c.design,
   fwd |-> c.state = FORWARDING, age |-> c.age]

Quiet(c) == [card |-> c, sent |-> {}]
Tx(c, type) ==
  LET d == DecMembers(c) IN [card |-> d, sent |-> {FrameOf(d, type)}]

(* What a handler does with its card after it has transmitted. *)
After(m, c) == [m EXCEPT !.card = c]

-----------------------------------------------------------------------------
(* Learning the topology from a frame. *)

TakeRoot(c, f) == [c EXCEPT !.root = f.root, !.rootBridge = f.root]
(* Mutant: one of the two records is forgotten. *)
TakeDesignatedHalf(c, f) == [c EXCEPT !.lc = f.dbridge]

TakeDesignated(c, f) == [c EXCEPT !.lc = f.dbridge, !.design = f.dbridge]

(* Mutant: the root is never replaced once known. *)
UpdateLcRootFirst(c, f) ==
  LET rooted == IF Vouches(f, f.root) /\ c.root = 0 THEN TakeRoot(c, f) ELSE c
      designated ==
        IF /\ Vouches(f, f.dbridge)
           /\ f.type = "HELLO" \/ f.dbridge < c.lc \/ c.lc = 0
          THEN TakeDesignated(rooted, f) ELSE rooted
  IN UpdateMembers(designated, f)

(* chassis_bpdu_in_update_lc_root: lowest root FC, and the lowest          *)
(* designated LC unless the frame is a HELLO, which overrides.             *)
UpdateLcRoot(c, f) ==
  LET rooted == IF Vouches(f, f.root) /\ (f.root < c.root \/ c.root = 0)
                  THEN TakeRoot(c, f) ELSE c
      designated ==
        IF /\ Vouches(f, f.dbridge)
           /\ f.type = "HELLO" \/ f.dbridge < c.lc \/ c.lc = 0
          THEN TakeDesignated(rooted, f) ELSE rooted
  IN UpdateMembers(designated, f)

(* chassis_bpdu_in_update_fc_designated: a root FC named by a forwarding   *)
(* card overrides; the lowest designated LC wins whatever the type.        *)
UpdateFcDesignated(c, f) ==
  LET rooted == IF Vouches(f, f.root) /\ (f.fwd \/ f.root < c.root \/ c.root = 0)
                  THEN TakeRoot(c, f) ELSE c
      designated == IF Vouches(f, f.dbridge) /\ (f.dbridge < c.lc \/ c.lc = 0)
                      THEN TakeDesignated(rooted, f) ELSE rooted
  IN UpdateMembers(designated, f)

(* chassis_bpdu_check_bpdu *)
Differs(c, f) == f.root # c.rootBridge \/ f.dbridge # c.design

(* Mutant: the ports are left as they were. *)
SyncToHelloQuietly(c, f) ==
  IF f.dbridge # c.design /\ Vouches(f, f.dbridge) THEN TakeDesignated(c, f) ELSE c

(* chassis_bpdu_lc_sync_to_hello *)
SyncToHello(c, f) ==
  LET d == TakeDesignated(c, f)
  IN IF f.dbridge # c.design /\ Vouches(f, f.dbridge)
       THEN IF c.lc = c.design \/ c.us = f.dbridge THEN EnterForwarding(d) ELSE d
       ELSE c

(* chassis_bpdu_select_new_root_lc.  chassis_exist[i] is the entry of slot *)
(* i+1, and the loop variable, not the slot, is what rootLCPortId gets:    *)
(* the entry cleared is the one after old, the lc recorded the one before  *)
(* the LC chosen.                                                          *)
ClearOld(c, old) ==
  [c EXCEPT !.age = [s \in Slot |-> IF s = old + 1 THEN 0 ELSE c.age[s]]]

(* Mutant: the search runs over all 48 entries. *)
ElectableOfAll(c) == {s \in Slot : c.age[s] >= LiveAge}

Electable(c) == {s \in LineCard \ {c.us} : c.age[s] >= LiveAge}

Elect(c) ==
  LET s == CHOOSE x \in Electable(c) : \A y \in Electable(c) : x <= y
  IN [c EXCEPT !.lc = s - 1, !.design = s]

-----------------------------------------------------------------------------
(* The receive handlers. *)

(* chassis_bpdu_in_rx_fc_bpdu: a line card hears a fabric card. *)
RxFromFc(c, f) ==
  LET heard == UpdateMembers(c, f)
      timed == [heard EXCEPT !.time = 0]
      reply == Tx(UpdateLcRoot(EnterListening(c), f), "REPLY")
  IN CASE c.state = BLOCK ->
            After(reply, UpdateMembers(reply.card, f))
       [] c.state \in {LISTENING, LEARNING} ->
            Quiet(UpdateMembers(IF Differs(c, f) THEN UpdateLcRoot(c, f) ELSE c, f))
       [] c.state = FORWARDING /\ f.type = "LC_CHANGE" ->
            LET echo == Tx(heard, "LC_CHANGE") IN After(echo, EnterBlock(echo.card))
       [] c.state = FORWARDING /\ f.type = "HELLO" ->
            IF f.root = c.rootBridge /\ f.dbridge # c.lc
              THEN Quiet(SyncToHello(timed, f))
            ELSE IF f.dbridge = c.us /\ f.root = c.rootBridge /\ f.slot = f.root
              THEN Tx(timed, "HELLO")
            ELSE Tx(timed, "REPLY")
       [] c.state = FORWARDING /\ f.type = "CONFIG" -> Tx(heard, "REPLY")
       [] OTHER -> Quiet(heard)

(* A fabric card in FORWARDING hears a HELLO from a line card. *)
RxHelloFromLc(c, f) ==
  LET synced == IF f.dbridge # c.design /\ f.root = c.rootBridge
                  THEN SyncToHello(c, f) ELSE c
  IN IF f.dbridge = c.design /\ f.root # c.us
       THEN Tx(synced, "HELLO") ELSE Quiet(synced)

(* A fabric card in FORWARDING hears a line card leave. *)
RxFcChange(c, f) ==
  LET cleared == ClearOld(c, f.dbridge)
  IN IF f.root # c.us THEN Quiet(c)
     ELSE IF Electable(cleared) # {} THEN Tx(Elect(cleared), "HELLO")
     ELSE Quiet(EnterBlock(cleared))

(* chassis_bpdu_in_rx_lc_bpdu: a fabric card hears a line card. *)
RxFromLc(c, f) ==
  LET heard == UpdateMembers(c, f)
      learnt == UpdateFcDesignated(EnterListening(c), f)
  IN CASE c.state = BLOCK -> Quiet(UpdateMembers(learnt, f))
       [] c.state \in {LISTENING, LEARNING} ->
            Quiet(UpdateMembers(IF Differs(c, f) THEN UpdateFcDesignated(c, f) ELSE c, f))
       [] c.state = FORWARDING /\ f.type = "HELLO" ->
            RxHelloFromLc([heard EXCEPT !.time = 0], f)
       [] c.state = FORWARDING /\ f.type = "CONFIG" -> Tx(heard, "REPLY")
       [] c.state = FORWARDING /\ f.type = "FC_CHANGE" -> RxFcChange(heard, f)
       [] c.state = FORWARDING /\ f.type = "LC_CHANGE" /\ f.root # c.us ->
            Quiet(EnterBlock(heard))
       [] OTHER -> Quiet(heard)

(* chassis_bpdu_in_rx_bpdu: one frame of each type from each slot in every *)
(* tick; line cards ignore line cards and fabric cards fabric cards.       *)
Fresh(c, f) == <<f.slot, f.type>> \notin c.seen

Received(c, f) ==
  LET d == [c EXCEPT !.seen = @ \cup {<<f.slot, f.type>>}]
  IN IF ~ Fresh(c, f) THEN Quiet(c)
     ELSE IF IsLineCard(c.us) = IsLineCard(f.slot) THEN Quiet(d)
     ELSE IF IsLineCard(c.us) THEN RxFromFc(d, f) ELSE RxFromLc(d, f)

-----------------------------------------------------------------------------
(* chassis_bpdu_ctp_ctpm_iterate_machines: what a 200 ms tick does.        *)

(* In BLOCK only a fabric card acts: it calls for line cards, and after    *)
(* MaxAge ticks resets its switch chip, which leaves every port open.      *)
TickBlock(c) ==
  LET d == [c EXCEPT !.time = @ + 1]
  IN IF IsLineCard(c.us) THEN Quiet(c)
     ELSE IF d.time < MaxAge THEN Tx(d, "CONFIG")
     ELSE Quiet([d EXCEPT !.time = 0, !.ports = FcPort])

TickListening(c) ==
  LET d == [c EXCEPT !.time = @ + 1]
  IN IF c.time > ForwardDelay THEN Quiet(EnterLearning(c))
     ELSE IF IsLineCard(c.us) THEN Quiet(d) ELSE Tx(d, "CONFIG")

(* A line card stays longer, so that backup FCs block their ports first.   *)
LearningTime(us) == IF IsLineCard(us) THEN 2 * ForwardDelay + 1 ELSE ForwardDelay

TickLearning(c) ==
  LET sent == Tx(c, "CONFIG")
  IN IF c.time < LearningTime(c.us)
       THEN After(sent, [sent.card EXCEPT !.time = @ + 1])
       ELSE Quiet(EnterForwarding(c))

(* Mutant: the timer runs out one tick early. *)
TickRootEarly(c) ==
  LET hello   == Tx(c, "HELLO")
      cleared == ClearOld(c, c.lc)
  IN IF c.time < MaxAge THEN After(hello, [hello.card EXCEPT !.time = @ + 1])
     ELSE IF Electable(cleared) # {}
       THEN Tx([Elect(cleared) EXCEPT !.time = 0], "HELLO")
     ELSE Tx(EnterBlock(cleared), "LC_CHANGE")

(* The root FC sends HELLO; when no designated LC has echoed one for       *)
(* MaxAge ticks it elects another, or blocks and announces it.             *)
TickRoot(c) ==
  LET hello   == Tx(c, "HELLO")
      cleared == ClearOld(c, c.lc)
  IN IF c.time <= MaxAge THEN After(hello, [hello.card EXCEPT !.time = @ + 1])
     ELSE IF Electable(cleared) # {}
       THEN Tx([Elect(cleared) EXCEPT !.time = 0], "HELLO")
     ELSE Tx(EnterBlock(cleared), "LC_CHANGE")

(* Mutant: a card that hears nothing forwards for ever. *)
TickForwardingForever(c) ==
  IF c.us = c.root THEN TickRoot(c) ELSE Quiet([c EXCEPT !.time = 0])

TickForwarding(c) ==
  IF c.us = c.root THEN TickRoot(c)
  ELSE IF c.time > MaxAge * ForwardDelay THEN Quiet(EnterBlock(c))
  ELSE Quiet([c EXCEPT !.time = @ + 1])

(* Mutant: what was received in a tick is remembered in the next. *)
TickedDeaf(c) ==
  CASE ~ (c.us \in CpuA \cap Dynamic) -> Quiet(c)
    [] c.us \in CpuA \cap Dynamic /\ c.state = BLOCK      -> TickBlock(c)
    [] c.us \in CpuA \cap Dynamic /\ c.state = LISTENING  -> TickListening(c)
    [] c.us \in CpuA \cap Dynamic /\ c.state = LEARNING   -> TickLearning(c)
    [] c.us \in CpuA \cap Dynamic /\ c.state = FORWARDING -> TickForwarding(c)

(* chassis_bpdu_ctpm_one_second: only a card with CTP enabled ticks. *)
Ticked(c) ==
  LET d == [c EXCEPT !.seen = {}]
  IN CASE ~ (c.us \in CpuA \cap Dynamic) -> Quiet(c)
       [] c.us \in CpuA \cap Dynamic /\ c.state = BLOCK      -> TickBlock(d)
       [] c.us \in CpuA \cap Dynamic /\ c.state = LISTENING  -> TickListening(d)
       [] c.us \in CpuA \cap Dynamic /\ c.state = LEARNING   -> TickLearning(d)
       [] c.us \in CpuA \cap Dynamic /\ c.state = FORWARDING -> TickForwarding(d)

-----------------------------------------------------------------------------
(* Start and stop of the daemon. *)

(* A static line card opens FC0, or every port in slots 1 and 17. *)
StaticPorts(us) ==
  IF us % 2 = 0 THEN {}
  ELSE IF ~ IsLineCard(us) THEN FcPort
  ELSE IF us \in {1, 17} THEN LcPort ELSE {0}

(* chassis_bpdu_initial: a CTPM_T cleared by memset, with its own entry in *)
(* the table.  The roles it then writes are those chassis_initial_topology *)
(* writes again: enter_block, whatever the configured topology, and, if    *)
(* that is static, the static ports.                                       *)
Zeroed(us) ==
  [us |-> us, state |-> BLOCK, root |-> 0, rootBridge |-> 0, lc |-> 0, design |-> 0,
   time |-> 0, age |-> OwnTable(us), seen |-> {}, ports |-> {}]

Started(us) ==
  LET c == EnterBlock(Zeroed(us))
  IN IF us \in Dynamic THEN c ELSE [c EXCEPT !.ports = StaticPorts(us)]

(* chassis_signal_exit: enter_block first, then the test whether this card *)
(* is its own root LC, which enter_block has just made true of every LC.   *)
Exited(c) ==
  LET d == EnterBlock(c)
  IN IF d.lc = d.us THEN Tx(d, "FC_CHANGE") ELSE Quiet(d)
=============================================================================
