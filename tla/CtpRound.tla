------------------------------- MODULE CtpRound -------------------------------
(***************************************************************************)
(* CTP on a network that is fast against its timers.                       *)
(*                                                                         *)
(* Ctp.tla lets a card tick any number of times while another card, or a   *)
(* frame, waits.  That is what safety has to survive; what the protocol    *)
(* achieves depends on time.  Every daemon ticks each 200 ms               *)
(* (SERVER_PERIODIC_TIMER, chassis.h), a frame crosses the backplane in    *)
(* microseconds, and all timers count ticks, so here the cards tick at one *)
(* rate, once each in a round and in any order, and a card ticks, starts   *)
(* or departs only when no frame is waiting.  The actions are Ctp's.       *)
(***************************************************************************)
EXTENDS Ctp, MasterFc

CONSTANTS
  Chassis,   \* the chassis to begin with: pairs of the slots whose daemon
             \* already runs and of those whose daemon may be started
  Settle     \* bound on the rounds counted since the last change

ASSUME RoundAssumption ==
  Chassis \subseteq (SUBSET Slot) \X (SUBSET Slot) /\ Settle \in Nat

VARIABLES
  joining,   \* the slots whose daemon may be started
  ticked,    \* the slots that have ticked in this round
  calm       \* rounds begun since a card last started or departed

roundVars == <<vars, joining, ticked, calm>>

RoundTypeOK ==
  TypeOK /\ joining \subseteq Slot /\ ticked \subseteq Slot /\ calm \in 0..Settle

Idle == \A s \in Slot : inbox[s] = << >>

Ticking == up \cap CpuA \cap Dynamic
Due == Ticking \ ticked

-----------------------------------------------------------------------------
(* The tick of a card that is due, or the first of a round. *)
DueTick(s) ==
  /\ s \in Ticking
  /\ Due = {} \/ s \in Due
  /\ IF Due = {}
       THEN ticked' = {s} /\ calm' = IF calm < Settle THEN calm + 1 ELSE calm
       ELSE ticked' = ticked \cup {s} /\ UNCHANGED calm
  /\ UNCHANGED joining

RoundTick(s) == Idle /\ DueTick(s) /\ Tick(s)

RoundReceive(s) == Receive(s) /\ UNCHANGED <<joining, ticked, calm>>

Change(s) ==
  /\ (s \in joining /\ Start(s)) \/ SignalExit(s) \/ Crash(s)
  /\ ticked' = ticked \ {s}
  /\ calm' = 0
  /\ UNCHANGED joining

RoundChange(s) == Idle /\ Change(s)

RoundInit ==
  /\ \E chassis \in Chassis : up = chassis[1] /\ joining = chassis[2]
  /\ card = [s \in Slot |-> IF s \in up THEN Started(s) ELSE Zeroed(s)]
  /\ inbox = [s \in Slot |-> << >>]
  /\ stops = 0
  /\ ticked = {}
  /\ calm = 0

Running == \E s \in Slot : RoundTick(s) \/ RoundReceive(s)

RoundNext == Running \/ \E s \in Slot : RoundChange(s)

(* The event loop of a running daemon never stops: it calls the tick when  *)
(* it is overdue and reads its sockets.  Nothing obliges a card to leave   *)
(* or to be started.                                                       *)
RoundSpec == RoundInit /\ [][RoundNext]_roundVars /\ WF_roundVars(Running)

-----------------------------------------------------------------------------
Members == up \cap CpuA

(* One root FC, one designated LC, and every card forwards and knows both. *)
Steady ==
  \E r \in Members \cap FabricCard, l \in Members \cap LineCard :
    \A s \in Members : /\ card[s].state = FORWARDING
                       /\ card[s].root = r /\ card[s].design = l

Mixed == Members \cap FabricCard # {} /\ Members \cap LineCard # {}

(* A fabric card is plugged in below one that runs. *)
Undercut == \E f \in joining \cap FabricCard, g \in up \cap FabricCard : f < g

(* Whatever has joined, every line card then forwards, all towards one     *)
(* fabric card and behind one designated LC.                               *)
LineCardsSteadyInTime ==
  calm = Settle /\ Mixed =>
    \E r \in Members \cap FabricCard, l \in Members \cap LineCard :
      \A s \in Members \cap LineCard :
        card[s].state = FORWARDING /\ card[s].root = r /\ card[s].design = l

(* The local masters as a fabric card sees them, and whether it takes      *)
(* itself for one (the value of chassis_check_master_fc).                  *)
MasterView(f) == LocalMaster({d \in FabricCard : card[f].age[d] > 0}, card[f].root)
TakesItself(f) == \E g \in 0..3 : MasterView(f)[g] = f

(* Each FC makes itself a master, or not, from its own table of the others,*)
(* which it has only from line cards.  In time each group of FCs has one   *)
(* card that takes itself for its master, and every FC of the chassis      *)
(* names that one.                                                         *)
OneMasterInTime ==
  LET fabric == Members \cap FabricCard
  IN calm = Settle /\ Mixed /\ ~ Undercut =>
       \A g \in {Group(f) : f \in fabric} :
         \E m \in fabric :
           /\ {f \in fabric : Group(f) = g /\ TakesItself(f)} = {m}
           /\ \A f \in fabric : MasterView(f)[g] = m

(* A line card and a fabric card that hear each other share a backplane    *)
(* link, which carries frames when both its ports forward.                 *)
Link(l, f) ==
  /\ PortToFc(f) \in card[l].ports /\ PortToLc(f, l) \in card[f].ports
  /\ Address(l) # Address(f)

(* Two line cards and two fabric cards, and the loop they may close. *)
Square ==
  {q \in LineCard \X LineCard \X FabricCard \X FabricCard : q[1] < q[2] /\ q[3] < q[4]}

Loop(q) ==
  Link(q[2], q[4]) /\ Link(q[1], q[4]) /\ Link(q[2], q[3]) /\ Link(q[1], q[3])

(* The ports never close a switching loop on the way to one topology. *)
NoLoop == \A q \in Square : ~ Loop(q)

(* A card has come second: a line card that does not forward as the        *)
(* designated LC, a fabric card that forwards under another root.          *)
Yields(s) ==
  IF IsLineCard(s) THEN card[s].state # FORWARDING \/ card[s].design # s
                   ELSE card[s].state = FORWARDING /\ card[s].root # s

(* One card that has come second is enough to keep a loop open: four cards *)
(* under CTP close one only while both LCs take themselves for designated  *)
(* and neither FC has given way, whatever frames are late or lost.         *)
YieldBreaksLoop ==
  \A q \in Square :
    Loop(q) /\ {q[1], q[2], q[3], q[4]} \subseteq Ticking =>
      ~ \E s \in {q[1], q[2], q[3], q[4]} : Yields(s)

(* The memory of a card that has left dies out of every table and frame:   *)
(* the members do not keep each other's records of it fresh.               *)
ForgottenInTime ==
  calm = Settle => \A d \in Slot \ up : Memory(d) \subseteq {0}
=============================================================================
