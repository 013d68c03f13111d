------------------------------ MODULE GroupTest ------------------------------
(***************************************************************************)
(* Tests of all cards at an operator's request.  The TCP server of a card  *)
(* (tcp_server.c) forks a child for each request; the child asks the UDP   *)
(* server (udp_server.c) of every card to run a command, and collects the  *)
(* answers until all have come or it has waited long enough.               *)
(*                                                                         *)
(* Ping, power cycle and hardware information tests ask again a card that  *)
(* has not answered.  Traffic, health and any-to-any tests ask once: a     *)
(* card acknowledges, runs the command while its event loop stands still,  *)
(* and sends the result; in the end the child asks the cards that have     *)
(* acknowledged for the result once more, which every card keeps in one    *)
(* variable for all tests.  Operators send the same requests by hand.      *)
(*                                                                         *)
(* Datagrams may be lost, cards restart.  The children of a card use one   *)
(* socket, so that one reads what came too late for the one before.        *)
(***************************************************************************)
EXTENDS Integers, Sequences, FiniteSets

CONSTANTS
  Card,         \* the entries of the card tables, of which there are 48
  MiddleSlots,  \* slots 5 to 8, which the traffic test takes for fabric cards
  Member,       \* the cards of the configuration file, the only ones asked
  Host,         \* cards an operator connects to, one at a time each
  Kinds,        \* the tests operators ask for
  Options,      \* the options of the traffic test they use
  LcCount, FcCount,   \* 8 and 4, chassis_count of the traffic tests
  Tries,        \* COUNT_CHASSIS_PING, COUNT_CHASSIS_POWER, COUNT_HW_INFORM, 6
  Waits,        \* COUNT_HEALTH, 100, and the wait counts of the other tests
  QueueCap,     \* bound on the datagrams in a socket
  MaxRequests,  \* bound on the requests of operators
  MaxRestarts   \* bound on the restarts of cards

StatusKind == {"ping", "power", "hw"}
ResultKind == {"traffic", "health", "anytoany"}

ASSUME GroupTestAssumption ==
  /\ MiddleSlots \subseteq Card /\ Member \subseteq Card /\ Host \subseteq Member
  /\ IsFiniteSet(Card)
  /\ Kinds \subseteq StatusKind \cup ResultKind /\ Options \subseteq 0..9
  /\ {LcCount, FcCount, QueueCap, MaxRequests, MaxRestarts} \subseteq Nat
  /\ {Tries, Waits} \subseteq Nat \ {0}

(* The traffic tests count to fixed numbers, of a chassis that has at most *)
(* that many cards of each kind.                                           *)
ASSUME TrafficAssumption ==
  /\ Cardinality(Member \ MiddleSlots) <= LcCount
  /\ Cardinality(Member \cap MiddleSlots) <= FcCount

VARIABLES
  child,     \* the child of each host
  inbox,     \* the UDP server socket of each card
  replies,   \* the UDP client socket of each host
  busy,      \* the request whose command a card is running
  last,      \* last_payload, as the result it stands for
  ready,     \* us_card[] of each card: whose status has a bit beside IS_EXIST
  requests,  \* requests of operators so far
  restarts,  \* restarts so far
  alone,     \* history: nothing old or foreign has met the stage of the child
  ran        \* history: which cards have begun the command of which request

card == <<inbox, busy, last, ready>>
vars == <<child, card, replies, requests, restarts, alone, ran>>

-----------------------------------------------------------------------------
(* Data. *)

NotReady == 0
Ready == 1
Ack == 2
Failed == 3
Success == 4

Free == [kind |-> "free"]
Request ==
  [from : Card, byHand : BOOLEAN, kind : StatusKind \cup ResultKind,
   ask : {"command", "result"}, id : 1..MaxRequests]

(* value is the result, or zero for a status test that went well. *)
Reply == [card : Card, kind : StatusKind \cup ResultKind, value : 0..Success]

(* A stage of a test: whom it asks, how many answers it waits for, and how *)
(* often.                                                                  *)
Stage(kind, cards, count, tries) ==
  [kind |-> kind, cards |-> cards, count |-> count, tries |-> tries]

(* Mutant: one try too many. *)
PingStageMore == Stage("ping", Card, Cardinality(Member), Tries + 1)

PingStage == Stage("ping", Card, Cardinality(Member), Tries)
PowerStage == Stage("power", Card, Cardinality(Member), Tries)
HwStage    == Stage("hw", Card, Cardinality(Member), Tries)
HealthStage   == Stage("health", Card, Cardinality(Card), Waits)
AnyToAnyStage == Stage("anytoany", Card, Cardinality(Card), Waits)
TrafficLcStage == Stage("traffic", Card \ MiddleSlots, LcCount, Waits)
TrafficFcStage == Stage("traffic", MiddleSlots, FcCount, Waits)

(* tcp_server_do_traffic_request_member. *)
TrafficStages(option) ==
  CASE option \in 1..3   -> << TrafficLcStage >>
    [] option = 4        -> << TrafficFcStage >>
    [] option \in 5..8   -> << TrafficFcStage, TrafficLcStage >>
    [] option \in {0, 9} -> << TrafficLcStage, TrafficFcStage >>

(* The burn-in goes on only after a first stage without failure. *)
Strict(option) == option \in {5, 9}

Stages(kind, option) ==
  CASE kind = "ping"     -> << PingStage >>
    [] kind = "power"    -> << PowerStage >>
    [] kind = "hw"       -> << HwStage >>
    [] kind = "health"   -> << HealthStage >>
    [] kind = "anytoany" -> << AnyToAnyStage >>
    [] kind = "traffic"  -> TrafficStages(option)

Idle == [phase |-> "idle"]
Running ==
  [phase : {"send", "collect", "fetch", "late", "verdict"}, id : 1..MaxRequests,
   strict : BOOLEAN, todo : Seq({PingStage, PowerStage, HwStage, HealthStage,
                                 AnyToAnyStage, TrafficLcStage, TrafficFcStage}),
   first : BOOLEAN, skip : SUBSET Card, result : [Card -> NotReady..Success],
   count : Nat, failed : BOOLEAN, try : 0..(IF Tries > Waits THEN Tries ELSE Waits),
   open : BOOLEAN]

Now(h) == Head(child[h].todo)
OfStatus(h) == Now(h).kind \in StatusKind
In(h, phase) == child[h].phase = phase

TypeOK ==
  /\ child \in [Host -> {Idle} \cup Running]
  /\ inbox \in [Card -> Seq(Request)]
  /\ replies \in [Host -> Seq(Reply)]
  /\ busy \in [Card -> {Free} \cup Request]
  /\ last \in [Card -> {Failed, Success}]
  /\ ready \in [Card -> SUBSET Card]
  /\ requests \in 0..MaxRequests /\ restarts \in 0..MaxRestarts
  /\ alone \in [Host -> BOOLEAN]
  /\ ran \subseteq (1..MaxRequests) \X Card

Put(queue, m) == IF Len(queue) < QueueCap THEN Append(queue, m) ELSE queue

(* Some of the requests to these cards arrive. *)
Post(targets, request) ==
  \E S \in SUBSET targets :
    inbox' = [c \in Card |-> IF c \in S THEN Put(inbox[c], request) ELSE inbox[c]]

(* The reply to a request may be lost; one to an operator is not followed. *)
Answer(request, c, value) ==
  \/ replies' = replies
  \/ /\ ~ request.byHand
     /\ replies' = [replies EXCEPT ![request.from] =
                      Put(@, [card |-> c, kind |-> request.kind, value |-> value])]

-----------------------------------------------------------------------------
(* Operators. *)

Quiet(h) ==
  /\ replies[h] = << >>
  /\ \A c \in Card : inbox[c] = << >> /\ busy[c] = Free
  /\ \A x \in Host \ {h} : child[x] = Idle

(* tcp_server_accept and tcp_server_do_processing.  The child works with   *)
(* the status of the cards as it was at the fork.                          *)
Accept(h) ==
  /\ child[h] = Idle /\ requests < MaxRequests
  /\ requests' = requests + 1
  /\ \E kind \in Kinds : \E option \in (IF kind = "traffic" THEN Options ELSE {0}) :
       child' = [child EXCEPT ![h] =
         [phase |-> "send", id |-> requests + 1, strict |-> kind = "traffic" /\ Strict(option),
          todo |-> Stages(kind, option), first |-> TRUE, skip |-> ready[h],
          result |-> [c \in Card |-> NotReady], count |-> 0, failed |-> FALSE,
          try |-> 0, open |-> FALSE]]
  /\ alone' = [x \in Host |-> x = h /\ Quiet(h)]
  /\ UNCHANGED <<card, replies, restarts, ran>>

(* The command client on card d. *)
ByHand(d, c) ==
  /\ requests < MaxRequests
  /\ requests' = requests + 1
  /\ \E kind \in Kinds :
       inbox' = [inbox EXCEPT ![c] =
         Put(@, [from |-> d, byHand |-> TRUE, kind |-> kind, ask |-> "command",
                 id |-> requests + 1])]
  /\ alone' = [x \in Host |-> FALSE]
  /\ UNCHANGED <<child, busy, last, ready, replies, restarts, ran>>

-----------------------------------------------------------------------------
(* The child. *)

Ask(h, ask) ==
  [from |-> h, byHand |-> FALSE, kind |-> Now(h).kind, ask |-> ask, id |-> child[h].id]

(* tcp_server_do_send_ping_test_to_client and its like: nothing is sent to *)
(* a card whose status is not exactly IS_EXIST.                            *)
Sendable(h, c) == c \in Member \ child[h].skip

(* Mutant: a card stays unasked in the table. *)
MarkedNot(result, cards) == result

(* A card that has been asked, or is not there to be asked, is READY. *)
Marked(result, cards) ==
  [c \in Card |-> IF c \in cards /\ result[c] = NotReady THEN Ready ELSE result[c]]

SendStatus(h) ==
  /\ In(h, "send") /\ OfStatus(h)
  /\ LET s == child[h]
         targets == {c \in Card \ {h} : s.result[c] # 1 /\ Sendable(h, c)}
     IN /\ Post(targets, Ask(h, "command"))
        /\ child' = [child EXCEPT ![h] =
             [s EXCEPT !.phase = "collect", !.result[h] = 1,
                       !.count = IF s.result[h] # 1 THEN @ + 1 ELSE @,
                       !.open = @ \/ targets # {}]]
  /\ UNCHANGED <<busy, last, ready, replies, requests, restarts, alone, ran>>

SendCommand(h) ==
  /\ In(h, "send") /\ ~ OfStatus(h)
  /\ LET s == child[h]
         targets == {c \in Now(h).cards \cap Member : s.result[c] = NotReady}
     IN /\ Post(targets, Ask(h, "command"))
        /\ child' = [child EXCEPT ![h] =
             [s EXCEPT !.phase = "collect", !.result = Marked(@, Now(h).cards),
                       !.open = @ \/ targets # {}]]
  /\ UNCHANGED <<busy, last, ready, replies, requests, restarts, alone, ran>>

(* Mutant: every good answer counts. *)
WithStatusEvery(s, r) ==
  IF r.value = 0 THEN [s EXCEPT !.result[r.card] = 1, !.count = @ + 1] ELSE s

(* tcp_server_do_check_udp_client_packet. *)
WithStatus(s, r) ==
  IF r.value = 0 /\ s.result[r.card] # 1
    THEN [s EXCEPT !.result[r.card] = 1, !.count = @ + 1]
    ELSE s

(* Mutant: a result counts again when it is repeated. *)
WithResultAgain(s, r) ==
  [s EXCEPT !.result[r.card] = r.value,
            !.count = IF r.value \in {Failed, Success} THEN @ + 1 ELSE @,
            !.failed = @ \/ (s.phase = "late" /\ r.value = Failed)]

(* tcp_server_do_check_traffic_packet and its like.  A failure that needs  *)
(* no second question does not make the test fail.                         *)
WithResult(s, r) ==
  IF s.result[r.card] = r.value THEN s
  ELSE [s EXCEPT !.result[r.card] = r.value,
                 !.count = IF r.value \in {Failed, Success} THEN @ + 1 ELSE @,
                 !.failed = @ \/ (s.phase = "late" /\ r.value = Failed)]

Collect(h) ==
  /\ In(h, "collect") \/ In(h, "late")
  /\ child[h].open /\ replies[h] # << >>
  /\ LET s == child[h]
         r == Head(replies[h])
     IN child' = [child EXCEPT ![h] =
          CASE r.kind # Now(h).kind -> s
            [] r.kind = Now(h).kind /\ OfStatus(h) -> WithStatus(s, r)
            [] OTHER -> WithResult(s, r)]
  /\ replies' = [replies EXCEPT ![h] = Tail(@)]
  /\ UNCHANGED <<card, requests, restarts, alone, ran>>

(* Mutant: the tries are not counted. *)
Tried(s) == s.try

(* udp_client_recv finds nothing for its timeout: another try, or what     *)
(* comes after the loop.                                                   *)
NextTry(s) == s.try + 1

Silence(h) ==
  /\ In(h, "collect")
  /\ child[h].open => replies[h] = << >>
  /\ LET s == child[h]
         missing == s.count < Now(h).count
     IN child' = [child EXCEPT ![h] =
          [s EXCEPT !.try = NextTry(s),
                    !.phase = IF missing /\ NextTry(s) < Now(h).tries THEN "send"
                              ELSE IF missing /\ ~ OfStatus(h) THEN "fetch"
                              ELSE "verdict"]]
  /\ UNCHANGED <<card, replies, requests, restarts, alone, ran>>

(* The cards that have only acknowledged are asked for the result. *)
Fetch(h) ==
  /\ In(h, "fetch")
  /\ Post({c \in Now(h).cards \cap Member : child[h].result[c] = Ack}, Ask(h, "result"))
  /\ child' = [child EXCEPT ![h].phase = "late"]
  /\ UNCHANGED <<busy, last, ready, replies, requests, restarts, alone, ran>>

LateSilence(h) ==
  /\ In(h, "late")
  /\ child[h].open => replies[h] = << >>
  /\ child' = [child EXCEPT ![h].phase = "verdict"]
  /\ UNCHANGED <<card, replies, requests, restarts, alone, ran>>

(* Mutant: a failed burn-in goes on. *)
GoesOnAlways(s, stage) == Len(s.todo) > 1

GoesOn(s, stage) == Len(s.todo) > 1 /\ ~ (s.strict /\ (s.failed \/ s.count < stage.count))

(* The next stage, or the answer to the operator. *)
Verdict(h) ==
  /\ In(h, "verdict")
  /\ LET s == child[h]
     IN \/ /\ GoesOn(s, Now(h))
           /\ child' = [child EXCEPT ![h] =
                [s EXCEPT !.phase = "send", !.todo = Tail(@), !.first = FALSE, !.count = 0,
                          !.failed = FALSE, !.try = 0, !.open = FALSE]]
           /\ alone' = [alone EXCEPT ![h] = @ /\ Quiet(h)]
        \/ /\ ~ GoesOn(s, Now(h))
           /\ child' = [child EXCEPT ![h] = Idle]
           /\ UNCHANGED alone
  /\ UNCHANGED <<card, replies, requests, restarts, ran>>

-----------------------------------------------------------------------------
(* The UDP server, upd_server_recev. *)

Serving(c) == busy[c] = Free /\ inbox[c] # << >>
Served(c) == inbox' = [inbox EXCEPT ![c] = Tail(@)]

(* udp_server_do_parse_udp: whose entry gets a ready bit.  The command     *)
(* client names its own card, the child of a host the card it asks, except *)
(* for the hardware information, which is that of the host.                *)
ReadyCard(c, request) ==
  IF request.byHand \/ request.kind = "hw" THEN request.from ELSE c

(* A command that fails, or was never run, is reported by a value that is  *)
(* not zero; hardware information is no command.                           *)
ServeStatus(c) ==
  /\ Serving(c)
  /\ LET r == Head(inbox[c])
     IN /\ r.kind \in StatusKind
        /\ \E value \in (IF r.kind = "hw" THEN {0} ELSE {0, 1}) : Answer(r, c, value)
        /\ ready' = [ready EXCEPT ![c] = @ \cup {ReadyCard(c, r)}]
  /\ Served(c)
  /\ UNCHANGED <<child, busy, last, requests, restarts, alone, ran>>

(* Acknowledge, and begin the command, during which nothing else runs. *)
ServeCommand(c) ==
  /\ Serving(c)
  /\ LET r == Head(inbox[c])
     IN /\ r.kind \in ResultKind /\ r.ask = "command"
        /\ Answer(r, c, Ack)
        /\ busy' = [busy EXCEPT ![c] = r]
        /\ ran' = ran \cup {<<r.id, c>>}
  /\ Served(c)
  /\ UNCHANGED <<child, last, ready, requests, restarts, alone>>

(* udp_server_do_system_command returns. *)
Finish(c) ==
  /\ busy[c] # Free
  /\ \E value \in {Failed, Success} :
       /\ last' = [last EXCEPT ![c] = value]
       /\ Answer(busy[c], c, value)
  /\ busy' = [busy EXCEPT ![c] = Free]
  /\ UNCHANGED <<child, inbox, ready, requests, restarts, alone, ran>>

ServeResult(c) ==
  /\ Serving(c)
  /\ LET r == Head(inbox[c]) IN r.ask = "result" /\ Answer(r, c, last[c])
  /\ Served(c)
  /\ UNCHANGED <<child, busy, last, ready, requests, restarts, alone, ran>>

(* tcp_server_do_send_shutdown_to_client, when the daemon of c forwards a  *)
(* power request to d, takes the ready bits of d away.                     *)
Forward(c, d) ==
  /\ d \in ready[c]
  /\ ready' = [ready EXCEPT ![c] = @ \ {d}]
  /\ UNCHANGED <<child, inbox, busy, last, replies, requests, restarts, alone, ran>>

(* The daemon of a card that runs no test of its own starts afresh. *)
Restart(c) ==
  /\ restarts < MaxRestarts /\ (c \in Host => child[c] = Idle)
  /\ restarts' = restarts + 1
  /\ inbox' = [inbox EXCEPT ![c] = << >>]
  /\ busy' = [busy EXCEPT ![c] = Free]
  /\ last' = [last EXCEPT ![c] = Success]
  /\ ready' = [ready EXCEPT ![c] = {}]
  /\ replies' = [h \in Host |-> IF h = c THEN << >> ELSE replies[h]]
  /\ alone' = [x \in Host |-> FALSE]
  /\ UNCHANGED <<child, requests, ran>>

-----------------------------------------------------------------------------
Init ==
  /\ child = [h \in Host |-> Idle]
  /\ inbox = [c \in Card |-> << >>]
  /\ replies = [h \in Host |-> << >>]
  /\ busy = [c \in Card |-> Free]
  /\ last = [c \in Card |-> Success]
  /\ ready = [c \in Card |-> {}]
  /\ requests = 0 /\ restarts = 0
  /\ alone = [h \in Host |-> FALSE]
  /\ ran = {}

ChildStep(h) ==
  \/ SendStatus(h) \/ SendCommand(h) \/ Collect(h) \/ Silence(h)
  \/ Fetch(h) \/ LateSilence(h) \/ Verdict(h)

Next ==
  \/ \E h \in Host : Accept(h) \/ ChildStep(h)
  \/ \E c \in Card : \/ ServeStatus(c) \/ ServeCommand(c) \/ Finish(c) \/ ServeResult(c)
                     \/ Restart(c)
  \/ \E c, d \in Card : ByHand(d, c) \/ Forward(c, d)

Spec == Init /\ [][Next]_vars

(* A child sleeps and selects with timeouts; nothing is assumed of cards.  *)
FairSpec == Spec /\ \A h \in Host : WF_vars(ChildStep(h))

-----------------------------------------------------------------------------
(* A ping, power cycle or information test that counts as complete has an  *)
(* answer of every card of the configuration, whatever is lost, late or    *)
(* left over from earlier tests.                                           *)
StatusComplete ==
  \A h \in Host :
    In(h, "verdict") /\ OfStatus(h) /\ child[h].count >= Now(h).count =>
      \A c \in Member : child[h].result[c] = 1

(* The other tests count answers, not cards.  A stage that counts as       *)
(* complete still has an answer of every member it asked, if nothing was   *)
(* left over when it began, no other operator interfered, no card          *)
(* restarted.                                                              *)
ResultComplete ==
  \A h \in Host :
    In(h, "verdict") /\ ~ OfStatus(h) /\ alone[h] /\ child[h].count >= Now(h).count =>
      \A c \in Now(h).cards \cap Member : child[h].result[c] \in {Failed, Success}

(* A card begins the command of a traffic, health or any-to-any test at    *)
(* most once, however often the child goes round its loop.                 *)
CommandOnce ==
  [][\A c \in Card : ServeCommand(c) => <<Head(inbox[c]).id, c>> \notin ran]_vars

(* The second group of cards is put under burn-in only when every member   *)
(* of the first has answered.                                              *)
BurnInInOrder ==
  \A h \in Host :
    child[h] # Idle /\ child[h].strict /\ ~ child[h].first /\ alone[h] =>
      \A c \in Member \ Now(h).cards : child[h].result[c] \in {Failed, Success}

(* Every test ends, although cards may be dead and datagrams get lost. *)
EveryTestEnds == \A h \in Host : (child[h] # Idle) ~> (child[h] = Idle)
==============================================================================
