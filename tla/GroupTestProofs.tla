---------------------------- MODULE GroupTestProofs ----------------------------
(***************************************************************************)
(* The group tests, for any cards, hosts, tests and bounds: the types,     *)
(* that a status test which counts as complete has an answer of every      *)
(* member, that no card begins the command of a request twice, and that a  *)
(* test of results that nothing disturbs is complete when it counts so,    *)
(* the first stage of a burn-in before the second begins.                  *)
(***************************************************************************)
EXTENDS GroupTest, FiniteSetTheorems, SequenceTheorems, TLAPS

(* What may be left of a test: its stages from the one under way. *)
StatusLeft == {<<PingStage>>, <<PowerStage>>, <<HwStage>>}
ResultLeft ==
  {<<HealthStage>>, <<AnyToAnyStage>>, <<TrafficLcStage>>, <<TrafficFcStage>>,
   <<TrafficFcStage, TrafficLcStage>>, <<TrafficLcStage, TrafficFcStage>>}

Answered(s) == {c \in Card : s.result[c] = 1}

(* A child that waits has a try left, and one of a status test has counted *)
(* each card that has answered once, and no card beside the members.       *)
Counting(s) ==
  /\ s.todo \in StatusLeft \cup ResultLeft
  /\ s.phase \in {"send", "collect"} => s.try < Head(s.todo).tries
  /\ s.todo \in StatusLeft => /\ Answered(s) \subseteq Member
                              /\ s.count = Cardinality(Answered(s))
  /\ ~ s.first => s.todo \in ResultLeft

Child == {s \in Running : Counting(s)}

(* A child asks members only, so that only members answer; a result is not *)
(* the value of a card that has not been asked.                            *)
Delivered(c) == {r \in Request : ~ r.byHand => c \in Member}
Given == {r \in Reply : r.card \in Member /\ (r.kind \in ResultKind => r.value # NotReady)}

GroupInv ==
  /\ child \in [Host -> {Idle} \cup Child]
  /\ inbox \in [Card -> Seq(Request)]
  /\ \A c \in Card : inbox[c] \in Seq(Delivered(c))
  /\ replies \in [Host -> Seq(Given)]
  /\ busy \in [Card -> {Free} \cup Request]
  /\ \A c \in Card : busy[c] # Free => busy[c] \in Delivered(c)
  /\ last \in [Card -> {Failed, Success}]
  /\ ready \in [Card -> SUBSET Card]
  /\ requests \in 0..MaxRequests /\ restarts \in 0..MaxRestarts
  /\ alone \in [Host -> BOOLEAN]
  /\ ran \subseteq (1..MaxRequests) \X Card

(* A request whose command runs at most once; a queue q of card c that     *)
(* holds no such request of number n, which has not been run either; and   *)
(* one that holds none twice, and none that has been run.                  *)
Begins(r) == r.ask = "command" /\ r.kind \in ResultKind

Fresh(R, q, c, n) ==
  <<n, c>> \notin R /\ \A i \in 1..Len(q) : Begins(q[i]) => q[i].id # n

Single(R, q, c) ==
  \A i \in 1..Len(q) : Begins(q[i]) =>
    /\ <<q[i].id, c>> \notin R
    /\ \A j \in 1..Len(q) : j # i /\ Begins(q[j]) => q[j].id # q[i].id

(* Numbers are given out once, and a card that a child takes for not yet   *)
(* asked has never been asked under the child's number.                    *)
OnceInv ==
  /\ \A c \in Card : Single(ran, inbox[c], c)
  /\ \A c \in Card, n \in Nat : n > requests => Fresh(ran, inbox[c], c, n)
  /\ \A h \in Host : child[h] # Idle => child[h].id <= requests
  /\ \A h, x \in Host :
       h # x /\ child[h] # Idle /\ child[x] # Idle => child[h].id # child[x].id
  /\ \A h \in Host : child[h] # Idle /\ ~ OfStatus(h) =>
       \A c \in Card : child[h].result[c] = NotReady =>
         Fresh(ran, inbox[c], c, child[h].id)

-----------------------------------------------------------------------------
(* Data. *)

StageSet ==
  {PingStage, PowerStage, HwStage, HealthStage, AnyToAnyStage, TrafficLcStage,
   TrafficFcStage}

LEMMA StageFacts ==
  ASSUME NEW stage \in StageSet
  PROVE  /\ stage.kind \in StatusKind \cup ResultKind
         /\ stage.cards \subseteq Card
         /\ stage.tries \in {Tries, Waits}
         /\ stage.tries \in Nat \ {0}
         /\ stage.kind \in StatusKind <=> stage \in {PingStage, PowerStage, HwStage}
         /\ stage.kind \in StatusKind => stage.count = Cardinality(Member)
<1> USE GroupTestAssumption DEF Stage, StatusKind, ResultKind
<1>1. CASE stage = PingStage BY <1>1, SMT DEF PingStage
<1>2. CASE stage = PowerStage BY <1>2, SMT DEF PowerStage
<1>3. CASE stage = HwStage BY <1>3, SMT DEF HwStage
<1>4. CASE stage = HealthStage
  BY <1>4, SMT DEF HealthStage, PingStage, PowerStage, HwStage
<1>5. CASE stage = AnyToAnyStage
  BY <1>5, SMT DEF AnyToAnyStage, PingStage, PowerStage, HwStage
<1>6. CASE stage = TrafficLcStage
  BY <1>6, SMT DEF TrafficLcStage, PingStage, PowerStage, HwStage
<1>7. CASE stage = TrafficFcStage
  BY <1>7, SMT DEF TrafficFcStage, PingStage, PowerStage, HwStage
<1> QED BY <1>1, <1>2, <1>3, <1>4, <1>5, <1>6, <1>7 DEF StageSet

(* What a list of stages begins with, and what is left after its first. *)
LEMMA LeftFacts ==
  ASSUME NEW t \in StatusLeft \cup ResultLeft
  PROVE  /\ t \in Seq(StageSet) /\ Head(t) \in StageSet
         /\ Head(t).kind \in StatusKind <=> t \in StatusLeft
         /\ Len(t) > 1 => t \in ResultLeft /\ Tail(t) \in ResultLeft
<1>1. CASE t \in StatusLeft
  <2>1. PICK stage \in {PingStage, PowerStage, HwStage} : t = <<stage>>
    BY <1>1 DEF StatusLeft
  <2>2. stage \in StageSet BY DEF StageSet
  <2>3. t \in Seq(StageSet) /\ Head(t) = stage /\ Len(t) = 1
    BY <2>1, <2>2, SMT
  <2> QED BY <1>1, <2>2, <2>3, StageFacts, Zenon, SMT
<1>2. CASE t \in ResultLeft
  <2> DEFINE Others == {HealthStage, AnyToAnyStage, TrafficLcStage, TrafficFcStage}
  <2>1. \A stage \in Others : stage \in StageSet /\ stage.kind \notin StatusKind
    BY SMT DEF StageSet, HealthStage, AnyToAnyStage, TrafficLcStage,
      TrafficFcStage, Stage, StatusKind
  <2>2. ASSUME NEW stage \in Others, t = <<stage>>
        PROVE  t \in Seq(StageSet) /\ Head(t) = stage /\ Len(t) = 1
    BY <2>1, <2>2, SMT
  <2>3. ASSUME NEW stage \in Others, NEW next \in Others, t = <<stage, next>>
        PROVE  t \in Seq(StageSet) /\ Head(t) = stage /\ Tail(t) = <<next>>
    BY <2>1, <2>3, SMT
  <2>4. t \in Seq(StageSet) /\ Head(t) \in Others /\ (Len(t) > 1 => Tail(t) \in ResultLeft)
    <3>1. CASE \E stage \in Others : t = <<stage>>
      BY <2>2, <3>1, SMT
    <3>2. CASE t = <<TrafficFcStage, TrafficLcStage>>
      BY <2>3, <3>2 DEF ResultLeft
    <3>3. CASE t = <<TrafficLcStage, TrafficFcStage>>
      BY <2>3, <3>3 DEF ResultLeft
    <3> QED BY <1>2, <3>1, <3>2, <3>3 DEF ResultLeft
  <2>5. t \notin StatusLeft
    <3>1. \A stage \in {PingStage, PowerStage, HwStage} : stage.kind \in StatusKind
      BY SMT DEF PingStage, PowerStage, HwStage, Stage, StatusKind
    <3>2. t \in StatusLeft => Head(t).kind \in StatusKind
      BY <3>1, SMT DEF StatusLeft
    <3> QED BY <2>1, <2>4, <3>2
  <2> HIDE DEF Others
  <2> QED BY <1>2, <2>1, <2>4, <2>5
<1> QED BY <1>1, <1>2

LEMMA StagesLeft ==
  ASSUME NEW kind \in StatusKind \cup ResultKind, NEW option \in 0..9
  PROVE  Stages(kind, option) \in StatusLeft \cup ResultLeft
<1>1. TrafficStages(option) \in ResultLeft
  <2>1. CASE option \in 1..3 BY <2>1, SMT DEF TrafficStages, ResultLeft
  <2>2. CASE option = 4 BY <2>2, SMT DEF TrafficStages, ResultLeft
  <2>3. CASE option \in 5..8 BY <2>3, SMT DEF TrafficStages, ResultLeft
  <2>4. CASE option \in {0, 9} BY <2>4, SMT DEF TrafficStages, ResultLeft
  <2> QED BY <2>1, <2>2, <2>3, <2>4, SMT
<1>2. CASE kind = "ping" BY <1>2, SMT DEF Stages, StatusLeft
<1>3. CASE kind = "power" BY <1>3, SMT DEF Stages, StatusLeft
<1>4. CASE kind = "hw" BY <1>4, SMT DEF Stages, StatusLeft
<1>5. CASE kind = "health" BY <1>5, SMT DEF Stages, ResultLeft
<1>6. CASE kind = "anytoany" BY <1>6, SMT DEF Stages, ResultLeft
<1>7. CASE kind = "traffic" BY <1>1, <1>7, SMT DEF Stages
<1> QED BY <1>2, <1>3, <1>4, <1>5, <1>6, <1>7 DEF StatusKind, ResultKind

-----------------------------------------------------------------------------
(* Queues. *)

LEMMA PutTyped ==
  ASSUME NEW S, NEW q \in Seq(S), NEW m \in S PROVE Put(q, m) \in Seq(S)
<1>1. Append(q, m) \in Seq(S) BY AppendProperties
<1> QED BY <1>1 DEF Put

LEMMA PutEntries ==
  ASSUME NEW S, NEW q \in Seq(S), NEW m \in S, NEW i \in 1..Len(Put(q, m))
  PROVE  \/ i \in 1..Len(q) /\ Put(q, m)[i] = q[i]
         \/ i = Len(q) + 1 /\ Put(q, m)[i] = m
<1>1. CASE Len(q) < QueueCap
  <2>1. Put(q, m) = Append(q, m) BY <1>1 DEF Put
  <2>2. /\ Len(Append(q, m)) = Len(q) + 1 /\ Len(q) \in Nat
        /\ \A j \in 1..Len(q) : Append(q, m)[j] = q[j]
        /\ Append(q, m)[Len(q) + 1] = m
    BY AppendProperties, LenProperties
  <2>3. i \in 1..Len(q) \/ i = Len(q) + 1
    BY <2>1, <2>2, SMT
  <2> QED BY <2>1, <2>2, <2>3
<1>2. CASE ~ (Len(q) < QueueCap)
  <2>1. Put(q, m) = q BY <1>2 DEF Put
  <2> QED BY <2>1
<1> QED BY <1>1, <1>2

LEMMA TailEntries ==
  ASSUME NEW S, NEW q \in Seq(S), q # << >>
  PROVE  /\ Tail(q) \in Seq(S) /\ Head(q) \in S /\ Head(q) = q[1] /\ 1 \in 1..Len(q)
         /\ \A i \in 1..Len(Tail(q)) : i + 1 \in 1..Len(q) /\ Tail(q)[i] = q[i + 1]
<1>1. /\ Tail(q) \in Seq(S) /\ Head(q) \in S
      /\ Len(Tail(q)) = Len(q) - 1 /\ \A i \in 1..Len(Tail(q)) : Tail(q)[i] = q[i + 1]
  BY HeadTailProperties
<1>2. Len(q) \in Nat /\ Len(q) # 0
  BY LenProperties, EmptySeq, SMT
<1> QED BY <1>1, <1>2, SMT

LEMMA PutFresh ==
  ASSUME NEW R, NEW q \in Seq(Request), NEW c, NEW n, NEW m \in Request,
         Begins(m) => m.id # n, Fresh(R, q, c, n)
  PROVE  Fresh(R, Put(q, m), c, n)
<1>1. \A i \in 1..Len(q) : Begins(q[i]) => q[i].id # n
  BY DEF Fresh
<1>2. ASSUME NEW i \in 1..Len(Put(q, m)), Begins(Put(q, m)[i])
      PROVE  Put(q, m)[i].id # n
  BY <1>1, <1>2, PutEntries
<1> QED BY <1>2 DEF Fresh

LEMMA PutSingle ==
  ASSUME NEW R, NEW q \in Seq(Request), NEW c, NEW m \in Request,
         Begins(m) => Fresh(R, q, c, m.id), Single(R, q, c)
  PROVE  Single(R, Put(q, m), c)
<1> DEFINE p == Put(q, m)
<1>1. SUFFICES ASSUME NEW i \in 1..Len(p), Begins(p[i])
               PROVE  /\ <<p[i].id, c>> \notin R
                      /\ \A j \in 1..Len(p) : j # i /\ Begins(p[j]) => p[j].id # p[i].id
  BY DEF Single
<1> HIDE DEF p
<1>2. \A j \in 1..Len(p) : \/ j \in 1..Len(q) /\ p[j] = q[j]
                           \/ j = Len(q) + 1 /\ p[j] = m
  BY PutEntries DEF p
<1>3. CASE i \in 1..Len(q) /\ p[i] = q[i]
  <2>1. <<p[i].id, c>> \notin R
    BY <1>1, <1>3 DEF Single
  <2>2. ASSUME NEW j \in 1..Len(p), j # i, Begins(p[j]) PROVE p[j].id # p[i].id
    <3>1. CASE j \in 1..Len(q) /\ p[j] = q[j]
      BY <1>1, <1>3, <2>2, <3>1 DEF Single
    <3>2. CASE p[j] = m
      BY <1>1, <1>3, <2>2, <3>2 DEF Fresh
    <3> QED BY <1>2, <3>1, <3>2
  <2> QED BY <2>1, <2>2
<1>4. CASE i = Len(q) + 1 /\ p[i] = m
  <2>1. Fresh(R, q, c, m.id) BY <1>1, <1>4
  <2>2. ASSUME NEW j \in 1..Len(p), j # i, Begins(p[j]) PROVE p[j].id # p[i].id
    <3>1. j \in 1..Len(q) /\ p[j] = q[j] BY <1>2, <1>4, <2>2
    <3> QED BY <1>4, <2>1, <2>2, <3>1 DEF Fresh
  <2> QED BY <1>4, <2>1, <2>2 DEF Fresh
<1> QED BY <1>2, <1>3, <1>4

(* The head of a queue is taken, and its command, if it has one, is begun. *)
LEMMA TailFresh ==
  ASSUME NEW R, NEW T, NEW q \in Seq(Request), q # << >>, NEW c, NEW n,
         T = R \/ (Begins(Head(q)) /\ T = R \cup {<<Head(q).id, c>>}),
         Fresh(R, q, c, n)
  PROVE  Fresh(T, Tail(q), c, n)
<1>1. /\ \A i \in 1..Len(Tail(q)) : i + 1 \in 1..Len(q) /\ Tail(q)[i] = q[i + 1]
      /\ Head(q) = q[1] /\ 1 \in 1..Len(q)
  BY TailEntries
<1>2. \A i \in 1..Len(Tail(q)) : Begins(Tail(q)[i]) => Tail(q)[i].id # n
  BY <1>1 DEF Fresh
<1>3. <<n, c>> \notin R BY DEF Fresh
<1>4. Begins(Head(q)) => Head(q).id # n
  BY <1>1 DEF Fresh
<1>5. <<n, c>> \notin T
  BY <1>3, <1>4, SMT
<1> QED BY <1>2, <1>5 DEF Fresh

LEMMA TailSingle ==
  ASSUME NEW R, NEW T, NEW q \in Seq(Request), q # << >>, NEW c,
         T = R \/ (Begins(Head(q)) /\ T = R \cup {<<Head(q).id, c>>}),
         Single(R, q, c)
  PROVE  Single(T, Tail(q), c)
<1> DEFINE t == Tail(q)
<1>1. /\ \A i \in 1..Len(t) : i + 1 \in 1..Len(q) /\ t[i] = q[i + 1]
      /\ Head(q) = q[1] /\ 1 \in 1..Len(q)
  BY TailEntries
<1> HIDE DEF t
<1>2. ASSUME NEW i \in 1..Len(t), Begins(t[i])
      PROVE  <<t[i].id, c>> \notin T
  <2>1. <<t[i].id, c>> \notin R
    BY <1>1, <1>2 DEF Single
  <2>2. i + 1 # 1 BY SMT
  <2>3. Begins(Head(q)) => Head(q).id # t[i].id
    BY <1>1, <1>2, <2>2 DEF Single
  <2> QED BY <2>1, <2>3, SMT
<1>3. ASSUME NEW i \in 1..Len(t), Begins(t[i]),
             NEW j \in 1..Len(t), j # i, Begins(t[j])
      PROVE  t[j].id # t[i].id
  <2>1. i + 1 # j + 1 BY <1>3, SMT
  <2> QED BY <1>1, <1>3, <2>1 DEF Single
<1> QED BY <1>2, <1>3 DEF Single, t

-----------------------------------------------------------------------------
(* Children. *)

LEMMA ChildFacts ==
  ASSUME NEW s \in Child
  PROVE  /\ s \in Running /\ Counting(s) /\ s # Idle
         /\ s.todo \in Seq(StageSet) /\ s.todo \in StatusLeft \cup ResultLeft
         /\ Head(s.todo) \in StageSet
         /\ Head(s.todo).kind \in StatusKind <=> s.todo \in StatusLeft
<1>1. s \in Running /\ Counting(s) BY DEF Child
<1>2. s.phase # "idle" BY <1>1, SMT DEF Running
<1>3. s # Idle BY <1>2, SMT DEF Idle
<1>4. s.todo \in StatusLeft \cup ResultLeft BY <1>1 DEF Counting
<1> QED BY <1>1, <1>3, <1>4, LeftFacts

LEMMA ChildRuns ==
  ASSUME GroupInv, NEW h \in Host, child[h].phase # "idle"
  PROVE  /\ child[h] \in Child /\ Now(h) \in StageSet
         /\ OfStatus(h) <=> child[h].todo \in StatusLeft
<1>1. child[h] \in {Idle} \cup Child BY DEF GroupInv
<1>2. Idle.phase = "idle" BY DEF Idle
<1>3. child[h] \in Child BY <1>1, <1>2
<1> QED BY <1>3, ChildFacts DEF Now, OfStatus

(* One more member has answered a status test. *)
LEMMA OneMoreAnswered ==
  ASSUME NEW s \in Child, s.todo \in StatusLeft, NEW c \in Member, NEW t,
         t.result = [s.result EXCEPT ![c] = 1]
  PROVE  /\ Answered(t) \subseteq Member
         /\ Cardinality(Answered(t)) = IF s.result[c] = 1 THEN s.count ELSE s.count + 1
<1>1. c \in Card /\ IsFiniteSet(Card) BY GroupTestAssumption
<1>2. s.result \in [Card -> NotReady..Success] BY ChildFacts DEF Running
<1>3. Answered(t) = Answered(s) \cup {c} BY <1>1, <1>2, SMT DEF Answered
<1>4. Answered(s) \subseteq Member /\ s.count = Cardinality(Answered(s))
  BY ChildFacts DEF Counting
<1>5. IsFiniteSet(Answered(s)) BY <1>1, FS_Subset DEF Answered
<1>6. c \in Answered(s) <=> s.result[c] = 1 BY <1>1 DEF Answered
<1> QED BY <1>3, <1>4, <1>5, <1>6, FS_AddElement

LEMMA WithStatusChild ==
  ASSUME NEW s \in Child, NEW r \in Given
  PROVE  /\ WithStatus(s, r) \in Child
         /\ WithStatus(s, r).id = s.id /\ WithStatus(s, r).todo = s.todo
<1>1. CASE ~ (r.value = 0 /\ s.result[r.card] # 1) BY <1>1 DEF WithStatus
<1>2. CASE r.value = 0 /\ s.result[r.card] # 1
  <2> DEFINE t == [s EXCEPT !.result[r.card] = 1, !.count = @ + 1]
  <2>1. WithStatus(s, r) = t BY <1>2 DEF WithStatus
  <2>2. r.card \in Member /\ r.card \in Card BY GroupTestAssumption DEF Given
  <2>3. s \in Running /\ Counting(s) BY ChildFacts
  <2>4. /\ t \in Running /\ t.id = s.id /\ t.todo = s.todo /\ t.phase = s.phase /\ t.try = s.try
        /\ t.first = s.first
        /\ t.result = [s.result EXCEPT ![r.card] = 1] /\ t.count = s.count + 1
    <3>1. [s.result EXCEPT ![r.card] = 1] \in [Card -> NotReady..Success]
      BY <2>2, <2>3, SMT DEF Running, NotReady, Success
    <3>2. s.count + 1 \in Nat BY <2>3, SMT DEF Running
    <3>3. t \in Running BY <2>3, <3>1, <3>2, Zenon DEF Running
    <3> QED BY <2>3, <3>3, SMT DEF Running
  <2> HIDE DEF t
  <2>5. s.todo \in StatusLeft => /\ Answered(t) \subseteq Member
                                 /\ t.count = Cardinality(Answered(t))
    BY <1>2, <2>2, <2>4, OneMoreAnswered
  <2>6. Counting(t) BY <2>3, <2>4, <2>5 DEF Counting
  <2> QED BY <2>1, <2>4, <2>6 DEF Child
<1> QED BY <1>1, <1>2

LEMMA WithResultChild ==
  ASSUME NEW s \in Child, NEW r \in Given, s.todo \notin StatusLeft
  PROVE  /\ WithResult(s, r) \in Child
         /\ WithResult(s, r).id = s.id /\ WithResult(s, r).todo = s.todo
         /\ WithResult(s, r).result = [s.result EXCEPT ![r.card] = r.value]
<1>1. s.result \in [Card -> NotReady..Success] /\ r.card \in Card /\ s \in Running
  BY ChildFacts, GroupTestAssumption DEF Running, Given
<1>2. CASE s.result[r.card] = r.value
  BY <1>1, <1>2, SMT DEF WithResult
<1>3. CASE s.result[r.card] # r.value
  <2> DEFINE t == [s EXCEPT !.result[r.card] = r.value,
                            !.count = IF r.value \in {Failed, Success} THEN @ + 1 ELSE @,
                            !.failed = @ \/ (s.phase = "late" /\ r.value = Failed)]
  <2>1. WithResult(s, r) = t BY <1>3 DEF WithResult
  <2>2. r.value \in NotReady..Success BY SMT DEF Given, Reply, NotReady
  <2>3. /\ t.id = s.id /\ t.todo = s.todo /\ t.phase = s.phase /\ t.try = s.try
        /\ t.first = s.first
        /\ t.result = [s.result EXCEPT ![r.card] = r.value]
    BY <1>1, SMT DEF Running
  <2>4. t \in Running
    <3>1. (s.failed \/ (s.phase = "late" /\ r.value = Failed)) \in BOOLEAN OBVIOUS
    <3>2. (IF r.value \in {Failed, Success} THEN s.count + 1 ELSE s.count) \in Nat
      BY <1>1, SMT DEF Running
    <3>3. [s.result EXCEPT ![r.card] = r.value] \in [Card -> NotReady..Success]
      BY <1>1, <2>2
    <3> QED BY <1>1, <3>1, <3>2, <3>3, Zenon DEF Running
  <2> HIDE DEF t
  <2>5. Counting(t) BY <2>3, ChildFacts DEF Counting
  <2> QED BY <2>1, <2>3, <2>4, <2>5 DEF Child
<1> QED BY <1>2, <1>3

-----------------------------------------------------------------------------
(* What GroupInv says of the sockets, step by step. *)

Sockets ==
  /\ inbox \in [Card -> Seq(Request)]
  /\ \A c \in Card : inbox[c] \in Seq(Delivered(c))

LEMMA PostTyped ==
  ASSUME Sockets, NEW targets \in SUBSET Member, NEW m \in Request, Post(targets, m)
  PROVE  Sockets'
<1>1. PICK S \in SUBSET targets :
        inbox' = [c \in Card |-> IF c \in S THEN Put(inbox[c], m) ELSE inbox[c]]
  BY DEF Post
<1>2. ASSUME NEW c \in Card PROVE inbox'[c] \in Seq(Request) /\ inbox'[c] \in Seq(Delivered(c))
  <2>1. inbox[c] \in Seq(Request) /\ inbox[c] \in Seq(Delivered(c)) BY DEF Sockets
  <2>2. c \in S => m \in Delivered(c) BY DEF Delivered
  <2> QED BY <1>1, <2>1, <2>2, PutTyped
<1>3. inbox' \in [Card -> Seq(Request)] BY <1>1, <1>2
<1> QED BY <1>2, <1>3 DEF Sockets

LEMMA ServedTyped ==
  ASSUME Sockets, NEW c \in Card, Serving(c), Served(c)
  PROVE  Sockets' /\ Head(inbox[c]) \in Delivered(c)
<1>1. inbox \in [Card -> Seq(Request)] /\ inbox' = [inbox EXCEPT ![c] = Tail(@)]
  BY DEF Sockets, Served
<1>2. inbox[c] # << >> /\ inbox[c] \in Seq(Delivered(c)) /\ inbox[c] \in Seq(Request)
  BY DEF Serving, Sockets
<1>3. /\ Tail(inbox[c]) \in Seq(Delivered(c)) /\ Tail(inbox[c]) \in Seq(Request)
      /\ Head(inbox[c]) \in Delivered(c)
  BY <1>2, TailEntries
<1> QED BY <1>1, <1>3 DEF Sockets

LEMMA AnswerTyped ==
  ASSUME replies \in [Host -> Seq(Given)],
         NEW c \in Card, NEW m \in Delivered(c), NEW value \in NotReady..Success,
         m.kind \in ResultKind => value # NotReady, Answer(m, c, value)
  PROVE  replies' \in [Host -> Seq(Given)]
<1> DEFINE r == [card |-> c, kind |-> m.kind, value |-> value]
<1>1. CASE replies' = replies BY <1>1
<1>2. CASE /\ ~ m.byHand
           /\ replies' = [replies EXCEPT ![m.from] = Put(@, r)]
  <2>1. c \in Member /\ m.kind \in StatusKind \cup ResultKind
    BY <1>2, SMT DEF Delivered, Request
  <2>2. r \in Reply BY <2>1, SMT DEF Reply, NotReady
  <2>3. r \in Given BY <2>1, <2>2 DEF Given
  <2> HIDE DEF r
  <2>4. m.from \in Host => Put(replies[m.from], r) \in Seq(Given)
    BY <2>3, PutTyped
  <2> QED BY <1>2, <2>4
<1> QED BY <1>1, <1>2 DEF Answer

LEMMA AskTyped ==
  ASSUME GroupInv, NEW h \in Host, child[h].phase # "idle", NEW ask \in {"command", "result"}
  PROVE  /\ Ask(h, ask) \in Request /\ Ask(h, ask).id = child[h].id
         /\ Begins(Ask(h, ask)) => ~ OfStatus(h)
<1>1. child[h] \in Running /\ Now(h).kind \in StatusKind \cup ResultKind
  BY ChildRuns, ChildFacts, StageFacts
<1>2. child[h].id \in 1..MaxRequests BY <1>1, SMT DEF Running
<1>3. h \in Card BY GroupTestAssumption
<1>4. Ask(h, ask) \in Request BY <1>1, <1>2, <1>3, SMT DEF Ask, Request
<1>5. Begins(Ask(h, ask)) => Now(h).kind \in ResultKind BY DEF Begins, Ask
<1>6. Now(h).kind \in ResultKind => Now(h).kind \notin StatusKind
  BY SMT DEF StatusKind, ResultKind
<1> QED BY <1>4, <1>5, <1>6 DEF Ask, OfStatus
-----------------------------------------------------------------------------
(* GroupInv, one lemma for each action. *)

GroupCards ==
  /\ Sockets
  /\ replies \in [Host -> Seq(Given)]
  /\ busy \in [Card -> {Free} \cup Request]
  /\ \A c \in Card : busy[c] # Free => busy[c] \in Delivered(c)
  /\ last \in [Card -> {Failed, Success}]
  /\ ready \in [Card -> SUBSET Card]

GroupCounts ==
  /\ requests \in 0..MaxRequests /\ restarts \in 0..MaxRestarts
  /\ alone \in [Host -> BOOLEAN]
  /\ ran \subseteq (1..MaxRequests) \X Card

GroupChildren == child \in [Host -> {Idle} \cup Child]

LEMMA GroupParts == GroupInv <=> GroupCards /\ GroupCounts /\ GroupChildren
BY DEF GroupInv, GroupCards, GroupCounts, GroupChildren, Sockets

LEMMA AcceptKeeps ==
  ASSUME GroupInv, NEW h \in Host, Accept(h) PROVE GroupInv'
<1> DEFINE Begun(kind, option) ==
             [phase |-> "send", id |-> requests + 1,
              strict |-> kind = "traffic" /\ Strict(option),
              todo |-> Stages(kind, option), first |-> TRUE, skip |-> ready[h],
              result |-> [c \in Card |-> NotReady], count |-> 0, failed |-> FALSE,
              try |-> 0, open |-> FALSE]
<1>1. \E kind \in Kinds : \E option \in (IF kind = "traffic" THEN Options ELSE {0}) :
        child' = [child EXCEPT ![h] = Begun(kind, option)]
  BY Zenon DEF Accept
<1>a. PICK kind \in Kinds : \E option \in (IF kind = "traffic" THEN Options ELSE {0}) :
        child' = [child EXCEPT ![h] = Begun(kind, option)]
  BY <1>1, Zenon
<1>b. PICK option \in (IF kind = "traffic" THEN Options ELSE {0}) :
        child' = [child EXCEPT ![h] = Begun(kind, option)]
  BY <1>a, Zenon
<1> DEFINE t == Stages(kind, option)
           strict == kind = "traffic" /\ Strict(option)
           result == [c \in Card |-> NotReady]
           s == [phase |-> "send", id |-> requests + 1, strict |-> strict,
                 todo |-> t, first |-> TRUE, skip |-> ready[h],
                 result |-> result, count |-> 0, failed |-> FALSE,
                 try |-> 0, open |-> FALSE]
<1>2. /\ h \in Card /\ kind \in StatusKind \cup ResultKind /\ option \in 0..9
      /\ Tries \in Nat /\ Waits \in Nat
  <2>1. h \in Card /\ kind \in StatusKind \cup ResultKind BY GroupTestAssumption
  <2>2. option \in Options \/ option = 0 OBVIOUS
  <2>3. Options \subseteq 0..9 BY GroupTestAssumption
  <2>4. 0 \in 0..9 BY SMT
  <2>5. option \in 0..9 BY <2>2, <2>3, <2>4
  <2> QED BY <2>1, <2>5, GroupTestAssumption
<1>3. requests + 1 \in 1..MaxRequests /\ requests + 1 \in 0..MaxRequests
  <2>1. requests < MaxRequests /\ requests \in 0..MaxRequests /\ MaxRequests \in Nat
    BY GroupTestAssumption DEF Accept, GroupInv
  <2> QED BY <2>1, SMT
<1>4. t \in StatusLeft \cup ResultLeft /\ t \in Seq(StageSet)
  BY <1>2, StagesLeft, LeftFacts
<1>5. Head(t).tries \in Nat \ {0} BY <1>4, LeftFacts, StageFacts
<1>6. ready[h] \in SUBSET Card BY <1>2 DEF GroupInv
<1>7. result \in [Card -> NotReady..Success] BY SMT DEF NotReady, Success
<1>8. strict \in BOOLEAN OBVIOUS
<1>9. Answered(s) = {} BY SMT DEF Answered, NotReady
<1> HIDE DEF t, strict, result
<1>10. s \in Running
  <2>1. 0 \in 0..(IF Tries > Waits THEN Tries ELSE Waits) /\ 0 \in Nat
    BY <1>2, SMT
  <2> QED BY <1>3, <1>4, <1>6, <1>7, <1>8, <2>1, Zenon DEF Running, StageSet
<1>11. Counting(s)
  <2>1. s.todo = t /\ s.try = 0 /\ s.count = 0 /\ s.first OBVIOUS
  <2>2. 0 < Head(t).tries BY <1>5, SMT
  <2> HIDE DEF s
  <2> QED BY <1>4, <1>9, <2>1, <2>2, FS_EmptySet DEF Counting
<1> HIDE DEF s
<1>12. s \in Child BY <1>10, <1>11 DEF Child
<1>13. child' = [child EXCEPT ![h] = s] BY <1>b, Zenon DEF s, t, strict, result
<1>14. GroupChildren' BY <1>12, <1>13 DEF GroupInv, GroupChildren
<1>15. alone' \in [Host -> BOOLEAN] BY DEF Accept
<1>16. GroupCounts' BY <1>3, <1>15 DEF GroupInv, GroupCounts, Accept
<1>17. GroupCards' BY GroupParts DEF GroupCards, Sockets, card, Accept
<1> QED BY <1>14, <1>16, <1>17
  DEF GroupInv, GroupCards, GroupCounts, GroupChildren, Sockets

(* What a child does to its own record. *)
LEMMA ChildBecomes ==
  ASSUME GroupInv, NEW h \in Host, NEW s \in {Idle} \cup Child,
         child' = [child EXCEPT ![h] = s]
  PROVE  GroupChildren'
BY DEF GroupInv, GroupChildren

LEMMA SendStatusKeeps ==
  ASSUME GroupInv, NEW h \in Host, SendStatus(h) PROVE GroupInv'
<1> DEFINE s == child[h]
           targets == {c \in Card \ {h} : s.result[c] # 1 /\ Sendable(h, c)}
           result == [s.result EXCEPT ![h] = 1]
           count == IF s.result[h] # 1 THEN s.count + 1 ELSE s.count
           open == s.open \/ targets # {}
           t == [s EXCEPT !.phase = "collect", !.result = result, !.count = count,
                          !.open = open]
<1>1. s.phase # "idle" /\ s.phase = "send" BY SMT DEF SendStatus, In
<1>2. s \in Child /\ s \in Running /\ Counting(s) /\ s.todo \in StatusLeft
  BY <1>1, ChildRuns, ChildFacts DEF SendStatus
<1>3. h \in Card /\ h \in Member BY GroupTestAssumption
<1>4. result \in [Card -> NotReady..Success]
  BY <1>2, <1>3, SMT DEF Running, NotReady, Success
<1>5. count \in Nat /\ open \in BOOLEAN BY <1>2, SMT DEF Running
<1>6. child' = [child EXCEPT ![h] = t] BY DEF SendStatus
<1>7. Post(targets, Ask(h, "command")) BY DEF SendStatus
<1>8. targets \in SUBSET Member BY DEF Sendable
<1> HIDE DEF result, count, open, targets
<1>9. t \in Running BY <1>2, <1>4, <1>5, Zenon DEF Running
<1>10. /\ t.todo = s.todo /\ t.try = s.try /\ t.result = result /\ t.count = count
       /\ t.first = s.first
  BY <1>2, SMT DEF Running
<1> HIDE DEF t
<1>11. Counting(t)
  <2>1. s.try < Head(s.todo).tries BY <1>1, <1>2 DEF Counting
  <2>2. Answered(t) \subseteq Member /\ count = Cardinality(Answered(t))
    BY <1>2, <1>3, <1>10, OneMoreAnswered DEF result, count
  <2> QED BY <1>2, <1>10, <2>1, <2>2 DEF Counting
<1>12. t \in Child BY <1>9, <1>11 DEF Child
<1>13. GroupChildren' BY <1>6, <1>12, ChildBecomes
<1>14. Sockets' BY <1>1, <1>7, <1>8, AskTyped, PostTyped, GroupParts DEF GroupCards
<1>15. GroupCards' BY <1>14, GroupParts DEF GroupCards, SendStatus
<1>16. GroupCounts' BY GroupParts DEF GroupCounts, SendStatus
<1> QED BY <1>13, <1>15, <1>16
  DEF GroupInv, GroupCards, GroupCounts, GroupChildren, Sockets

LEMMA SendCommandKeeps ==
  ASSUME GroupInv, NEW h \in Host, SendCommand(h) PROVE GroupInv'
<1> DEFINE s == child[h]
           targets == {c \in Now(h).cards \cap Member : s.result[c] = NotReady}
           result == Marked(s.result, Now(h).cards)
           open == s.open \/ targets # {}
           t == [s EXCEPT !.phase = "collect", !.result = result, !.open = open]
<1>1. s.phase # "idle" /\ s.phase = "send" BY SMT DEF SendCommand, In
<1>2. s \in Child /\ s \in Running /\ Counting(s) /\ s.todo \notin StatusLeft
  BY <1>1, ChildRuns, ChildFacts DEF SendCommand
<1>3. result \in [Card -> NotReady..Success]
  BY <1>2, SMT DEF Running, NotReady, Ready, Success, Marked
<1>4. open \in BOOLEAN BY <1>2, SMT DEF Running
<1>5. child' = [child EXCEPT ![h] = t] BY DEF SendCommand
<1>6. Post(targets, Ask(h, "command")) BY DEF SendCommand
<1>7. targets \in SUBSET Member OBVIOUS
<1> HIDE DEF result, open, targets
<1>8. t \in Running BY <1>2, <1>3, <1>4, Zenon DEF Running
<1>9. t.todo = s.todo /\ t.try = s.try /\ t.first = s.first BY <1>2, SMT DEF Running
<1> HIDE DEF t
<1>10. Counting(t) BY <1>1, <1>2, <1>9 DEF Counting
<1>11. t \in Child BY <1>8, <1>10 DEF Child
<1>12. GroupChildren' BY <1>5, <1>11, ChildBecomes
<1>13. Sockets' BY <1>1, <1>6, <1>7, AskTyped, PostTyped, GroupParts DEF GroupCards
<1>14. GroupCards' BY <1>13, GroupParts DEF GroupCards, SendCommand
<1>15. GroupCounts' BY GroupParts DEF GroupCounts, SendCommand
<1> QED BY <1>12, <1>14, <1>15
  DEF GroupInv, GroupCards, GroupCounts, GroupChildren, Sockets
LEMMA CollectKeeps ==
  ASSUME GroupInv, NEW h \in Host, Collect(h) PROVE GroupInv'
<1> DEFINE s == child[h]
           r == Head(replies[h])
           t == CASE r.kind # Now(h).kind -> s
                  [] r.kind = Now(h).kind /\ OfStatus(h) -> WithStatus(s, r)
                  [] OTHER -> WithResult(s, r)
<1>1. s.phase # "idle" BY SMT DEF Collect, In
<1>2. s \in Child /\ (OfStatus(h) <=> s.todo \in StatusLeft) BY <1>1, ChildRuns
<1>3. replies[h] \in Seq(Given) /\ replies[h] # << >> BY DEF GroupInv, Collect
<1>4. r \in Given /\ Tail(replies[h]) \in Seq(Given) BY <1>3, TailEntries
<1>5. child' = [child EXCEPT ![h] = t] BY Zenon DEF Collect
<1>6. t \in Child
  <2>1. CASE r.kind # Now(h).kind BY <1>2, <2>1
  <2>2. CASE r.kind = Now(h).kind /\ OfStatus(h)
    BY <1>2, <1>4, <2>2, WithStatusChild
  <2>3. CASE r.kind = Now(h).kind /\ ~ OfStatus(h)
    BY <1>2, <1>4, <2>3, WithResultChild
  <2> QED BY <2>1, <2>2, <2>3
<1> HIDE DEF t
<1>7. GroupChildren' BY <1>5, <1>6, ChildBecomes
<1>8. replies' = [replies EXCEPT ![h] = Tail(@)] BY DEF Collect
<1>9. replies' \in [Host -> Seq(Given)] BY <1>4, <1>8 DEF GroupInv
<1>10. GroupCards' BY <1>9, GroupParts DEF GroupCards, Sockets, card, Collect
<1>11. GroupCounts' BY GroupParts DEF GroupCounts, Collect
<1> QED BY <1>7, <1>10, <1>11
  DEF GroupInv, GroupCards, GroupCounts, GroupChildren, Sockets

LEMMA SilenceKeeps ==
  ASSUME GroupInv, NEW h \in Host, Silence(h) PROVE GroupInv'
<1> DEFINE s == child[h]
           missing == s.count < Now(h).count
           phase == IF missing /\ NextTry(s) < Now(h).tries THEN "send"
                    ELSE IF missing /\ ~ OfStatus(h) THEN "fetch"
                    ELSE "verdict"
           t == [s EXCEPT !.try = NextTry(s), !.phase = phase]
<1>1. s.phase # "idle" /\ s.phase = "collect" BY SMT DEF Silence, In
<1>2. s \in Child /\ s \in Running /\ Counting(s) BY <1>1, ChildRuns, ChildFacts
<1>3. Now(h).tries \in {Tries, Waits} /\ Tries \in Nat /\ Waits \in Nat /\ s.try \in Nat
  BY <1>1, <1>2, ChildRuns, StageFacts, GroupTestAssumption, SMT DEF Running
<1>4. s.try < Now(h).tries BY <1>1, <1>2 DEF Counting, Now
<1>5. NextTry(s) \in 0..(IF Tries > Waits THEN Tries ELSE Waits)
  BY <1>3, <1>4, SMT DEF NextTry
<1>6. phase \in {"send", "collect", "fetch", "late", "verdict"} OBVIOUS
<1>7. phase \in {"send", "collect"} => NextTry(s) < Now(h).tries OBVIOUS
<1>8. child' = [child EXCEPT ![h] = t] BY Zenon DEF Silence
<1> HIDE DEF phase
<1>9. t \in Running BY <1>2, <1>5, <1>6, Zenon DEF Running
<1>10. /\ t.todo = s.todo /\ t.try = NextTry(s) /\ t.phase = phase
       /\ t.result = s.result /\ t.count = s.count /\ t.first = s.first
  BY <1>2, SMT DEF Running
<1> HIDE DEF t
<1>11. Answered(t) = Answered(s) BY <1>10 DEF Answered
<1>12. Counting(t) BY <1>2, <1>7, <1>10, <1>11 DEF Counting, Now
<1>13. t \in Child BY <1>9, <1>12 DEF Child
<1>14. GroupChildren' BY <1>8, <1>13, ChildBecomes
<1>15. GroupCards' BY GroupParts DEF GroupCards, Sockets, card, Silence
<1>16. GroupCounts' BY GroupParts DEF GroupCounts, Silence
<1> QED BY <1>14, <1>15, <1>16
  DEF GroupInv, GroupCards, GroupCounts, GroupChildren, Sockets

(* Only the phase of a child changes, to one in which it waits no more. *)
LEMMA PhaseChild ==
  ASSUME NEW s \in Child, NEW phase \in {"late", "verdict"}
  PROVE  /\ [s EXCEPT !.phase = phase] \in Child
         /\ [s EXCEPT !.phase = phase].id = s.id
         /\ [s EXCEPT !.phase = phase].todo = s.todo
         /\ [s EXCEPT !.phase = phase].result = s.result
         /\ [s EXCEPT !.phase = phase].count = s.count
         /\ [s EXCEPT !.phase = phase].first = s.first
         /\ [s EXCEPT !.phase = phase].strict = s.strict
<1> DEFINE t == [s EXCEPT !.phase = phase]
<1>1. s \in Running /\ Counting(s) BY ChildFacts
<1>2. phase \in {"send", "collect", "fetch", "late", "verdict"} OBVIOUS
<1>3. t \in Running BY <1>1, <1>2, Zenon DEF Running
<1>4. /\ t.id = s.id /\ t.todo = s.todo /\ t.result = s.result /\ t.count = s.count
      /\ t.phase = phase /\ t.first = s.first /\ t.strict = s.strict
  BY <1>1, SMT DEF Running
<1> HIDE DEF t
<1>5. Answered(t) = Answered(s) BY <1>4 DEF Answered
<1>6. Counting(t) BY <1>1, <1>4, <1>5, SMT DEF Counting
<1>7. t \in Child BY <1>3, <1>6 DEF Child
<1> QED BY <1>4, <1>7 DEF t

LEMMA FetchKeeps ==
  ASSUME GroupInv, NEW h \in Host, Fetch(h) PROVE GroupInv'
<1> DEFINE t == [child[h] EXCEPT !.phase = "late"]
           targets == {c \in Now(h).cards \cap Member : child[h].result[c] = Ack}
<1>1. child[h].phase # "idle" BY SMT DEF Fetch, In
<1>2. t \in Child BY <1>1, ChildRuns, PhaseChild
<1>3. child' = [child EXCEPT ![h] = t] BY DEF Fetch
<1>4. Post(targets, Ask(h, "result")) /\ targets \in SUBSET Member BY DEF Fetch
<1> HIDE DEF t, targets
<1>5. GroupChildren' BY <1>2, <1>3, ChildBecomes
<1>6. Sockets' BY <1>1, <1>4, AskTyped, PostTyped, GroupParts DEF GroupCards
<1>7. GroupCards' BY <1>6, GroupParts DEF GroupCards, Fetch
<1>8. GroupCounts' BY GroupParts DEF GroupCounts, Fetch
<1> QED BY <1>5, <1>7, <1>8
  DEF GroupInv, GroupCards, GroupCounts, GroupChildren, Sockets

LEMMA LateSilenceKeeps ==
  ASSUME GroupInv, NEW h \in Host, LateSilence(h) PROVE GroupInv'
<1> DEFINE t == [child[h] EXCEPT !.phase = "verdict"]
<1>1. child[h].phase # "idle" BY SMT DEF LateSilence, In
<1>2. t \in Child BY <1>1, ChildRuns, PhaseChild
<1>3. child' = [child EXCEPT ![h] = t] BY DEF LateSilence
<1> HIDE DEF t
<1>4. GroupChildren' BY <1>2, <1>3, ChildBecomes
<1>5. GroupCards' BY GroupParts DEF GroupCards, Sockets, card, LateSilence
<1>6. GroupCounts' BY GroupParts DEF GroupCounts, LateSilence
<1> QED BY <1>4, <1>5, <1>6
  DEF GroupInv, GroupCards, GroupCounts, GroupChildren, Sockets

(* A child that goes on to its next stage. *)
LEMMA NextStageChild ==
  ASSUME NEW s \in Child, GoesOn(s, Head(s.todo)),
         NEW t, t = [s EXCEPT !.phase = "send", !.todo = Tail(@), !.first = FALSE,
                              !.count = 0, !.failed = FALSE, !.try = 0, !.open = FALSE]
  PROVE  /\ t \in Child /\ t.id = s.id /\ t.result = s.result
         /\ s.todo \notin StatusLeft /\ t.todo \notin StatusLeft
<1>1. s \in Running /\ Len(s.todo) > 1 BY ChildFacts DEF GoesOn
<1>2. s.todo \in ResultLeft /\ Tail(s.todo) \in ResultLeft
  BY <1>1, ChildFacts, LeftFacts
<1>3. ASSUME NEW u \in ResultLeft PROVE u \notin StatusLeft
  BY SMT DEF ResultLeft, StatusLeft, PingStage, PowerStage, HwStage, HealthStage,
    AnyToAnyStage, TrafficLcStage, TrafficFcStage, Stage
<1>4. /\ Tail(s.todo) \in Seq(StageSet) /\ Head(Tail(s.todo)).tries \in Nat \ {0}
  BY <1>2, LeftFacts, StageFacts
<1>5. 0 \in 0..(IF Tries > Waits THEN Tries ELSE Waits) /\ 0 \in Nat
  BY GroupTestAssumption, SMT
<1>6. t \in Running BY <1>1, <1>4, <1>5, Zenon DEF Running, StageSet
<1>7. t.id = s.id /\ t.result = s.result /\ t.todo = Tail(s.todo) /\ t.try = 0
  BY <1>1, SMT DEF Running
<1>8. 0 < Head(t.todo).tries
  <2>1. Head(t.todo).tries \in Nat \ {0} BY <1>4, <1>7
  <2>2. \A n \in Nat \ {0} : 0 < n BY SMT
  <2> QED BY <2>1, <2>2, Zenon
<1>9. Counting(t) BY <1>2, <1>3, <1>7, <1>8 DEF Counting
<1> QED BY <1>2, <1>3, <1>6, <1>7, <1>9 DEF Child

LEMMA VerdictKeeps ==
  ASSUME GroupInv, NEW h \in Host, Verdict(h) PROVE GroupInv'
<1>1. child[h].phase # "idle" BY SMT DEF Verdict, In
<1>2. child[h] \in Child BY <1>1, ChildRuns
<1>3. GroupChildren' /\ alone' \in [Host -> BOOLEAN]
  <2>1. CASE GoesOn(child[h], Now(h))
    <3> DEFINE t == [child[h] EXCEPT !.phase = "send", !.todo = Tail(@), !.first = FALSE,
                              !.count = 0, !.failed = FALSE, !.try = 0, !.open = FALSE]
    <3>1. t \in Child BY <1>2, <2>1, NextStageChild DEF Now
    <3>2. child' = [child EXCEPT ![h] = t] BY <2>1 DEF Verdict
    <3>3. alone' = [alone EXCEPT ![h] = @ /\ Quiet(h)] BY <2>1 DEF Verdict
    <3> HIDE DEF t
    <3>4. (alone[h] /\ Quiet(h)) \in BOOLEAN OBVIOUS
    <3>5. alone' \in [Host -> BOOLEAN] BY <3>3, <3>4, Zenon DEF GroupInv
    <3> QED BY <3>1, <3>2, <3>5, ChildBecomes
  <2>2. CASE ~ GoesOn(child[h], Now(h))
    <3>1. child' = [child EXCEPT ![h] = Idle] /\ alone' = alone BY <2>2 DEF Verdict
    <3> QED BY <3>1, ChildBecomes DEF GroupInv
  <2> QED BY <2>1, <2>2
<1>4. GroupCards' BY GroupParts DEF GroupCards, Sockets, card, Verdict
<1>5. GroupCounts' BY <1>3, GroupParts DEF GroupCounts, Verdict
<1> QED BY <1>3, <1>4, <1>5
  DEF GroupInv, GroupCards, GroupCounts, GroupChildren, Sockets
LEMMA ByHandKeeps ==
  ASSUME GroupInv, NEW d \in Card, NEW c \in Card, ByHand(d, c) PROVE GroupInv'
<1>1. PICK kind \in Kinds :
        inbox' = [inbox EXCEPT ![c] =
          Put(@, [from |-> d, byHand |-> TRUE, kind |-> kind, ask |-> "command",
                  id |-> requests + 1])]
  BY DEF ByHand
<1> DEFINE m == [from |-> d, byHand |-> TRUE, kind |-> kind, ask |-> "command",
                 id |-> requests + 1]
<1>2. requests + 1 \in 1..MaxRequests /\ requests + 1 \in 0..MaxRequests
  <2>1. requests < MaxRequests /\ requests \in 0..MaxRequests /\ MaxRequests \in Nat
    BY GroupTestAssumption DEF ByHand, GroupInv
  <2> QED BY <2>1, SMT
<1>3. kind \in StatusKind \cup ResultKind BY GroupTestAssumption
<1>4. m \in Request /\ m.byHand BY <1>2, <1>3, SMT DEF Request
<1>5. inbox' = [inbox EXCEPT ![c] = Put(@, m)] BY <1>1
<1> HIDE DEF m
<1>6. m \in Delivered(c) BY <1>4 DEF Delivered
<1>7. inbox[c] \in Seq(Request) /\ inbox[c] \in Seq(Delivered(c)) BY DEF GroupInv
<1>8. Put(inbox[c], m) \in Seq(Request) /\ Put(inbox[c], m) \in Seq(Delivered(c))
  BY <1>4, <1>6, <1>7, PutTyped
<1>9. Sockets' BY <1>5, <1>8 DEF GroupInv, Sockets
<1>10. GroupCards' BY <1>9, GroupParts DEF GroupCards, ByHand
<1>11. alone' \in [Host -> BOOLEAN] BY DEF ByHand
<1>12. GroupCounts' BY <1>2, <1>11, GroupParts DEF GroupCounts, ByHand
<1>13. GroupChildren' BY DEF GroupInv, GroupChildren, ByHand
<1> QED BY <1>10, <1>12, <1>13
  DEF GroupInv, GroupCards, GroupCounts, GroupChildren, Sockets

LEMMA ServeStatusKeeps ==
  ASSUME GroupInv, NEW c \in Card, ServeStatus(c) PROVE GroupInv'
<1> DEFINE m == Head(inbox[c])
<1>1. Sockets' /\ m \in Delivered(c)
  BY ServedTyped, GroupParts DEF GroupCards, ServeStatus
<1>2. PICK value \in (IF m.kind = "hw" THEN {0} ELSE {0, 1}) : Answer(m, c, value)
  BY Zenon DEF ServeStatus
<1>3. m.kind \in StatusKind /\ ready' = [ready EXCEPT ![c] = @ \cup {ReadyCard(c, m)}]
  BY DEF ServeStatus
<1> HIDE DEF m
<1>4. value \in NotReady..Success BY SMT DEF NotReady, Success
<1>5. m.kind \notin ResultKind BY <1>3, SMT DEF StatusKind, ResultKind
<1>6. replies' \in [Host -> Seq(Given)]
  BY <1>1, <1>2, <1>4, <1>5, AnswerTyped DEF GroupInv
<1>7. ReadyCard(c, m) \in Card BY <1>1, SMT DEF ReadyCard, Delivered, Request
<1>8. ready' \in [Card -> SUBSET Card] BY <1>3, <1>7 DEF GroupInv
<1>9. GroupCards' BY <1>1, <1>6, <1>8, GroupParts DEF GroupCards, ServeStatus
<1>10. GroupCounts' /\ GroupChildren'
  BY GroupParts DEF GroupCounts, GroupChildren, ServeStatus
<1> QED BY <1>9, <1>10 DEF GroupInv, GroupCards, GroupCounts, GroupChildren, Sockets

LEMMA ServeCommandKeeps ==
  ASSUME GroupInv, NEW c \in Card, ServeCommand(c) PROVE GroupInv'
<1> DEFINE m == Head(inbox[c])
<1>1. Sockets' /\ m \in Delivered(c)
  BY ServedTyped, GroupParts DEF GroupCards, ServeCommand
<1>2. /\ Answer(m, c, Ack) /\ busy' = [busy EXCEPT ![c] = m]
      /\ ran' = ran \cup {<<m.id, c>>}
  BY DEF ServeCommand
<1> HIDE DEF m
<1>3. Ack \in NotReady..Success /\ Ack # NotReady BY SMT DEF NotReady, Success, Ack
<1>4. replies' \in [Host -> Seq(Given)]
  BY <1>1, <1>2, <1>3, AnswerTyped DEF GroupInv
<1>5. m \in Request /\ m.id \in 1..MaxRequests BY <1>1, SMT DEF Delivered, Request
<1>6. /\ busy' \in [Card -> {Free} \cup Request]
      /\ \A d \in Card : busy'[d] # Free => busy'[d] \in Delivered(d)
  BY <1>1, <1>2, <1>5 DEF GroupInv
<1>7. ran' \subseteq (1..MaxRequests) \X Card BY <1>2, <1>5 DEF GroupInv
<1>8. GroupCards' BY <1>1, <1>4, <1>6, GroupParts DEF GroupCards, ServeCommand
<1>9. GroupCounts' /\ GroupChildren'
  BY <1>7, GroupParts DEF GroupCounts, GroupChildren, ServeCommand
<1> QED BY <1>8, <1>9 DEF GroupInv, GroupCards, GroupCounts, GroupChildren, Sockets

LEMMA FinishKeeps ==
  ASSUME GroupInv, NEW c \in Card, Finish(c) PROVE GroupInv'
<1>1. PICK value \in {Failed, Success} :
        last' = [last EXCEPT ![c] = value] /\ Answer(busy[c], c, value)
  BY DEF Finish
<1>2. value \in NotReady..Success /\ value # NotReady
  BY SMT DEF NotReady, Failed, Success
<1>3. busy[c] \in Delivered(c) BY DEF Finish, GroupInv
<1>4. replies' \in [Host -> Seq(Given)]
  BY <1>1, <1>2, <1>3, AnswerTyped DEF GroupInv
<1>5. last' \in [Card -> {Failed, Success}] BY <1>1 DEF GroupInv
<1>6. busy' = [busy EXCEPT ![c] = Free] BY DEF Finish
<1>7. GroupCards' BY <1>4, <1>5, <1>6, GroupParts DEF GroupCards, Sockets, Finish
<1>8. GroupCounts' /\ GroupChildren'
  BY GroupParts DEF GroupCounts, GroupChildren, Finish
<1> QED BY <1>7, <1>8 DEF GroupInv, GroupCards, GroupCounts, GroupChildren, Sockets

LEMMA ServeResultKeeps ==
  ASSUME GroupInv, NEW c \in Card, ServeResult(c) PROVE GroupInv'
<1> DEFINE m == Head(inbox[c])
<1>1. Sockets' /\ m \in Delivered(c)
  BY ServedTyped, GroupParts DEF GroupCards, ServeResult
<1>2. Answer(m, c, last[c]) BY DEF ServeResult
<1> HIDE DEF m
<1>3. last[c] \in NotReady..Success /\ last[c] # NotReady
  <2>1. last[c] \in {Failed, Success} BY DEF GroupInv
  <2> QED BY <2>1, SMT DEF NotReady, Failed, Success
<1>4. replies' \in [Host -> Seq(Given)]
  BY <1>1, <1>2, <1>3, AnswerTyped DEF GroupInv
<1>5. GroupCards' BY <1>1, <1>4, GroupParts DEF GroupCards, ServeResult
<1>6. GroupCounts' /\ GroupChildren'
  BY GroupParts DEF GroupCounts, GroupChildren, ServeResult
<1> QED BY <1>5, <1>6 DEF GroupInv, GroupCards, GroupCounts, GroupChildren, Sockets

LEMMA ForwardKeeps ==
  ASSUME GroupInv, NEW c \in Card, NEW d \in Card, Forward(c, d) PROVE GroupInv'
<1>1. ready' = [ready EXCEPT ![c] = @ \ {d}] BY DEF Forward
<1>2. ready' \in [Card -> SUBSET Card] BY <1>1 DEF GroupInv
<1>3. GroupCards' BY <1>2, GroupParts DEF GroupCards, Sockets, Forward
<1>4. GroupCounts' /\ GroupChildren'
  BY GroupParts DEF GroupCounts, GroupChildren, Forward
<1> QED BY <1>3, <1>4 DEF GroupInv, GroupCards, GroupCounts, GroupChildren, Sockets

LEMMA RestartKeeps ==
  ASSUME GroupInv, NEW c \in Card, Restart(c) PROVE GroupInv'
<1>1. /\ inbox' = [inbox EXCEPT ![c] = << >>] /\ busy' = [busy EXCEPT ![c] = Free]
      /\ last' = [last EXCEPT ![c] = Success] /\ ready' = [ready EXCEPT ![c] = {}]
      /\ replies' = [h \in Host |-> IF h = c THEN << >> ELSE replies[h]]
      /\ alone' = [x \in Host |-> FALSE]
  BY DEF Restart
<1>2. /\ << >> \in Seq(Request) /\ << >> \in Seq(Delivered(c)) /\ << >> \in Seq(Given)
  BY EmptySeq
<1>3. restarts' \in 0..MaxRestarts
  <2>1. restarts < MaxRestarts /\ restarts' = restarts + 1 /\ restarts \in 0..MaxRestarts
    BY DEF Restart, GroupInv
  <2> QED BY <2>1, GroupTestAssumption, SMT
<1>4. Sockets' BY <1>1, <1>2 DEF GroupInv, Sockets
<1>5. replies' \in [Host -> Seq(Given)] BY <1>1, <1>2 DEF GroupInv
<1>6. GroupCards' BY <1>1, <1>4, <1>5, GroupParts DEF GroupCards
<1>7. GroupCounts' BY <1>1, <1>3, GroupParts DEF GroupCounts, Restart
<1>8. GroupChildren' BY GroupParts DEF GroupChildren, Restart
<1> QED BY <1>6, <1>7, <1>8
  DEF GroupInv, GroupCards, GroupCounts, GroupChildren, Sockets

LEMMA InitKeeps == Init => GroupInv
<1> HAVE Init
<1>1. \A S : << >> \in Seq(S) BY EmptySeq
<1>2. Sockets BY <1>1 DEF Init, Sockets
<1>3. replies \in [Host -> Seq(Given)] BY <1>1 DEF Init
<1>4. GroupCards BY <1>2, <1>3 DEF Init, GroupCards
<1>5. requests = 0 /\ restarts = 0 BY DEF Init
<1>6. 0 \in 0..MaxRequests /\ 0 \in 0..MaxRestarts
  <2>1. MaxRequests \in Nat /\ MaxRestarts \in Nat BY GroupTestAssumption
  <2> QED BY <2>1, SMT
<1>7. GroupCounts BY <1>5, <1>6 DEF Init, GroupCounts
<1>8. GroupChildren BY DEF Init, GroupChildren
<1> QED BY <1>4, <1>7, <1>8, GroupParts

LEMMA NextKeeps == GroupInv /\ [Next]_vars => GroupInv'
<1> SUFFICES ASSUME GroupInv, [Next]_vars PROVE GroupInv' OBVIOUS
<1>1. CASE UNCHANGED vars
  BY <1>1 DEF vars, card, GroupInv
<1>2. ASSUME NEW h \in Host, Accept(h) \/ ChildStep(h) PROVE GroupInv'
  BY <1>2, AcceptKeeps, SendStatusKeeps, SendCommandKeeps, CollectKeeps, SilenceKeeps,
    FetchKeeps, LateSilenceKeeps, VerdictKeeps DEF ChildStep
<1>3. ASSUME NEW c \in Card,
             \/ ServeStatus(c) \/ ServeCommand(c) \/ Finish(c) \/ ServeResult(c)
             \/ Restart(c)
      PROVE  GroupInv'
  BY <1>3, ServeStatusKeeps, ServeCommandKeeps, FinishKeeps, ServeResultKeeps, RestartKeeps
<1>4. ASSUME NEW c \in Card, NEW d \in Card, ByHand(d, c) \/ Forward(c, d)
      PROVE  GroupInv'
  BY <1>4, ByHandKeeps, ForwardKeeps
<1> QED BY <1>1, <1>2, <1>3, <1>4 DEF Next
-----------------------------------------------------------------------------
(* The numbers of the requests: OnceInv, one lemma for each kind of step.  *)

(* The cards whose queue holds the request m from now on had nothing of    *)
(* its number.                                                             *)
LEMMA PostOnce ==
  ASSUME Sockets, NEW targets \in SUBSET Card, NEW m \in Request, Post(targets, m),
         \A c \in Card : Single(ran, inbox[c], c),
         \A c \in targets : Begins(m) => Fresh(ran, inbox[c], c, m.id)
  PROVE  /\ \A c \in Card : Single(ran, inbox'[c], c)
         /\ \A c \in Card : \A n : (Begins(m) => m.id # n \/ c \notin targets) /\
              Fresh(ran, inbox[c], c, n) => Fresh(ran, inbox'[c], c, n)
<1>1. PICK S \in SUBSET targets :
        inbox' = [c \in Card |-> IF c \in S THEN Put(inbox[c], m) ELSE inbox[c]]
  BY DEF Post
<1>2. \A c \in Card : inbox[c] \in Seq(Request) BY DEF Sockets
<1>3. ASSUME NEW c \in Card PROVE Single(ran, inbox'[c], c)
  <2>1. CASE c \in S BY <1>1, <1>2, <2>1, PutSingle
  <2>2. CASE c \notin S BY <1>1, <2>2
  <2> QED BY <2>1, <2>2
<1>4. ASSUME NEW c \in Card, NEW n, Begins(m) => m.id # n \/ c \notin targets,
             Fresh(ran, inbox[c], c, n)
      PROVE  Fresh(ran, inbox'[c], c, n)
  <2>1. CASE c \in S
    <3>1. Begins(m) => m.id # n BY <1>4, <2>1
    <3> QED BY <1>1, <1>2, <1>4, <2>1, <3>1, PutFresh
  <2>2. CASE c \notin S BY <1>1, <1>4, <2>2
  <2> QED BY <2>1, <2>2
<1> QED BY <1>3, <1>4

(* The children and the numbers stay as they are, and what is fresh stays  *)
(* fresh.                                                                  *)
LEMMA StillOnce ==
  ASSUME OnceInv, child' = child, requests' = requests,
         \A c \in Card : Single(ran', inbox'[c], c),
         \A c \in Card : \A n : Fresh(ran, inbox[c], c, n) => Fresh(ran', inbox'[c], c, n)
  PROVE  OnceInv'
BY DEF OnceInv, OfStatus, Now

(* A child goes on with its test: its record keeps the number, takes for   *)
(* not asked no card that it has asked before, and is of a status test if  *)
(* it was.                                                                 *)
LEMMA ChildOnce ==
  ASSUME OnceInv, NEW h \in Host, child \in [Host -> {Idle} \cup Child], child[h] # Idle,
         NEW s, child' = [child EXCEPT ![h] = s], ran' = ran,
         requests \in Nat, requests' = requests,
         s.id = child[h].id,
         Head(s.todo).kind \notin StatusKind => ~ OfStatus(h),
         \A c \in Card : Single(ran, inbox'[c], c),
         \A c \in Card : \A n :
           n # child[h].id /\ Fresh(ran, inbox[c], c, n) => Fresh(ran, inbox'[c], c, n),
         ~ OfStatus(h) => \A c \in Card : s.result[c] = NotReady =>
           /\ child[h].result[c] = NotReady
           /\ Fresh(ran, inbox[c], c, s.id) => Fresh(ran, inbox'[c], c, s.id)
  PROVE  OnceInv'
<1>1. child'[h] = s /\ \A x \in Host \ {h} : child'[x] = child[x] OBVIOUS
<1>2. \A c \in Card : Single(ran', inbox'[c], c) OBVIOUS
<1>3. ASSUME NEW c \in Card, NEW n \in Nat, n > requests'
      PROVE  Fresh(ran', inbox'[c], c, n)
  <2>1. Fresh(ran, inbox[c], c, n) /\ child[h].id <= requests
    BY <1>3 DEF OnceInv
  <2>2. child[h] \in Child OBVIOUS
  <2>3. child[h].id \in Nat BY <2>2, ChildFacts, SMT DEF Running
  <2>4. child[h].id # n BY <1>3, <2>1, <2>3, SMT
  <2> QED BY <2>1, <2>4
<1>4. \A x \in Host : child'[x] # Idle => child'[x].id <= requests'
  BY <1>1 DEF OnceInv
<1>5. \A x, y \in Host :
        x # y /\ child'[x] # Idle /\ child'[y] # Idle => child'[x].id # child'[y].id
  BY <1>1 DEF OnceInv
<1>6. ASSUME NEW x \in Host, child'[x] # Idle, Head(child'[x].todo).kind \notin StatusKind,
             NEW c \in Card, child'[x].result[c] = NotReady
      PROVE  Fresh(ran', inbox'[c], c, child'[x].id)
  <2>1. CASE x = h
    <3>1. ~ OfStatus(h) /\ s.result[c] = NotReady BY <1>1, <1>6, <2>1
    <3>2. Fresh(ran, inbox[c], c, child[h].id) BY <3>1 DEF OnceInv
    <3> QED BY <1>1, <2>1, <3>1, <3>2
  <2>2. CASE x # h
    <3>1. child'[x] = child[x] /\ child[x].id # child[h].id
      BY <1>1, <1>6, <2>2 DEF OnceInv
    <3>2. Fresh(ran, inbox[c], c, child[x].id)
      BY <1>6, <3>1 DEF OnceInv, OfStatus, Now
    <3> QED BY <3>1, <3>2
  <2> QED BY <2>1, <2>2
<1> QED BY <1>2, <1>3, <1>4, <1>5, <1>6 DEF OnceInv, OfStatus, Now
(* A child that sends nothing. *)
LEMMA ChildAloneOnce ==
  ASSUME GroupInv, OnceInv, NEW h \in Host, child[h].phase # "idle",
         NEW s, child' = [child EXCEPT ![h] = s],
         requests' = requests, ran' = ran, inbox' = inbox, s.id = child[h].id,
         Head(s.todo).kind \notin StatusKind => ~ OfStatus(h),
         ~ OfStatus(h) => \A c \in Card : s.result[c] = NotReady =>
                            child[h].result[c] = NotReady
  PROVE  OnceInv'
<1>1. child \in [Host -> {Idle} \cup Child] /\ requests \in Nat BY SMT DEF GroupInv
<1>2. child[h] # Idle BY SMT DEF Idle
<1>3. \A c \in Card : Single(ran, inbox'[c], c) BY DEF OnceInv
<1>4. /\ \A c \in Card : \A n :
           n # child[h].id /\ Fresh(ran, inbox[c], c, n) => Fresh(ran, inbox'[c], c, n)
      /\ \A c \in Card : Fresh(ran, inbox[c], c, s.id) => Fresh(ran, inbox'[c], c, s.id)
  OBVIOUS
<1> QED BY <1>1, <1>2, <1>3, <1>4, ChildOnce

LEMMA AcceptOnce ==
  ASSUME GroupInv, OnceInv, NEW h \in Host, Accept(h) PROVE OnceInv'
<1>1. \E s : child' = [child EXCEPT ![h] = s] /\ s.id = requests + 1
  <2> DEFINE Begun(kind, option) ==
             [phase |-> "send", id |-> requests + 1,
              strict |-> kind = "traffic" /\ Strict(option),
              todo |-> Stages(kind, option), first |-> TRUE, skip |-> ready[h],
              result |-> [c \in Card |-> NotReady], count |-> 0, failed |-> FALSE,
              try |-> 0, open |-> FALSE]
  <2>1. \E kind \in Kinds : \E option \in (IF kind = "traffic" THEN Options ELSE {0}) :
          child' = [child EXCEPT ![h] = Begun(kind, option)]
    BY Zenon DEF Accept
  <2>2. \A kind, option : Begun(kind, option).id = requests + 1 OBVIOUS
  <2> HIDE DEF Begun
  <2> QED BY <2>1, <2>2, Zenon
<1>2. PICK s : child' = [child EXCEPT ![h] = s] /\ s.id = requests + 1 BY <1>1, Zenon
<1>3. /\ requests \in Nat /\ requests' = requests + 1 /\ ran' = ran /\ inbox' = inbox
      /\ child \in [Host -> {Idle} \cup Child] /\ child[h] = Idle
  BY SMT DEF GroupInv, Accept, card
<1>4. \A x \in Host : child[x] # Idle => child[x].id \in Nat /\ child[x].id <= requests
  <2>1. ASSUME NEW x \in Host, child[x] # Idle PROVE child[x].id \in Nat
    <3>1. child[x] \in Running BY <1>3, <2>1, ChildFacts
    <3> QED BY <3>1, SMT DEF Running
  <2> QED BY <2>1 DEF OnceInv
<1>5. child'[h] = s /\ \A x \in Host \ {h} : child'[x] = child[x] BY <1>2, <1>3
<1>6. \A c \in Card : Single(ran', inbox'[c], c) BY <1>3 DEF OnceInv
<1>7. \A c \in Card, n \in Nat : n > requests => Fresh(ran', inbox'[c], c, n)
  BY <1>3 DEF OnceInv
<1>8. \A c \in Card, n \in Nat : n > requests' => Fresh(ran', inbox'[c], c, n)
  <2>1. \A n \in Nat : n > requests' => n > requests BY <1>3, SMT
  <2> QED BY <1>7, <2>1
<1>9. \A x \in Host : child'[x] # Idle => child'[x].id <= requests'
  <2>1. \A n \in Nat : n <= requests => n <= requests + 1 BY <1>3, SMT
  <2>2. requests + 1 <= requests + 1 BY <1>3, SMT
  <2> QED BY <1>2, <1>3, <1>4, <1>5, <2>1, <2>2
<1>10. ASSUME NEW x \in Host, NEW y \in Host, x # y, child'[x] # Idle, child'[y] # Idle
       PROVE  child'[x].id # child'[y].id
  <2>1. \A n \in Nat : n <= requests => n # requests + 1 BY <1>3, SMT
  <2>2. CASE x = h BY <1>2, <1>4, <1>5, <1>10, <2>1, <2>2
  <2>3. CASE y = h BY <1>2, <1>4, <1>5, <1>10, <2>1, <2>3
  <2>4. CASE x # h /\ y # h BY <1>5, <1>10, <2>4 DEF OnceInv
  <2> QED BY <2>2, <2>3, <2>4
<1>11. ASSUME NEW x \in Host, child'[x] # Idle, Head(child'[x].todo).kind \notin StatusKind,
              NEW c \in Card, child'[x].result[c] = NotReady
       PROVE  Fresh(ran', inbox'[c], c, child'[x].id)
  <2>1. CASE x = h
    <3>1. requests + 1 \in Nat /\ requests + 1 > requests BY <1>3, SMT
    <3> QED BY <1>2, <1>5, <1>7, <2>1, <3>1
  <2>2. CASE x # h
    <3>1. child'[x] = child[x] BY <1>5, <2>2
    <3> QED BY <1>3, <1>11, <3>1 DEF OnceInv, OfStatus, Now
  <2> QED BY <2>1, <2>2
<1> QED BY <1>6, <1>8, <1>9, <1>10, <1>11 DEF OnceInv, OfStatus, Now

LEMMA ByHandOnce ==
  ASSUME GroupInv, OnceInv, NEW d \in Card, NEW c \in Card, ByHand(d, c) PROVE OnceInv'
<1>1. PICK kind \in Kinds :
        inbox' = [inbox EXCEPT ![c] =
          Put(@, [from |-> d, byHand |-> TRUE, kind |-> kind, ask |-> "command",
                  id |-> requests + 1])]
  BY DEF ByHand
<1> DEFINE m == [from |-> d, byHand |-> TRUE, kind |-> kind, ask |-> "command",
                 id |-> requests + 1]
<1>2. /\ requests \in Nat /\ requests' = requests + 1 /\ ran' = ran /\ child' = child
      /\ inbox \in [Card -> Seq(Request)]
  BY SMT DEF GroupInv, ByHand
<1>3. requests + 1 \in 1..MaxRequests
  <2>1. requests < MaxRequests /\ requests \in 0..MaxRequests /\ MaxRequests \in Nat
    BY GroupTestAssumption DEF ByHand, GroupInv
  <2> QED BY <2>1, SMT
<1>4. kind \in StatusKind \cup ResultKind BY GroupTestAssumption
<1>5. m \in Request /\ m.id = requests + 1 BY <1>3, <1>4, SMT DEF Request
<1>6. inbox' = [inbox EXCEPT ![c] = Put(@, m)] BY <1>1
<1> HIDE DEF m
<1>7. requests + 1 \in Nat /\ requests + 1 > requests BY <1>2, SMT
<1>8. Fresh(ran, inbox[c], c, m.id) BY <1>5, <1>7 DEF OnceInv
<1>9. \A e \in Card : Single(ran', inbox'[e], e)
  <2>1. Single(ran, Put(inbox[c], m), c) BY <1>2, <1>5, <1>8, PutSingle DEF OnceInv
  <2> QED BY <1>2, <1>6, <2>1 DEF OnceInv
<1>10. ASSUME NEW e \in Card, NEW n, n # requests + 1, Fresh(ran, inbox[e], e, n)
       PROVE  Fresh(ran', inbox'[e], e, n)
  <2>1. CASE e = c
    <3>1. Fresh(ran, Put(inbox[c], m), c, n) BY <1>2, <1>5, <1>10, <2>1, PutFresh
    <3> QED BY <1>2, <1>6, <2>1, <3>1
  <2>2. CASE e # c BY <1>2, <1>6, <1>10, <2>2
  <2> QED BY <2>1, <2>2
<1>11. \A e \in Card, n \in Nat : n > requests' => Fresh(ran', inbox'[e], e, n)
  <2>1. \A n \in Nat : n > requests' => n > requests /\ n # requests + 1 BY <1>2, SMT
  <2> QED BY <1>10, <2>1 DEF OnceInv
<1>12. ASSUME NEW h \in Host, child[h] # Idle
       PROVE  child[h].id <= requests' /\ child[h].id # requests + 1
  <2>1. child[h] \in Running BY <1>12, ChildFacts DEF GroupInv
  <2>2. child[h].id \in Nat BY <2>1, SMT DEF Running
  <2>3. child[h].id <= requests BY <1>12 DEF OnceInv
  <2> QED BY <1>2, <2>2, <2>3, SMT
<1>13. ASSUME NEW h \in Host, child[h] # Idle, ~ OfStatus(h),
              NEW e \in Card, child[h].result[e] = NotReady
       PROVE  Fresh(ran', inbox'[e], e, child[h].id)
  BY <1>10, <1>12, <1>13 DEF OnceInv
<1> QED BY <1>2, <1>9, <1>11, <1>12, <1>13 DEF OnceInv, OfStatus, Now

LEMMA SendStatusOnce ==
  ASSUME GroupInv, OnceInv, NEW h \in Host, SendStatus(h) PROVE OnceInv'
<1> DEFINE s == child[h]
           targets == {c \in Card \ {h} : s.result[c] # 1 /\ Sendable(h, c)}
           t == [s EXCEPT !.phase = "collect", !.result[h] = 1,
                          !.count = IF s.result[h] # 1 THEN @ + 1 ELSE @,
                          !.open = @ \/ targets # {}]
           m == Ask(h, "command")
<1>1. s.phase # "idle" BY SMT DEF SendStatus, In
<1>2. s \in Child /\ s # Idle /\ s \in Running BY <1>1, ChildRuns, ChildFacts
<1>3. t.id = s.id /\ t.todo = s.todo BY <1>2, SMT DEF Running
<1>4. child' = [child EXCEPT ![h] = t] /\ Post(targets, m) /\ OfStatus(h)
  BY DEF SendStatus
<1>5. targets \in SUBSET Card OBVIOUS
<1>6. m \in Request /\ ~ Begins(m) BY <1>1, <1>4, AskTyped
<1>7. ran' = ran /\ requests' = requests BY DEF SendStatus
<1> HIDE DEF t, targets, m
<1>8. Sockets /\ \A c \in Card : Single(ran, inbox[c], c)
  BY GroupParts DEF GroupCards, OnceInv
<1>9. /\ \A c \in Card : Single(ran, inbox'[c], c)
      /\ \A c \in Card : \A n : Fresh(ran, inbox[c], c, n) => Fresh(ran, inbox'[c], c, n)
  BY <1>4, <1>5, <1>6, <1>8, PostOnce
<1>10. child \in [Host -> {Idle} \cup Child] /\ requests \in Nat BY SMT DEF GroupInv
<1>11. Head(t.todo).kind \in StatusKind BY <1>3, <1>4 DEF OfStatus, Now
<1> QED BY <1>2, <1>3, <1>4, <1>7, <1>9, <1>10, <1>11, ChildOnce

LEMMA SendCommandOnce ==
  ASSUME GroupInv, OnceInv, NEW h \in Host, SendCommand(h) PROVE OnceInv'
<1> DEFINE s == child[h]
           targets == {c \in Now(h).cards \cap Member : s.result[c] = NotReady}
           t == [s EXCEPT !.phase = "collect", !.result = Marked(@, Now(h).cards),
                          !.open = @ \/ targets # {}]
           m == Ask(h, "command")
<1>1. s.phase # "idle" BY SMT DEF SendCommand, In
<1>2. s \in Child /\ s # Idle /\ s \in Running BY <1>1, ChildRuns, ChildFacts
<1>3. t.id = s.id /\ t.todo = s.todo /\ t.result = Marked(s.result, Now(h).cards)
  BY <1>2, SMT DEF Running
<1>4. child' = [child EXCEPT ![h] = t] /\ Post(targets, m) /\ ~ OfStatus(h)
  BY DEF SendCommand
<1>5. targets \in SUBSET Card BY GroupTestAssumption
<1>6. m \in Request /\ m.id = s.id BY <1>1, AskTyped
<1>7. ran' = ran /\ requests' = requests BY DEF SendCommand
<1>8. \A c \in targets : Fresh(ran, inbox[c], c, m.id)
  BY <1>2, <1>4, <1>5, <1>6 DEF OnceInv
<1>9. ASSUME NEW c \in Card, t.result[c] = NotReady
      PROVE  s.result[c] = NotReady /\ c \notin targets
  <2>1. Ready # NotReady BY SMT DEF Ready, NotReady
  <2> QED BY <1>3, <1>9, <2>1 DEF Marked
<1> HIDE DEF t, targets, m
<1>10. Sockets /\ \A c \in Card : Single(ran, inbox[c], c)
  BY GroupParts DEF GroupCards, OnceInv
<1>11. /\ \A c \in Card : Single(ran, inbox'[c], c)
       /\ \A c \in Card : \A n : (m.id # n \/ c \notin targets) /\
            Fresh(ran, inbox[c], c, n) => Fresh(ran, inbox'[c], c, n)
  BY <1>4, <1>5, <1>6, <1>8, <1>10, PostOnce
<1>12. child \in [Host -> {Idle} \cup Child] /\ requests \in Nat BY SMT DEF GroupInv
<1> QED BY <1>2, <1>3, <1>4, <1>6, <1>7, <1>9, <1>11, <1>12, ChildOnce

LEMMA CollectOnce ==
  ASSUME GroupInv, OnceInv, NEW h \in Host, Collect(h) PROVE OnceInv'
<1> DEFINE s == child[h]
           r == Head(replies[h])
           t == CASE r.kind # Now(h).kind -> s
                  [] r.kind = Now(h).kind /\ OfStatus(h) -> WithStatus(s, r)
                  [] OTHER -> WithResult(s, r)
<1>1. s.phase # "idle" BY SMT DEF Collect, In
<1>2. s \in Child /\ (OfStatus(h) <=> s.todo \in StatusLeft) BY <1>1, ChildRuns
<1>3. replies[h] \in Seq(Given) /\ replies[h] # << >> BY DEF GroupInv, Collect
<1>4. r \in Given BY <1>3, TailEntries
<1>5. child' = [child EXCEPT ![h] = t] BY Zenon DEF Collect
<1>6. /\ t.id = s.id
      /\ Head(t.todo).kind \notin StatusKind => ~ OfStatus(h)
      /\ ~ OfStatus(h) => \A c \in Card : t.result[c] = NotReady => s.result[c] = NotReady
  <2>1. CASE r.kind # Now(h).kind BY <2>1 DEF OfStatus, Now
  <2>2. CASE r.kind = Now(h).kind /\ OfStatus(h)
    <3>1. t = WithStatus(s, r) BY <2>2
    <3>2. t.id = s.id /\ t.todo = s.todo BY <1>2, <1>4, <3>1, WithStatusChild
    <3> QED BY <2>2, <3>2 DEF OfStatus, Now
  <2>3. CASE r.kind = Now(h).kind /\ ~ OfStatus(h)
    <3>1. t = WithResult(s, r) BY <2>3
    <3>2. t.id = s.id /\ t.result = [s.result EXCEPT ![r.card] = r.value]
      BY <1>2, <1>4, <2>3, <3>1, WithResultChild
    <3>3. r.kind \in ResultKind
      BY <1>1, <2>3, ChildRuns, StageFacts DEF OfStatus
    <3>4. r.value # NotReady BY <1>4, <3>3 DEF Given
    <3>5. s.result \in [Card -> NotReady..Success] BY <1>2, ChildFacts DEF Running
    <3> QED BY <2>3, <3>2, <3>4, <3>5
  <2> QED BY <2>1, <2>2, <2>3
<1> HIDE DEF t
<1>7. requests' = requests /\ ran' = ran /\ inbox' = inbox BY DEF Collect, card
<1> QED BY <1>1, <1>5, <1>6, <1>7, ChildAloneOnce
LEMMA SilenceOnce ==
  ASSUME GroupInv, OnceInv, NEW h \in Host, Silence(h) PROVE OnceInv'
<1> DEFINE s == child[h]
           missing == s.count < Now(h).count
           phase == IF missing /\ NextTry(s) < Now(h).tries THEN "send"
                    ELSE IF missing /\ ~ OfStatus(h) THEN "fetch"
                    ELSE "verdict"
           t == [s EXCEPT !.try = NextTry(s), !.phase = phase]
<1>1. s.phase # "idle" BY SMT DEF Silence, In
<1>2. s \in Running BY <1>1, ChildRuns, ChildFacts
<1>3. child' = [child EXCEPT ![h] = t] BY Zenon DEF Silence
<1> HIDE DEF phase
<1>4. t.id = s.id /\ t.todo = s.todo /\ t.result = s.result BY <1>2, SMT DEF Running
<1> HIDE DEF t
<1>5. requests' = requests /\ ran' = ran /\ inbox' = inbox BY DEF Silence, card
<1> QED BY <1>1, <1>3, <1>4, <1>5, ChildAloneOnce DEF OfStatus, Now

LEMMA FetchOnce ==
  ASSUME GroupInv, OnceInv, NEW h \in Host, Fetch(h) PROVE OnceInv'
<1> DEFINE s == child[h]
           t == [s EXCEPT !.phase = "late"]
           targets == {c \in Now(h).cards \cap Member : s.result[c] = Ack}
           m == Ask(h, "result")
<1>1. s.phase # "idle" BY SMT DEF Fetch, In
<1>2. s \in Child /\ s # Idle BY <1>1, ChildRuns, ChildFacts
<1>3. t.id = s.id /\ t.todo = s.todo /\ t.result = s.result BY <1>2, PhaseChild
<1>4. child' = [child EXCEPT ![h] = t] /\ Post(targets, m) BY DEF Fetch
<1>5. targets \in SUBSET Card BY GroupTestAssumption
<1>6. m \in Request /\ ~ Begins(m) BY <1>1, AskTyped DEF Begins, Ask
<1>7. ran' = ran /\ requests' = requests BY DEF Fetch
<1> HIDE DEF t, targets, m
<1>8. Sockets /\ \A c \in Card : Single(ran, inbox[c], c)
  BY GroupParts DEF GroupCards, OnceInv
<1>9. /\ \A c \in Card : Single(ran, inbox'[c], c)
      /\ \A c \in Card : \A n : Fresh(ran, inbox[c], c, n) => Fresh(ran, inbox'[c], c, n)
  BY <1>4, <1>5, <1>6, <1>8, PostOnce
<1>10. child \in [Host -> {Idle} \cup Child] /\ requests \in Nat BY SMT DEF GroupInv
<1>11. Head(t.todo).kind \notin StatusKind => ~ OfStatus(h) BY <1>3 DEF OfStatus, Now
<1> QED BY <1>2, <1>3, <1>4, <1>7, <1>9, <1>10, <1>11, ChildOnce

LEMMA LateSilenceOnce ==
  ASSUME GroupInv, OnceInv, NEW h \in Host, LateSilence(h) PROVE OnceInv'
<1> DEFINE t == [child[h] EXCEPT !.phase = "verdict"]
<1>1. child[h].phase # "idle" BY SMT DEF LateSilence, In
<1>2. child[h] \in Child BY <1>1, ChildRuns
<1>3. t.id = child[h].id /\ t.todo = child[h].todo /\ t.result = child[h].result
  BY <1>2, PhaseChild
<1>4. child' = [child EXCEPT ![h] = t] BY DEF LateSilence
<1> HIDE DEF t
<1>5. requests' = requests /\ ran' = ran /\ inbox' = inbox BY DEF LateSilence, card
<1> QED BY <1>1, <1>3, <1>4, <1>5, ChildAloneOnce DEF OfStatus, Now

LEMMA VerdictOnce ==
  ASSUME GroupInv, OnceInv, NEW h \in Host, Verdict(h) PROVE OnceInv'
<1>1. child[h].phase # "idle" BY SMT DEF Verdict, In
<1>2. child[h] \in Child BY <1>1, ChildRuns
<1>3. requests' = requests /\ ran' = ran /\ inbox' = inbox BY DEF Verdict, card
<1>4. CASE GoesOn(child[h], Now(h))
  <2> DEFINE t == [child[h] EXCEPT !.phase = "send", !.todo = Tail(@), !.first = FALSE,
                            !.count = 0, !.failed = FALSE, !.try = 0, !.open = FALSE]
  <2>1. /\ t.id = child[h].id /\ t.result = child[h].result
        /\ child[h].todo \notin StatusLeft
    BY <1>2, <1>4, NextStageChild DEF Now
  <2>2. child' = [child EXCEPT ![h] = t] BY <1>4 DEF Verdict
  <2>3. ~ OfStatus(h) BY <1>1, <2>1, ChildRuns
  <2> HIDE DEF t
  <2> QED BY <1>1, <1>3, <2>1, <2>2, <2>3, ChildAloneOnce
<1>5. CASE ~ GoesOn(child[h], Now(h))
  <2>1. child' = [child EXCEPT ![h] = Idle] BY <1>5 DEF Verdict
  <2>2. child'[h] = Idle /\ \A x \in Host \ {h} : child'[x] = child[x]
    BY <2>1 DEF GroupInv
  <2> QED BY <1>3, <2>2, Zenon DEF OnceInv, OfStatus, Now
<1> QED BY <1>4, <1>5

(* A card takes a request from its queue; if that begins a command, the    *)
(* card enters it in ran.                                                  *)
LEMMA ServedOnce ==
  ASSUME GroupInv, OnceInv, NEW c \in Card, Serving(c), Served(c),
         child' = child, requests' = requests,
         \/ ran' = ran
         \/ Begins(Head(inbox[c])) /\ ran' = ran \cup {<<Head(inbox[c]).id, c>>}
  PROVE  OnceInv'
<1>1. inbox \in [Card -> Seq(Request)] /\ inbox[c] # << >> BY DEF GroupInv, Serving
<1>2. inbox'[c] = Tail(inbox[c]) /\ \A d \in Card \ {c} : inbox'[d] = inbox[d]
  BY <1>1 DEF Served
<1>3. Single(ran', inbox'[c], c) BY <1>1, <1>2, TailSingle DEF OnceInv
<1>4. \A n : Fresh(ran, inbox[c], c, n) => Fresh(ran', inbox'[c], c, n)
  BY <1>1, <1>2, TailFresh
<1>5. ASSUME NEW d \in Card, d # c
      PROVE  /\ Single(ran', inbox'[d], d)
             /\ \A n : Fresh(ran, inbox[d], d, n) => Fresh(ran', inbox'[d], d, n)
  <2>1. Single(ran, inbox[d], d) BY DEF OnceInv
  <2>2. CASE ran' = ran BY <1>2, <1>5, <2>1, <2>2
  <2>3. CASE ran' = ran \cup {<<Head(inbox[c]).id, c>>}
    <3> DEFINE n == Head(inbox[c]).id
    <3>1. ran' = ran \cup {<<n, c>>} BY <2>3
    <3> HIDE DEF n
    <3>2. \A k : <<k, d>> \in ran' <=> <<k, d>> \in ran BY <1>5, <3>1, SMT
    <3>3. /\ Single(ran, inbox[d], d) => Single(ran', inbox[d], d)
          /\ \A k : Fresh(ran, inbox[d], d, k) => Fresh(ran', inbox[d], d, k)
      BY <3>2, Zenon DEF Single, Fresh
    <3> QED BY <1>2, <1>5, <2>1, <3>3
  <2> QED BY <2>2, <2>3
<1> QED BY <1>3, <1>4, <1>5, StillOnce

LEMMA ServeOnce ==
  ASSUME GroupInv, OnceInv, NEW c \in Card,
         ServeStatus(c) \/ ServeCommand(c) \/ ServeResult(c)
  PROVE  OnceInv'
<1>1. CASE ServeStatus(c) BY <1>1, ServedOnce DEF ServeStatus
<1>2. CASE ServeCommand(c) BY <1>2, ServedOnce DEF ServeCommand, Begins
<1>3. CASE ServeResult(c) BY <1>3, ServedOnce DEF ServeResult
<1> QED BY <1>1, <1>2, <1>3

LEMMA RestartOnce ==
  ASSUME GroupInv, OnceInv, NEW c \in Card, Restart(c) PROVE OnceInv'
<1>1. inbox' = [inbox EXCEPT ![c] = << >>] /\ inbox \in [Card -> Seq(Request)]
  BY DEF Restart, GroupInv
<1>2. inbox'[c] = << >> /\ \A d \in Card \ {c} : inbox'[d] = inbox[d] BY <1>1
<1>3. \A i \in 1..Len(<< >>) : FALSE BY SMT
<1>4. child' = child /\ requests' = requests /\ ran' = ran BY DEF Restart
<1>5. Single(ran', inbox'[c], c) BY <1>2, <1>3 DEF Single
<1>6. \A n : Fresh(ran, inbox[c], c, n) => Fresh(ran', inbox'[c], c, n)
  BY <1>2, <1>3, <1>4 DEF Fresh
<1>7. \A d \in Card \ {c} : Single(ran', inbox'[d], d) BY <1>2, <1>4 DEF OnceInv
<1> QED BY <1>2, <1>4, <1>5, <1>6, <1>7, StillOnce

LEMMA UnsentOnce ==
  ASSUME OnceInv, child' = child, requests' = requests, inbox' = inbox, ran' = ran
  PROVE  OnceInv'
BY DEF OnceInv, OfStatus, Now

LEMMA InitOnce == Init => OnceInv
<1> HAVE Init
<1>1. \A i \in 1..Len(<< >>) : FALSE BY SMT
<1>2. \A c \in Card : inbox[c] = << >> BY DEF Init
<1>3. ran = {} /\ \A h \in Host : child[h] = Idle BY DEF Init
<1>4. \A c \in Card : Single(ran, inbox[c], c) BY <1>1, <1>2 DEF Single
<1>5. \A c \in Card : \A n : Fresh(ran, inbox[c], c, n) BY <1>1, <1>2, <1>3 DEF Fresh
<1> QED BY <1>3, <1>4, <1>5 DEF OnceInv

LEMMA NextOnce == GroupInv /\ OnceInv /\ [Next]_vars => OnceInv'
<1> SUFFICES ASSUME GroupInv, OnceInv, [Next]_vars PROVE OnceInv' OBVIOUS
<1>1. CASE UNCHANGED vars BY <1>1, UnsentOnce DEF vars, card
<1>2. ASSUME NEW h \in Host, Accept(h) \/ ChildStep(h) PROVE OnceInv'
  BY <1>2, AcceptOnce, SendStatusOnce, SendCommandOnce, CollectOnce, SilenceOnce,
    FetchOnce, LateSilenceOnce, VerdictOnce DEF ChildStep
<1>3. ASSUME NEW c \in Card,
             \/ ServeStatus(c) \/ ServeCommand(c) \/ ServeResult(c)
             \/ Finish(c) \/ Restart(c)
      PROVE  OnceInv'
  <2>1. CASE Finish(c) BY <2>1, UnsentOnce DEF Finish
  <2> QED BY <1>3, <2>1, ServeOnce, RestartOnce
<1>4. ASSUME NEW c \in Card, NEW d \in Card, ByHand(d, c) \/ Forward(c, d)
      PROVE  OnceInv'
  <2>1. CASE Forward(c, d) BY <2>1, UnsentOnce DEF Forward
  <2> QED BY <1>4, <2>1, ByHandOnce
<1> QED BY <1>1, <1>2, <1>3, <1>4 DEF Next

-----------------------------------------------------------------------------
(* Children count right, and ask and hear members only. *)
THEOREM GroupInvariant == Spec => []GroupInv
<1>1. Init => GroupInv BY InitKeeps
<1>2. GroupInv /\ [Next]_vars => GroupInv' BY NextKeeps
<1> QED BY <1>1, <1>2, PTL DEF Spec

(* No card has been asked before that a child takes for not yet asked. *)
THEOREM OnceInvariant == Spec => []OnceInv
<1>1. Init => OnceInv BY InitOnce
<1>2. GroupInv /\ OnceInv /\ [Next]_vars => OnceInv' BY NextOnce
<1> QED BY <1>1, <1>2, GroupInvariant, PTL DEF Spec

(* Every variable keeps its type, whatever is lost, late or asked by hand. *)
THEOREM GroupTyping == Spec => []TypeOK
<1>1. GroupInv => TypeOK
  <2> HAVE GroupInv
  <2>1. child \in [Host -> {Idle} \cup Running]
    <3>1. Child \subseteq Running BY DEF Child
    <3> QED BY <3>1 DEF GroupInv
  <2>2. replies \in [Host -> Seq(Reply)]
    <3>1. ASSUME NEW q \in Seq(Given) PROVE q \in Seq(Reply)
      <4>1. q \in [1..Len(q) -> Given] /\ Len(q) \in Nat
        BY LenProperties
      <4>2. q \in [1..Len(q) -> Reply] BY <4>1 DEF Given
      <4> QED BY <4>1, <4>2, SeqDef
    <3> QED BY <3>1 DEF GroupInv
  <2> QED BY <2>1, <2>2 DEF GroupInv, TypeOK
<1> QED BY <1>1, GroupInvariant, PTL

(* A ping, power cycle or information test that counts as complete has an  *)
(* answer of every card of the configuration (tcp_server.c:756).           *)
THEOREM StatusCompleteAlways == Spec => []StatusComplete
<1>1. GroupInv => StatusComplete
  <2> SUFFICES ASSUME GroupInv, NEW h \in Host,
                      In(h, "verdict"), OfStatus(h), child[h].count >= Now(h).count,
                      NEW c \in Member
               PROVE  child[h].result[c] = 1
    BY DEF StatusComplete
  <2> DEFINE s == child[h]
  <2>1. s.phase # "idle" BY SMT DEF In
  <2>2. s \in Child /\ s.todo \in StatusLeft /\ Counting(s) BY <2>1, ChildRuns, ChildFacts
  <2>3. Answered(s) \subseteq Member /\ s.count = Cardinality(Answered(s))
    BY <2>2 DEF Counting
  <2>4. Now(h).count = Cardinality(Member) BY <2>1, ChildRuns, StageFacts DEF OfStatus
  <2>5. IsFiniteSet(Card) /\ Member \subseteq Card BY GroupTestAssumption
  <2>6. IsFiniteSet(Member) BY <2>5, FS_Subset
  <2>7. /\ Cardinality(Answered(s)) <= Cardinality(Member)
        /\ Cardinality(Member) = Cardinality(Answered(s)) => Member = Answered(s)
    BY <2>3, <2>6, FS_Subset
  <2>8. Cardinality(Member) \in Nat /\ Cardinality(Answered(s)) \in Nat
    BY <2>3, <2>6, FS_Subset, FS_CardinalityType
  <2>9. Cardinality(Answered(s)) >= Cardinality(Member) BY <2>3, <2>4
  <2>10. Cardinality(Member) = Cardinality(Answered(s)) BY <2>7, <2>8, <2>9, SMT
  <2> QED BY <2>7, <2>10 DEF Answered
<1> QED BY <1>1, GroupInvariant, PTL

(* No card begins the command of one request twice, however often the      *)
(* child goes round its loop (tcp_server.c:1200).                          *)
THEOREM CommandOnceAlways == Spec => CommandOnce
<1>1. GroupInv /\ OnceInv =>
        [\A c \in Card : ServeCommand(c) => <<Head(inbox[c]).id, c>> \notin ran]_vars
  <2> SUFFICES ASSUME GroupInv, OnceInv, NEW c \in Card, ServeCommand(c)
               PROVE  <<Head(inbox[c]).id, c>> \notin ran
    OBVIOUS
  <2>1. inbox[c] \in Seq(Request) /\ inbox[c] # << >>
    BY DEF GroupInv, ServeCommand, Serving
  <2>2. Head(inbox[c]) = inbox[c][1] /\ 1 \in 1..Len(inbox[c])
    BY <2>1, TailEntries
  <2>3. Begins(Head(inbox[c])) BY DEF ServeCommand, Begins
  <2> QED BY <2>2, <2>3 DEF OnceInv, Single
<1> QED BY <1>1, GroupInvariant, OnceInvariant, PTL DEF CommandOnce
-----------------------------------------------------------------------------
(* Tests that count results.  A stage under way that nothing old, foreign  *)
(* or restarted has met (alone): all that is sent and all that is answered *)
(* belongs to it.                                                          *)

(* A request of the stage under way; one for the result goes to a card     *)
(* that has begun the command.                                             *)
Asks(h, c, r) ==
  /\ r.from = h /\ ~ r.byHand /\ r.kind = Now(h).kind /\ r.id = child[h].id
  /\ c \in Now(h).cards
  /\ r.ask = "result" => <<child[h].id, c>> \in ran

(* An answer of the stage under way.  Its card has begun the command, once;*)
(* what it says of the result is what the card keeps as its last.          *)
Tells(h, r) ==
  /\ r.kind = Now(h).kind /\ r.card \in Now(h).cards
  /\ <<child[h].id, r.card>> \in ran
  /\ r.value = Ack \/ (busy[r.card] = Free /\ r.value = last[r.card])

(* No card acknowledges after it has told its result. *)
AckFirst(q) ==
  \A i, j \in 1..Len(q) :
    i < j /\ q[i].card = q[j].card /\ q[i].value # Ack => q[j].value # Ack

(* What a child knows of a card of its stage is so, for good. *)
Learnt(h, c) ==
  /\ child[h].result[c] \in {Ack, Failed, Success} => <<child[h].id, c>> \in ran
  /\ child[h].result[c] \in {Failed, Success} =>
       /\ c \in Member /\ busy[c] = Free /\ child[h].result[c] = last[c]
       /\ \A i \in 1..Len(replies[h]) : replies[h][i].card = c => replies[h][i].value # Ack

(* The cards of the stage whose result the child has. *)
Settled(h) == {c \in Now(h).cards : child[h].result[c] \in {Failed, Success}}

Sole(h) == \A x \in Host \ {h} : child[x] = Idle
Asked(h) == \A c \in Card : \A i \in 1..Len(inbox[c]) : Asks(h, c, inbox[c][i])
Working(h) == \A c \in Card :
  busy[c] # Free => Asks(h, c, busy[c]) /\ <<child[h].id, c>> \in ran
Told(h) ==
  /\ \A i \in 1..Len(replies[h]) : Tells(h, replies[h][i])
  /\ AckFirst(replies[h])
Counted(h) ==
  /\ \A c \in Now(h).cards : Learnt(h, c)
  /\ child[h].count = Cardinality(Settled(h))
Ahead(h) ==
  Len(child[h].todo) > 1 => \A c \in child[h].todo[2].cards : child[h].result[c] = NotReady
Behind(h) ==
  child[h].strict /\ ~ child[h].first =>
    \A c \in Member \ Now(h).cards : child[h].result[c] \in {Failed, Success}

Alone(h) == Sole(h) /\ Asked(h) /\ Working(h) /\ Told(h) /\ Counted(h) /\ Ahead(h) /\ Behind(h)

AloneInv ==
  \A h \in Host : child[h] # Idle /\ ~ OfStatus(h) /\ alone[h] => Alone(h)

(* What a result stage counts to, and whom the stage after it asks. *)
LEMMA ResultStageFacts ==
  ASSUME NEW t \in ResultLeft
  PROVE  /\ Head(t).cards \subseteq Card
         /\ Cardinality(Head(t).cards \cap Member) <= Head(t).count
         /\ Head(t).count \in Nat /\ Head(t).kind \in ResultKind
         /\ Len(t) > 1 => /\ t[2].cards = Card \ Head(t).cards
                          /\ Head(Tail(t)) = t[2] /\ Len(Tail(t)) = 1
<1> DEFINE Others == {HealthStage, AnyToAnyStage, TrafficLcStage, TrafficFcStage}
<1>1. ASSUME NEW stage \in Others
      PROVE  stage.cards \subseteq Card /\ stage.kind \in ResultKind
  BY <1>1, GroupTestAssumption, SMT DEF HealthStage, AnyToAnyStage, TrafficLcStage,
    TrafficFcStage, Stage, ResultKind
<1>2. ASSUME NEW stage \in Others
      PROVE  Cardinality(stage.cards \cap Member) <= stage.count /\ stage.count \in Nat
  <2>1. CASE stage = TrafficLcStage
    <3>1. stage.cards \cap Member = Member \ MiddleSlots /\ stage.count = LcCount
      BY <2>1, GroupTestAssumption, SMT DEF TrafficLcStage, Stage
    <3> QED BY <3>1, TrafficAssumption, GroupTestAssumption
  <2>2. CASE stage = TrafficFcStage
    <3>1. stage.cards \cap Member = Member \cap MiddleSlots /\ stage.count = FcCount
      BY <2>2, GroupTestAssumption, SMT DEF TrafficFcStage, Stage
    <3> QED BY <3>1, TrafficAssumption, GroupTestAssumption
  <2>3. CASE stage \in {HealthStage, AnyToAnyStage}
    <3>1. stage.cards = Card /\ stage.count = Cardinality(Card)
      BY <2>3, SMT DEF HealthStage, AnyToAnyStage, Stage
    <3>2. IsFiniteSet(Card) BY GroupTestAssumption
    <3> QED BY <3>1, <3>2, FS_Subset, FS_CardinalityType
  <2> QED BY <2>1, <2>2, <2>3
<1>3. TrafficLcStage.cards = Card \ MiddleSlots /\ TrafficFcStage.cards = MiddleSlots
  BY SMT DEF TrafficLcStage, TrafficFcStage, Stage
<1>4. MiddleSlots \subseteq Card BY GroupTestAssumption
<1>5. \A stage \in Others : Head(<<stage>>) = stage /\ ~ (Len(<<stage>>) > 1)
  BY SMT
<1>6. \A stage, next \in Others :
        /\ Head(<<stage, next>>) = stage /\ <<stage, next>>[2] = next
        /\ Head(Tail(<<stage, next>>)) = next /\ Len(Tail(<<stage, next>>)) = 1
  BY SMT
<1>7. CASE \E stage \in Others : t = <<stage>>
  BY <1>1, <1>2, <1>5, <1>7
<1>8. CASE t = <<TrafficFcStage, TrafficLcStage>>
  <2>1. Head(t) = TrafficFcStage /\ t[2] = TrafficLcStage
    BY <1>6, <1>8
  <2> QED BY <1>1, <1>2, <1>3, <1>6, <1>8, <2>1
<1>9. CASE t = <<TrafficLcStage, TrafficFcStage>>
  <2>1. Head(t) = TrafficLcStage /\ t[2] = TrafficFcStage
    BY <1>6, <1>9
  <2>2. Card \ (Card \ MiddleSlots) = MiddleSlots BY <1>4
  <2> QED BY <1>1, <1>2, <1>3, <1>6, <1>9, <2>1, <2>2
<1> QED BY <1>7, <1>8, <1>9 DEF ResultLeft

(* A child that has a result stage under way. *)
LEMMA ResultRuns ==
  ASSUME GroupInv, NEW h \in Host, child[h] # Idle, ~ OfStatus(h)
  PROVE  /\ child[h] \in Child /\ child[h] \in Running /\ child[h].todo \in ResultLeft
         /\ child[h].id \in 1..MaxRequests /\ child[h].count \in Nat
         /\ child[h].result \in [Card -> NotReady..Success]
         /\ Now(h).kind \in ResultKind /\ Now(h).kind \notin StatusKind
         /\ Now(h).cards \subseteq Card
<1>1. child[h] \in Child BY DEF GroupInv
<1>2. child[h] \in Running /\ child[h].todo \in ResultLeft
  BY <1>1, ChildFacts DEF OfStatus, Now
<1>3. /\ child[h].id \in 1..MaxRequests /\ child[h].count \in Nat
      /\ child[h].result \in [Card -> NotReady..Success]
  BY <1>2, SMT DEF Running
<1> QED BY <1>1, <1>2, <1>3, ResultStageFacts DEF OfStatus, Now

(* The records after a step of the child of h. *)
LEMMA ChildNow ==
  ASSUME GroupInv, NEW h \in Host, NEW t, child' = [child EXCEPT ![h] = t]
  PROVE  child'[h] = t /\ \A x \in Host \ {h} : child'[x] = child[x]
BY DEF GroupInv

(* What is in the client socket of a host after an answer to its request. *)
LEMMA AnswerEntries ==
  ASSUME GroupInv, NEW h \in Host, NEW c \in Card, NEW m \in Request, m.from = h, NEW value,
         NEW r \in Given, r = [card |-> c, kind |-> m.kind, value |-> value],
         Answer(m, c, value), NEW i \in 1..Len(replies'[h])
  PROVE  \/ i \in 1..Len(replies[h]) /\ replies'[h][i] = replies[h][i]
         \/ i = Len(replies[h]) + 1 /\ replies'[h][i] = r
<1>1. replies \in [Host -> Seq(Given)] BY DEF GroupInv
<1>2. CASE replies' = replies BY <1>1, <1>2
<1>3. CASE replies' = [replies EXCEPT ![m.from] =
                         Put(@, [card |-> c, kind |-> m.kind, value |-> value])]
  <2>1. replies'[h] = Put(replies[h], r)
    BY <1>1, <1>3
  <2> QED BY <1>1, <2>1, PutEntries
<1> QED BY <1>2, <1>3 DEF Answer

-----------------------------------------------------------------------------
(* Alone, one lemma for each kind of step. *)

(* What the child of h sends is of its stage. *)
LEMMA PostAsked ==
  ASSUME GroupInv, NEW h \in Host, Asked(h), NEW targets \in SUBSET Now(h).cards,
         Now(h).cards \subseteq Card, NEW m \in Request, Post(targets, m),
         \A c \in targets : Asks(h, c, m)
  PROVE  \A c \in Card : \A i \in 1..Len(inbox'[c]) : Asks(h, c, inbox'[c][i])
<1> SUFFICES ASSUME NEW c \in Card, NEW i \in 1..Len(inbox'[c])
             PROVE  Asks(h, c, inbox'[c][i])
  OBVIOUS
<1>1. PICK S \in SUBSET targets :
        inbox' = [d \in Card |-> IF d \in S THEN Put(inbox[d], m) ELSE inbox[d]]
  BY DEF Post
<1>2. inbox[c] \in Seq(Request) BY DEF GroupInv
<1>3. \A j \in 1..Len(inbox[c]) : Asks(h, c, inbox[c][j]) BY DEF Asked
<1>4. CASE c \in S
  <2>1. inbox'[c] = Put(inbox[c], m) BY <1>1, <1>4
  <2>2. Asks(h, c, m) BY <1>4
  <2> QED BY <1>2, <1>3, <2>1, <2>2, PutEntries
<1>5. CASE c \notin S BY <1>1, <1>3, <1>5
<1> QED BY <1>4, <1>5

(* A step of the child in which it learns nothing. *)
LEMMA AloneMoves ==
  ASSUME GroupInv, NEW h \in Host, child[h] # Idle, ~ OfStatus(h), Alone(h),
         NEW t, child' = [child EXCEPT ![h] = t],
         t.id = child[h].id, t.todo = child[h].todo, t.count = child[h].count,
         t.strict = child[h].strict, t.first = child[h].first,
         \A c \in Card : \/ t.result[c] = child[h].result[c]
                         \/ /\ c \in Now(h).cards
                            /\ child[h].result[c] = NotReady /\ t.result[c] = Ready,
         busy' = busy, last' = last, ran' = ran, replies' = replies,
         \A c \in Card : \A i \in 1..Len(inbox'[c]) : Asks(h, c, inbox'[c][i])
  PROVE  Alone(h)'
<1> DEFINE s == child[h]
<1>1. child'[h] = t /\ \A x \in Host \ {h} : child'[x] = child[x] BY ChildNow
<1>2. Now(h)' = Now(h) BY <1>1 DEF Now
<1>3. s.todo \in ResultLeft /\ Now(h).cards \subseteq Card BY ResultRuns
<1>4. /\ Len(s.todo) > 1 => s.todo[2].cards = Card \ Now(h).cards
      /\ Member \subseteq Card
  BY <1>3, ResultStageFacts, GroupTestAssumption DEF Now
<1>5. \A c \in Card : /\ t.result[c] \in {Failed, Success} => t.result[c] = s.result[c]
                      /\ s.result[c] \in {Failed, Success} => t.result[c] = s.result[c]
                      /\ t.result[c] = Ack => s.result[c] = Ack
                      /\ c \notin Now(h).cards => t.result[c] = s.result[c]
  <2>1. Failed # NotReady /\ Failed # Ready /\ Success # NotReady /\ Success # Ready /\ Ack # Ready
    BY SMT DEF Failed, Success, NotReady, Ready, Ack
  <2> QED BY <2>1
<1> HIDE DEF s
<1>6. Sole(h)' BY <1>1 DEF Alone, Sole
<1>7. ASSUME NEW c \in Card, NEW r PROVE Asks(h, c, r)' <=> Asks(h, c, r)
  <2>1. child'[h].id = child[h].id /\ ran' = ran BY <1>1
  <2> QED BY <1>2, <2>1 DEF Asks
<1>8. Asked(h)' BY <1>7 DEF Asked
<1>9. Working(h)' BY <1>1, <1>7 DEF Alone, Working
<1>10. Told(h)' BY <1>1, <1>2 DEF Alone, Told, Tells
<1>11. Counted(h)'
  <2>1. \A c \in Now(h).cards : Learnt(h, c) BY DEF Alone, Counted
  <2>2. \A c \in Now(h).cards : Learnt(h, c)' BY <1>1, <1>3, <1>5, <2>1 DEF Learnt, s
  <2>3. Settled(h)' = Settled(h) BY <1>1, <1>2, <1>3, <1>5 DEF Settled, s
  <2> QED BY <1>1, <1>2, <2>2, <2>3 DEF Alone, Counted
<1>12. Ahead(h)' BY <1>1, <1>4, <1>5 DEF Alone, Ahead, s
<1>13. Behind(h)' BY <1>1, <1>2, <1>4, <1>5 DEF Alone, Behind, s
<1> QED BY <1>6, <1>8, <1>9, <1>10, <1>11, <1>12, <1>13 DEF Alone

LEMMA SendCommandAlone ==
  ASSUME GroupInv, NEW h \in Host, child[h] # Idle, Alone(h), SendCommand(h)
  PROVE  Alone(h)'
<1> DEFINE s == child[h]
           targets == {c \in Now(h).cards \cap Member : s.result[c] = NotReady}
           result == Marked(s.result, Now(h).cards)
           open == s.open \/ targets # {}
           t == [s EXCEPT !.phase = "collect", !.result = result, !.open = open]
           m == Ask(h, "command")
<1>1. ~ OfStatus(h) /\ s.phase # "idle" BY SMT DEF SendCommand, In
<1>2. s \in Running /\ Now(h).cards \subseteq Card BY <1>1, ResultRuns
<1>3. child' = [child EXCEPT ![h] = t] /\ Post(targets, m) BY DEF SendCommand
<1>4. targets \in SUBSET Now(h).cards OBVIOUS
<1>5. m \in Request /\ \A c \in targets : Asks(h, c, m)
  <2>1. m \in Request BY <1>1, AskTyped
  <2>2. "command" # "result" BY SMT
  <2> QED BY <2>1, <2>2, SMT DEF Asks, Ask
<1>6. \A c \in Card : \/ result[c] = s.result[c]
                      \/ c \in Now(h).cards /\ s.result[c] = NotReady /\ result[c] = Ready
  BY DEF Marked
<1> HIDE DEF result, open, targets, m
<1>7. /\ t.id = s.id /\ t.todo = s.todo /\ t.count = s.count
      /\ t.strict = s.strict /\ t.first = s.first /\ t.result = result
  BY <1>2, SMT DEF Running
<1>8. \A c \in Card : \A i \in 1..Len(inbox'[c]) : Asks(h, c, inbox'[c][i])
  BY <1>2, <1>3, <1>4, <1>5, PostAsked DEF Alone
<1>9. busy' = busy /\ last' = last /\ ran' = ran /\ replies' = replies BY DEF SendCommand
<1> HIDE DEF t
<1> QED BY <1>1, <1>3, <1>6, <1>7, <1>8, <1>9, AloneMoves

LEMMA SilenceAlone ==
  ASSUME GroupInv, NEW h \in Host, child[h] # Idle, ~ OfStatus(h), Alone(h), Silence(h)
  PROVE  Alone(h)'
<1> DEFINE s == child[h]
           missing == s.count < Now(h).count
           phase == IF missing /\ NextTry(s) < Now(h).tries THEN "send"
                    ELSE IF missing /\ ~ OfStatus(h) THEN "fetch"
                    ELSE "verdict"
           t == [s EXCEPT !.try = NextTry(s), !.phase = phase]
<1>1. s \in Running BY ResultRuns
<1>2. child' = [child EXCEPT ![h] = t] BY Zenon DEF Silence
<1> HIDE DEF phase
<1>3. /\ t.id = s.id /\ t.todo = s.todo /\ t.count = s.count
      /\ t.strict = s.strict /\ t.first = s.first /\ t.result = s.result
  BY <1>1, SMT DEF Running
<1> HIDE DEF t
<1>4. /\ busy' = busy /\ last' = last /\ ran' = ran /\ replies' = replies
      /\ inbox' = inbox
  BY DEF Silence, card
<1>5. \A c \in Card : \A i \in 1..Len(inbox'[c]) : Asks(h, c, inbox'[c][i])
  BY <1>4 DEF Alone, Asked
<1> QED BY <1>2, <1>3, <1>4, <1>5, AloneMoves

LEMMA FetchAlone ==
  ASSUME GroupInv, NEW h \in Host, child[h] # Idle, ~ OfStatus(h), Alone(h), Fetch(h)
  PROVE  Alone(h)'
<1> DEFINE s == child[h]
           t == [s EXCEPT !.phase = "late"]
           targets == {c \in Now(h).cards \cap Member : s.result[c] = Ack}
           m == Ask(h, "result")
<1>1. s.phase # "idle" BY SMT DEF Fetch, In
<1>2. s \in Child /\ Now(h).cards \subseteq Card BY ResultRuns
<1>3. child' = [child EXCEPT ![h] = t] /\ Post(targets, m) BY DEF Fetch
<1>4. targets \in SUBSET Now(h).cards OBVIOUS
<1>5. m \in Request /\ \A c \in targets : Asks(h, c, m)
  <2>1. m \in Request BY <1>1, AskTyped
  <2>2. \A c \in targets : <<s.id, c>> \in ran BY DEF Alone, Counted, Learnt
  <2> QED BY <2>1, <2>2, SMT DEF Asks, Ask
<1>6. /\ t.id = s.id /\ t.todo = s.todo /\ t.count = s.count
      /\ t.strict = s.strict /\ t.first = s.first /\ t.result = s.result
  BY <1>2, PhaseChild
<1> HIDE DEF t, targets, m
<1>7. \A c \in Card : \A i \in 1..Len(inbox'[c]) : Asks(h, c, inbox'[c][i])
  BY <1>2, <1>3, <1>4, <1>5, PostAsked DEF Alone
<1>8. busy' = busy /\ last' = last /\ ran' = ran /\ replies' = replies BY DEF Fetch
<1> QED BY <1>3, <1>6, <1>7, <1>8, AloneMoves

LEMMA LateSilenceAlone ==
  ASSUME GroupInv, NEW h \in Host, child[h] # Idle, ~ OfStatus(h), Alone(h), LateSilence(h)
  PROVE  Alone(h)'
<1> DEFINE t == [child[h] EXCEPT !.phase = "verdict"]
<1>1. child[h] \in Child BY ResultRuns
<1>2. child' = [child EXCEPT ![h] = t] BY DEF LateSilence
<1>3. /\ t.id = child[h].id /\ t.todo = child[h].todo /\ t.count = child[h].count
      /\ t.strict = child[h].strict /\ t.first = child[h].first
      /\ t.result = child[h].result
  BY <1>1, PhaseChild
<1> HIDE DEF t
<1>4. /\ busy' = busy /\ last' = last /\ ran' = ran /\ replies' = replies
      /\ inbox' = inbox
  BY DEF LateSilence, card
<1>5. \A c \in Card : \A i \in 1..Len(inbox'[c]) : Asks(h, c, inbox'[c][i])
  BY <1>4 DEF Alone, Asked
<1> QED BY <1>2, <1>3, <1>4, <1>5, AloneMoves

(* The child reads an answer: an acknowledgement, or a result that the     *)
(* card keeps.                                                             *)
LEMMA CollectAlone ==
  ASSUME GroupInv, NEW h \in Host, child[h] # Idle, ~ OfStatus(h), Alone(h), Collect(h)
  PROVE  Alone(h)'
<1> DEFINE s == child[h]
           r == Head(replies[h])
           t == WithResult(s, r)
<1>a. PICK q : q = Tail(replies[h]) OBVIOUS
<1>1. /\ s \in Child /\ s \in Running /\ s.todo \in ResultLeft /\ s.count \in Nat
      /\ s.result \in [Card -> NotReady..Success] /\ Now(h).cards \subseteq Card
  BY ResultRuns
<1>2. s.todo \notin StatusLeft BY <1>1, LeftFacts DEF OfStatus, Now
<1>3. replies[h] \in Seq(Given) /\ replies[h] # << >> BY DEF GroupInv, Collect
<1>4. /\ q \in Seq(Given) /\ r \in Given /\ r = replies[h][1] /\ 1 \in 1..Len(replies[h])
      /\ \A i \in 1..Len(q) : i + 1 \in 1..Len(replies[h]) /\ q[i] = replies[h][i + 1]
  BY <1>a, <1>3, TailEntries
<1>5. Tells(h, r) BY <1>4 DEF Alone, Told
<1>6. child' = [child EXCEPT ![h] = t]
  <2>1. r.kind = Now(h).kind BY <1>5 DEF Tells
  <2> QED BY <2>1 DEF Collect
<1>7. /\ t.id = s.id /\ t.todo = s.todo
      /\ t.result = [s.result EXCEPT ![r.card] = r.value]
  BY <1>1, <1>2, <1>4, WithResultChild
<1>8. /\ t.strict = s.strict /\ t.first = s.first
      /\ t.count = IF s.result[r.card] # r.value /\ r.value \in {Failed, Success}
                     THEN s.count + 1 ELSE s.count
  BY <1>1, SMT DEF WithResult, Running
<1>9. child'[h] = t /\ \A x \in Host \ {h} : child'[x] = child[x] BY <1>6, ChildNow
<1>10. Now(h)' = Now(h) BY <1>7, <1>9 DEF Now
<1>11. /\ replies'[h] = q
       /\ busy' = busy /\ last' = last /\ ran' = ran /\ inbox' = inbox
  BY <1>a DEF Collect, card, GroupInv
<1>12. r.card \in Now(h).cards /\ r.card \in Card /\ r.card \in Member
  BY <1>1, <1>4, <1>5 DEF Tells, Given
<1>13. /\ r.value = Ack \/ r.value \in {Failed, Success}
       /\ Ack \notin {Failed, Success}
  <2>1. last[r.card] \in {Failed, Success} BY <1>12 DEF GroupInv
  <2> QED BY <1>5, <2>1, SMT DEF Tells, Ack, Failed, Success
<1>14. /\ t.result[r.card] = r.value
       /\ \A c \in Card \ {r.card} : t.result[c] = s.result[c]
  BY <1>1, <1>7, <1>12
<1>15. /\ Len(s.todo) > 1 => s.todo[2].cards = Card \ Now(h).cards
       /\ Member \subseteq Card
  BY <1>1, ResultStageFacts, GroupTestAssumption DEF Now
<1> HIDE DEF s, t, r
<1>16. Sole(h)' BY <1>9 DEF Alone, Sole
<1>17. ASSUME NEW c \in Card, NEW m PROVE Asks(h, c, m)' <=> Asks(h, c, m)
  <2>1. child'[h].id = child[h].id /\ ran' = ran BY <1>7, <1>9, <1>11 DEF s
  <2> QED BY <1>10, <2>1 DEF Asks
<1>18. Asked(h)' BY <1>11, <1>17 DEF Alone, Asked
<1>19. Working(h)' BY <1>7, <1>9, <1>11, <1>17 DEF Alone, Working, s
<1>20. Told(h)'
  <2>1. ASSUME NEW i \in 1..Len(q) PROVE Tells(h, q[i])'
    <3>1. Tells(h, q[i]) BY <1>4 DEF Alone, Told
    <3>2. child'[h].id = child[h].id BY <1>7, <1>9 DEF s
    <3> QED BY <1>10, <1>11, <3>1, <3>2 DEF Tells
  <2>2. AckFirst(q)
    <3> SUFFICES ASSUME NEW i \in 1..Len(q), NEW j \in 1..Len(q), i < j,
                        q[i].card = q[j].card, q[i].value # Ack
                 PROVE  q[j].value # Ack
      BY DEF AckFirst
    <3>1. i + 1 < j + 1 BY SMT
    <3>2. AckFirst(replies[h]) BY DEF Alone, Told
    <3> QED BY <1>4, <3>1, <3>2 DEF AckFirst
  <2> QED BY <1>11, <2>1, <2>2 DEF Told, AckFirst
<1>21. Counted(h)'
  <2>1. \A c \in Now(h).cards : Learnt(h, c) BY DEF Alone, Counted
  <2>2. ASSUME NEW c \in Now(h).cards PROVE Learnt(h, c)'
    <3>1. CASE c # r.card
      <4>1. t.result[c] = s.result[c] BY <1>1, <1>14, <3>1
      <4>2. \A i \in 1..Len(q) : q[i].card = c /\ s.result[c] \in {Failed, Success} =>
              q[i].value # Ack
        BY <1>4, <2>1 DEF Learnt, s
      <4> QED BY <1>7, <1>9, <1>11, <2>1, <4>1, <4>2 DEF Learnt, s
    <3>2. CASE c = r.card
      <4>1. <<s.id, c>> \in ran BY <1>5, <3>2 DEF Tells, s
      <4>2. CASE r.value = Ack
        BY <1>7, <1>9, <1>11, <1>13, <1>14, <3>2, <4>1, <4>2 DEF Learnt, s
      <4>3. CASE r.value \in {Failed, Success}
        <5>1. busy[c] = Free /\ r.value = last[c] BY <1>5, <1>13, <3>2, <4>3 DEF Tells
        <5>2. ASSUME NEW i \in 1..Len(q), q[i].card = c PROVE q[i].value # Ack
          <6>1. 1 < i + 1 BY SMT
          <6>2. AckFirst(replies[h]) BY DEF Alone, Told
          <6> QED BY <1>4, <1>13, <3>2, <4>3, <5>2, <6>1, <6>2 DEF AckFirst
        <5> QED BY <1>7, <1>9, <1>11, <1>12, <1>14, <3>2, <4>1, <5>1, <5>2 DEF Learnt, s
      <4> QED BY <1>13, <4>2, <4>3
    <3> QED BY <3>1, <3>2
  <2>3. s.count = Cardinality(Settled(h)) BY DEF Alone, Counted, s
  <2>4. CASE s.result[r.card] = r.value
    <3>1. \A c \in Card : t.result[c] = s.result[c] BY <1>14, <2>4
    <3>2. Settled(h)' = Settled(h) BY <1>1, <1>9, <1>10, <3>1 DEF Settled, s
    <3> QED BY <1>8, <1>9, <1>10, <2>2, <2>3, <2>4, <3>2 DEF Counted
  <2>5. CASE s.result[r.card] # r.value
    <3>1. s.result[r.card] \notin {Failed, Success}
      <4>1. SUFFICES ASSUME s.result[r.card] \in {Failed, Success} PROVE FALSE
        OBVIOUS
      <4>2. Learnt(h, r.card) BY <1>12, <2>1
      <4>3. r.value # Ack /\ s.result[r.card] = last[r.card]
        BY <1>4, <4>1, <4>2 DEF Learnt, s
      <4> QED BY <1>5, <2>5, <4>3 DEF Tells
    <3>2. CASE r.value = Ack
      <4>1. Settled(h)' = Settled(h)
        BY <1>1, <1>9, <1>10, <1>13, <1>14, <3>1, <3>2 DEF Settled, s
      <4> QED BY <1>8, <1>9, <1>10, <1>13, <2>2, <2>3, <3>2, <4>1 DEF Counted
    <3>3. CASE r.value \in {Failed, Success}
      <4>1. Settled(h)' = Settled(h) \cup {r.card} /\ r.card \notin Settled(h)
        BY <1>1, <1>9, <1>10, <1>12, <1>14, <3>1, <3>3 DEF Settled, s
      <4>2. IsFiniteSet(Settled(h))
        BY <1>1, FS_Subset, GroupTestAssumption DEF Settled
      <4>3. Cardinality(Settled(h)') = s.count + 1
        BY <2>3, <4>1, <4>2, FS_AddElement
      <4> QED BY <1>8, <1>9, <1>10, <2>2, <2>5, <3>3, <4>3 DEF Counted
    <3> QED BY <1>13, <3>2, <3>3
  <2> QED BY <2>4, <2>5
<1>22. Ahead(h)'
  <2>1. Len(s.todo) > 1 => r.card \notin s.todo[2].cards BY <1>12, <1>15
  <2> QED BY <1>7, <1>9, <1>14, <1>15, <2>1 DEF Alone, Ahead, s
<1>23. Behind(h)'
  <2>1. \A c \in Member \ Now(h).cards : t.result[c] = s.result[c]
    BY <1>12, <1>14, <1>15
  <2> QED BY <1>8, <1>9, <1>10, <2>1 DEF Alone, Behind, s
<1> QED BY <1>16, <1>18, <1>19, <1>20, <1>21, <1>22, <1>23 DEF Alone

(* The stage after one that has come to its verdict: its cards have not    *)
(* been asked, and nothing is under way.                                   *)
LEMMA VerdictAlone ==
  ASSUME GroupInv, NEW h \in Host, child[h] # Idle, ~ OfStatus(h), Alone(h), Verdict(h),
         child'[h] # Idle, alone'[h]
  PROVE  Alone(h)'
<1> DEFINE s == child[h]
           t == [s EXCEPT !.phase = "send", !.todo = Tail(@), !.first = FALSE, !.count = 0,
                          !.failed = FALSE, !.try = 0, !.open = FALSE]
<1>1. /\ s \in Child /\ s \in Running /\ s.todo \in ResultLeft /\ s.count \in Nat
      /\ s.result \in [Card -> NotReady..Success] /\ Now(h).cards \subseteq Card
  BY ResultRuns
<1>2. GoesOn(s, Now(h))
  <2>1. SUFFICES ASSUME ~ GoesOn(s, Now(h)) PROVE FALSE OBVIOUS
  <2>2. child' = [child EXCEPT ![h] = Idle] BY <2>1 DEF Verdict
  <2>3. child'[h] = Idle BY <2>2, ChildNow
  <2> QED BY <2>3
<1>3. child' = [child EXCEPT ![h] = t] /\ alone' = [alone EXCEPT ![h] = @ /\ Quiet(h)]
  BY <1>2 DEF Verdict
<1>4. Quiet(h) BY <1>3 DEF GroupInv
<1>5. child'[h] = t BY <1>3, ChildNow
<1>6. /\ t.todo = Tail(s.todo) /\ t.result = s.result /\ t.count = 0
      /\ t.strict = s.strict /\ t.id = s.id
  BY <1>1, SMT DEF Running
<1>7. Len(s.todo) > 1 /\ ~ (s.strict /\ s.count < Now(h).count) BY <1>2 DEF GoesOn
<1>8. /\ s.todo[2].cards = Card \ Now(h).cards /\ Head(t.todo) = s.todo[2]
      /\ Len(t.todo) = 1 /\ Cardinality(Now(h).cards \cap Member) <= Now(h).count
      /\ Member \subseteq Card
  BY <1>1, <1>6, <1>7, ResultStageFacts, GroupTestAssumption DEF Now
<1> HIDE DEF s, t
<1>9. Now(h)' = s.todo[2] /\ Now(h)'.cards = Card \ Now(h).cards BY <1>5, <1>8 DEF Now
<1>10. /\ replies[h] = << >>
       /\ \A c \in Card : inbox[c] = << >> /\ busy[c] = Free
       /\ \A x \in Host \ {h} : child[x] = Idle
  BY <1>4 DEF Quiet
<1>11. replies' = replies /\ inbox' = inbox /\ busy' = busy BY DEF Verdict, card
<1>12. \A i \in 1..Len(<< >>) : FALSE BY SMT
<1>13. Sole(h)' BY <1>3, <1>10, ChildNow DEF Sole
<1>14. Asked(h)' BY <1>10, <1>11, <1>12 DEF Asked
<1>15. Working(h)' BY <1>10, <1>11 DEF Working
<1>16. Told(h)' BY <1>10, <1>11, <1>12 DEF Told, AckFirst
<1>17. \A c \in Now(h)'.cards : child'[h].result[c] = NotReady
  BY <1>5, <1>6, <1>7, <1>9 DEF Alone, Ahead, s
<1>18. NotReady \notin {Ack, Failed, Success} BY SMT DEF NotReady, Ack, Failed, Success
<1>19. Counted(h)'
  <2>1. \A c \in Now(h)'.cards : Learnt(h, c)' BY <1>17, <1>18 DEF Learnt
  <2>2. Settled(h)' = {} BY <1>17, <1>18 DEF Settled
  <2> QED BY <1>5, <1>6, <2>1, <2>2, FS_EmptySet DEF Counted
<1>20. Ahead(h)'
  <2>1. ~ (1 > 1) BY SMT
  <2> QED BY <1>5, <1>8, <2>1 DEF Ahead
<1>21. Behind(h)'
  <2>1. SUFFICES ASSUME s.strict, NEW c \in Member \cap Now(h).cards
                 PROVE  s.result[c] \in {Failed, Success}
    BY <1>5, <1>6, <1>8, <1>9 DEF Behind
  <2>2. Settled(h) \subseteq Now(h).cards \cap Member /\ s.count = Cardinality(Settled(h))
    BY DEF Alone, Counted, Learnt, Settled, s
  <2>3. IsFiniteSet(Now(h).cards \cap Member)
    BY <1>1, FS_Subset, GroupTestAssumption
  <2>4. /\ Cardinality(Settled(h)) <= Cardinality(Now(h).cards \cap Member)
        /\ Cardinality(Settled(h)) = Cardinality(Now(h).cards \cap Member) =>
             Settled(h) = Now(h).cards \cap Member
        /\ Cardinality(Settled(h)) \in Nat /\ Cardinality(Now(h).cards \cap Member) \in Nat
    BY <2>2, <2>3, FS_Subset, FS_CardinalityType
  <2>5. Now(h).count \in Nat BY <1>1, ResultStageFacts DEF Now, s
  <2>6. ~ (s.count < Now(h).count) BY <1>7, <2>1
  <2>7. Cardinality(Settled(h)) = Cardinality(Now(h).cards \cap Member)
    BY <1>8, <2>2, <2>4, <2>5, <2>6, SMT
  <2> QED BY <2>1, <2>4, <2>7 DEF Settled, s
<1> QED BY <1>13, <1>14, <1>15, <1>16, <1>19, <1>20, <1>21 DEF Alone

(* The first stage of a test that begins in quiet. *)
LEMMA AcceptAlone ==
  ASSUME GroupInv, NEW h \in Host, Accept(h), alone'[h], ~ OfStatus(h)'
  PROVE  Alone(h)'
<1> DEFINE Begun(kind, option) ==
             [phase |-> "send", id |-> requests + 1,
              strict |-> kind = "traffic" /\ Strict(option),
              todo |-> Stages(kind, option), first |-> TRUE, skip |-> ready[h],
              result |-> [c \in Card |-> NotReady], count |-> 0, failed |-> FALSE,
              try |-> 0, open |-> FALSE]
<1>1. \E kind \in Kinds : \E option \in (IF kind = "traffic" THEN Options ELSE {0}) :
        child' = [child EXCEPT ![h] = Begun(kind, option)]
  BY Zenon DEF Accept
<1>2. \A kind, option :
        /\ Begun(kind, option).first = TRUE /\ Begun(kind, option).count = 0
        /\ Begun(kind, option).result = [c \in Card |-> NotReady]
        /\ Begun(kind, option).phase # "idle"
  BY SMT
<1> HIDE DEF Begun
<1>3. PICK kind \in Kinds : \E option \in (IF kind = "traffic" THEN Options ELSE {0}) :
        child' = [child EXCEPT ![h] = Begun(kind, option)]
  BY <1>1, Zenon
<1>a. PICK option \in (IF kind = "traffic" THEN Options ELSE {0}) :
        child' = [child EXCEPT ![h] = Begun(kind, option)]
  BY <1>3, Zenon
<1>b. PICK t : t = Begun(kind, option) OBVIOUS
<1>4. /\ child' = [child EXCEPT ![h] = t]
      /\ t.first = TRUE /\ t.count = 0 /\ t.result = [c \in Card |-> NotReady]
      /\ t.phase # "idle"
  BY <1>2, <1>a, <1>b, Zenon
<1>5. child'[h] = t /\ \A x \in Host \ {h} : child'[x] = child[x] BY <1>4, ChildNow
<1>6. Quiet(h) BY DEF Accept
<1>7. /\ replies[h] = << >>
      /\ \A c \in Card : inbox[c] = << >> /\ busy[c] = Free
      /\ \A x \in Host \ {h} : child[x] = Idle
  BY <1>6 DEF Quiet
<1>8. replies' = replies /\ inbox' = inbox /\ busy' = busy BY DEF Accept, card
<1>9. \A i \in 1..Len(<< >>) : FALSE BY SMT
<1>10. child'[h] # Idle
  <2>1. Idle.phase = "idle" BY DEF Idle
  <2> QED BY <1>4, <1>5, <2>1
<1>11. GroupInv' BY AcceptKeeps
<1>12. t.todo \in ResultLeft
  <2>1. child'[h] \in Child BY <1>10, <1>11 DEF GroupInv
  <2> QED BY <1>5, <2>1, ChildFacts DEF OfStatus, Now
<1>13. /\ Now(h)'.cards \subseteq Card
       /\ Len(t.todo) > 1 => t.todo[2].cards \subseteq Card
  BY <1>5, <1>12, ResultStageFacts DEF Now
<1>14. \A c \in Card : child'[h].result[c] = NotReady BY <1>4, <1>5
<1>15. NotReady \notin {Ack, Failed, Success} BY SMT DEF NotReady, Ack, Failed, Success
<1>16. Sole(h)' BY <1>5, <1>7 DEF Sole
<1>17. Asked(h)' BY <1>7, <1>8, <1>9 DEF Asked
<1>18. Working(h)' BY <1>7, <1>8 DEF Working
<1>19. Told(h)' BY <1>7, <1>8, <1>9 DEF Told, AckFirst
<1>20. Counted(h)'
  <2>1. \A c \in Now(h)'.cards : Learnt(h, c)' BY <1>13, <1>14, <1>15 DEF Learnt
  <2>2. Settled(h)' = {} BY <1>13, <1>14, <1>15 DEF Settled
  <2> QED BY <1>4, <1>5, <2>1, <2>2, FS_EmptySet DEF Counted
<1>21. Ahead(h)' BY <1>5, <1>13, <1>14 DEF Ahead
<1>22. Behind(h)' BY <1>4, <1>5 DEF Behind
<1> QED BY <1>16, <1>17, <1>18, <1>19, <1>20, <1>21, <1>22 DEF Alone

(* A step of card c that serves the request m of the stage and answers     *)
(* with value, if at all.                                                  *)
LEMMA AloneServes ==
  ASSUME GroupInv, NEW h \in Host, child[h] # Idle, ~ OfStatus(h), Alone(h),
         NEW c \in Card, NEW m \in Request, m \in Delivered(c), Asks(h, c, m),
         NEW value \in {Ack, Failed, Success}, Answer(m, c, value),
         child' = child, Asked(h)', Working(h)',
         <<child[h].id, c>> \in ran', ran \subseteq ran',
         \A d \in Card \ {c} : busy'[d] = busy[d] /\ last'[d] = last[d],
         \A i \in 1..Len(replies[h]) : replies[h][i].card = c =>
           /\ replies[h][i].value = Ack \/ (busy'[c] = Free /\ replies[h][i].value = last'[c])
           /\ value = Ack => replies[h][i].value = Ack,
         value # Ack => busy'[c] = Free /\ value = last'[c],
         child[h].result[c] \in {Failed, Success} =>
           value # Ack /\ busy'[c] = Free /\ last'[c] = last[c]
  PROVE  Alone(h)'
<1>r. PICK r : r = [card |-> c, kind |-> m.kind, value |-> value] OBVIOUS
<1>1. /\ Now(h).cards \subseteq Card /\ Now(h).kind \in ResultKind
      /\ m.from = h /\ ~ m.byHand /\ m.kind = Now(h).kind /\ c \in Now(h).cards
  BY ResultRuns DEF Asks
<1>2. r \in Given
  <2>1. c \in Member BY <1>1 DEF Delivered
  <2>2. value \in 0..Success /\ value # NotReady
    BY SMT DEF NotReady, Ack, Failed, Success
  <2>3. r \in Reply BY <1>1, <1>r, <2>2 DEF Reply
  <2> QED BY <1>r, <2>1, <2>2, <2>3 DEF Given
<1>3. Now(h)' = Now(h) /\ Settled(h)' = Settled(h) BY DEF Now, Settled
<1>4. PICK p, q : p = replies[h] /\ q = replies'[h] OBVIOUS
<1>5. p \in Seq(Given) BY <1>4 DEF GroupInv
<1>6. ASSUME NEW i \in 1..Len(q)
      PROVE  \/ i \in 1..Len(p) /\ q[i] = p[i]
             \/ i = Len(p) + 1 /\ q[i].card = c /\ q[i].kind = m.kind /\ q[i].value = value
  <2>1. (i \in 1..Len(p) /\ q[i] = p[i]) \/ (i = Len(p) + 1 /\ q[i] = r)
    BY <1>1, <1>2, <1>4, <1>r, AnswerEntries
  <2> QED BY <1>r, <2>1
<1>7. \A i \in 1..Len(p) : Tells(h, p[i]) BY <1>4 DEF Alone, Told
<1>8. ASSUME NEW i \in 1..Len(q) PROVE Tells(h, q[i])'
  <2>1. CASE i = Len(p) + 1 /\ q[i].card = c /\ q[i].kind = m.kind /\ q[i].value = value
    BY <1>1, <1>3, <2>1 DEF Tells
  <2>2. CASE i \in 1..Len(p) /\ q[i] = p[i] /\ p[i].card = c
    <3>1. Tells(h, p[i]) BY <1>7, <2>2
    <3> QED BY <1>3, <1>4, <2>2, <3>1 DEF Tells
  <2>3. CASE i \in 1..Len(p) /\ q[i] = p[i] /\ p[i].card # c
    <3>1. Tells(h, p[i]) BY <1>7, <2>3
    <3>2. p[i].card \in Card BY <1>1, <3>1 DEF Tells
    <3> QED BY <1>3, <2>3, <3>1, <3>2 DEF Tells
  <2> QED BY <1>6, <2>1, <2>2, <2>3
<1>9. AckFirst(q)
  <2> SUFFICES ASSUME NEW i \in 1..Len(q), NEW j \in 1..Len(q), i < j,
                      q[i].card = q[j].card, q[i].value # Ack
               PROVE  q[j].value # Ack
    BY DEF AckFirst
  <2>1. Len(p) \in Nat BY <1>5, LenProperties
  <2>2. i # Len(p) + 1
    <3>1. j <= Len(p) + 1 BY <1>6, <2>1, SMT
    <3> QED BY <2>1, <3>1, SMT
  <2>3. i \in 1..Len(p) /\ q[i] = p[i] BY <1>6, <2>2
  <2>4. AckFirst(p) BY <1>4 DEF Alone, Told
  <2>5. CASE j \in 1..Len(p) /\ q[j] = p[j] BY <2>3, <2>4, <2>5 DEF AckFirst
  <2>6. CASE q[j].card = c /\ q[j].value = value
    <3>1. p[i].card = c /\ p[i].value # Ack BY <2>3, <2>6
    <3> QED BY <1>4, <2>3, <2>6, <3>1
  <2> QED BY <1>6, <2>5, <2>6
<1>10. Told(h)' BY <1>4, <1>8, <1>9 DEF Told, AckFirst
<1>11. ASSUME NEW d \in Now(h).cards PROVE Learnt(h, d)'
  <2>1. Learnt(h, d) BY DEF Alone, Counted
  <2>2. d \in Card BY <1>1
  <2>3. \A i \in 1..Len(q) : q[i].card = d /\ child[h].result[d] \in {Failed, Success} =>
          q[i].value # Ack
    BY <1>4, <1>6, <2>1 DEF Learnt
  <2>4. CASE d # c BY <1>4, <2>1, <2>2, <2>3, <2>4 DEF Learnt
  <2>5. CASE d = c BY <1>4, <2>1, <2>3, <2>5 DEF Learnt
  <2> QED BY <2>4, <2>5
<1>12. Counted(h)' BY <1>3, <1>11 DEF Alone, Counted
<1>13. Sole(h)' /\ Ahead(h)' /\ Behind(h)' BY <1>3 DEF Alone, Sole, Ahead, Behind
<1> QED BY <1>10, <1>12, <1>13 DEF Alone

(* What is left in the queues when card c has taken a request from its. *)
LEMMA ServedAsked ==
  ASSUME GroupInv, NEW h \in Host, Asked(h), NEW c \in Card, Serving(c), Served(c)
  PROVE  \A d \in Card : \A i \in 1..Len(inbox'[d]) : Asks(h, d, inbox'[d][i])
<1> SUFFICES ASSUME NEW d \in Card, NEW i \in 1..Len(inbox'[d])
             PROVE  Asks(h, d, inbox'[d][i])
  OBVIOUS
<1>1. /\ inbox[c] \in Seq(Request) /\ inbox[c] # << >>
      /\ inbox'[c] = Tail(inbox[c]) /\ \A e \in Card \ {c} : inbox'[e] = inbox[e]
  BY DEF GroupInv, Serving, Served
<1>2. CASE d = c
  <2>1. \A j \in 1..Len(Tail(inbox[c])) :
          j + 1 \in 1..Len(inbox[c]) /\ Tail(inbox[c])[j] = inbox[c][j + 1]
    BY <1>1, TailEntries
  <2>2. inbox'[d] = Tail(inbox[c]) BY <1>1, <1>2
  <2>3. i + 1 \in 1..Len(inbox[c]) /\ inbox'[d][i] = inbox[c][i + 1]
    BY <2>1, <2>2
  <2> QED BY <1>2, <2>3 DEF Asked
<1>3. CASE d # c BY <1>1, <1>3 DEF Asked
<1> QED BY <1>2, <1>3

LEMMA ServeCommandAlone ==
  ASSUME GroupInv, OnceInv, NEW h \in Host, child[h] # Idle, ~ OfStatus(h), Alone(h),
         NEW c \in Card, ServeCommand(c)
  PROVE  Alone(h)'
<1>m. PICK m : m = Head(inbox[c]) OBVIOUS
<1>1. /\ inbox[c] \in Seq(Request) /\ inbox[c] # << >> /\ busy[c] = Free /\ Sockets
  BY GroupParts DEF ServeCommand, Serving, Served, GroupInv, GroupCards
<1>2. m \in Request /\ m = inbox[c][1] /\ 1 \in 1..Len(inbox[c])
  BY <1>1, <1>m, TailEntries
<1>3. m \in Delivered(c) BY <1>1, <1>m, ServedTyped DEF ServeCommand
<1>4. Asks(h, c, m) BY <1>2 DEF Alone, Asked
<1>5. /\ Answer(m, c, Ack) /\ Begins(m) /\ child' = child /\ last' = last
      /\ busy' = [busy EXCEPT ![c] = m] /\ ran' = ran \cup {<<m.id, c>>}
  BY <1>m DEF ServeCommand, Begins
<1>6. <<m.id, c>> \notin ran BY <1>2, <1>5 DEF OnceInv, Single
<1>7. m.id = child[h].id /\ <<child[h].id, c>> \in ran' /\ ran \subseteq ran'
  BY <1>4, <1>5 DEF Asks
<1>8. \A d \in Card : \A n : Asks(h, d, n) => Asks(h, d, n)'
  BY <1>5, <1>7 DEF Asks, Now
<1>9. Asked(h)'
  <2>1. \A d \in Card : \A i \in 1..Len(inbox'[d]) : Asks(h, d, inbox'[d][i])
    BY ServedAsked DEF Alone, ServeCommand
  <2> QED BY <1>8, <2>1 DEF Asked
<1>10. busy'[c] = m /\ \A d \in Card \ {c} : busy'[d] = busy[d]
  BY <1>5 DEF GroupInv
<1>11. Working(h)'
  <2>1. ASSUME NEW d \in Card, busy'[d] # Free
        PROVE  Asks(h, d, busy[d])' /\ <<child'[h].id, d>> \in ran'
    <3>1. PICK b : b = busy'[d] OBVIOUS
    <3>2. Asks(h, d, b) /\ <<child[h].id, d>> \in ran'
      <4>1. CASE d = c BY <1>4, <1>7, <1>10, <3>1, <4>1
      <4>2. CASE d # c BY <1>7, <1>10, <2>1, <3>1, <4>2 DEF Alone, Working
      <4> QED BY <4>1, <4>2
    <3>3. Asks(h, d, b)' BY <1>8, <3>2
    <3> QED BY <1>5, <3>1, <3>2, <3>3
  <2> QED BY <2>1 DEF Working
<1>12. \A i \in 1..Len(replies[h]) : replies[h][i].card # c
  BY <1>6, <1>7 DEF Alone, Told, Tells
<1>13. child[h].result[c] \notin {Failed, Success}
  <2>1. c \in Now(h).cards BY <1>4 DEF Asks
  <2> QED BY <1>6, <1>7, <2>1 DEF Alone, Counted, Learnt
<1> QED BY <1>2, <1>3, <1>4, <1>5, <1>7, <1>9, <1>10, <1>11, <1>12, <1>13, AloneServes

LEMMA ServeResultAlone ==
  ASSUME GroupInv, NEW h \in Host, child[h] # Idle, ~ OfStatus(h), Alone(h),
         NEW c \in Card, ServeResult(c)
  PROVE  Alone(h)'
<1>m. PICK m : m = Head(inbox[c]) OBVIOUS
<1>1. /\ inbox[c] \in Seq(Request) /\ inbox[c] # << >> /\ busy[c] = Free /\ Sockets
  BY GroupParts DEF ServeResult, Serving, Served, GroupInv, GroupCards
<1>2. m \in Request /\ m = inbox[c][1] /\ 1 \in 1..Len(inbox[c])
  BY <1>1, <1>m, TailEntries
<1>3. m \in Delivered(c) BY <1>1, <1>m, ServedTyped DEF ServeResult
<1>4. Asks(h, c, m) BY <1>2 DEF Alone, Asked
<1>5. /\ Answer(m, c, last[c]) /\ m.ask = "result"
      /\ child' = child /\ last' = last /\ busy' = busy /\ ran' = ran
  BY <1>m DEF ServeResult
<1>6. <<child[h].id, c>> \in ran BY <1>4, <1>5 DEF Asks
<1>7. \A d \in Card : \A n : Asks(h, d, n) <=> Asks(h, d, n)'
  BY <1>5 DEF Asks, Now
<1>8. Asked(h)'
  <2>1. \A d \in Card : \A i \in 1..Len(inbox'[d]) : Asks(h, d, inbox'[d][i])
    BY ServedAsked DEF Alone, ServeResult
  <2> QED BY <1>7, <2>1 DEF Asked
<1>9. Working(h)' BY <1>5, <1>7 DEF Alone, Working
<1>10. \A i \in 1..Len(replies[h]) : replies[h][i].card = c =>
         replies[h][i].value = Ack \/ (busy'[c] = Free /\ replies[h][i].value = last'[c])
  BY <1>5 DEF Alone, Told, Tells
<1>11. last[c] \in {Failed, Success} /\ Ack \notin {Failed, Success}
  BY SMT DEF GroupInv, Ack, Failed, Success
<1> QED BY <1>1, <1>2, <1>3, <1>4, <1>5, <1>6, <1>8, <1>9, <1>10, <1>11, AloneServes

LEMMA FinishAlone ==
  ASSUME GroupInv, NEW h \in Host, child[h] # Idle, ~ OfStatus(h), Alone(h),
         NEW c \in Card, Finish(c)
  PROVE  Alone(h)'
<1>m. PICK m : m = busy[c] OBVIOUS
<1>1. m # Free /\ m \in Request /\ m \in Delivered(c) BY <1>m DEF Finish, GroupInv
<1>2. Asks(h, c, m) /\ <<child[h].id, c>> \in ran BY <1>1, <1>m DEF Alone, Working
<1>3. PICK value \in {Failed, Success} :
        last' = [last EXCEPT ![c] = value] /\ Answer(m, c, value)
  BY <1>m DEF Finish
<1>4. /\ busy' = [busy EXCEPT ![c] = Free] /\ child' = child /\ inbox' = inbox /\ ran' = ran
  BY DEF Finish
<1>5. /\ busy'[c] = Free /\ last'[c] = value
      /\ \A d \in Card \ {c} : busy'[d] = busy[d] /\ last'[d] = last[d]
  BY <1>3, <1>4 DEF GroupInv
<1>6. \A d \in Card : \A n : Asks(h, d, n) <=> Asks(h, d, n)'
  BY <1>4 DEF Asks, Now
<1>7. Asked(h)' BY <1>4, <1>6 DEF Alone, Asked
<1>8. Working(h)' BY <1>4, <1>5, <1>6 DEF Alone, Working
<1>9. \A i \in 1..Len(replies[h]) : replies[h][i].card = c => replies[h][i].value = Ack
  BY <1>1, <1>m DEF Alone, Told, Tells
<1>10. child[h].result[c] \notin {Failed, Success}
  <2>1. c \in Now(h).cards BY <1>2 DEF Asks
  <2> QED BY <1>1, <1>m, <2>1 DEF Alone, Counted, Learnt
<1>11. value # Ack BY SMT DEF Ack, Failed, Success
<1> QED BY <1>1, <1>2, <1>3, <1>4, <1>5, <1>7, <1>8, <1>9, <1>10, <1>11, AloneServes

(* No step makes a test of results out of a status test. *)
LEMMA StatusStays ==
  ASSUME GroupInv, NEW h \in Host, ChildStep(h), OfStatus(h), child'[h] # Idle
  PROVE  OfStatus(h)'
<1> DEFINE s == child[h]
<1>1. s.phase # "idle"
  BY SMT DEF ChildStep, SendStatus, SendCommand, Collect, Silence, Fetch, LateSilence,
    Verdict, In
<1>2. s \in Child /\ s \in Running /\ s.todo \in StatusLeft BY <1>1, ChildRuns, ChildFacts
<1>3. SUFFICES child'[h].todo = s.todo BY DEF OfStatus, Now
<1>4. CASE SendStatus(h)
  <2> DEFINE targets == {c \in Card \ {h} : s.result[c] # 1 /\ Sendable(h, c)}
             t == [s EXCEPT !.phase = "collect", !.result[h] = 1,
                            !.count = IF s.result[h] # 1 THEN @ + 1 ELSE @,
                            !.open = @ \/ targets # {}]
  <2>1. child' = [child EXCEPT ![h] = t] BY <1>4 DEF SendStatus
  <2> HIDE DEF targets
  <2>2. t.todo = s.todo BY <1>2, SMT DEF Running
  <2> HIDE DEF t
  <2> QED BY <2>1, <2>2, ChildNow
<1>5. CASE SendCommand(h) BY <1>5 DEF SendCommand
<1>6. CASE Collect(h)
  <2>1. replies[h] \in Seq(Given) /\ replies[h] # << >> BY <1>6 DEF GroupInv, Collect
  <2>2. Head(replies[h]) \in Given BY <2>1, TailEntries
  <2>3. CASE Head(replies[h]).kind = Now(h).kind
    <3>1. child' = [child EXCEPT ![h] = WithStatus(s, Head(replies[h]))]
      BY <1>6, <2>3 DEF Collect
    <3>2. child'[h] = WithStatus(s, Head(replies[h])) BY <3>1, ChildNow
    <3> QED BY <1>2, <2>2, <3>2, WithStatusChild
  <2>4. CASE Head(replies[h]).kind # Now(h).kind
    <3>1. child' = [child EXCEPT ![h] = s] BY <1>6, <2>4 DEF Collect
    <3> QED BY <3>1, ChildNow
  <2> QED BY <2>3, <2>4
<1>7. CASE Silence(h)
  <2> DEFINE missing == s.count < Now(h).count
             phase == IF missing /\ NextTry(s) < Now(h).tries THEN "send"
                      ELSE IF missing /\ ~ OfStatus(h) THEN "fetch"
                      ELSE "verdict"
             t == [s EXCEPT !.try = NextTry(s), !.phase = phase]
  <2>1. child' = [child EXCEPT ![h] = t] BY <1>7, Zenon DEF Silence
  <2> HIDE DEF phase
  <2>2. t.todo = s.todo BY <1>2, SMT DEF Running
  <2> HIDE DEF t
  <2> QED BY <2>1, <2>2, ChildNow
<1>8. CASE Fetch(h) \/ LateSilence(h)
  <2>1. PICK phase \in {"late", "verdict"} : child' = [child EXCEPT ![h] = [s EXCEPT !.phase = phase]]
    BY <1>8 DEF Fetch, LateSilence
  <2> QED BY <1>2, <2>1, PhaseChild, ChildNow
<1>9. CASE Verdict(h)
  <2>1. ~ GoesOn(s, Now(h)) BY <1>2, NextStageChild DEF Now
  <2>2. child' = [child EXCEPT ![h] = Idle] BY <1>9, <2>1 DEF Verdict
  <2> QED BY <2>2, ChildNow
<1> QED BY <1>4, <1>5, <1>6, <1>7, <1>8, <1>9 DEF ChildStep

LEMMA ChildStepAlone ==
  ASSUME GroupInv, AloneInv, NEW x \in Host, ChildStep(x),
         NEW h \in Host, child'[h] # Idle, ~ OfStatus(h)', alone'[h]
  PROVE  Alone(h)'
<1>1. child[x].phase # "idle" /\ child[x] # Idle
  <2>1. child[x].phase # "idle"
    BY SMT DEF ChildStep, SendStatus, SendCommand, Collect, Silence, Fetch, LateSilence,
      Verdict, In
  <2> QED BY <2>1, SMT DEF Idle
<1>2. \A y \in Host \ {x} : child'[y] = child[y]
  BY SMT DEF GroupInv, ChildStep, SendStatus, SendCommand, Collect, Silence, Fetch, LateSilence, Verdict
<1>3. alone'[h] => alone[h]
  BY Zenon DEF GroupInv, ChildStep, SendStatus, SendCommand, Collect, Silence, Fetch,
    LateSilence, Verdict
<1>4. CASE x # h
  <2>1. child'[h] = child[h] BY <1>2, <1>4
  <2>2. Alone(h) BY <1>3, <2>1 DEF AloneInv, OfStatus, Now
  <2> QED BY <1>1, <1>4, <2>2 DEF Alone, Sole
<1>5. CASE x = h
  <2>1. ~ OfStatus(h) BY <1>5, StatusStays
  <2>2. Alone(h) BY <1>1, <1>3, <1>5, <2>1 DEF AloneInv
  <2>3. ~ SendStatus(h) BY <2>1 DEF SendStatus
  <2> QED BY <1>1, <1>5, <2>1, <2>2, <2>3, SendCommandAlone, CollectAlone, SilenceAlone,
    FetchAlone, LateSilenceAlone, VerdictAlone DEF ChildStep
<1> QED BY <1>4, <1>5

LEMMA CardStepAlone ==
  ASSUME GroupInv, OnceInv, AloneInv, NEW c \in Card,
         \/ ServeStatus(c) \/ ServeCommand(c) \/ Finish(c) \/ ServeResult(c) \/ Restart(c),
         NEW h \in Host, child'[h] # Idle, ~ OfStatus(h)', alone'[h]
  PROVE  Alone(h)'
<1>1. ~ Restart(c) BY DEF Restart
<1>2. child' = child /\ alone' = alone
  BY <1>1 DEF ServeStatus, ServeCommand, Finish, ServeResult
<1>3. child[h] # Idle /\ ~ OfStatus(h) /\ Alone(h)
  BY <1>2 DEF AloneInv, OfStatus, Now
<1>4. ~ ServeStatus(c)
  <2>1. SUFFICES ASSUME ServeStatus(c) PROVE FALSE OBVIOUS
  <2>2. inbox[c] \in Seq(Request) /\ inbox[c] # << >>
    BY <2>1 DEF GroupInv, ServeStatus, Serving
  <2>3. Head(inbox[c]) = inbox[c][1] /\ 1 \in 1..Len(inbox[c]) BY <2>2, TailEntries
  <2>4. Head(inbox[c]).kind = Now(h).kind BY <1>3, <2>3 DEF Alone, Asked, Asks
  <2>5. Head(inbox[c]).kind \in StatusKind BY <2>1 DEF ServeStatus
  <2> QED BY <1>3, <2>4, <2>5 DEF OfStatus
<1> QED BY <1>1, <1>3, <1>4, ServeCommandAlone, ServeResultAlone, FinishAlone

LEMMA StillAlone ==
  ASSUME NEW h \in Host, Alone(h), UNCHANGED <<child, inbox, busy, last, replies, ran>>
  PROVE  Alone(h)'
BY DEF Alone, Sole, Asked, Working, Told, Counted, Ahead, Behind, Asks, Tells, Learnt,
  Settled, Now, AckFirst

LEMMA NextAlone == GroupInv /\ OnceInv /\ AloneInv /\ [Next]_vars => AloneInv'
<1> SUFFICES ASSUME GroupInv, OnceInv, AloneInv, [Next]_vars,
                    NEW h \in Host, child'[h] # Idle, ~ OfStatus(h)', alone'[h]
             PROVE  Alone(h)'
  BY DEF AloneInv
<1>1. ASSUME UNCHANGED <<child, inbox, busy, last, replies, ran, alone>>
      PROVE  Alone(h)'
  <2>1. Alone(h) BY <1>1 DEF AloneInv, OfStatus, Now
  <2> QED BY <1>1, <2>1, StillAlone
<1>2. CASE UNCHANGED vars BY <1>1, <1>2 DEF vars, card
<1>3. ASSUME NEW x \in Host, Accept(x) PROVE Alone(h)'
  <2>1. x = h BY <1>3 DEF Accept
  <2> QED BY <1>3, <2>1, AcceptAlone
<1>4. ASSUME NEW x \in Host, ChildStep(x) PROVE Alone(h)'
  BY <1>4, ChildStepAlone
<1>5. ASSUME NEW c \in Card,
             \/ ServeStatus(c) \/ ServeCommand(c) \/ Finish(c) \/ ServeResult(c) \/ Restart(c)
      PROVE  Alone(h)'
  BY <1>5, CardStepAlone
<1>6. ASSUME NEW c \in Card, NEW d \in Card, ByHand(d, c) \/ Forward(c, d) PROVE Alone(h)'
  <2>1. ~ ByHand(d, c) BY DEF ByHand
  <2> QED BY <1>1, <1>6, <2>1 DEF Forward
<1> QED BY <1>2, <1>3, <1>4, <1>5, <1>6 DEF Next
-----------------------------------------------------------------------------
(* Nothing but the stage under way is on its way, and what its child has   *)
(* counted is the cards whose result it has.                               *)
THEOREM AloneInvariant == Spec => []AloneInv
<1>1. Init => AloneInv BY DEF Init, AloneInv
<1>2. GroupInv /\ OnceInv /\ AloneInv /\ [Next]_vars => AloneInv' BY NextAlone
<1> QED BY <1>1, <1>2, GroupInvariant, OnceInvariant, PTL DEF Spec

(* A stage that nothing old or foreign has met and that counts as complete *)
(* has the result of every member it asked (tcp_server.c:1237).            *)
THEOREM ResultCompleteAlways == Spec => []ResultComplete
<1>1. GroupInv /\ AloneInv => ResultComplete
  <2> SUFFICES ASSUME GroupInv, AloneInv, NEW h \in Host,
                      In(h, "verdict"), ~ OfStatus(h), alone[h],
                      child[h].count >= Now(h).count, NEW c \in Now(h).cards \cap Member
               PROVE  child[h].result[c] \in {Failed, Success}
    BY DEF ResultComplete
  <2>1. child[h] # Idle BY SMT DEF In, Idle
  <2>2. Alone(h) BY <2>1 DEF AloneInv
  <2>3. child[h].todo \in ResultLeft BY <2>1, ResultRuns
  <2>4. /\ Cardinality(Now(h).cards \cap Member) <= Now(h).count /\ Now(h).count \in Nat
        /\ Now(h).cards \subseteq Card
    BY <2>3, ResultStageFacts DEF Now
  <2>5. Settled(h) \subseteq Now(h).cards \cap Member
        /\ child[h].count = Cardinality(Settled(h))
    BY <2>2 DEF Alone, Counted, Learnt, Settled
  <2>6. IsFiniteSet(Now(h).cards \cap Member)
    BY <2>4, FS_Subset, GroupTestAssumption
  <2>7. /\ Cardinality(Settled(h)) <= Cardinality(Now(h).cards \cap Member)
        /\ Cardinality(Settled(h)) = Cardinality(Now(h).cards \cap Member) =>
             Settled(h) = Now(h).cards \cap Member
        /\ Cardinality(Settled(h)) \in Nat /\ Cardinality(Now(h).cards \cap Member) \in Nat
    BY <2>5, <2>6, FS_Subset, FS_CardinalityType
  <2>8. Cardinality(Settled(h)) = Cardinality(Now(h).cards \cap Member)
    BY <2>4, <2>5, <2>7, SMT
  <2> QED BY <2>7, <2>8 DEF Settled
<1> QED BY <1>1, GroupInvariant, AloneInvariant, PTL

(* The second group of cards goes under burn-in only when every member of  *)
(* the first has told its result (tcp_server.c:1150 and 1168).             *)
THEOREM BurnInInOrderAlways == Spec => []BurnInInOrder
<1>1. GroupInv /\ AloneInv => BurnInInOrder
  <2> SUFFICES ASSUME GroupInv, AloneInv, NEW h \in Host, child[h] # Idle,
                      child[h].strict, ~ child[h].first, alone[h],
                      NEW c \in Member \ Now(h).cards
               PROVE  child[h].result[c] \in {Failed, Success}
    BY DEF BurnInInOrder
  <2>1. child[h] \in Child BY DEF GroupInv
  <2>2. child[h].todo \in ResultLeft BY <2>1, ChildFacts DEF Counting
  <2>3. ~ OfStatus(h)
    <3>1. Now(h).kind \in ResultKind BY <2>2, ResultStageFacts DEF Now
    <3> QED BY <3>1, SMT DEF OfStatus, StatusKind, ResultKind
  <2>4. Alone(h) BY <2>3 DEF AloneInv
  <2> QED BY <2>4 DEF Alone, Behind
<1> QED BY <1>1, GroupInvariant, AloneInvariant, PTL
=============================================================================
