----------------------------- MODULE ServiceProofs -----------------------------
(***************************************************************************)
(* The service script and the daemon, for any number of commands, daemons  *)
(* and crashes: one daemon at a time, none in a stopped service, and a     *)
(* daemon that serves is not disturbed by one that ends.                   *)
(***************************************************************************)
EXTENDS Service, SequenceTheorems, TLAPS

(* What may be left of a command. *)
StartLeft == {<<"touch">>, <<"fork", "touch">>, <<"running?", "fork", "touch">>,
              <<"locked?", "running?", "fork", "touch">>}
StopLeft == {<<"unlock">>, <<"term", "unlock">>}
RestartLeft ==
  {<<"unlock", "locked?", "running?", "fork", "touch">>,
   <<"term", "unlock", "locked?", "running?", "fork", "touch">>,
   <<"status?", "term", "unlock", "locked?", "running?", "fork", "touch">>}
Left == {<< >>, <<"usr1">>} \cup StartLeft \cup StopLeft \cup RestartLeft

NoneUp == \A p \in Pid : proc[p] \notin Up

(* The pid file names a daemon that has been written there and lives. *)
Named == {"written", "starting", "loop", "exiting", "unlinking"}

(* Where the script stands says what the lock file and the processes are:  *)
(* it forks only where no daemon is up and the pid file names no process.  *)
ScriptInv ==
  /\ ~ lock /\ ~ Doing("touch") => NoneUp
  /\ Doing("unlock") => NoneUp
  /\ Doing("running?") => ~ lock
  /\ Doing("fork") => ~ lock /\ Recorded = {}

(* If the pid file names a live process beside a daemon, it is that daemon.*)
DaemonInv ==
  /\ OneDaemon
  /\ \A p \in Pid : proc[p] \in Up => Recorded \subseteq {p}

ServesInv ==
  ~ early => \A p \in Pid : /\ proc[p] \in Named => pidfile = p
                            /\ proc[p] = "loop" => chip

ServiceInv == TypeOK /\ todo \in Left /\ ScriptInv /\ DaemonInv /\ ServesInv

-----------------------------------------------------------------------------
(* The lists of steps. *)

LEMMA Concatenation ==
  ASSUME NEW s \in Seq(Step), NEW t \in Seq(Step), NEW r \in Seq(Step),
         Len(r) = Len(s) + Len(t),
         \A i \in 1..Len(r) : r[i] = IF i <= Len(s) THEN s[i] ELSE t[i - Len(s)]
  PROVE  s \o t = r
<1>1. /\ s \o t \in Seq(Step) /\ Len(s \o t) = Len(s) + Len(t)
      /\ \A i \in 1..(Len(s) + Len(t)) :
           (s \o t)[i] = IF i <= Len(s) THEN s[i] ELSE t[i - Len(s)]
  BY ConcatProperties, Zenon
<1> DEFINE c == s \o t
<1> HIDE DEF c
<1>2. c \in Seq(Step) /\ Len(c) = Len(r) /\ \A i \in 1..Len(c) : c[i] = r[i]
  BY <1>1, Zenon DEF c
<1>3. c = r
  BY <1>2, SeqEqual, Zenon
<1> QED BY <1>3 DEF c

LEMMA RestartSteps ==
  StopSteps \o StartSteps =
    <<"term", "unlock", "locked?", "running?", "fork", "touch">>
<1> DEFINE r == <<"term", "unlock", "locked?", "running?", "fork", "touch">>
<1>1. StopSteps \in Seq(Step) /\ StartSteps \in Seq(Step) /\ r \in Seq(Step)
  BY SMT DEF StartSteps, StopSteps, Step
<1>2. /\ Len(r) = Len(StopSteps) + Len(StartSteps)
      /\ \A i \in 1..Len(r) :
           r[i] = IF i <= Len(StopSteps) THEN StopSteps[i]
                  ELSE StartSteps[i - Len(StopSteps)]
  BY SMT DEF StartSteps, StopSteps
<1> HIDE DEF r
<1>3. StopSteps \o StartSteps = r
  BY <1>1, <1>2, Concatenation, Zenon
<1> QED BY <1>3 DEF r

LEMMA TryRestartSteps ==
  <<"status?">> \o StopSteps \o StartSteps =
    <<"status?", "term", "unlock", "locked?", "running?", "fork", "touch">>
<1> DEFINE h == <<"status?">>
           s == <<"status?", "term", "unlock">>
           r == <<"status?", "term", "unlock", "locked?", "running?", "fork", "touch">>
<1>1. /\ h \in Seq(Step) /\ s \in Seq(Step) /\ r \in Seq(Step)
      /\ StopSteps \in Seq(Step) /\ StartSteps \in Seq(Step)
  BY SMT DEF StartSteps, StopSteps, Step
<1>2. /\ Len(s) = Len(h) + Len(StopSteps)
      /\ \A i \in 1..Len(s) :
           s[i] = IF i <= Len(h) THEN h[i] ELSE StopSteps[i - Len(h)]
  BY SMT DEF StopSteps
<1>3. /\ Len(r) = Len(s) + Len(StartSteps)
      /\ \A i \in 1..Len(r) :
           r[i] = IF i <= Len(s) THEN s[i] ELSE StartSteps[i - Len(s)]
  BY SMT DEF StartSteps
<1> HIDE DEF h, s, r
<1>4. h \o StopSteps = s
  BY <1>1, <1>2, Concatenation, Zenon
<1>5. s \o StartSteps = r
  BY <1>1, <1>3, Concatenation, Zenon
<1> QED BY <1>4, <1>5 DEF h, r

(* Every command leaves one of the lists, and begins with none of the      *)
(* steps that ScriptInv is about.                                          *)
LEMMA CommandSteps ==
  ASSUME NEW command \in Commands
  PROVE  /\ StepsOf(command) \in Left
         /\ StepsOf(command) # << >>
         /\ Head(StepsOf(command)) \in {"locked?", "term", "status?", "usr1"}
<1>1. command \in {"start", "stop", "restart", "try-restart", "burn-in"}
  BY ServiceAssumption
<1>2. CASE command = "start"
  BY <1>2, SMT DEF StepsOf, StartSteps, Left, StartLeft
<1>3. CASE command = "stop"
  BY <1>3, SMT DEF StepsOf, StopSteps, Left, StopLeft
<1>4. CASE command = "restart"
  <2>1. StepsOf(command) = <<"term", "unlock", "locked?", "running?", "fork", "touch">>
    BY <1>4, RestartSteps DEF StepsOf
  <2> QED BY <2>1, SMT DEF Left, RestartLeft
<1>5. CASE command = "try-restart"
  <2>1. StepsOf(command) =
          <<"status?", "term", "unlock", "locked?", "running?", "fork", "touch">>
    BY <1>5, TryRestartSteps DEF StepsOf
  <2> QED BY <2>1, SMT DEF Left, RestartLeft
<1>6. CASE command = "burn-in"
  BY <1>6, SMT DEF StepsOf, Left
<1> QED BY <1>1, <1>2, <1>3, <1>4, <1>5, <1>6

(* What a step leaves of the command, by the step. *)
LEMMA StepsLeft ==
  ASSUME todo \in Left
  PROVE  /\ Doing("usr1") \/ Doing("touch") => Tail(todo) = << >>
         /\ Doing("fork") => Tail(todo) = <<"touch">>
         /\ Doing("running?") => /\ Tail(todo) = <<"fork", "touch">>
                                /\ Tail(Tail(todo)) = <<"touch">>
         /\ Doing("locked?") => Tail(todo) = <<"running?", "fork", "touch">>
         /\ Doing("unlock") =>
              Tail(todo) \in {<< >>, <<"locked?", "running?", "fork", "touch">>}
         /\ Doing("term") =>
              Tail(todo) \in {<<"unlock">>,
                             <<"unlock", "locked?", "running?", "fork", "touch">>}
         /\ Doing("status?") =>
              Tail(todo) = <<"term", "unlock", "locked?", "running?", "fork", "touch">>
<1>1. CASE todo \in {<< >>, <<"usr1">>}
  <2>1. CASE todo = << >> BY <2>1, SMT DEF Doing
  <2>2. CASE todo = <<"usr1">> BY <2>2, SMT DEF Doing
  <2> QED BY <1>1, <2>1, <2>2
<1>2. CASE todo \in StartLeft
  <2>1. CASE todo = <<"touch">> BY <2>1, SMT DEF Doing
  <2>2. CASE todo = <<"fork", "touch">> BY <2>2, SMT DEF Doing
  <2>3. CASE todo = <<"running?", "fork", "touch">> BY <2>3, SMT DEF Doing
  <2>4. CASE todo = <<"locked?", "running?", "fork", "touch">> BY <2>4, SMT
    DEF Doing
  <2> QED BY <1>2, <2>1, <2>2, <2>3, <2>4 DEF StartLeft
<1>3. CASE todo \in StopLeft
  <2>1. CASE todo = <<"unlock">> BY <2>1, SMT DEF Doing
  <2>2. CASE todo = <<"term", "unlock">> BY <2>2, SMT DEF Doing
  <2> QED BY <1>3, <2>1, <2>2 DEF StopLeft
<1>4. CASE todo \in RestartLeft
  <2>1. CASE todo = <<"unlock", "locked?", "running?", "fork", "touch">>
    BY <2>1, SMT DEF Doing
  <2>2. CASE todo = <<"term", "unlock", "locked?", "running?", "fork", "touch">>
    BY <2>2, SMT DEF Doing
  <2>3. CASE todo = <<"status?", "term", "unlock", "locked?", "running?", "fork", "touch">>
    BY <2>3, SMT DEF Doing
  <2> QED BY <1>4, <2>1, <2>2, <2>3 DEF RestartLeft
<1> QED BY <1>1, <1>2, <1>3, <1>4 DEF Left

(* What comes next after a step, as ScriptInv asks. *)
LEMMA NextInLeft ==
  ASSUME todo \in Left, todo # << >>
  PROVE  Tail(todo) \in Left
<1>1. \E step \in Step : Doing(step)
  <2>1. CASE todo \in {<< >>, <<"usr1">>} BY <2>1, SMT DEF Doing, Step
  <2>2. CASE todo \in StartLeft BY <2>2, SMT DEF StartLeft, Doing, Step
  <2>3. CASE todo \in StopLeft BY <2>3, SMT DEF StopLeft, Doing, Step
  <2>4. CASE todo \in RestartLeft BY <2>4, SMT DEF RestartLeft, Doing, Step
  <2> QED BY <2>1, <2>2, <2>3, <2>4 DEF Left
<1> QED
  BY <1>1, StepsLeft, Zenon DEF Step, Left, StartLeft, StopLeft, RestartLeft

LEMMA LeftTyped == Left \subseteq Seq(Step)
<1>1. << >> \in Seq(Step) /\ <<"usr1">> \in Seq(Step)
  BY SMT DEF Step
<1>2. /\ <<"touch">> \in Seq(Step) /\ <<"fork", "touch">> \in Seq(Step)
      /\ <<"running?", "fork", "touch">> \in Seq(Step)
      /\ <<"locked?", "running?", "fork", "touch">> \in Seq(Step)
  BY SMT DEF Step
<1>3. <<"unlock">> \in Seq(Step) /\ <<"term", "unlock">> \in Seq(Step)
  BY SMT DEF Step
<1>4. /\ <<"unlock", "locked?", "running?", "fork", "touch">> \in Seq(Step)
      /\ <<"term", "unlock", "locked?", "running?", "fork", "touch">> \in Seq(Step)
      /\ <<"status?", "term", "unlock", "locked?", "running?", "fork", "touch">>
           \in Seq(Step)
  BY SMT DEF Step
<1> QED BY <1>1, <1>2, <1>3, <1>4, Zenon DEF Left, StartLeft, StopLeft,
  RestartLeft

-----------------------------------------------------------------------------
(* One lemma for each action.  For a step of the script: where it stands,  *)
(* and which of the steps ScriptInv is about comes next.                   *)

Watched == {"unlock", "running?", "fork", "touch"}

LEMMA CommandKeeps ==
  ASSUME ServiceInv, Command
  PROVE  ServiceInv'
<1>1. \A step \in Watched : ~ Doing(step) /\ ~ Doing(step)'
  BY CommandSteps, SMT DEF Command, Watched, Doing
<1>2. todo' \in Left
  BY CommandSteps DEF Command
<1>3. todo' \in Seq(Step)
  BY <1>2, LeftTyped
<1>4. TypeOK'
  BY <1>3, ServiceAssumption, SMT DEF ServiceInv, TypeOK, files, counts,
    Phase, Up, Command
<1>5. ScriptInv'
  BY <1>1, SMT DEF Watched, ServiceInv, ScriptInv, DaemonInv, OneDaemon,
    NoneUp, Up, Recorded, Alive, files, counts, Command
<1>6. DaemonInv'
  BY SMT DEF ServiceInv, TypeOK, ScriptInv, DaemonInv, OneDaemon, NoneUp, Up,
    Recorded, Alive, Doing, files, counts, Command
<1>7. ServesInv'
  BY SMT DEF ServiceInv, TypeOK, ScriptInv, DaemonInv, OneDaemon, ServesInv,
    Named, Up, Recorded, Alive, Doing, files, counts, Command
<1> QED BY <1>2, <1>4, <1>5, <1>6, <1>7 DEF ServiceInv

LEMMA CheckLockKeeps ==
  ASSUME ServiceInv, CheckLock
  PROVE  ServiceInv'
<1>1. Doing("locked?")
  BY DEF CheckLock
<1>2. todo' = IF lock THEN << >> ELSE <<"running?", "fork", "touch">>
  BY <1>1, StepsLeft DEF ServiceInv, CheckLock
<1>3. \A step \in Watched : Doing(step) <=> step = "locked?"
  BY <1>1 DEF Doing
<1>4. \A step \in Watched : Doing(step)' <=> step = "running?" /\ ~ lock
  BY <1>2, SMT DEF Watched, Doing
<1>5. todo' \in Left
  BY <1>2 DEF Left, StartLeft, StopLeft, RestartLeft
<1>6. todo' \in Seq(Step)
  BY <1>5, LeftTyped
<1>7. TypeOK'
  BY <1>6 DEF ServiceInv, TypeOK, files, counts, Phase, Up, CheckLock
<1>8. ScriptInv'
  BY <1>3, <1>4, SMT DEF Watched, ServiceInv, ScriptInv, DaemonInv, OneDaemon,
    NoneUp, Up, Recorded, Alive, files, counts, CheckLock
<1>9. DaemonInv'
  BY SMT DEF ServiceInv, TypeOK, ScriptInv, DaemonInv, OneDaemon, NoneUp, Up,
    Recorded, Alive, Doing, files, counts, CheckLock
<1>10. ServesInv'
  BY SMT DEF ServiceInv, TypeOK, ScriptInv, DaemonInv, OneDaemon, ServesInv,
    Named, Up, Recorded, Alive, Doing, files, counts, CheckLock
<1> QED BY <1>5, <1>7, <1>8, <1>9, <1>10 DEF ServiceInv

LEMMA CheckRunningKeeps ==
  ASSUME ServiceInv, CheckRunning
  PROVE  ServiceInv'
<1>1. Doing("running?")
  BY DEF CheckRunning
<1>2. todo' = IF Recorded = {} THEN <<"fork", "touch">> ELSE <<"touch">>
  BY <1>1, StepsLeft DEF ServiceInv, CheckRunning
<1>3. \A step \in Watched : Doing(step) <=> step = "running?"
  BY <1>1 DEF Doing
<1>4. \A step \in Watched :
        Doing(step)' <=> step = IF Recorded = {} THEN "fork" ELSE "touch"
  BY <1>2, SMT DEF Watched, Doing
<1>5. todo' \in Left
  BY <1>2 DEF Left, StartLeft, StopLeft, RestartLeft
<1>6. todo' \in Seq(Step)
  BY <1>5, LeftTyped
<1>7. TypeOK'
  BY <1>6 DEF ServiceInv, TypeOK, files, counts, Phase, Up, CheckRunning
<1>8. ScriptInv'
  BY <1>3, <1>4, SMT DEF Watched, ServiceInv, ScriptInv, DaemonInv, OneDaemon,
    NoneUp, Up, Recorded, Alive, files, counts, CheckRunning
<1>9. DaemonInv'
  BY SMT DEF ServiceInv, TypeOK, ScriptInv, DaemonInv, OneDaemon, NoneUp, Up,
    Recorded, Alive, Doing, files, counts, CheckRunning
<1>10. ServesInv'
  BY SMT DEF ServiceInv, TypeOK, ScriptInv, DaemonInv, OneDaemon, ServesInv,
    Named, Up, Recorded, Alive, Doing, files, counts, CheckRunning
<1> QED BY <1>5, <1>7, <1>8, <1>9, <1>10 DEF ServiceInv

LEMMA ForkKeeps ==
  ASSUME ServiceInv, Fork
  PROVE  ServiceInv'
<1>1. Doing("fork")
  BY DEF Fork
<1>2. todo' = <<"touch">>
  BY <1>1, StepsLeft DEF ServiceInv, Fork, Done
<1>3. \A step \in Watched : Doing(step) <=> step = "fork"
  BY <1>1 DEF Doing
<1>4. \A step \in Watched : Doing(step)' <=> step = "touch"
  BY <1>2, SMT DEF Watched, Doing
<1>5. todo' \in Left
  BY <1>2 DEF Left, StartLeft, StopLeft, RestartLeft
<1>6. todo' \in Seq(Step)
  BY <1>5, LeftTyped
<1>7. TypeOK'
  BY <1>6 DEF ServiceInv, TypeOK, files, counts, Phase, Up, Fork, Done
<1>8. ScriptInv'
  BY <1>3, <1>4, SMT DEF Watched, ServiceInv, ScriptInv, DaemonInv, OneDaemon,
    NoneUp, Up, Recorded, Alive, files, counts, Fork, Done
<1>9. DaemonInv'
  BY SMT DEF ServiceInv, TypeOK, ScriptInv, DaemonInv, OneDaemon, NoneUp, Up,
    Recorded, Alive, Doing, files, counts, Fork, Done
<1>10. ServesInv'
  BY SMT DEF ServiceInv, TypeOK, ScriptInv, DaemonInv, OneDaemon, ServesInv,
    Named, Up, Recorded, Alive, Doing, files, counts, Fork, Done
<1> QED BY <1>5, <1>7, <1>8, <1>9, <1>10 DEF ServiceInv

LEMMA TouchKeeps ==
  ASSUME ServiceInv, Touch
  PROVE  ServiceInv'
<1>1. Doing("touch")
  BY DEF Touch
<1>2. todo' = << >>
  BY <1>1, StepsLeft DEF ServiceInv, Touch, Done
<1>3. \A step \in Watched : Doing(step) <=> step = "touch"
  BY <1>1 DEF Doing
<1>4. \A step \in Watched : ~ Doing(step)'
  BY <1>2, SMT DEF Watched, Doing
<1>5. todo' \in Left
  BY <1>2 DEF Left, StartLeft, StopLeft, RestartLeft
<1>6. todo' \in Seq(Step)
  BY <1>5, LeftTyped
<1>7. TypeOK'
  BY <1>6 DEF ServiceInv, TypeOK, files, counts, Phase, Up, Touch, Done
<1>8. ScriptInv'
  BY <1>3, <1>4, SMT DEF Watched, ServiceInv, ScriptInv, DaemonInv, OneDaemon,
    NoneUp, Up, Recorded, Alive, files, counts, Touch, Done
<1>9. DaemonInv'
  BY SMT DEF ServiceInv, TypeOK, ScriptInv, DaemonInv, OneDaemon, NoneUp, Up,
    Recorded, Alive, Doing, files, counts, Touch, Done
<1>10. ServesInv'
  BY SMT DEF ServiceInv, TypeOK, ScriptInv, DaemonInv, OneDaemon, ServesInv,
    Named, Up, Recorded, Alive, Doing, files, counts, Touch, Done
<1> QED BY <1>5, <1>7, <1>8, <1>9, <1>10 DEF ServiceInv

LEMMA TermKeeps ==
  ASSUME ServiceInv, Term
  PROVE  ServiceInv'
<1>1. Doing("term")
  BY DEF Term
<1>2. todo' \in {<<"unlock">>,
                <<"unlock", "locked?", "running?", "fork", "touch">>}
  BY <1>1, StepsLeft DEF ServiceInv, Term, Done
<1>3. \A step \in Watched : Doing(step) <=> step = "term"
  BY <1>1 DEF Doing
<1>4. \A step \in Watched : Doing(step)' <=> step = "unlock"
  BY <1>2, SMT DEF Watched, Doing
<1>5. todo' \in Left
  BY <1>2 DEF Left, StartLeft, StopLeft, RestartLeft
<1>6. todo' \in Seq(Step)
  BY <1>5, LeftTyped
<1>7. TypeOK'
  BY <1>6 DEF ServiceInv, TypeOK, files, counts, Phase, Up, Term, Done, Found,
    Terminated
<1>8. ScriptInv'
  BY <1>3, <1>4, SMT DEF Watched, ServiceInv, ScriptInv, DaemonInv, OneDaemon,
    NoneUp, Up, Recorded, Alive, files, counts, Term, Done, Found, Terminated
<1>9. DaemonInv'
  BY SMT DEF ServiceInv, TypeOK, ScriptInv, DaemonInv, OneDaemon, NoneUp, Up,
    Recorded, Alive, Doing, files, counts, Term, Done, Found, Terminated
<1>10. ServesInv'
  <2>1. ~ early' => ~ early /\ \A p \in Found : proc[p] # "armed"
    BY DEF Term
  <2>2. \A p \in Pid : proc'[p] = IF p \in Found THEN Terminated(proc[p]) ELSE proc[p]
    BY DEF Term
  <2>3. pidfile' = pidfile /\ chip' = chip
    BY DEF Term, files
  <2>4. ASSUME ~ early', NEW p \in Pid, proc'[p] \in Named
        PROVE  proc[p] \in Named /\ (proc'[p] = "loop" => proc[p] = "loop")
    BY <2>1, <2>2, <2>4, SMT DEF ServiceInv, TypeOK, Phase, Up, Named,
      Terminated
  <2>5. ASSUME ~ early', NEW p \in Pid, proc'[p] \in Named
        PROVE  pidfile' = p /\ (proc'[p] = "loop" => chip')
    BY <2>1, <2>3, <2>4, <2>5 DEF ServiceInv, ServesInv
  <2>6. "loop" \in Named
    BY DEF Named
  <2> QED BY <2>5, <2>6 DEF ServesInv, Named
<1> QED BY <1>5, <1>7, <1>8, <1>9, <1>10 DEF ServiceInv

LEMMA UnlockKeeps ==
  ASSUME ServiceInv, Unlock
  PROVE  ServiceInv'
<1>1. Doing("unlock")
  BY DEF Unlock
<1>2. todo' \in {<< >>, <<"locked?", "running?", "fork", "touch">>}
  BY <1>1, StepsLeft DEF ServiceInv, Unlock, Done
<1>3. \A step \in Watched : Doing(step) <=> step = "unlock"
  BY <1>1 DEF Doing
<1>4. \A step \in Watched : ~ Doing(step)'
  BY <1>2, SMT DEF Watched, Doing
<1>5. todo' \in Left
  BY <1>2 DEF Left, StartLeft, StopLeft, RestartLeft
<1>6. todo' \in Seq(Step)
  BY <1>5, LeftTyped
<1>7. TypeOK'
  BY <1>6 DEF ServiceInv, TypeOK, files, counts, Phase, Up, Unlock, Done
<1>8. ScriptInv'
  BY <1>3, <1>4, SMT DEF Watched, ServiceInv, ScriptInv, DaemonInv, OneDaemon,
    NoneUp, Up, Recorded, Alive, files, counts, Unlock, Done
<1>9. DaemonInv'
  BY SMT DEF ServiceInv, TypeOK, ScriptInv, DaemonInv, OneDaemon, NoneUp, Up,
    Recorded, Alive, Doing, files, counts, Unlock, Done
<1>10. ServesInv'
  BY SMT DEF ServiceInv, TypeOK, ScriptInv, DaemonInv, OneDaemon, ServesInv,
    Named, Up, Recorded, Alive, Doing, files, counts, Unlock, Done
<1> QED BY <1>5, <1>7, <1>8, <1>9, <1>10 DEF ServiceInv

LEMMA CheckStatusKeeps ==
  ASSUME ServiceInv, CheckStatus
  PROVE  ServiceInv'
<1>1. Doing("status?")
  BY DEF CheckStatus
<1>2. todo' \in {<< >>,
                <<"term", "unlock", "locked?", "running?", "fork", "touch">>}
  BY <1>1, StepsLeft DEF ServiceInv, CheckStatus
<1>3. \A step \in Watched : Doing(step) <=> step = "status?"
  BY <1>1 DEF Doing
<1>4. \A step \in Watched : ~ Doing(step)'
  BY <1>2, SMT DEF Watched, Doing
<1>5. todo' \in Left
  BY <1>2 DEF Left, StartLeft, StopLeft, RestartLeft
<1>6. todo' \in Seq(Step)
  BY <1>5, LeftTyped
<1>7. TypeOK'
  BY <1>6 DEF ServiceInv, TypeOK, files, counts, Phase, Up, CheckStatus
<1>8. ScriptInv'
  BY <1>3, <1>4, SMT DEF Watched, ServiceInv, ScriptInv, DaemonInv, OneDaemon,
    NoneUp, Up, Recorded, Alive, files, counts, CheckStatus
<1>9. DaemonInv'
  BY SMT DEF ServiceInv, TypeOK, ScriptInv, DaemonInv, OneDaemon, NoneUp, Up,
    Recorded, Alive, Doing, files, counts, CheckStatus
<1>10. ServesInv'
  BY SMT DEF ServiceInv, TypeOK, ScriptInv, DaemonInv, OneDaemon, ServesInv,
    Named, Up, Recorded, Alive, Doing, files, counts, CheckStatus
<1> QED BY <1>5, <1>7, <1>8, <1>9, <1>10 DEF ServiceInv

LEMMA Usr1Keeps ==
  ASSUME ServiceInv, Usr1
  PROVE  ServiceInv'
<1>1. Doing("usr1")
  BY DEF Usr1
<1>2. todo' = << >>
  BY <1>1, StepsLeft DEF ServiceInv, Usr1, Done
<1>3. \A step \in Watched : Doing(step) <=> step = "usr1"
  BY <1>1 DEF Doing
<1>4. \A step \in Watched : ~ Doing(step)'
  BY <1>2, SMT DEF Watched, Doing
<1>5. todo' \in Left
  BY <1>2 DEF Left, StartLeft, StopLeft, RestartLeft
<1>6. todo' \in Seq(Step)
  BY <1>5, LeftTyped
<1>7. TypeOK'
  BY <1>6 DEF ServiceInv, TypeOK, files, counts, Phase, Up, Usr1, Done, Found
<1>8. ScriptInv'
  BY <1>3, <1>4, SMT DEF Watched, ServiceInv, ScriptInv, DaemonInv, OneDaemon,
    NoneUp, Up, Recorded, Alive, files, counts, Usr1, Done, Found
<1>9. DaemonInv'
  BY SMT DEF ServiceInv, TypeOK, ScriptInv, DaemonInv, OneDaemon, NoneUp, Up,
    Recorded, Alive, Doing, files, counts, Usr1, Done, Found
<1>10. ServesInv'
  BY SMT DEF ServiceInv, TypeOK, ScriptInv, DaemonInv, OneDaemon, ServesInv,
    Named, Up, Recorded, Alive, Doing, files, counts, Usr1, Done, Found
<1> QED BY <1>5, <1>7, <1>8, <1>9, <1>10 DEF ServiceInv

LEMMA ArmKeeps ==
  ASSUME NEW p \in Pid, ServiceInv, Arm(p)
  PROVE  ServiceInv'
<1>1. todo' \in Left
  BY DEF ServiceInv, Arm
<1>2. todo' \in Seq(Step)
  BY <1>1, LeftTyped
<1>3. TypeOK'
  BY <1>2 DEF ServiceInv, TypeOK, files, counts, Phase, Up, Arm, Becomes
<1>4. ScriptInv'
  BY SMT DEF Doing, ServiceInv, ScriptInv, DaemonInv, OneDaemon, NoneUp, Up,
    Recorded, Alive, files, counts, Arm, Becomes
<1>5. DaemonInv'
  BY SMT DEF ServiceInv, TypeOK, ScriptInv, DaemonInv, OneDaemon, NoneUp, Up,
    Recorded, Alive, Doing, files, counts, Arm, Becomes
<1>6. ServesInv'
  BY SMT DEF ServiceInv, TypeOK, ScriptInv, DaemonInv, OneDaemon, ServesInv,
    Named, Up, Recorded, Alive, Doing, files, counts, Arm, Becomes
<1> QED BY <1>1, <1>3, <1>4, <1>5, <1>6 DEF ServiceInv

LEMMA WritePidfileKeeps ==
  ASSUME NEW p \in Pid, ServiceInv, WritePidfile(p)
  PROVE  ServiceInv'
<1>1. todo' \in Left
  BY DEF ServiceInv, WritePidfile
<1>2. todo' \in Seq(Step)
  BY <1>1, LeftTyped
<1>3. TypeOK'
  BY <1>2 DEF ServiceInv, TypeOK, files, counts, Phase, Up, WritePidfile,
    Becomes, PidWritten
<1>4. ScriptInv'
  BY SMT DEF Doing, ServiceInv, ScriptInv, DaemonInv, OneDaemon, NoneUp, Up,
    Recorded, Alive, files, counts, WritePidfile, Becomes, PidWritten
<1>5. DaemonInv'
  BY SMT DEF ServiceInv, TypeOK, ScriptInv, DaemonInv, OneDaemon, NoneUp, Up,
    Recorded, Alive, Doing, files, counts, WritePidfile, Becomes, PidWritten
<1>6. ServesInv'
  BY SMT DEF ServiceInv, TypeOK, ScriptInv, DaemonInv, OneDaemon, ServesInv,
    Named, Up, Recorded, Alive, Doing, files, counts, WritePidfile, Becomes,
    PidWritten
<1> QED BY <1>1, <1>3, <1>4, <1>5, <1>6 DEF ServiceInv

LEMMA BlockSignalsKeeps ==
  ASSUME NEW p \in Pid, ServiceInv, BlockSignals(p)
  PROVE  ServiceInv'
<1>1. todo' \in Left
  BY DEF ServiceInv, BlockSignals
<1>2. todo' \in Seq(Step)
  BY <1>1, LeftTyped
<1>3. TypeOK'
  BY <1>2 DEF ServiceInv, TypeOK, files, counts, Phase, Up, BlockSignals,
    Becomes
<1>4. ScriptInv'
  BY SMT DEF Doing, ServiceInv, ScriptInv, DaemonInv, OneDaemon, NoneUp, Up,
    Recorded, Alive, files, counts, BlockSignals, Becomes
<1>5. DaemonInv'
  BY SMT DEF ServiceInv, TypeOK, ScriptInv, DaemonInv, OneDaemon, NoneUp, Up,
    Recorded, Alive, Doing, files, counts, BlockSignals, Becomes
<1>6. ServesInv'
  BY SMT DEF ServiceInv, TypeOK, ScriptInv, DaemonInv, OneDaemon, ServesInv,
    Named, Up, Recorded, Alive, Doing, files, counts, BlockSignals, Becomes
<1> QED BY <1>1, <1>3, <1>4, <1>5, <1>6 DEF ServiceInv

LEMMA InitialiseKeeps ==
  ASSUME NEW p \in Pid, ServiceInv, Initialise(p)
  PROVE  ServiceInv'
<1>1. todo' \in Left
  BY DEF ServiceInv, Initialise
<1>2. todo' \in Seq(Step)
  BY <1>1, LeftTyped
<1>3. TypeOK'
  BY <1>2 DEF ServiceInv, TypeOK, files, counts, Phase, Up, Initialise,
    Becomes
<1>4. ScriptInv'
  BY SMT DEF Doing, ServiceInv, ScriptInv, DaemonInv, OneDaemon, NoneUp, Up,
    Recorded, Alive, files, counts, Initialise, Becomes
<1>5. DaemonInv'
  BY SMT DEF ServiceInv, TypeOK, ScriptInv, DaemonInv, OneDaemon, NoneUp, Up,
    Recorded, Alive, Doing, files, counts, Initialise, Becomes
<1>6. ServesInv'
  BY SMT DEF ServiceInv, TypeOK, ScriptInv, DaemonInv, OneDaemon, ServesInv,
    Named, Up, Recorded, Alive, Doing, files, counts, Initialise, Becomes
<1> QED BY <1>1, <1>3, <1>4, <1>5, <1>6 DEF ServiceInv

LEMMA GiveUpKeeps ==
  ASSUME NEW p \in Pid, ServiceInv, GiveUp(p)
  PROVE  ServiceInv'
<1>1. todo' \in Left
  BY DEF ServiceInv, GiveUp
<1>2. todo' \in Seq(Step)
  BY <1>1, LeftTyped
<1>3. TypeOK'
  BY <1>2 DEF ServiceInv, TypeOK, files, counts, Phase, Up, GiveUp, Becomes
<1>4. ScriptInv'
  BY SMT DEF Doing, ServiceInv, ScriptInv, DaemonInv, OneDaemon, NoneUp, Up,
    Recorded, Alive, files, counts, GiveUp, Becomes
<1>5. DaemonInv'
  BY SMT DEF ServiceInv, TypeOK, ScriptInv, DaemonInv, OneDaemon, NoneUp, Up,
    Recorded, Alive, Doing, files, counts, GiveUp, Becomes
<1>6. ServesInv'
  BY SMT DEF ServiceInv, TypeOK, ScriptInv, DaemonInv, OneDaemon, ServesInv,
    Named, Up, Recorded, Alive, Doing, files, counts, GiveUp, Becomes
<1> QED BY <1>1, <1>3, <1>4, <1>5, <1>6 DEF ServiceInv

LEMMA DisableKeeps ==
  ASSUME NEW p \in Pid, ServiceInv, Disable(p)
  PROVE  ServiceInv'
<1>1. todo' \in Left
  BY DEF ServiceInv, Disable
<1>2. todo' \in Seq(Step)
  BY <1>1, LeftTyped
<1>3. TypeOK'
  BY <1>2 DEF ServiceInv, TypeOK, files, counts, Phase, Up, Disable, Becomes
<1>4. ScriptInv'
  BY SMT DEF Doing, ServiceInv, ScriptInv, DaemonInv, OneDaemon, NoneUp, Up,
    Recorded, Alive, files, counts, Disable, Becomes
<1>5. DaemonInv'
  BY SMT DEF ServiceInv, TypeOK, ScriptInv, DaemonInv, OneDaemon, NoneUp, Up,
    Recorded, Alive, Doing, files, counts, Disable, Becomes
<1>6. ServesInv'
  BY SMT DEF ServiceInv, TypeOK, ScriptInv, DaemonInv, OneDaemon, ServesInv,
    Named, Up, Recorded, Alive, Doing, files, counts, Disable, Becomes
<1> QED BY <1>1, <1>3, <1>4, <1>5, <1>6 DEF ServiceInv

LEMMA UnlinkKeeps ==
  ASSUME NEW p \in Pid, ServiceInv, Unlink(p)
  PROVE  ServiceInv'
<1>1. todo' \in Left
  BY DEF ServiceInv, Unlink
<1>2. todo' \in Seq(Step)
  BY <1>1, LeftTyped
<1>3. TypeOK'
  BY <1>2 DEF ServiceInv, TypeOK, files, counts, Phase, Up, Unlink, Becomes
<1>4. ScriptInv'
  BY ServiceAssumption, SMT DEF TypeOK, Doing, ServiceInv, ScriptInv,
    DaemonInv, OneDaemon, NoneUp, Up, Recorded, Alive, files, counts, Unlink,
    Becomes
<1>5. DaemonInv'
  BY ServiceAssumption, SMT DEF ServiceInv, TypeOK, ScriptInv, DaemonInv,
    OneDaemon, NoneUp, Up, Recorded, Alive, Doing, files, counts, Unlink,
    Becomes
<1>6. ServesInv'
  BY SMT DEF ServiceInv, TypeOK, ScriptInv, DaemonInv, OneDaemon, ServesInv,
    Named, Up, Recorded, Alive, Doing, files, counts, Unlink, Becomes
<1> QED BY <1>1, <1>3, <1>4, <1>5, <1>6 DEF ServiceInv

LEMMA CrashKeeps ==
  ASSUME NEW p \in Pid, ServiceInv, Crash(p)
  PROVE  ServiceInv'
<1>1. todo' \in Left
  BY DEF ServiceInv, Crash
<1>2. todo' \in Seq(Step)
  BY <1>1, LeftTyped
<1>3. TypeOK'
  BY <1>2, ServiceAssumption, SMT DEF ServiceInv, TypeOK, files, counts,
    Phase, Up, Crash, Becomes
<1>4. ScriptInv'
  BY SMT DEF Doing, ServiceInv, ScriptInv, DaemonInv, OneDaemon, NoneUp, Up,
    Recorded, Alive, files, counts, Crash, Becomes
<1>5. DaemonInv'
  BY SMT DEF ServiceInv, TypeOK, ScriptInv, DaemonInv, OneDaemon, NoneUp, Up,
    Recorded, Alive, Doing, files, counts, Crash, Becomes
<1>6. ServesInv'
  BY SMT DEF ServiceInv, TypeOK, ScriptInv, DaemonInv, OneDaemon, ServesInv,
    Named, Up, Recorded, Alive, Doing, files, counts, Crash, Becomes
<1> QED BY <1>1, <1>3, <1>4, <1>5, <1>6 DEF ServiceInv

LEMMA InitKeeps == Init => ServiceInv
<1> SUFFICES ASSUME Init PROVE ServiceInv
  OBVIOUS
<1>1. TypeOK
  <2>1. todo \in Seq(Step)
    BY LeftTyped DEF Init, Left
  <2>2. proc \in [Pid -> Phase]
    BY SMT DEF Init, Phase
  <2>3. commands \in 0..MaxCommands /\ crashes \in 0..MaxCrashes
    BY ServiceAssumption, SMT DEF Init
  <2> QED BY <2>1, <2>2, <2>3 DEF Init, TypeOK
<1>2. todo \in Left
  BY DEF Init, Left
<1>3. ScriptInv /\ DaemonInv
  BY SMT DEF Init, ScriptInv, DaemonInv, OneDaemon, NoneUp, Up, Doing
<1>4. ServesInv
  BY SMT DEF Init, ServesInv, Named
<1> QED BY <1>1, <1>2, <1>3, <1>4 DEF ServiceInv

LEMMA NextKeeps == ServiceInv /\ [Next]_vars => ServiceInv'
<1> SUFFICES ASSUME ServiceInv, [Next]_vars PROVE ServiceInv'
  OBVIOUS
<1>1. CASE Command BY <1>1, CommandKeeps
<1>2. CASE ScriptStep
  BY <1>2, CheckLockKeeps, CheckRunningKeeps, ForkKeeps, TouchKeeps,
    TermKeeps, UnlockKeeps, CheckStatusKeeps, Usr1Keeps DEF ScriptStep
<1>3. ASSUME NEW p \in Pid, DaemonStep(p) \/ Crash(p) PROVE ServiceInv'
  BY <1>3, ArmKeeps, WritePidfileKeeps, BlockSignalsKeeps, InitialiseKeeps,
    GiveUpKeeps, DisableKeeps, UnlinkKeeps, CrashKeeps DEF DaemonStep
<1>4. CASE UNCHANGED vars
  BY <1>4, Zenon DEF vars, files, counts, ServiceInv, TypeOK, ScriptInv,
    DaemonInv, OneDaemon, ServesInv, NoneUp, Recorded, Alive, Doing
<1> QED BY <1>1, <1>2, <1>3, <1>4 DEF Next

-----------------------------------------------------------------------------
(* The inductive invariant.  OneDaemon needs all of it: a start has seen   *)
(* neither lock file nor live pid file, which keeps a second daemon away   *)
(* only because a daemon is up only under the lock (or just before it is   *)
(* touched), and because a stop, which trusts the pid file first, never    *)
(* finds another live process named there than the one daemon.             *)
THEOREM ServiceInvariant == Spec => []ServiceInv
<1>1. Init => ServiceInv BY InitKeeps
<1>2. ServiceInv /\ [Next]_vars => ServiceInv' BY NextKeeps
<1> QED BY <1>1, <1>2, PTL DEF Spec

(* Every reachable state is of the declared types, however many commands.  *)
THEOREM ServiceTyping == Spec => []TypeOK
<1>1. ServiceInv => TypeOK BY DEF ServiceInv
<1> QED BY <1>1, ServiceInvariant, PTL

(* No sequence of commands, deaths and failed starts brings up a second    *)
(* daemon beside one that has not been told to end (functions, daemon()).  *)
THEOREM OneDaemonAlways == Spec => []OneDaemon
<1>1. ServiceInv => OneDaemon BY DEF ServiceInv, DaemonInv
<1> QED BY <1>1, ServiceInvariant, PTL

(* Stop leaves no daemon behind, however early in its start it met it      *)
(* (functions, killproc and __pids_pidof).                                 *)
THEOREM UnlockedIsStoppedAlways == Spec => []UnlockedIsStopped
<1>1. ServiceInv => UnlockedIsStopped
  BY Zenon DEF ServiceInv, ScriptInv, UnlockedIsStopped, NoneUp, Doing
<1> QED BY <1>1, ServiceInvariant, PTL

(* The end of one daemon, its system() and its unlink (chassis.c:112-140), *)
(* does not meet the next one in its event loop.                           *)
THEOREM ServesUndisturbedAlways == Spec => []ServesUndisturbed
<1>1. "loop" \in Named BY DEF Named
<1>2. ServiceInv => ServesUndisturbed
  BY <1>1, Zenon DEF ServiceInv, ServesInv, ServesUndisturbed
<1> QED BY <1>2, ServiceInvariant, PTL
=============================================================================
