------------------------------- MODULE Service -------------------------------
(***************************************************************************)
(* The life of the daemon's process on one card: the service script        *)
(* chassisd with its function library (functions), the pid file and the    *)
(* lock file they share, and the start and end of the process (chassis.c). *)
(*                                                                         *)
(* Commands are given one at a time, each a list of steps; the daemon goes *)
(* through its start, or through its signal handler, meanwhile.  A signal  *)
(* that the daemon has blocked (SIGUSR1 and its like, once its handlers    *)
(* are installed) is never delivered, and has no effect here.              *)
(***************************************************************************)
EXTENDS Integers, Sequences, FiniteSets

CONSTANTS
  Pid,           \* process ids for daemons; the id before is their parent's
  Commands,      \* the commands of the script in use
  MaxCommands,   \* bound on the commands given
  MaxCrashes,    \* bound on the daemons that are killed or crash
  IpMayFail      \* TRUE when the interfaces of a card may be missing

ASSUME ServiceAssumption ==
  /\ Pid \subseteq Nat \ {0} /\ IsFiniteSet(Pid)
  /\ MaxCommands \in Nat /\ MaxCommands <= Cardinality(Pid)
  /\ MaxCrashes \in Nat /\ IpMayFail \in BOOLEAN
  /\ Commands \subseteq {"start", "stop", "restart", "try-restart", "burn-in"}

VARIABLES
  proc,          \* the phase of each process
  pidfile,       \* the pid in /var/run/chassis.pid, 0 when there is no file
  lock,          \* whether /var/lock/subsys/chassisd is there
  chip,          \* whether the card's switch chip is enabled
  todo,          \* what is left to do of the running command
  commands,      \* commands given so far
  crashes,       \* crashes so far
  early          \* history: a daemon was stopped before it wrote its pid file

files == <<pidfile, lock>>
counts == <<commands, crashes>>
vars == <<proc, files, chip, todo, counts, early>>

(* "forked" until the handler of SIGTERM is there, "armed" until the pid   *)
(* file is, "written" until SIGUSR1 is blocked, "starting" up to the event *)
(* loop; "exiting" in chassis_signal_exit up to the end of its system(),   *)
(* "unlinking" after it.                                                   *)
Up == {"forked", "armed", "written", "starting", "loop"}
Phase == {"unborn", "exiting", "unlinking", "dead"} \cup Up

Step == {"locked?", "running?", "fork", "touch", "term", "unlock", "status?", "usr1"}

TypeOK ==
  /\ proc \in [Pid -> Phase]
  /\ pidfile \in Pid \cup {0} /\ lock \in BOOLEAN /\ chip \in BOOLEAN
  /\ todo \in Seq(Step)
  /\ commands \in 0..MaxCommands /\ crashes \in 0..MaxCrashes
  /\ early \in BOOLEAN

-----------------------------------------------------------------------------
(* The commands (chassisd). *)

(* Mutants: no look at the lock file; no look at the pid file. *)
StartStepsUnlocked == << "running?", "fork", "touch" >>
StartStepsUnchecked == << "locked?", "fork", "touch" >>

StartSteps == << "locked?", "running?", "fork", "touch" >>

(* Mutant: the lock file stays. *)
StopStepsLocked == << "term" >>

StopSteps == << "term", "unlock" >>

StepsOf(command) ==
  CASE command = "start"       -> StartSteps
    [] command = "stop"        -> StopSteps
    [] command = "restart"     -> StopSteps \o StartSteps
    [] command = "try-restart" -> << "status?" >> \o StopSteps \o StartSteps
    [] command = "burn-in"     -> << "usr1" >>

Alive == {p \in Pid : proc[p] \notin {"unborn", "dead"}}

(* __pids_var_run: the process the pid file names, if there is one. *)
Recorded == {pidfile} \cap Alive

(* Mutant: the process table is not searched. *)
FoundRecorded == Recorded

(* killproc, status: that one, or else every process of the program. *)
Found == IF Recorded # {} THEN Recorded ELSE Alive

Command ==
  /\ todo = << >> /\ commands < MaxCommands
  /\ \E command \in Commands : todo' = StepsOf(command)
  /\ commands' = commands + 1
  /\ UNCHANGED <<proc, files, chip, crashes, early>>

Doing(step) == todo # << >> /\ Head(todo) = step
Done == todo' = Tail(todo)

(* if [ -f $LOCKFILE ]; then exit 0 *)
CheckLock ==
  /\ Doing("locked?")
  /\ todo' = IF lock THEN << >> ELSE Tail(todo)
  /\ UNCHANGED <<proc, files, chip, counts, early>>

(* daemon() returns when the pid file names a process; the script goes on  *)
(* to touch the lock file.                                                 *)
CheckRunning ==
  /\ Doing("running?")
  /\ todo' = IF Recorded # {} THEN Tail(Tail(todo)) ELSE Tail(todo)
  /\ UNCHANGED <<proc, files, chip, counts, early>>

(* main's parent exits as soon as it has forked. *)
Fork ==
  /\ Doing("fork") /\ Done
  /\ \E p \in Pid : proc[p] = "unborn" /\ proc' = [proc EXCEPT ![p] = "forked"]
  /\ UNCHANGED <<files, chip, counts, early>>

Touch ==
  /\ Doing("touch") /\ Done
  /\ lock' = TRUE
  /\ UNCHANGED <<proc, pidfile, chip, counts, early>>

(* What SIGTERM does to a process: nothing while its handler runs. *)
Terminated(phase) ==
  CASE phase = "forked"                                     -> "dead"
    [] phase \in {"armed", "written", "starting", "loop"}   -> "exiting"
    [] OTHER                                                -> phase

Term ==
  /\ Doing("term") /\ Done
  /\ proc' = [p \in Pid |-> IF p \in Found THEN Terminated(proc[p]) ELSE proc[p]]
  /\ early' = (early \/ \E p \in Found : proc[p] = "armed")
  /\ UNCHANGED <<files, chip, counts>>

Unlock ==
  /\ Doing("unlock") /\ Done
  /\ lock' = FALSE
  /\ UNCHANGED <<proc, pidfile, chip, counts, early>>

CheckStatus ==
  /\ Doing("status?")
  /\ todo' = IF Found = {} THEN << >> ELSE Tail(todo)
  /\ UNCHANGED <<proc, files, chip, counts, early>>

(* SIGUSR1 ends a process that has not installed its handler yet. *)
Usr1 ==
  /\ Doing("usr1") /\ Done
  /\ proc' = [p \in Pid |-> IF p \in Found /\ proc[p] \in {"forked", "armed", "written"}
                              THEN "dead" ELSE proc[p]]
  /\ UNCHANGED <<files, chip, counts, early>>

ScriptStep ==
  CheckLock \/ CheckRunning \/ Fork \/ Touch \/ Term \/ Unlock \/ CheckStatus \/ Usr1

-----------------------------------------------------------------------------
(* The daemon (chassis.c). *)

Becomes(p, phase) == proc' = [proc EXCEPT ![p] = phase]

Arm(p) ==
  /\ proc[p] = "forked" /\ Becomes(p, "armed")
  /\ UNCHANGED <<files, chip, todo, counts, early>>

(* Mutant: the pid of the parent. *)
PidWrittenParent(p) == p - 1

PidWritten(p) == p

WritePidfile(p) ==
  /\ proc[p] = "armed" /\ Becomes(p, "written")
  /\ pidfile' = PidWritten(p)
  /\ UNCHANGED <<lock, chip, todo, counts, early>>

BlockSignals(p) ==
  /\ proc[p] = "written" /\ Becomes(p, "starting")
  /\ UNCHANGED <<files, chip, todo, counts, early>>

(* SPI, slot number, configuration, reset of the CPLD, which enables the   *)
(* switch chip, addresses, topology, sockets.                              *)
Initialise(p) ==
  /\ proc[p] = "starting" /\ Becomes(p, "loop")
  /\ chip' = TRUE
  /\ UNCHANGED <<files, todo, counts, early>>

(* chassis_initial_ip fails: exit(1), and atexit removes the pid file. *)
GiveUp(p) ==
  /\ IpMayFail
  /\ proc[p] = "starting" /\ Becomes(p, "dead")
  /\ pidfile' = 0 /\ chip' = TRUE
  /\ UNCHANGED <<lock, todo, counts, early>>

(* chassis_signal_exit disables the chip through a shell, and then removes *)
(* the pid file, whatever it holds.                                        *)
Disable(p) ==
  /\ proc[p] = "exiting" /\ Becomes(p, "unlinking")
  /\ chip' = FALSE
  /\ UNCHANGED <<files, todo, counts, early>>

Unlink(p) ==
  /\ proc[p] = "unlinking" /\ Becomes(p, "dead")
  /\ pidfile' = 0
  /\ UNCHANGED <<lock, chip, todo, counts, early>>

Crash(p) ==
  /\ p \in Alive /\ crashes < MaxCrashes
  /\ Becomes(p, "dead") /\ crashes' = crashes + 1
  /\ UNCHANGED <<files, chip, todo, commands, early>>

DaemonStep(p) ==
  \/ Arm(p) \/ WritePidfile(p) \/ BlockSignals(p) \/ Initialise(p) \/ GiveUp(p)
  \/ Disable(p) \/ Unlink(p)

Init ==
  /\ proc = [p \in Pid |-> "unborn"]
  /\ pidfile = 0 /\ lock = FALSE /\ chip = FALSE
  /\ todo = << >>
  /\ commands = 0 /\ crashes = 0
  /\ early = FALSE

Next == Command \/ ScriptStep \/ \E p \in Pid : DaemonStep(p) \/ Crash(p)

Spec == Init /\ [][Next]_vars

(* A script goes on, and so does a process, whose system() calls return.   *)
(* Nothing obliges an operator to give a command.                          *)
FairSpec == Spec /\ WF_vars(ScriptStep) /\ \A p \in Pid : WF_vars(DaemonStep(p))

-----------------------------------------------------------------------------
(* There are never two daemons none of which has been told to end.         *)
OneDaemon == \A p, q \in Pid : proc[p] \in Up /\ proc[q] \in Up => p = q

(* A service that is stopped, and would be started again, has no daemon,   *)
(* however early in its start the stop has met it.                         *)
UnlockedIsStopped ==
  todo = << >> /\ ~ lock => \A p \in Pid : proc[p] \notin Up

(* A daemon in its event loop has its switch chip enabled and is the one   *)
(* the pid file names: no daemon that was told to end earlier disables the *)
(* chip, or removes the file, under it.  The exception are daemons stopped *)
(* before they have written the file.                                      *)
ServesUndisturbed ==
  ~ early => \A p \in Pid : proc[p] = "loop" => chip /\ pidfile = p

(* Whatever a dead daemon has left behind, restart brings up a new one.    *)
Recovers ==
  (todo = StepsOf("restart") /\ Alive = {}) ~> (\E p \in Pid : proc[p] = "forked")

(* chassisd:59, "Starting chassis daemon": where no daemon crashes or      *)
(* gives up, a service that counts as started has a daemon.                *)
StartedIsServed ==
  todo = << >> /\ lock => \E p \in Pid : proc[p] \in Up
=============================================================================
