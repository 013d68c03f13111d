------------------------------- MODULE CtpStall -------------------------------
(***************************************************************************)
(* CTP under an event loop that may stand still (epoll_loop.c).            *)
(*                                                                         *)
(* A daemon has one thread.  While a handler runs a command for the UDP    *)
(* server (system(), udp_server.c) its card neither ticks nor reads, and   *)
(* the others go on.  The loop then makes up for every tick it owes: each  *)
(* turn runs one overdue tick and looks at the sockets once, so that one   *)
(* waiting frame is read for each tick, all within the time of one tick of *)
(* the others.                                                             *)
(***************************************************************************)
EXTENDS CtpSettled

CONSTANTS
  MaxStall,      \* bound on the ticks for which a daemon stands still
  MaxStalls,     \* bound on the times one does
  Tolerance      \* the ticks for which one may, in a chassis that has settled

ASSUME StallAssumption ==
  MaxStall \in Nat /\ MaxStalls \in Nat /\ Tolerance \in Nat

VARIABLES
  behind,        \* the slot whose loop is behind its time, or 0
  doing,         \* what that loop does: "handler", "timeouts" or "sockets"
  owed,          \* the ticks by which it is behind
  stalls,        \* the stalls so far
  trusted        \* history: settled since the last change, and no daemon has
                 \* stood still for longer than Tolerance since then

loop == <<behind, doing, owed, stalls>>
stallVars == <<roundVars, loop, trusted>>

StallTypeOK ==
  /\ RoundTypeOK
  /\ behind \in SlotId /\ doing \in {"handler", "timeouts", "sockets"}
  /\ owed \in 0..MaxStall /\ stalls \in 0..MaxStalls
  /\ trusted \in BOOLEAN

(* The frames on their way to a loop that keeps its time have been read. *)
OthersIdle == \A s \in Slot \ {behind} : inbox[s] = << >>

-----------------------------------------------------------------------------
StallTick(s) ==
  /\ behind = 0 \/ (doing = "handler" /\ s # behind)
  /\ OthersIdle /\ DueTick(s) /\ Tick(s)
  /\ trusted' = (trusted \/ (behind = 0 /\ calm' = Settle))
  /\ UNCHANGED loop

StallReceive(s) == s # behind /\ RoundReceive(s) /\ UNCHANGED <<loop, trusted>>

StallChange(s) ==
  /\ behind = 0 /\ RoundChange(s)
  /\ trusted' = FALSE
  /\ UNCHANGED loop

(* A datagram makes the daemon run a command. *)
Stand(s) ==
  /\ behind = 0 /\ stalls < MaxStalls
  /\ Idle /\ s \in Ticking
  /\ behind' = s /\ doing' = "handler" /\ owed' = 0 /\ stalls' = stalls + 1
  /\ calm' = 0
  /\ UNCHANGED <<vars, joining, ticked, trusted>>

(* The time of a tick passes and system() has not returned. *)
Miss(s) ==
  /\ behind = s /\ doing = "handler" /\ owed < MaxStall
  /\ OthersIdle /\ DueTick(s)
  /\ owed' = owed + 1
  /\ trusted' = (trusted /\ owed' <= Tolerance)
  /\ UNCHANGED <<vars, behind, doing, stalls>>

Return(s) ==
  /\ behind = s /\ doing = "handler"
  /\ doing' = "timeouts"
  /\ UNCHANGED <<roundVars, behind, owed, stalls, trusted>>

(* epoll_loop_run_timeouts, and nexttimeout moves by one interval. *)
RunTimeouts(s) ==
  /\ behind = s /\ doing = "timeouts" /\ owed > 0
  /\ Tick(s)
  /\ owed' = owed - 1 /\ doing' = "sockets"
  /\ UNCHANGED <<joining, ticked, calm, behind, stalls, trusted>>

(* epoll_wait with a timeout of zero: at most one frame of the socket. *)
LookAtSockets(s) ==
  /\ behind = s /\ doing = "sockets"
  /\ Receive(s) \/ (inbox[s] = << >> /\ UNCHANGED vars)
  /\ doing' = "timeouts"
  /\ UNCHANGED <<joining, ticked, calm, behind, owed, stalls, trusted>>

(* No tick is overdue: what still waits is read as in any other round. *)
CaughtUp(s) ==
  /\ behind = s /\ doing = "timeouts" /\ owed = 0
  /\ behind' = 0 /\ calm' = 0
  /\ UNCHANGED <<vars, joining, ticked, doing, owed, stalls, trusted>>

StallInit ==
  /\ RoundInit
  /\ behind = 0 /\ doing = "timeouts" /\ owed = 0 /\ stalls = 0
  /\ trusted = FALSE

Going == \E s \in Slot :
  \/ StallTick(s) \/ StallReceive(s)
  \/ Miss(s) \/ Return(s) \/ RunTimeouts(s) \/ LookAtSockets(s) \/ CaughtUp(s)

StallNext == Going \/ \E s \in Slot : StallChange(s) \/ Stand(s)

(* A loop goes on, a handler returns.  Nothing obliges a card to change or *)
(* an operator to send a command.                                          *)
StallSpec == StallInit /\ [][StallNext]_stallVars /\ WF_stallVars(Going)

-----------------------------------------------------------------------------
(* A settled chassis does not notice a daemon that stands still for no     *)
(* longer than Tolerance: neither the silence, nor the burst of ticks that *)
(* follows it, unsettles one card.                                         *)
Undisturbed == trusted /\ Mixed => Steady
=============================================================================
