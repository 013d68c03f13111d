------------------------------- MODULE MasterFc -------------------------------
(***************************************************************************)
(* The local master FCs (chassis_check_master_fc, chassis.c): of each      *)
(* group of four fabric slots, one daemon is to watch the temperatures.    *)
(* No vote is taken: every FC decides from its own table of cards heard    *)
(* of, at each of its ticks.                                               *)
(***************************************************************************)
EXTENDS Integers

Group(f) == (f - 33) \div 4               \* index into local_Master

(* Mutant: the table index is taken for the slot.                          *)
LocalMasterByIndex(members, root) ==
  [g \in 0..3 |->
     LET group == {m \in members : Group(m) = g}
     IN IF group = {} THEN 0 ELSE (CHOOSE m \in group : \A n \in group : m <= n) - 1]

(* In each group the root FC, or the lowest FC with an age in this card's  *)
(* CTP table.                                                              *)
LocalMaster(members, root) ==
  [g \in 0..3 |->
     LET group == {m \in members : Group(m) = g}
     IN CASE group = {}      -> 0
          [] root \in group  -> root
          [] OTHER           -> CHOOSE m \in group : \A n \in group : m <= n]
=============================================================================
