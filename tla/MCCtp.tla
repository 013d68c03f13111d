-------------------------------- MODULE MCCtp --------------------------------
(***************************************************************************)
(* The chassis the runs of CtpRound and CtpClaims begin with.              *)
(***************************************************************************)
EXTENDS CtpClaims

(* Every card is powered on at once. *)
AllPowered == {<<Slot, {}>>}

(* Two cards run, and a third, above or below them, may be plugged in; or  *)
(* two of each kind are powered on together.                               *)
PoweredOrPluggedIn ==
  {<<{1, 33}, {35}>>, <<{1, 33}, {37}>>, <<{3, 33}, {1}>>, <<{1, 33}, {3}>>,
   <<{1, 35}, {33}>>, <<{1, 3, 33, 35}, {}>>}

(* One of three cards, which may be the CPU B of a line card, is lost; or  *)
(* one of two, and it may return.                                          *)
Losing ==
  {<<{1, 3, 33}, {}>>, <<{1, 33, 35}, {}>>, <<{1, 2, 33}, {}>>, <<{1, 33}, {1, 33}>>}
=============================================================================
