------------------------------- MODULE MCStall -------------------------------
(***************************************************************************)
(* The chassis the run of CtpStall begins with.                            *)
(***************************************************************************)
EXTENDS CtpStall

PluggedIn == {<<{33}, {1}>>}
=============================================================================
