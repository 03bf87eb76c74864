---------------------------- MODULE MCDirectCall ----------------------------
(***************************************************************************)
(* A small instance of DirectCall: two accounts, ticks of fifteen seconds. *)
(***************************************************************************)
EXTENDS DirectCall
=============================================================================
