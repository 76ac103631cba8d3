---------------------------- MODULE MCContextPass ----------------------------
(***************************************************************************)
(* A small instance of ContextPass for TLC.                                *)
(***************************************************************************)
EXTENDS ContextPass
=============================================================================
