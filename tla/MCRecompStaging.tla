---------------------------- MODULE MCRecompStaging ----------------------------
(***************************************************************************)
(* Small instances of RecompStaging for TLC.                               *)
(***************************************************************************)
EXTENDS RecompStaging

CONSTANTS c1, c2

TwoCommands == {c1, c2}
OneCommand  == {c1}
=============================================================================
