---------------------------- MODULE MCHistorianPass ----------------------------
(***************************************************************************)
(* A small instance of HistorianPass for TLC.                              *)
(***************************************************************************)
EXTENDS HistorianPass

SmallCap    == [u \in Usage |-> 1]
SmallBudget == [u \in Usage |-> IF u = "urgent" THEN 2 ELSE 1]
=============================================================================
