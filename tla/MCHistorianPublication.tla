------------------------ MODULE MCHistorianPublication ------------------------
(***************************************************************************)
(* Small instances of HistorianPublication for TLC.                        *)
(***************************************************************************)
EXTENDS HistorianPublication, TLC

CONSTANTS h1, h2, w1, w2

Historians   == {h1, h2}
OneHistorian == {h1}
OneWrapup    == {w1}
NoWrapups    == {}

\* Two processes are interchangeable (for the runs that check safety only).
Symmetry == Permutations(Hist)

NoEvents   == {}
Overflows  == {"overflow"}
UserEvents == {"switch", "drain", "no entry"}
RowEvents  == {"overflow", "model change"}
=============================================================================
