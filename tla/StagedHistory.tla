----------------------------- MODULE StagedHistory -----------------------------
(***************************************************************************)
(* What rebuilding a session's history promises, whoever does it and       *)
(* however often it is interrupted.  There is a history, and there is a    *)
(* rebuilt one that grows beside it at its end, and only there: work that  *)
(* is staged is never rewritten or lost in part.  The rebuilt history      *)
(* takes the place of the old one whole and without a gap, or is thrown    *)
(* away whole.  Meanwhile the history itself only grows at its end, and    *)
(* messages are dropped from the prompt only as far as it reaches.         *)
(*                                                                         *)
(* A compartment is a record that has at least fields first and last.      *)
(***************************************************************************)
EXTENDS Naturals, Sequences

VARIABLES history,   \* the compartments of the session
          staged,    \* the compartments of the rebuilt history, so far
          dropped    \* drops are queued through this ordinal

vars == <<history, staged, dropped>>

End(cs) == IF cs = <<>> THEN 0 ELSE cs[Len(cs)].last

WithoutGap(cs) ==
  \A i \in 1 .. Len(cs) :
    /\ cs[i].first = (IF i = 1 THEN 0 ELSE cs[i - 1].last) + 1
    /\ cs[i].first <= cs[i].last

Continues(old, new) ==
  /\ Len(old) < Len(new)
  /\ \A i \in 1 .. Len(old) : new[i] = old[i]

Init == history = <<>> /\ staged = <<>> /\ dropped = 0

(* Rebuilt compartments are staged.                                        *)
Stage == Continues(staged, staged') /\ UNCHANGED <<history, dropped>>

Abandon == staged' = <<>> /\ UNCHANGED <<history, dropped>>

Replace ==
  /\ staged # <<>> /\ WithoutGap(staged)
  /\ history' = staged /\ staged' = <<>>
  /\ UNCHANGED dropped

(* A compartment is published, with its drops.                             *)
Extend ==
  /\ Continues(history, history') /\ Len(history') = Len(history) + 1
  /\ WithoutGap(history')
  /\ dropped' = IF dropped < End(history') THEN End(history') ELSE dropped
  /\ UNCHANGED staged

(* The drops of what has taken the place of the history follow later.      *)
Drop == dropped < dropped' /\ dropped' = End(history) /\ UNCHANGED <<history, staged>>

Next == Stage \/ Abandon \/ Replace \/ Extend \/ Drop

Spec == Init /\ [][Next]_vars
=============================================================================
