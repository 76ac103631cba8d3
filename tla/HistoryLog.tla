------------------------------ MODULE HistoryLog ------------------------------
(***************************************************************************)
(* What the compacted history of a session promises, whoever writes it:    *)
(* a log of compartments that covers the messages 1..n without a gap or an *)
(* overlap and only ever grows at its end, and whose two followers (the    *)
(* queue of messages to drop from the prompt, and the protected-tail       *)
(* floor) move in the same step as the log, so that no crash leaves one    *)
(* ahead of the other.                                                     *)
(***************************************************************************)
EXTENDS Naturals, Sequences

CONSTANT MaxMessage   \* ordinals are 1..MaxMessage

VARIABLES log,        \* sequence of [first, last] ordinal ranges
          dropped,    \* drops are queued through this ordinal
          floor       \* the protected tail never starts before this ordinal

vars == <<log, dropped, floor>>

End(l) == IF l = <<>> THEN 0 ELSE l[Len(l)].last

(* Consecutive ranges that start right after the ordinal e.                *)
ContiguousFrom(l, e) ==
  \A i \in 1 .. Len(l) :
    /\ l[i].first = (IF i = 1 THEN e ELSE l[i - 1].last) + 1
    /\ l[i].first <= l[i].last

Init == log = <<>> /\ dropped = 0 /\ floor = 1

(* One or two ranges are published at a time.                              *)
Publish(new) ==
  /\ ContiguousFrom(new, End(log))
  /\ log' = log \o new
  /\ dropped' = End(log')
  /\ floor' = End(log') + 1

Span(a, b) == [first |-> a, last |-> b]

Next ==
  /\ dropped < dropped'
  /\ \E e \in End(log) + 1 .. MaxMessage :
       \/ Publish(<<Span(End(log) + 1, e)>>)
       \/ \E f \in e + 1 .. MaxMessage : Publish(<<Span(End(log) + 1, e), Span(e + 1, f)>>)

Spec == Init /\ [][Next]_vars
=============================================================================
