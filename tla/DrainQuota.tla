------------------------------- MODULE DrainQuota -------------------------------
(***************************************************************************)
(* The columns of session_meta that throttle how much of the tail          *)
(* historian passes may take: tokens reserved in the current window, the   *)
(* emergency latch and the time of the last failure                        *)
(* (storage-meta-persisted.ts).                                            *)
(*                                                                         *)
(* A time stamp is reduced to what the code asks of it: whether the window *)
(* is over, whether the latch is older than its backstop, whether the      *)
(* failure is within its backoff.                                          *)
(***************************************************************************)
EXTENDS Integers

CONSTANTS Cap,          \* selectPerRunCap by usage
          Budget        \* protectedTailWindowBudget by usage

(* Usage of the context: below the latch's exit threshold, above it, from  *)
(* 80 percent, from 95 percent.                                            *)
Usage == {"safe", "calm", "high", "urgent"}

ASSUME QuotaAssumption ==
  /\ Cap \in [Usage -> Nat \ {0}]
  /\ Budget \in [Usage -> Nat]

Quota == [tokens  : Nat,
          over    : BOOLEAN,                      \* the window began too long ago
          latch   : {"off", "on", "old"},
          recent  : BOOLEAN]                      \* the last failure is within its backoff

NoQuota == [tokens |-> 0, over |-> TRUE, latch |-> "off", recent |-> FALSE]

AtMost(a, b) == IF a <= b THEN a ELSE b

InWindow(q) == IF q.over THEN 0 ELSE q.tokens

Room(q, u) == IF InWindow(q) < Budget[u] THEN Budget[u] - InWindow(q) ELSE 0

(* Mutant: the age of the latch is not looked at.                          *)
LatchWithoutBackstop(q, u) ==
  CASE u = "urgent" /\ q.latch = "off" -> "on"
    [] u = "safe"                      -> "off"
    [] OTHER                           -> q.latch

(* The latch enters at 95 percent; below, it exits under the threshold or  *)
(* when it is too old.                                                     *)
Latch(q, u) ==
  CASE u = "urgent" /\ q.latch = "off"                      -> "on"
    [] u # "urgent" /\ (u = "safe" \/ q.latch = "old")      -> "off"
    [] OTHER                                                -> q.latch

(* The latch lets a pass exceed the budget, unless the historian has just  *)
(* failed.                                                                 *)
Bypass(q, u) == Room(q, u) = 0 /\ Latch(q, u) # "off" /\ ~q.recent

(* reserveProtectedTailDrainTokens: what a pass that asks for n gets, 0    *)
(* for "quota exhausted".                                                  *)
Granted(q, u, n) ==
  CASE Bypass(q, u) -> AtMost(n, Cap[u])
    [] OTHER        -> AtMost(AtMost(n, Cap[u]), Room(q, u))

(* The row after it.  The window and the latch are settled even when       *)
(* nothing is granted; asking for nothing touches no row.                  *)
Reserved(q, u, n) ==
  IF n = 0 THEN q
  ELSE [q EXCEPT !.tokens = InWindow(q) + Granted(q, u, n), !.over = FALSE, !.latch = Latch(q, u)]

(* rollbackProtectedTailDrainReservation                                   *)
RolledBack(q, n) == [q EXCEPT !.tokens = IF n <= @ THEN @ - n ELSE 0]

(* clearEmergencyDrainLatch, recordHistorianDrainFailure,                  *)
(* clearHistorianDrainFailure                                              *)
LatchCleared(q)   == [q EXCEPT !.latch = "off"]
FailureNoted(q)   == [q EXCEPT !.recent = TRUE]
FailureCleared(q) == [q EXCEPT !.recent = FALSE]

(* Time: ten minutes, thirty minutes, one minute pass.                     *)
WindowOver(q) == [q EXCEPT !.over = TRUE]
LatchAged(q)  == [q EXCEPT !.latch = IF @ = "on" THEN "old" ELSE @]
BackoffOver(q) == [q EXCEPT !.recent = FALSE]
=============================================================================
