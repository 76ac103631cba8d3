------------------------------ MODULE HistorianPass ------------------------------
(***************************************************************************)
(* One historian run after another on a session, from the reservation of   *)
(* drain tokens to the finally block: retries of transient failures, the   *)
(* repair prompt, the fallback chain, the two-pass editor                  *)
(* (pi-historian-runner.ts).  Each attempt is a call of the subagent       *)
(* runner.  The lease keeps the runs of a session apart, so one pass is    *)
(* under way at a time; a crash ends it anywhere.                          *)
(***************************************************************************)
EXTENDS SubagentRun, DrainQuota

CONSTANTS MaxEligible,  \* most tokens a pass asks for
          MaxRetries,   \* MAX_HISTORIAN_RETRIES
          Fallbacks,    \* length of the fallback chain
          MaxTokens     \* bound on the tokens of a window

ASSUME PassAssumption ==
  /\ MaxEligible \in Nat /\ MaxRetries \in Nat /\ Fallbacks \in Nat
  /\ MaxTokens \in Nat
  /\ MaxModels \in Nat \ {0}

VARIABLES quota,        \* the columns of DrainQuota
          pass,         \* the run under way
          past          \* history: what the passes of the window have come to

passVars == <<quota, pass, past>>
vars == <<passVars, subagentVars>>

(* The attempts of a pass.  Fallback candidates are numbered.              *)
Stage == ({"none", "first", "repair", "editor"} \X {0}) \cup ({"fallback"} \X (1..Fallbacks))

None   == <<"none", 0>>
First  == <<"first", 0>>
Repair == <<"repair", 0>>
Editor == <<"editor", 0>>

Pass == [at       : {"idle", "blank", "reserved", "attempt", "backoff", "validated", "publish"},
         granted  : Nat,              \* drainReservation
         bypassed : BOOLEAN,
         retain   : BOOLEAN,          \* retainDrainReservationForRetryThrottle
         stage    : Stage,
         tries    : Nat,
         valid    : Stage,            \* the attempt whose output is to be published
         draft    : Stage]            \* validatedDraftText: the text the editor gets

NoPass == [at |-> "idle", granted |-> 0, bypassed |-> FALSE,
           retain |-> FALSE, stage |-> First, tries |-> 0,
           valid |-> None, draft |-> None]

PassTypeOK ==
  /\ SubagentTypeOK
  /\ quota \in Quota
  /\ pass \in Pass
  /\ past \in [spent : Nat, failing : BOOLEAN, urgent : BOOLEAN]

Init ==
  /\ SubagentInit
  /\ quota = NoQuota
  /\ pass = NoPass
  /\ past = [spent |-> 0, failing |-> FALSE, urgent |-> FALSE]
-----------------------------------------------------------------------------
(* Mutant: the reservation is given back after failed attempts too.        *)
FinallyGivesBack(p, q) == RolledBack(q, p.granted)

(* Mutant: the reservation is kept, the failure is not recorded.           *)
FinallyForgets(p, q) == IF p.retain THEN q ELSE RolledBack(q, p.granted)

(* The finally block.  A pass that did not complete gives its reservation  *)
(* back, or keeps it and records the failure when its attempts were used.  *)
FinallyQuota(p, q) == IF p.retain THEN FailureNoted(q) ELSE RolledBack(q, p.granted)

(* What a pass has taken within the budget is spent once it keeps it.      *)
Charged(p) == IF p.bypassed THEN past.spent ELSE past.spent + p.granted

EndsIncomplete ==
  /\ quota' = FinallyQuota(pass, quota)
  /\ past' = IF pass.retain THEN [past EXCEPT !.spent = Charged(pass), !.failing = TRUE] ELSE past
  /\ pass' = NoPass

(* A snapshot with an empty eligible head: nothing is reserved, the latch  *)
(* has done its job.                                                       *)
NoHead ==
  /\ pass.at = "idle"
  /\ quota' = LatchCleared(quota)
  /\ UNCHANGED <<pass, past, subagentVars>>

(* The reservation.  A wrapup's chunk takes none (forceDrainQuota), a head *)
(* without tokens asks for none and has no text; an exhausted quota ends   *)
(* the pass before any model is called.                                    *)
Begins(u, forced, n) ==
  LET asks == ~forced /\ n > 0
      got  == IF asks THEN Granted(quota, u, n) ELSE 0
  IN /\ pass.at = "idle"
     /\ InWindow(quota) + got <= MaxTokens
     /\ quota' = IF asks THEN Reserved(quota, u, n) ELSE quota
     /\ past' = [past EXCEPT !.spent = IF asks /\ quota.over THEN 0 ELSE @,
                           !.urgent = IF forced THEN @ ELSE u = "urgent"]
     /\ pass' = IF asks /\ got = 0 THEN pass
                ELSE [NoPass EXCEPT !.at = IF asks \/ forced THEN "reserved" ELSE "blank",
                                    !.granted = got, !.bypassed = asks /\ Bypass(quota, u)]
     /\ UNCHANGED subagentVars

(* The chunk is empty after filtering, or it does not cover its range.     *)
ChunkEmpty ==
  /\ pass.at \in {"reserved", "blank"}
  /\ quota' = RolledBack(LatchCleared(quota), pass.granted)
  /\ pass' = NoPass
  /\ UNCHANGED <<past, subagentVars>>

ChunkInvalid ==
  /\ pass.at = "reserved"
  /\ quota' = RolledBack(quota, pass.granted)
  /\ pass' = NoPass
  /\ UNCHANGED <<past, subagentVars>>

(* A chunk with text: from here on a failure keeps the reservation.        *)
ChunkRead ==
  /\ pass.at = "reserved"
  /\ \E ambiguous \in BOOLEAN : CallStarts(1, ambiguous)
  /\ pass' = [pass EXCEPT !.at = "attempt", !.retain = TRUE]
  /\ past' = [past EXCEPT !.urgent = FALSE]
  /\ UNCHANGED quota
-----------------------------------------------------------------------------
(* runHistorianSubagentWithTransientRetries on the result of its call.  A  *)
(* timeout is transient, any other failure is if its message says so.      *)
CallFailed == pass.at = "attempt" /\ call.at = "done" /\ call.result # "ok"

TransientFailure ==
  /\ CallFailed
  /\ pass.tries < MaxRetries
  /\ pass' = [pass EXCEPT !.at = "backoff", !.tries = @ + 1]
  /\ call' = NoCall
  /\ UNCHANGED <<quota, past, child, formCache>>

(* The backoff before the same model is tried again ends.                  *)
BackoffEnds ==
  /\ pass.at = "backoff"
  /\ \E ambiguous \in BOOLEAN : CallStarts(1, ambiguous)
  /\ pass' = [pass EXCEPT !.at = "attempt"]
  /\ UNCHANGED <<quota, past>>

(* The next attempt of the pass: a call with other words or another model. *)
Attempts(s) ==
  /\ pass' = [pass EXCEPT !.at = "attempt", !.stage = s, !.tries = 0]
  /\ \E ambiguous \in BOOLEAN : call' = NewCall(1, FirstForm(ambiguous))
  /\ UNCHANGED <<quota, past, child, formCache>>

(* The attempt after stage s when s gave no valid output.  Only text that  *)
(* does not validate is worth a repair.                                    *)
NextStage(s, invalid) ==
  CASE s = First /\ invalid -> Repair
    [] s \in {First, Repair} /\ ~(s = First /\ invalid) /\ Fallbacks > 0 -> <<"fallback", 1>>
    [] s[1] = "fallback" /\ s[2] < Fallbacks -> <<"fallback", s[2] + 1>>
    [] OTHER -> None

(* The stage is over without output: the draft stands when it was the      *)
(* editor's, else the next attempt is made, else the pass has failed.      *)
StageFails(next) ==
  \/ /\ pass.stage = Editor
     /\ pass' = [pass EXCEPT !.at = "publish"]
     /\ call' = NoCall
     /\ UNCHANGED <<quota, past, child, formCache>>
  \/ /\ pass.stage # Editor
     /\ next # None
     /\ Attempts(next)
  \/ /\ pass.stage # Editor
     /\ next = None
     /\ EndsIncomplete
     /\ call' = NoCall
     /\ UNCHANGED <<child, formCache>>

AttemptFails ==
  /\ CallFailed
  /\ call.result = "timeout" => pass.tries = MaxRetries
  /\ StageFails(NextStage(pass.stage, FALSE))

OutputInvalid ==
  /\ pass.at = "attempt"
  /\ call.result = "ok"
  /\ StageFails(NextStage(pass.stage, TRUE))

(* Mutant: the editor is given the first attempt's text.                   *)
DraftOfFirst(p) == IF p.stage = First THEN p.stage ELSE p.draft

(* validatedDraftText: the text of the attempt that validated.             *)
DraftOf(p) == p.stage

(* Text that validates: the attempts are over, the reservation is no       *)
(* longer held against failure.                                            *)
OutputValid ==
  /\ pass.at = "attempt"
  /\ call.result = "ok"
  /\ call' = NoCall
  /\ pass' = IF pass.stage = Editor
             THEN [pass EXCEPT !.at = "publish", !.valid = Editor]
             ELSE [pass EXCEPT !.at = "validated", !.valid = pass.stage, !.draft = DraftOf(pass),
                               !.retain = FALSE]
  /\ UNCHANGED <<quota, past, child, formCache>>

(* The editor pass if two_pass is configured and the draft is not blank,   *)
(* else straight to the publication.                                       *)
Edits ==
  /\ pass.at = "validated"
  /\ Attempts(Editor)

SkipsEditor ==
  /\ pass.at = "validated"
  /\ pass' = [pass EXCEPT !.at = "publish"]
  /\ UNCHANGED <<quota, past, subagentVars>>

(* The recheck fails, no compartment advances, or the transaction throws:  *)
(* the reservation goes back, without a record of failure.                 *)
PublishSkipped ==
  /\ pass.at = "publish"
  /\ EndsIncomplete
  /\ UNCHANGED subagentVars

Publishes ==
  /\ pass.at = "publish"
  /\ quota' = FailureCleared(quota)
  /\ past' = [past EXCEPT !.spent = Charged(pass), !.failing = FALSE]
  /\ pass' = NoPass
  /\ UNCHANGED subagentVars
-----------------------------------------------------------------------------
(* The process of the pass is gone, and its caches with it.                *)
Crashes ==
  /\ pass' = NoPass
  /\ call' = NoCall
  /\ child' = NewChild
  /\ formCache' = "none"
  /\ UNCHANGED <<quota, past>>

(* Time.  A pass looks at the window and the backoff only when it begins.  *)
WindowPasses ==
  /\ pass.at = "idle"
  /\ quota' = WindowOver(quota)
  /\ UNCHANGED <<pass, past, subagentVars>>

LatchAges ==
  /\ quota.latch = "on"
  /\ quota' = LatchAged(quota)
  /\ UNCHANGED <<pass, past, subagentVars>>

BackoffPasses ==
  /\ pass.at = "idle"
  /\ quota' = BackoffOver(quota)
  /\ past' = [past EXCEPT !.failing = FALSE]
  /\ UNCHANGED <<pass, subagentVars>>

Subagent ==
  /\ SubagentStep
  /\ UNCHANGED passVars

(* What the pass does itself between its calls.                            *)
PassStep ==
  \/ ChunkEmpty \/ ChunkInvalid \/ ChunkRead
  \/ TransientFailure \/ BackoffEnds \/ AttemptFails
  \/ OutputInvalid \/ OutputValid \/ Edits \/ SkipsEditor
  \/ PublishSkipped \/ Publishes

Triggers == NoHead \/ \E u \in Usage, n \in 0..MaxEligible : Begins(u, FALSE, n)

Next ==
  \/ Triggers \/ Begins("safe", TRUE, 0)
  \/ PassStep \/ Subagent
  \/ Crashes
  \/ WindowPasses \/ LatchAges \/ BackoffPasses

Spec == Init /\ [][Next]_vars

(* The timers of the runner fire, a killed child is gone, the pass goes on *)
(* by itself, and a session in use has passes with something to compact.   *)
FairSpec ==
  /\ Spec
  /\ WF_vars(PassStep)
  /\ WF_vars(Spawns /\ UNCHANGED passVars)
  /\ WF_vars(HardTimeout /\ UNCHANGED passVars)
  /\ WF_vars(DrainTimer /\ UNCHANGED passVars)
  /\ WF_vars(KilledChildCloses /\ UNCHANGED passVars)
  /\ SF_vars(\E u \in Usage, n \in 1..MaxEligible : Begins(u, FALSE, n))
  /\ SF_vars(WindowPasses)
  /\ WF_vars(LatchAges)
-----------------------------------------------------------------------------
(* However the extension retry, the model chain and the second provider    *)
(* form follow each other, a call starts at most three children for each   *)
(* model of its chain.                                                     *)
RetryTreeBounded == call.spawns <= 3 * call.models

(* The editor refines the text of the attempt that validated, whichever    *)
(* attempt that was, and its failure leaves that attempt's output.         *)
EditorRefinesValidated == pass.stage = Editor => pass.valid \in {pass.draft, Editor}

(* What passes of a window have drained or lost to failure, and what this  *)
(* one reserves, stay within the window's budget, unless the latch lets    *)
(* it pass: no rollback gives back what was spent.                         *)
QuotaIsKept ==
  [][\A u \in Usage, n \in 1..MaxEligible :
       Begins(u, FALSE, n) /\ pass'.granted > 0 /\ ~pass'.bypassed
         => past'.spent + pass'.granted <= Budget[u]]_vars

(* Under the latch a pass that has failed is not repeated before its       *)
(* backoff has passed: "a broken historian can't retry-thrash".            *)
FailureBacksOff == [][pass'.bypassed /\ ~pass.bypassed => ~past.failing]_vars

(* Every pass ends, whatever its children do.                              *)
PassEnds == pass.at # "idle" ~> pass.at = "idle"

(* The emergency latch does not outlive the emergency.                     *)
LatchEnds == []<>(quota.latch = "off") \/ []<>past.urgent
=============================================================================
