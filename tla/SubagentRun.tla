------------------------------ MODULE SubagentRun ------------------------------
(***************************************************************************)
(* One call of PiSubagentRunner.run: a chain of child processes, each with *)
(* its timers, and the retries around them (subagent-runner.ts).           *)
(*                                                                         *)
(* A run of a child settles once; what a settled child still says or does  *)
(* reaches nobody, so only the current child is state.  The events of a    *)
(* child come in any order the operating system allows.                    *)
(***************************************************************************)
EXTENDS Naturals

CONSTANT MaxModels      \* length of the longest model chain of a call

VARIABLES call,         \* the call under way: which model, which form, which mode
          child,        \* the child process of the call
          formCache     \* PI_PROVIDER_FORM_CACHE for the provider of the first model

subagentVars == <<call, child, formCache>>

(* How the provider of a chain's first model is spelled: as configured,    *)
(* translated to Pi's own name, or canonical.                              *)
Form == {"plain", "translated", "canonical"}

(* "silent" is no_assistant without any protocol output, "conflict" and    *)
(* "credential" are non_zero_exit with the message the retries look for.   *)
Failure == {"timeout", "spawn_failed", "parse_failed", "model_failed", "truncated",
            "no_assistant", "silent", "conflict", "credential", "non_zero_exit"}

Result == Failure \cup {"none", "ok"}

(* What the last terminal assistant message of the child was.              *)
Final == {"none", "text", "empty", "error", "length"}

Call == [at       : {"idle", "spawn", "child", "done"},
         models   : 1..MaxModels,
         model    : 1..MaxModels,
         form     : Form,
         isolated : BOOLEAN,          \* discovered extensions are disabled, by the one retry
         spawns   : Nat,
         result   : Result]

Child == [spoke : BOOLEAN,            \* eventCount > 0
          broken : BOOLEAN,           \* parseError
          final : Final,              \* sawAgentEnd and its message
          drained : BOOLEAN]          \* the drain timer has sent SIGTERM

NewChild == [spoke |-> FALSE, broken |-> FALSE, final |-> "none", drained |-> FALSE]

NoCall == [at |-> "idle", models |-> 1, model |-> 1, form |-> "plain", isolated |-> FALSE,
           spawns |-> 0, result |-> "none"]

NewCall(models, form) ==
  [at |-> "spawn", models |-> models, model |-> 1, form |-> form, isolated |-> FALSE,
   spawns |-> 0, result |-> "none"]

SubagentTypeOK ==
  /\ call \in Call
  /\ child \in Child
  /\ formCache \in {"none", "translated", "canonical"}

SubagentInit ==
  /\ call = NoCall
  /\ child = NewChild
  /\ formCache = "none"

(* Mutant: the cache is read without asking whether it has an entry.       *)
FirstFormCached(ambiguous) == IF ambiguous THEN formCache ELSE "plain"

(* resolveProviderModelAttempt: an ambiguous provider is first tried in    *)
(* the form that is cached, or translated.                                 *)
FirstForm(ambiguous) ==
  CASE ~ambiguous          -> "plain"
    [] formCache = "none"  -> "translated"
    [] OTHER               -> formCache

CallStarts(models, ambiguous) ==
  /\ call.at = "idle"
  /\ call' = NewCall(models, FirstForm(ambiguous))
  /\ UNCHANGED <<child, formCache>>

-----------------------------------------------------------------------------
(* isIsolatedRetryTrigger, isFallbackEligible, isProviderCredentialFailure *)
TriggersIsolation(res) == res \in {"conflict", "silent"}

FallbackEligible(res) ==
  res \in {"model_failed", "truncated", "non_zero_exit", "conflict", "credential",
           "no_assistant", "silent"}

CredentialFailure(res) == call.form = "translated" /\ res = "credential"

(* Mutant: the canonical form starts a second independent retry tree.      *)
CanonicalForgetsRetry(c) ==
  [c EXCEPT !.at = "spawn", !.model = 1, !.form = "canonical", !.isolated = FALSE]

(* run: the canonical form, isolated from the start if the isolated retry  *)
(* has already run.  It has no second choice of its own.                   *)
CanonicalNext(c) == [c EXCEPT !.at = "spawn", !.model = 1, !.form = "canonical"]

(* runModelChain: the next model unless the extensions are at fault, the   *)
(* chain is at its end or the failure would repeat.                        *)
ChainGoesOn(res) ==
  /\ call.isolated \/ ~TriggersIsolation(res)
  /\ call.model < call.models
  /\ FallbackEligible(res)

(* What follows the result of one child, in runModelChain, then            *)
(* runWithExtensionRetry, then run.                                        *)
AfterResult(res) ==
  CASE res = "ok" -> [call EXCEPT !.at = "done", !.result = "ok"]
    [] res # "ok" /\ ChainGoesOn(res) -> [call EXCEPT !.at = "spawn", !.model = @ + 1]
    [] res # "ok" /\ ~ChainGoesOn(res) /\ ~call.isolated /\ TriggersIsolation(res) ->
         [call EXCEPT !.at = "spawn", !.model = 1, !.isolated = TRUE]
    [] res # "ok" /\ ~ChainGoesOn(res) /\ (call.isolated \/ ~TriggersIsolation(res))
         /\ CredentialFailure(res) -> CanonicalNext(call)
    [] OTHER -> [call EXCEPT !.at = "done", !.result = res]

(* The form of an ambiguous provider is cached when the call succeeds.     *)
CacheAfter(res) ==
  IF res = "ok" /\ call.form # "plain" THEN call.form ELSE formCache

(* settle: the run of the child is over, whoever decided it first.         *)
Settles(res) ==
  /\ call' = AfterResult(res)
  /\ formCache' = CacheAfter(res)
  /\ child' = NewChild

-----------------------------------------------------------------------------
(* runOnce up to its handlers.  A prompt file that cannot be written and a *)
(* throwing spawn settle at once.  No caller in this repository passes an  *)
(* abort signal, so its handlers never run.                                *)
Spawns ==
  /\ call.at = "spawn"
  /\ \/ Settles("spawn_failed")
     \/ /\ call' = [call EXCEPT !.at = "child", !.spawns = @ + 1]
        /\ child' = NewChild
        /\ UNCHANGED formCache

(* A protocol line that does not end the turn, or one cut short.           *)
ChildSpeaks ==
  /\ call.at = "child"
  /\ child.final = "none"
  /\ \/ child' = [child EXCEPT !.spoke = TRUE]
     \/ child' = [child EXCEPT !.broken = TRUE]
  /\ UNCHANGED <<call, formCache>>

(* A terminal assistant message or agent_end.  The last one counts, and a  *)
(* malformed line does not any more; the first one has replaced the hard   *)
(* timeout by the drain timer.                                             *)
ChildFinishes(f) ==
  /\ call.at = "child"
  /\ child' = [child EXCEPT !.spoke = TRUE, !.broken = FALSE, !.final = f]
  /\ UNCHANGED <<call, formCache>>

(* Mutant: only an answer starts the drain timer.                          *)
DrainAfterText ==
  /\ call.at = "child"
  /\ child.final = "text"
  /\ ~child.drained
  /\ child' = [child EXCEPT !.drained = TRUE]
  /\ UNCHANGED <<call, formCache>>

(* Two seconds after the first terminal message: SIGTERM, then SIGKILL.    *)
DrainTimer ==
  /\ call.at = "child"
  /\ child.final # "none"
  /\ ~child.drained
  /\ child' = [child EXCEPT !.drained = TRUE]
  /\ UNCHANGED <<call, formCache>>

(* timeoutMs without a terminal message: the child is killed and the run   *)
(* settles before it is gone.                                              *)
HardTimeout ==
  /\ call.at = "child"
  /\ child.final = "none"
  /\ Settles("timeout")

ChildErrors ==
  /\ call.at = "child"
  /\ Settles("spawn_failed")

(* The 'close' handler: a terminal message decides, whatever the exit was. *)
CloseResult(clean) ==
  CASE child.final = "text"                            -> {"ok"}
    [] child.final = "empty"                           -> {"no_assistant"}
    [] child.final = "error"                           -> {"model_failed"}
    [] child.final = "length"                          -> {"truncated"}
    [] child.final = "none" /\ child.broken            -> {"parse_failed"}
    [] child.final = "none" /\ ~child.broken /\ ~clean -> {"non_zero_exit", "conflict", "credential"}
    [] OTHER -> IF child.spoke THEN {"no_assistant"} ELSE {"silent"}

ChildCloses ==
  /\ call.at = "child"
  /\ \E clean \in BOOLEAN : \E res \in CloseResult(clean) : Settles(res)

(* A child that has been told to stop does.                                *)
KilledChildCloses == child.drained /\ ChildCloses

SubagentStep ==
  \/ Spawns
  \/ ChildSpeaks
  \/ \E f \in Final \ {"none"} : ChildFinishes(f)
  \/ DrainTimer
  \/ HardTimeout
  \/ ChildErrors
  \/ ChildCloses
=============================================================================
